------------------------------ MODULE Delivery ------------------------------
(***************************************************************************)
(* From orders:paid to delivered orders: ChooseProvider, the pollers of    *)
(* the provider queues with GetCodeForOrder, the issue service with its    *)
(* retries and its fallback address, the services that hand out codes,     *)
(* CancelOrder, the recovery request, and crashes of the shop's process.   *)
(*                                                                         *)
(* A database transaction of either side is one action; a handler is split *)
(* at every HTTP call and between its transactions.                        *)
(***************************************************************************)
EXTENDS Store

CONSTANTS
  Queues,         \* provider queues, each with one poller
  QueueOf,        \* queueProviders of the product's type
  Addrs, NoAddr,  \* addresses of code services; no fallback configured
  MainAddr,       \* per queue
  FallbackAddr,   \* per queue
  Stores,         \* databases of the code services
  StoreOf,        \* per address: processes may share a database file
  DuplicateCode,  \* per address: APP_TEST_DUPLICATE_CODE, or NoCode
  MaxTries,       \* attempts of one request (BackoffMaxTries, 5 in the code)
  MaxIssues       \* bound: issue rows of one order

ASSUME DeliveryAssumption ==
  /\ IsFiniteSet(Queues) /\ QueueOf \in [Products -> Queues]
  /\ NoAddr \notin Addrs
  /\ MainAddr \in [Queues -> Addrs]
  /\ FallbackAddr \in [Queues -> Addrs \cup {NoAddr}]
  /\ StoreOf \in [Addrs -> Stores]
  /\ DuplicateCode \in [Addrs -> Codes \cup {NoCode}]
  /\ MaxTries \in Nat \ {0} /\ MaxIssues \in Nat

(* A request to a code service is named by its issue row: the n-th of its  *)
(* order.                                                                  *)
RequestID == OrderID \X (1..MaxIssues)

(* status stands for the columns status and err_reason; an empty column is *)
(* "none".                                                                 *)
Issue == [addr : Addrs,
          status : {"none", "ok", "out_of_stock"},
          code : Codes \cup {NoCode},
          requestStatus : {"none", "ok", "timeout", "unavailable"},
          responseCode : {0, 200, 409, 500}]

Answer == [responseCode : {200, 409, 500}, code : Codes \cup {NoCode}]
Failure == [requestStatus : {"timeout", "unavailable"},
            responseCode : {0, 200, 409, 500}]

VARIABLES
  issueQueue,  \* get-issue:any, get-issue:giftcard
  issues,      \* rows of an order, in the order of their ids
  worker,      \* the goroutine of each queue
  pool,        \* code services: codes not handed out
  grants,      \* code services: requests seen, with the code they were given
  inflight     \* code services: requests whose client has given up on them

deliveryVars == <<issueQueue, issues, worker>>
providerVars == <<pool, grants, inflight>>
vars == <<storeVars, deliveryVars, providerVars>>

Idle == [stage |-> "idle"]
Worker ==
  {Idle}
    \cup [stage : {"find"}, order : OrderID]
    \cup [stage : {"call"}, id : RequestID, addr : Addrs, hop : {1, 2},
          tries : 0..(MaxTries - 1)]
    \cup [stage : {"save"}, id : RequestID, hop : {1, 2}, answer : Answer]
    \cup [stage : {"fail"}, id : RequestID, hop : {1, 2}, failure : Failure]
    \cup [stage : {"switch", "finish"}, id : RequestID]

TypeOK ==
  /\ StoreTypeOK
  /\ issueQueue \in [Queues -> Seq(OrderEvent)]
  /\ issues \in [OrderID -> Seq(Issue)]
  /\ worker \in [Queues -> Worker]
  /\ pool \in [Stores -> SUBSET Codes]
  /\ grants \in [Stores -> SUBSET [req : RequestID, code : Codes \cup {NoCode}]]
  /\ inflight \subseteq [addr : Addrs, req : RequestID,
                         how : {"timeout", "unavailable"}]

Init ==
  /\ StoreInit
  /\ issueQueue = [q \in Queues |-> <<>>]
  /\ issues = [o \in OrderID |-> <<>>]
  /\ worker = [q \in Queues |-> Idle]
  /\ pool = [d \in Stores |-> {}]
  /\ grants = [d \in Stores |-> {}]
  /\ inflight = {}

-----------------------------------------------------------------------------
(* Environment: the payment side, PaymentFlow in full.                      *)

GroupPaid(g, u, ps) ==
  /\ payStatus[g] = "absent"
  /\ ps # {}
  /\ orderStatus' = [o \in OrderID |-> IF o[1] = g /\ o[2] \in ps
                                       THEN "paid" ELSE orderStatus[o]]
  /\ payStatus' = [payStatus EXCEPT ![g] = "paid"]
  /\ \E e \in EventID : e[1] = g /\ payEvent' = [payEvent EXCEPT ![g] = e]
  /\ deposits' = CreateOrIgnore(deposits, g)
  /\ owner' = [owner EXCEPT ![g] = u]
  /\ UNCHANGED <<orderCode, charges, refunds, initQueue, paidQueue,
                 recovering, faults, deliveryVars, providerVars>>

(* UpdatePayment publishes an order it has read paid, once for every       *)
(* webhook of its payment; the order may have moved on since.              *)
Announce(o) ==
  /\ payStatus[o[1]] = "paid" /\ orderStatus[o] # "absent"
  /\ HasRoom(paidQueue)
  /\ paidQueue' = Append(paidQueue, [order |-> o, status |-> "paid"])
  /\ UNCHANGED <<rows, initQueue, recovering, faults, deliveryVars, providerVars>>

(* The recovery request sees the orders still to be paid as well: it lists *)
(* them as created, and they take their share of its LIMIT.                *)
Unseen == {o \in OrderID : orderStatus[o] = "absent"}
ListedRow(o) ==
  [order |-> o, status |-> IF o \in Unseen THEN "created" ELSE orderStatus[o]]

ListForRecovery(h) ==
  /\ recovering[h] = <<>>
  /\ \E S \in SUBSET (Recoverable \cup Unseen) :
       /\ S # {} /\ Cardinality(S) <= RecoveryLimit
       /\ Recoverable \subseteq S \/ Cardinality(S) = RecoveryLimit
       /\ \E listed \in SetToSeqs({ListedRow(o) : o \in S}) :
            recovering' = [recovering EXCEPT ![h] = listed]
  /\ UNCHANGED <<rows, initQueue, paidQueue, faults>>

(* A failure on the payment side, of those that faults counts.              *)
PaymentSideFails ==
  /\ InjectFault
  /\ UNCHANGED <<rows, initQueue, paidQueue, recovering, deliveryVars, providerVars>>

-----------------------------------------------------------------------------
(* ChooseProvider, in the goroutine that polls orders:paid.                 *)

ChooseProvider ==
  /\ paidQueue # <<>>
  /\ LET q == QueueOf[Head(paidQueue).order[2]]
     IN  /\ HasRoom(issueQueue[q])
         /\ issueQueue' = [issueQueue EXCEPT ![q] = Append(@, Head(paidQueue))]
  /\ paidQueue' = Tail(paidQueue)
  /\ UNCHANGED <<rows, initQueue, recovering, faults, issues, worker, providerVars>>

ChooseProviderFails ==
  /\ paidQueue # <<>>
  /\ InjectFault
  /\ paidQueue' = Tail(paidQueue)
  /\ UNCHANGED <<rows, initQueue, recovering, deliveryVars, providerVars>>

-----------------------------------------------------------------------------
(* GetCodeForOrder and the issue service, in the goroutine of queue q.      *)

ValidStatus == {"paid", "delivering", "delivery_failed", "out_of_stock"}

Stage(q, s) == worker[q].stage = s
Goto(q, w) == worker' = [worker EXCEPT ![q] = w]
Row(r) == issues[r[1]][r[2]]
SaveRow(r, row) == issues' = [issues EXCEPT ![r[1]][r[2]] = row]

(* The order is moved to delivering from the status in the event; that no  *)
(* row may have had it is not looked at.                                   *)
StartDelivering(e) == UpdateStatus(orderStatus, e.order, e.status, "delivering")

Take(q) ==
  /\ Stage(q, "idle")
  /\ issueQueue[q] # <<>>
  /\ LET e == Head(issueQueue[q])
     IN  IF e.status \in ValidStatus
         THEN /\ orderStatus' = StartDelivering(e)
              /\ Goto(q, [stage |-> "find", order |-> e.order])
         ELSE UNCHANGED <<orderStatus, worker>>
  /\ issueQueue' = [issueQueue EXCEPT ![q] = Tail(@)]
  /\ UNCHANGED <<orderCode, owner, payStatus, payEvent, deposits, charges,
                 refunds, initQueue, paidQueue, recovering, faults, issues,
                 providerVars>>

(* Mistakes: a row whose error was recorded, or whose answer brought no    *)
(* code, is taken for complete, or for incomplete.                         *)
Untried(row) == row.responseCode = 0 /\ row.requestStatus = "none"
Codeless(row) == row.code = NoCode

(* GetFirstIncomplete: a row with no response yet.                          *)
Incomplete(row) == row.responseCode = 0
FirstIncomplete(o) ==
  {i \in DOMAIN issues[o] :
     /\ Incomplete(issues[o][i])
     /\ \A j \in 1..(i - 1) : ~Incomplete(issues[o][j])}

NewIssue(q) ==
  [addr |-> MainAddr[q], status |-> "none", code |-> NoCode,
   requestStatus |-> "none", responseCode |-> 0]

Call(r, a, hop) ==
  [stage |-> "call", id |-> r, addr |-> a, hop |-> hop, tries |-> 0]

FindIssue(q) ==
  /\ Stage(q, "find")
  /\ LET o == worker[q].order
     IN  \/ \E i \in FirstIncomplete(o) :
              Goto(q, Call(<<o, i>>, issues[o][i].addr, 1)) /\ UNCHANGED issues
         \/ /\ FirstIncomplete(o) = {}
            /\ Len(issues[o]) < MaxIssues
            /\ issues' = [issues EXCEPT ![o] = Append(@, NewIssue(q))]
            /\ Goto(q, Call(<<o, Len(issues[o]) + 1>>, MainAddr[q], 1))
  /\ UNCHANGED <<storeVars, issueQueue, providerVars>>

-----------------------------------------------------------------------------
(* A code service.  One request is one transaction: a request it has seen  *)
(* gets the same code again, a new one a free code or, for good, none.     *)

Ok(c) == [responseCode |-> 200, code |-> c]
OutOfStock == [responseCode |-> 409, code |-> NoCode]
ServerError == [responseCode |-> 500, code |-> NoCode]

Grant(d, r, c) == grants' = [grants EXCEPT ![d] = @ \cup {[req |-> r, code |-> c]}]

Repeated(x) == IF x.code = NoCode THEN ServerError ELSE Ok(x.code)

HandleNewRequest(d, r, ans) ==
  \/ /\ pool[d] = {}
     /\ ans = OutOfStock
     /\ Grant(d, r, NoCode)
     /\ UNCHANGED pool
  \/ \E c \in pool[d] :
       /\ ans = Ok(c)
       /\ Grant(d, r, c)
       /\ pool' = [pool EXCEPT ![d] = @ \ {c}]

HandleIssue(a, r, ans) ==
  LET d == StoreOf[a]
      known == {x \in grants[d] : x.req = r}
  IN  \/ /\ DuplicateCode[a] # NoCode
         /\ ans = Ok(DuplicateCode[a])
         /\ UNCHANGED <<pool, grants>>
      \/ /\ DuplicateCode[a] = NoCode
         /\ \E x \in known : ans = Repeated(x)
         /\ UNCHANGED <<pool, grants>>
      \/ /\ DuplicateCode[a] = NoCode
         /\ known = {}
         /\ HandleNewRequest(d, r, ans)

(* Errors of the service's database that it does not answer with 500.      *)
NewRequest(a, r) ==
  DuplicateCode[a] = NoCode /\ \A x \in grants[StoreOf[a]] : x.req # r

(* The number of codes an update has changed is asked for before its error: *)
(* if it fails the pool is taken for empty, and the request has its row.   *)
TakenForEmpty(a, r) ==
  /\ NewRequest(a, r)
  /\ Grant(StoreOf[a], r, NoCode)
  /\ UNCHANGED pool

(* The answer is written before the transaction commits: if that fails,    *)
(* nothing is granted, and an error follows the answer in the same body.   *)
RolledBack(a, r, ans) ==
  /\ NewRequest(a, r)
  /\ \/ pool[StoreOf[a]] = {} /\ ans = OutOfStock
     \/ \E c \in pool[StoreOf[a]] : ans = Ok(c)
  /\ UNCHANGED <<pool, grants>>

(* A request its client no longer waits for is handled all the same.        *)
LateIssue(x) ==
  /\ x \in inflight
  /\ inflight' = inflight \ {x}
  /\ \/ \E ans \in Answer : HandleIssue(x.addr, x.req, ans) /\ UNCHANGED faults
     \/ TakenForEmpty(x.addr, x.req) /\ InjectFault
  /\ UNCHANGED <<rows, initQueue, paidQueue, recovering, deliveryVars>>

(* POST /generate/codes: the codes are new to the service.                  *)
GenerateCodes(d, cs) ==
  /\ cs # {}
  /\ \A e \in Stores : cs \cap (pool[e] \cup {x.code : x \in grants[e]}) = {}
  /\ \A a \in Addrs : DuplicateCode[a] \notin cs
  /\ pool' = [pool EXCEPT ![d] = @ \cup cs]
  /\ UNCHANGED <<storeVars, deliveryVars, grants, inflight>>

-----------------------------------------------------------------------------
(* postIssue: one attempt is one action; the error of the last attempt is  *)
(* the error of the request, whatever came of the others.                  *)

(* Mistake: one attempt too many.                                           *)
FailLater(q, failure) ==
  LET w == worker[q]
  IN  Goto(q, IF w.tries + 1 <= MaxTries
              THEN [w EXCEPT !.tries = @ + 1]
              ELSE [stage |-> "fail", id |-> w.id, hop |-> w.hop,
                    failure |-> failure])

Fail(q, failure) ==
  LET w == worker[q]
  IN  Goto(q, IF w.tries + 1 < MaxTries
              THEN [w EXCEPT !.tries = @ + 1]
              ELSE [stage |-> "fail", id |-> w.id, hop |-> w.hop,
                    failure |-> failure])

(* isServerUnavailableErr: a timeout, and any error but one of the         *)
(* connection, is saved as timeout.                                        *)
Failed(s, code) == [requestStatus |-> s, responseCode |-> code]

Answered(q) ==
  /\ Stage(q, "call")
  /\ LET w == worker[q]
     IN  \E ans \in Answer :
           /\ HandleIssue(w.addr, w.id, ans)
           /\ IF ans.responseCode = 500
              THEN Fail(q, Failed("timeout", 500))
              ELSE Goto(q, [stage |-> "save", id |-> w.id, hop |-> w.hop,
                            answer |-> ans])
  /\ UNCHANGED <<storeVars, issueQueue, issues, inflight>>

(* The service answers 500 without having looked at the request.            *)
TestError(q) ==
  /\ Stage(q, "call")
  /\ InjectFault
  /\ Fail(q, Failed("timeout", 500))
  /\ UNCHANGED <<rows, initQueue, paidQueue, recovering, issueQueue, issues,
                 providerVars>>

(* No response: the client's timeout expires, or the connection breaks     *)
(* before or after the service has got the request.                        *)
NoResponse(q, how) ==
  /\ Stage(q, "call")
  /\ InjectFault
  /\ Fail(q, Failed(how, 0))
  /\ LET r == [addr |-> worker[q].addr, req |-> worker[q].id, how |-> how]
     IN  \/ inflight' = inflight \cup {r}
         \/ how = "unavailable" /\ UNCHANGED inflight
  /\ UNCHANGED <<rows, initQueue, paidQueue, recovering, issueQueue, issues,
                 pool, grants>>

(* A request answered out_of_stock with codes left.                         *)
WronglyEmpty(q) ==
  /\ Stage(q, "call")
  /\ InjectFault
  /\ LET w == worker[q]
     IN  /\ TakenForEmpty(w.addr, w.id)
         /\ Goto(q, [stage |-> "save", id |-> w.id, hop |-> w.hop,
                     answer |-> OutOfStock])
  /\ UNCHANGED <<rows, initQueue, paidQueue, recovering, issueQueue, issues, inflight>>

(* The status line arrives, and the body does not or cannot be read: no    *)
(* retry.                                                                  *)
BodyLost(q) ==
  /\ Stage(q, "call")
  /\ InjectFault
  /\ LET w == worker[q]
     IN  \E ans \in Answer :
           /\ HandleIssue(w.addr, w.id, ans) \/ RolledBack(w.addr, w.id, ans)
           /\ ans.responseCode # 500
           /\ Goto(q, [stage |-> "fail", id |-> w.id, hop |-> w.hop,
                       failure |-> Failed("timeout", ans.responseCode)])
  /\ UNCHANGED <<rows, initQueue, paidQueue, recovering, issueQueue, issues, inflight>>

-----------------------------------------------------------------------------
(* What the issue service makes of the outcome.                             *)

CanRetryWithFallback(row) ==
  /\ row.code = NoCode
  /\ row.requestStatus = "unavailable" \/ row.responseCode >= 500

AfterRequest(q, r, hop, row) ==
  Goto(q, [stage |-> IF /\ hop = 1
                        /\ CanRetryWithFallback(row)
                        /\ FallbackAddr[q] # NoAddr
                     THEN "switch" ELSE "finish",
           id |-> r])

SavedAnswer(row, ans) ==
  [row EXCEPT !.status = IF ans.responseCode = 200 THEN "ok" ELSE "out_of_stock",
              !.code = ans.code,
              !.requestStatus = "ok",
              !.responseCode = ans.responseCode]

(* Only the first error of a row is written; a zero response code is not.   *)
SavedFailure(row, failure) ==
  IF row.requestStatus = "none"
  THEN [row EXCEPT !.requestStatus = failure.requestStatus,
                   !.responseCode = failure.responseCode]
  ELSE row

SaveIssueResponse(q) ==
  /\ Stage(q, "save")
  /\ LET w == worker[q]
         row == SavedAnswer(Row(w.id), w.answer)
     IN  SaveRow(w.id, row) /\ AfterRequest(q, w.id, w.hop, row)
  /\ UNCHANGED <<storeVars, issueQueue, providerVars>>

SaveIssueError(q) ==
  /\ Stage(q, "fail")
  /\ LET w == worker[q]
         row == SavedFailure(Row(w.id), w.failure)
     IN  SaveRow(w.id, row) /\ AfterRequest(q, w.id, w.hop, row)
  /\ UNCHANGED <<storeVars, issueQueue, providerVars>>

OtherAddr(q, a) == IF a = FallbackAddr[q] THEN MainAddr[q] ELSE FallbackAddr[q]

NotMoved(row, a) == row  \* mistake: the new address is used and not saved
MovedTo(row, a) == [row EXCEPT !.addr = a]

SwitchAddr(q) ==
  /\ Stage(q, "switch")
  /\ LET r == worker[q].id
         a == OtherAddr(q, Row(r).addr)
     IN  /\ SaveRow(r, MovedTo(Row(r), a))
         /\ Goto(q, Call(r, a, 2))
  /\ UNCHANGED <<storeVars, issueQueue, providerVars>>

-----------------------------------------------------------------------------
(* The transaction at the end of GetCodeForOrder.                           *)

ExistsByCode(c) == \E o \in OrderID : orderCode[o] = c

(* Mistake: the HTTP status is taken for the answer.                        *)
StatusFromResponse(row) ==
  CASE row.responseCode = 200 -> "delivered"
    [] row.responseCode = 409 -> "out_of_stock"
    [] OTHER -> "delivery_failed"

(* Mistake: any failure is called a failed payment.                         *)
StatusOfFailure(row) ==
  CASE row.status = "ok" -> "delivered"
    [] row.status = "out_of_stock" -> "out_of_stock"
    [] OTHER -> "payment_failed"

StatusFromIssue(row) ==
  CASE row.status = "ok" -> "delivered"
    [] row.status = "out_of_stock" -> "out_of_stock"
    [] OTHER -> "delivery_failed"

(* Mistake: the code is taken as it comes.                                  *)
StatusAndAnyCode(row) == [status |-> StatusFromIssue(row), code |-> row.code]

(* getStatusAndCode: a code any order has already, this one included, is   *)
(* not taken.                                                              *)
StatusAndCode(row) ==
  IF row.code # NoCode /\ ExistsByCode(row.code)
  THEN [status |-> "delivery_failed", code |-> NoCode]
  ELSE [status |-> StatusFromIssue(row), code |-> row.code]

(* Mistake: only a delivered order is charged.                              *)
ChargeDelivered(o, new) ==
  IF new.status = "delivered" THEN CreateOrIgnore(charges, o) ELSE charges

ChargeAfter(o, new) == CreateOrIgnore(charges, o)

(* Writes no empty column: an order keeps the code it has.                  *)
UpdateByID(o, new) ==
  /\ orderStatus' = [orderStatus EXCEPT ![o] = new.status]
  /\ orderCode' = IF new.code = NoCode THEN orderCode
                  ELSE [orderCode EXCEPT ![o] = new.code]

FinishOrder(q) ==
  /\ Stage(q, "finish")
  /\ LET r == worker[q].id
         o == r[1]
         new == StatusAndCode(Row(r))
     IN  UpdateByID(o, new) /\ charges' = ChargeAfter(o, new)
  /\ Goto(q, Idle)
  /\ UNCHANGED <<owner, payStatus, payEvent, deposits, refunds, initQueue,
                 paidQueue, recovering, faults, issueQueue, issues, providerVars>>

(* A database error anywhere in the handler: the event is gone, what was   *)
(* written before stays.                                                   *)
WorkerFails(q) ==
  /\ worker[q].stage \in {"find", "save", "fail", "switch", "finish"}
  /\ InjectFault
  /\ Goto(q, Idle)
  /\ UNCHANGED <<rows, initQueue, paidQueue, recovering, issueQueue, issues,
                 providerVars>>

TakeFails(q) ==
  /\ Stage(q, "idle")
  /\ issueQueue[q] # <<>>
  /\ InjectFault
  /\ issueQueue' = [issueQueue EXCEPT ![q] = Tail(@)]
  /\ UNCHANGED <<rows, initQueue, paidQueue, recovering, issues, worker,
                 providerVars>>

-----------------------------------------------------------------------------
(* POST /api/orders/{id}/cancel, one transaction.                           *)

CancellableEarly == {"delivering", "delivery_failed", "out_of_stock"}  \* mistake
Cancellable == {"delivery_failed", "out_of_stock"}

CancelOrder(o) ==
  /\ orderStatus[o] \in Cancellable
  /\ PaymentPaid(o[1])
  /\ orderStatus' = UpdateStatus(orderStatus, o, orderStatus[o], "cancelled")
  /\ refunds' = CreateOrIgnore(refunds, o)
  /\ UNCHANGED <<orderCode, owner, payStatus, payEvent, deposits, charges,
                 initQueue, paidQueue, recovering, faults, deliveryVars,
                 providerVars>>

(* The shop's process stops; the code services go on.                       *)
CrashDelivery ==
  /\ issueQueue' = [q \in Queues |-> <<>>]
  /\ worker' = [q \in Queues |-> Idle]
  /\ UNCHANGED <<issues, providerVars>>

-----------------------------------------------------------------------------
WorkerStep(q) ==
  \/ Take(q) \/ FindIssue(q) \/ Answered(q)
  \/ SaveIssueResponse(q) \/ SaveIssueError(q) \/ SwitchAddr(q) \/ FinishOrder(q)

WorkerFault(q) ==
  \/ TakeFails(q) \/ WorkerFails(q) \/ TestError(q) \/ WronglyEmpty(q) \/ BodyLost(q)
  \/ \E how \in {"timeout", "unavailable"} : NoResponse(q, how)

ProviderStep ==
  \/ \E x \in inflight : LateIssue(x)
  \/ \E d \in Stores, cs \in SUBSET Codes : GenerateCodes(d, cs)

Recovery ==
  /\ \E h \in Recoveries : ListForRecovery(h) \/ RecoverOrder(h)
  /\ UNCHANGED <<deliveryVars, providerVars>>

Environment ==
  \/ \E g \in Groups, u \in Users, ps \in SUBSET Products : GroupPaid(g, u, ps)
  \/ \E o \in OrderID : Announce(o)
  \/ PaymentSideFails

DeliveryStep ==
  \/ ChooseProvider \/ ChooseProviderFails
  \/ \E q \in Queues : WorkerStep(q) \/ WorkerFault(q)
  \/ \E o \in OrderID : CancelOrder(o)
  \/ ProviderStep

Crash == CrashStore /\ CrashDelivery

Next == Environment \/ DeliveryStep \/ Recovery \/ Crash

Spec == Init /\ [][Next]_vars

(* Fairness: pollers run for ever; a request is answered or fails, faults  *)
(* being bounded.                                                          *)
WorkerFairness ==
  /\ SF_vars(ChooseProvider)
  /\ \A q \in Queues : WF_vars(WorkerStep(q))

-----------------------------------------------------------------------------
(* Properties.                                                              *)

Handled == {"delivered", "delivery_failed", "out_of_stock", "cancelled"}

(* No code belongs to two orders, although the workers of two queues and a *)
(* provider that hands out one code for ever feed the same table.          *)
NoSharedCode ==
  \A o1, o2 \in OrderID :
    o1 # o2 /\ orderCode[o1] # NoCode => orderCode[o1] # orderCode[o2]

(* A delivered order has a code, and the code of an order is the answer    *)
(* recorded in one of its own issue rows: fallbacks, retries, late answers *)
(* and duplicate codes never deliver an order empty-handed or with a code  *)
(* nobody asked for on its behalf.                                         *)
DeliveredWithItsCode ==
  \A o \in OrderID :
    /\ orderStatus[o] = "delivered" => orderCode[o] # NoCode
    /\ orderCode[o] # NoCode =>
         \E i \in DOMAIN issues[o] : /\ issues[o][i].status = "ok"
                                     /\ issues[o][i].code = orderCode[o]

(* The service at a has handed c out to r, or hands it out to everyone.     *)
Given(a, r, c) ==
  \/ DuplicateCode[a] = c
  \/ [req |-> r, code |-> c] \in grants[StoreOf[a]]

(* A recorded code was given to that very request by the service at the    *)
(* recorded address: moving a row to the fallback address and back never   *)
(* leaves the wrong address beside a code.                                 *)
CodeFromRecordedAddress ==
  \A r \in RequestID :
    r[2] \in DOMAIN issues[r[1]] /\ Row(r).code # NoCode =>
      Given(Row(r).addr, r, Row(r).code)

(* However often an order is announced, recovered or interrupted, at most  *)
(* one of its issue rows waits for a response: the next attempt repeats    *)
(* that request instead of making another.                                 *)
OneOpenRequest ==
  \A o \in OrderID :
    Cardinality({i \in DOMAIN issues[o] : issues[o][i].responseCode = 0}) <= 1

(* The balance: an order is charged only out of a deposit and refunded     *)
(* only what it was charged; whatever became of it, a handled order has    *)
(* been charged, a cancelled one refunded, and one that still waits for    *)
(* its delivery has cost nothing.                                          *)
MoneyFollowsOrder ==
  \A o \in OrderID :
    /\ refunds[o] <= charges[o] /\ charges[o] <= deposits[o[1]]
    /\ orderStatus[o] = "paid" => charges[o] = 0
    /\ orderStatus[o] \in Handled => charges[o] = 1
    /\ orderStatus[o] = "cancelled" => refunds[o] = 1

(* What the shop was told stays told: a row with the answer of a provider  *)
(* never changes, and an order never loses its code (it may get another).  *)
AnswersKept ==
  [][/\ \A r \in RequestID :
          r[2] \in DOMAIN issues[r[1]] /\ Row(r).responseCode \in {200, 409} =>
            Row(r)' = Row(r)
     /\ \A o \in OrderID : orderCode[o] # NoCode => orderCode'[o] # NoCode]_vars

-----------------------------------------------------------------------------
Contract == INSTANCE DeliveryContract WITH
  Orders <- OrderID,
  status <- orderStatus,
  code <- orderCode,
  charged <- charges,
  refunded <- refunds

(* Whatever queues, workers, providers and failures do between, an order   *)
(* is paid, tried, delivered with an unused code or given up on, and       *)
(* cancelled only as DeliveryContract says: status, code, charge and       *)
(* refund move together, in one step each.                                 *)
ImplementsDeliveryContract == Contract!Spec

-----------------------------------------------------------------------------
(* What the repository says of the program, and the code does not keep.     *)

(* An order the customer has been refunded for is not delivered            *)
(* (readme.md: single-threaded queues exclude data races in the shop).     *)
RefundedNotDelivered ==
  \A o \in OrderID : orderStatus[o] = "delivered" => refunds[o] = 0

(* The Issue model prevents duplicate requests (readme.md): one order is   *)
(* given at most one code.                                                 *)
OneCodePerOrder ==
  \A o \in OrderID :
    Cardinality({x.code : x \in {y \in UNION {grants[d] : d \in Stores} :
                                   y.req[1] = o}} \ {NoCode}) <= 1

(* The recorded address is for the repeated request after a timeout        *)
(* (issue.go): while a timed-out request may still be served there and     *)
(* nothing has been answered, the row keeps its address.                   *)
TimedOutKeepsAddress ==
  [][\A x \in inflight :
       x.how = "timeout" /\ Row(x.req).addr = x.addr /\ Row(x.req).responseCode = 0
         => Row(x.req)'.addr = x.addr]_vars

=============================================================================
