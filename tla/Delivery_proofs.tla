---------------------------- MODULE Delivery_proofs ----------------------------
(***************************************************************************)
(* Proofs about Delivery: the inductive invariant, the safety properties,  *)
(* the action property and the refinement of DeliveryContract, for every   *)
(* number of orders, queues, providers and codes and every bound.          *)
(***************************************************************************)
EXTENDS Delivery, Store_proofs

-----------------------------------------------------------------------------
(* The inductive invariant behind the properties of Delivery.               *)

(* An order exists only in a paid payment, which has its deposit; it is    *)
(* never again created, nor refused for its payment.                       *)
OrdersArePaid ==
  /\ \A g \in Groups : payStatus[g] \in {"absent", "paid"}
                       /\ deposits[g] = IF PaymentPaid(g) THEN 1 ELSE 0
  /\ \A o \in OrderID :
       /\ orderStatus[o] \notin {"created", "payment_failed"}
       /\ orderStatus[o] # "absent" => PaymentPaid(o[1])

(* An event may be stale, but never ahead of its order: one that says      *)
(* anything but paid is about an order that has been tried.                *)
Tried == Handled \cup {"delivering"}
KnownEvent == {e \in OrderEvent : /\ orderStatus[e.order] # "absent"
                                  /\ e.status = "paid" \/ orderStatus[e.order] \in Tried}
ListedEvent == KnownEvent \cup [order : OrderID, status : {"created"}]
EventsKnown ==
  /\ paidQueue \in Seq(KnownEvent) /\ recovering \in [Recoveries -> Seq(ListedEvent)]
  /\ \A q \in Queues :
       issueQueue[q] \in Seq({e \in KnownEvent : QueueOf[e.order[2]] = q})

(* A goroutine works on an order of its own queue, so no two of them on    *)
(* one, and the order has been moved on from paid.                         *)
OrderOf(w) == IF w.stage = "find" THEN w.order ELSE w.id[1]
OrdersInHand ==
  \A q \in Queues : worker[q].stage # "idle" =>
    /\ QueueOf[OrderOf(worker[q])[2]] = q
    /\ orderStatus[OrderOf(worker[q])] \in Tried

(* A row has a code if and only if it is ok, an answer if it is ok, and no *)
(* response before a request status or beside an unavailable service.      *)
Coherent(row) ==
  /\ row.status = "ok" <=> row.code # NoCode
  /\ row.status = "ok" => row.responseCode = 200
  /\ row.requestStatus \in {"none", "unavailable"} => row.responseCode = 0
RowsCoherent ==
  \A o \in OrderID : Len(issues[o]) <= MaxIssues
                     /\ \A i \in DOMAIN issues[o] : Coherent(issues[o][i])

(* The request in hand is a recorded row.  While it is asked for, the row  *)
(* has no answer; it is asked at the row's address, and what comes back    *)
(* was given there.                                                        *)
InHand(q) ==
  LET w == worker[q]
  IN  w.stage \notin {"idle", "find"} =>
        /\ w.id[2] \in DOMAIN issues[w.id[1]]
        /\ w.stage # "finish" => Row(w.id).responseCode \in {0, 500}
        /\ w.stage = "call" => w.addr = Row(w.id).addr
        /\ w.stage = "save" =>
             /\ w.answer.responseCode = IF w.answer.code = NoCode THEN 409 ELSE 200
             /\ w.answer.code # NoCode => Given(Row(w.id).addr, w.id, w.answer.code)
        /\ w.stage = "fail" /\ w.failure.requestStatus = "unavailable" =>
             w.failure.responseCode = 0
        /\ w.stage = "switch" => FallbackAddr[q] # NoAddr
RequestsInHand == \A q \in Queues : InHand(q)

(* Nothing is recorded, asked for or given on behalf of an order before it *)
(* is paid.                                                                *)
Requested(o) ==
  \/ issues[o] # <<>>
  \/ \E x \in inflight : x.req[1] = o
  \/ \E d \in Stores : \E x \in grants[d] : x.req[1] = o
RequestsOfPaid == \A o \in OrderID : Requested(o) => orderStatus[o] # "absent"

(* Only the last row of an order may wait for a response.                   *)
OnlyLastOpen ==
  \A o \in OrderID : \A i \in DOMAIN issues[o] :
    issues[o][i].responseCode = 0 => i = Len(issues[o])

(* Unique indexes: one row of a kind.                                       *)
MoneyOnce ==
  \A o \in OrderID : charges[o] \in {0, 1} /\ refunds[o] \in {0, 1}

(* All of it: preserved by every action, and implies the properties above.  *)
IInv ==
  /\ TypeOK /\ OrdersArePaid /\ EventsKnown /\ OrdersInHand
  /\ RowsCoherent /\ RequestsInHand /\ RequestsOfPaid /\ OnlyLastOpen /\ MoneyOnce
  /\ MoneyFollowsOrder /\ NoSharedCode
  /\ DeliveredWithItsCode /\ CodeFromRecordedAddress

-----------------------------------------------------------------------------
(* Lemmas about the operators of Delivery.                                  *)

(* The fields a goroutine's record has at each stage.                       *)
LEMMA WorkerFields ==
  ASSUME NEW w \in Worker
  PROVE  /\ w.stage = "find" => w.order \in OrderID
         /\ w.stage \notin {"idle", "find"} => w.id \in RequestID
         /\ w.stage \in {"call", "save", "fail"} => w.hop \in {1, 2}
         /\ w.stage = "call" => w.addr \in Addrs /\ w.tries \in 0..(MaxTries - 1)
         /\ w.stage = "save" => w.answer \in Answer
         /\ w.stage = "fail" => w.failure \in Failure
  BY DEF Worker, Idle

(* A request names an order and a number.                                   *)
LEMMA RequestFields ==
  ASSUME NEW r \in RequestID
  PROVE  /\ r[1] \in OrderID /\ r[2] \in 1..MaxIssues
         /\ r[1][1] \in Groups /\ r[1][2] \in Products
  BY DEF RequestID, OrderID

(* Two requests with the same parts are the same.                           *)
LEMMA RequestEqual ==
  ASSUME NEW r \in RequestID, NEW x \in RequestID, r[1] = x[1], r[2] = x[2]
  PROVE  r = x
  BY DEF RequestID

(* An order of a goroutine is an order.                                     *)
LEMMA OrderOfType ==
  ASSUME NEW w \in Worker, w.stage # "idle"
  PROVE  OrderOf(w) \in OrderID
  BY WorkerFields, RequestFields DEF OrderOf

(* A recorded row of a request.                                             *)
LEMMA RowType ==
  ASSUME issues \in [OrderID -> Seq(Issue)],
         NEW r \in RequestID, r[2] \in DOMAIN issues[r[1]]
  PROVE  Row(r) \in Issue
<1>1. issues[r[1]] \in Seq(Issue)
  BY RequestFields
<1> QED
  BY <1>1, ElementOfSeq DEF Row

(* The rows of an order are requests.                                       *)
LEMMA RowsAreRequests ==
  ASSUME issues \in [OrderID -> Seq(Issue)], RowsCoherent,
         NEW o \in OrderID, NEW i \in DOMAIN issues[o]
  PROVE  /\ <<o, i>> \in RequestID /\ Row(<<o, i>>) = issues[o][i]
         /\ i \in Nat /\ 1 <= i /\ i <= Len(issues[o])
<1>1. issues[o] \in Seq(Issue) /\ Len(issues[o]) <= MaxIssues
  BY DEF RowsCoherent
<1>2. i \in 1..Len(issues[o]) /\ Len(issues[o]) \in Nat
  BY <1>1, LenProperties
<1>3. i \in 1..MaxIssues
  BY <1>1, <1>2, DeliveryAssumption
<1> QED
  BY <1>2, <1>3 DEF RequestID, Row

(* Writing a row changes that row and no other.                             *)
LEMMA SaveRowEffect ==
  ASSUME issues \in [OrderID -> Seq(Issue)],
         NEW r \in RequestID, r[2] \in DOMAIN issues[r[1]],
         NEW row \in Issue, SaveRow(r, row)
  PROVE  /\ issues' \in [OrderID -> Seq(Issue)]
         /\ \A o \in OrderID : Len(issues'[o]) = Len(issues[o])
         /\ \A o \in OrderID : DOMAIN issues'[o] = DOMAIN issues[o]
         /\ \A o \in OrderID : \A i \in DOMAIN issues[o] :
              issues'[o][i] = IF o = r[1] /\ i = r[2] THEN row ELSE issues[o][i]
<1> DEFINE new == [issues[r[1]] EXCEPT ![r[2]] = row]
<1>1. r[1] \in OrderID /\ issues[r[1]] \in Seq(Issue)
  BY RequestFields
<1>2. r[2] \in 1..Len(issues[r[1]])
  BY <1>1, LenProperties
<1>3. /\ new \in Seq(Issue) /\ Len(new) = Len(issues[r[1]])
      /\ \A j \in 1..Len(issues[r[1]]) :
           new[j] = IF j = r[2] THEN row ELSE issues[r[1]][j]
  BY <1>1, <1>2, ExceptSeq
<1>4. issues' = [issues EXCEPT ![r[1]] = new]
  BY DEF SaveRow
<1> HIDE DEF new
<1>5. /\ issues' \in [OrderID -> Seq(Issue)]
      /\ \A o \in OrderID : issues'[o] = IF o = r[1] THEN new ELSE issues[o]
  BY <1>1, <1>3, <1>4
<1>6. \A o \in OrderID : DOMAIN issues[o] = 1..Len(issues[o])
                         /\ DOMAIN issues'[o] = 1..Len(issues'[o])
  BY <1>5, LenProperties
<1>7. \A o \in OrderID : Len(issues'[o]) = Len(issues[o])
  BY <1>3, <1>5
<1>8. ASSUME NEW o \in OrderID, NEW i \in DOMAIN issues[o]
      PROVE  issues'[o][i] = IF o = r[1] /\ i = r[2] THEN row ELSE issues[o][i]
  BY <1>3, <1>5, <1>6
<1>9. \A o \in OrderID : DOMAIN issues'[o] = DOMAIN issues[o]
  BY <1>6, <1>7
<1> QED
  BY <1>5, <1>7, <1>8, <1>9

(* Appending a row leaves the others where they are.                        *)
LEMMA AppendRowEffect ==
  ASSUME issues \in [OrderID -> Seq(Issue)], NEW o \in OrderID, NEW row \in Issue,
         issues' = [issues EXCEPT ![o] = Append(@, row)]
  PROVE  /\ issues' \in [OrderID -> Seq(Issue)]
         /\ \A p \in OrderID :
              /\ Len(issues'[p]) = IF p = o THEN Len(issues[p]) + 1 ELSE Len(issues[p])
              /\ \A i \in DOMAIN issues[p] : i \in DOMAIN issues'[p]
                                             /\ issues'[p][i] = issues[p][i]
         /\ issues'[o][Len(issues[o]) + 1] = row
         /\ DOMAIN issues'[o] = 1..(Len(issues[o]) + 1)
         /\ \A p \in OrderID : p # o => issues'[p] = issues[p]
<1>1. issues[o] \in Seq(Issue) /\ Len(issues[o]) \in Nat
  BY LenProperties
<1>2. /\ issues'[o] \in Seq(Issue) /\ issues' \in [OrderID -> Seq(Issue)]
      /\ Len(issues'[o]) = Len(issues[o]) + 1
      /\ \A i \in 1..Len(issues[o]) : issues'[o][i] = issues[o][i]
      /\ issues'[o][Len(issues[o]) + 1] = row
      /\ \A p \in OrderID : p # o => issues'[p] = issues[p]
  BY <1>1, AppendProperties
<1>3. DOMAIN issues[o] = 1..Len(issues[o]) /\ DOMAIN issues'[o] = 1..Len(issues'[o])
  BY <1>1, <1>2, LenProperties
<1> QED
  BY <1>1, <1>2, <1>3

(* Given, after the step, for the address and the request before it.        *)
GivenNext(a, r, c) ==
  \/ DuplicateCode[a] = c
  \/ [req |-> r, code |-> c] \in grants'[StoreOf[a]]

(* Codes granted are never taken back, whatever a service answers.  An      *)
(* answer with a code is 200 and the code is given to the request at that   *)
(* address; one without is 409 or 500.                                      *)
LEMMA HandleIssueEffect ==
  ASSUME TypeOK, NEW a \in Addrs, NEW r \in RequestID, NEW ans \in Answer,
         HandleIssue(a, r, ans)
  PROVE  /\ pool' \in [Stores -> SUBSET Codes]
         /\ grants' \in [Stores -> SUBSET [req : RequestID, code : Codes \cup {NoCode}]]
         /\ \A d \in Stores : grants[d] \subseteq grants'[d]
         /\ ans.responseCode = 200 => ans.code # NoCode /\ GivenNext(a, r, ans.code)
         /\ ans.responseCode # 200 => ans.code = NoCode
<1> DEFINE d == StoreOf[a]
           known == {x \in grants[d] : x.req = r}
<1>0. d \in Stores /\ NoCode \notin Codes
  BY DeliveryAssumption, StoreAssumption
<1>1. CASE DuplicateCode[a] # NoCode /\ ans = Ok(DuplicateCode[a]) /\ UNCHANGED <<pool, grants>>
  BY <1>1 DEF Ok, GivenNext, TypeOK
<1>2. CASE UNCHANGED <<pool, grants>> /\ \E x \in known : ans = Repeated(x)
  <2>1. PICK x \in known : ans = Repeated(x)
    BY <1>2
  <2>2. x \in grants[d] /\ x = [req |-> r, code |-> x.code]
    BY <1>0, <2>1 DEF TypeOK
  <2> QED
    BY <1>2, <2>1, <2>2 DEF Repeated, Ok, ServerError, GivenNext, TypeOK
<1>3. CASE HandleNewRequest(d, r, ans)
  <2>1. CASE ans = OutOfStock /\ Grant(d, r, NoCode) /\ UNCHANGED pool
    BY <1>0, <2>1 DEF OutOfStock, Grant, TypeOK
  <2>2. CASE \E c \in pool[d] : /\ ans = Ok(c) /\ Grant(d, r, c)
                                /\ pool' = [pool EXCEPT ![d] = @ \ {c}]
    <3>1. PICK c \in pool[d] : /\ ans = Ok(c) /\ Grant(d, r, c)
                               /\ pool' = [pool EXCEPT ![d] = @ \ {c}]
      BY <2>2
    <3>2. c \in Codes /\ c # NoCode
      BY <1>0, <3>1 DEF TypeOK
    <3> QED
      BY <1>0, <3>1, <3>2 DEF Ok, Grant, GivenNext, TypeOK
  <2> QED
    BY <1>3, <2>1, <2>2 DEF HandleNewRequest
<1> QED
  BY <1>1, <1>2, <1>3 DEF HandleIssue

(* Nor by the errors of a service's database.                               *)
LEMMA ServiceErrorEffect ==
  ASSUME TypeOK, NEW a \in Addrs, NEW r \in RequestID,
         TakenForEmpty(a, r) \/ \E ans \in Answer : RolledBack(a, r, ans)
  PROVE  /\ pool' \in [Stores -> SUBSET Codes]
         /\ grants' \in [Stores -> SUBSET [req : RequestID, code : Codes \cup {NoCode}]]
         /\ \A d \in Stores : grants[d] \subseteq grants'[d]
<1>1. StoreOf[a] \in Stores
  BY DeliveryAssumption
<1>2. CASE TakenForEmpty(a, r)
  BY <1>1, <1>2 DEF TakenForEmpty, Grant, TypeOK
<1>3. CASE \E ans \in Answer : RolledBack(a, r, ans)
  BY <1>3 DEF RolledBack, TypeOK
<1> QED
  BY <1>2, <1>3

-----------------------------------------------------------------------------
(* What the steps of a goroutine do to its record and to the issue rows.    *)

Attempt(q) ==
  \/ Answered(q) \/ TestError(q) \/ WronglyEmpty(q) \/ BodyLost(q)
  \/ \E how \in {"timeout", "unavailable"} : NoResponse(q, how)
WriteRow(q) == SaveIssueResponse(q) \/ SaveIssueError(q) \/ SwitchAddr(q)

(* The clause of InHand about the record w, given its row.                  *)
HoldsRow(q, w) ==
  /\ w.stage = "save" =>
       w.answer.responseCode = IF w.answer.code = NoCode THEN 409 ELSE 200
  /\ w.stage = "fail" /\ w.failure.requestStatus = "unavailable" =>
       w.failure.responseCode = 0
  /\ w.stage = "switch" => FallbackAddr[q] # NoAddr

(* The goroutine moves on from an attempt, with the same request.           *)
AsksOn(q) ==
  \E new \in Worker :
    /\ worker' = [worker EXCEPT ![q] = new]
    /\ new.stage \in {"call", "save", "fail"} /\ new.id = worker[q].id
    /\ new.stage = "call" => new.addr = worker[q].addr
    /\ new.stage = "save" /\ new.answer.code # NoCode =>
         GivenNext(worker[q].addr, worker[q].id, new.answer.code)
    /\ HoldsRow(q, new)

(* A failed attempt is repeated or is the failure of the request.           *)
LEMMA FailEffect ==
  ASSUME TypeOK, NEW q \in Queues, Stage(q, "call"), NEW failure \in Failure,
         failure.requestStatus = "unavailable" => failure.responseCode = 0,
         Fail(q, failure)
  PROVE  AsksOn(q)
<1> DEFINE w == worker[q]
           again == [w EXCEPT !.tries = @ + 1]
           failed == [stage |-> "fail", id |-> w.id, hop |-> w.hop,
                      failure |-> failure]
<1>1. w \in [stage : {"call"}, id : RequestID, addr : Addrs, hop : {1, 2},
             tries : 0..(MaxTries - 1)]
  BY DEF TypeOK, Worker, Stage, Idle
<1>2. w.tries + 1 < MaxTries => again \in Worker
  <2>1. MaxTries \in Nat
    BY DeliveryAssumption
  <2>2. w.tries + 1 < MaxTries => w.tries + 1 \in 0..(MaxTries - 1)
    BY <1>1, <2>1
  <2>3. w.tries + 1 < MaxTries =>
          again \in [stage : {"call"}, id : RequestID, addr : Addrs, hop : {1, 2},
                     tries : 0..(MaxTries - 1)]
    BY <1>1, <2>2
  <2> QED
    BY <2>3 DEF Worker
<1>3. failed \in Worker
  BY <1>1 DEF Worker
<1>4. /\ again.stage = "call" /\ again.id = w.id /\ again.addr = w.addr
      /\ failed.stage = "fail" /\ failed.id = w.id /\ failed.failure = failure
  BY <1>1
<1>5. \/ /\ worker' = [worker EXCEPT ![q] = again] /\ again \in Worker
      \/ worker' = [worker EXCEPT ![q] = failed]
  BY <1>2 DEF Fail, Goto
<1>6. HoldsRow(q, again) /\ HoldsRow(q, failed)
  BY <1>4 DEF HoldsRow
<1> HIDE DEF again, failed
<1>7. CASE worker' = [worker EXCEPT ![q] = again] /\ again \in Worker
  BY <1>4, <1>6, <1>7 DEF AsksOn
<1>8. CASE worker' = [worker EXCEPT ![q] = failed]
  BY <1>3, <1>4, <1>6, <1>8 DEF AsksOn
<1> QED
  BY <1>5, <1>7, <1>8

(* What an attempt leaves alone.                                            *)
LEMMA AttemptFrame ==
  ASSUME TypeOK, NEW q \in Queues, Attempt(q)
  PROVE  /\ worker[q].stage = "call" /\ faults' \in Nat
         /\ UNCHANGED <<rows, initQueue, paidQueue, recovering, issueQueue, issues>>
  BY DEF Attempt, Answered, TestError, WronglyEmpty, BodyLost, NoResponse, Stage,
         InjectFault, storeVars, TypeOK, StoreTypeOK

(* One attempt of a request, at the goroutine.                              *)
LEMMA AttemptEffect ==
  ASSUME TypeOK, NEW q \in Queues, Attempt(q)
  PROVE  AsksOn(q)
<1> DEFINE w == worker[q]
<1>0. /\ Stage(q, "call")
      /\ w.id \in RequestID /\ w.addr \in Addrs /\ w.hop \in {1, 2}
  BY AttemptFrame, WorkerFields DEF Stage, TypeOK
<1>1. CASE Answered(q)
  <2>1. PICK ans \in Answer :
          /\ HandleIssue(w.addr, w.id, ans)
          /\ IF ans.responseCode = 500
             THEN Fail(q, Failed("timeout", 500))
             ELSE Goto(q, [stage |-> "save", id |-> w.id, hop |-> w.hop, answer |-> ans])
    BY <1>1 DEF Answered
  <2>2. CASE ans.responseCode = 500
    BY <1>0, <2>1, <2>2, FailEffect DEF Failed, Failure
  <2>3. CASE ans.responseCode # 500
    <3> DEFINE new == [stage |-> "save", id |-> w.id, hop |-> w.hop, answer |-> ans]
    <3>1. new \in Worker /\ worker' = [worker EXCEPT ![q] = new]
      BY <1>0, <2>1, <2>3 DEF Goto, Worker
    <3>2. /\ ans.code # NoCode => GivenNext(w.addr, w.id, ans.code)
          /\ ans.responseCode = IF ans.code = NoCode THEN 409 ELSE 200
      BY <1>0, <2>1, <2>3, HandleIssueEffect DEF Answer
    <3>3. HoldsRow(q, new)
      BY <3>2 DEF HoldsRow
    <3>4. new.stage = "save" /\ new.id = w.id /\ new.answer = ans
      OBVIOUS
    <3> HIDE DEF new
    <3> QED
      BY <3>1, <3>2, <3>3, <3>4 DEF AsksOn
  <2> QED
    BY <2>2, <2>3
<1>2. CASE TestError(q)
  BY <1>0, <1>2, FailEffect DEF Failed, Failure, TestError
<1>3. CASE \E how \in {"timeout", "unavailable"} : NoResponse(q, how)
  <2>1. PICK how \in {"timeout", "unavailable"} : NoResponse(q, how)
    BY <1>3
  <2> QED
    BY <1>0, <2>1, FailEffect DEF Failed, Failure, NoResponse
<1>4. CASE BodyLost(q)
  <2>1. PICK ans \in Answer :
          /\ ans.responseCode # 500
          /\ Goto(q, [stage |-> "fail", id |-> w.id, hop |-> w.hop,
                      failure |-> Failed("timeout", ans.responseCode)])
    BY <1>4 DEF BodyLost
  <2> DEFINE new == [stage |-> "fail", id |-> w.id, hop |-> w.hop,
                     failure |-> Failed("timeout", ans.responseCode)]
  <2>2. Failed("timeout", ans.responseCode) \in Failure
    BY DEF Failed, Failure, Answer
  <2>3. new \in Worker /\ worker' = [worker EXCEPT ![q] = new]
    BY <1>0, <2>1, <2>2 DEF Goto, Worker
  <2>4. HoldsRow(q, new)
    BY DEF HoldsRow, Failed
  <2> QED
    BY <2>3, <2>4 DEF AsksOn
<1>5. CASE WronglyEmpty(q)
  <2> DEFINE new == [stage |-> "save", id |-> w.id, hop |-> w.hop,
                     answer |-> OutOfStock]
  <2>1. new \in Worker /\ worker' = [worker EXCEPT ![q] = new]
    BY <1>0, <1>5 DEF WronglyEmpty, Goto, Worker, Answer, OutOfStock
  <2>2. HoldsRow(q, new) /\ new.answer.code = NoCode
    BY DEF HoldsRow, OutOfStock
  <2> QED
    BY <2>1, <2>2 DEF AsksOn
<1> QED
  BY <1>1, <1>2, <1>3, <1>4, <1>5 DEF Attempt

(* The state of the code services after any step: well-typed, and no code   *)
(* once given is taken back.                                                *)
ServicesKept ==
  /\ pool' \in [Stores -> SUBSET Codes]
  /\ grants' \in [Stores -> SUBSET [req : RequestID, code : Codes \cup {NoCode}]]
  /\ \A d \in Stores : grants[d] \subseteq grants'[d]
  /\ inflight' \subseteq [addr : Addrs, req : RequestID,
                          how : {"timeout", "unavailable"}]

(* So they are after an attempt.                                            *)
LEMMA AttemptServices ==
  ASSUME TypeOK, NEW q \in Queues, Attempt(q)
  PROVE  ServicesKept
<1>0. worker[q].id \in RequestID /\ worker[q].addr \in Addrs
  BY AttemptFrame, WorkerFields DEF TypeOK
<1>1. CASE Answered(q) \/ WronglyEmpty(q) \/ BodyLost(q)
  <2>1. \/ TakenForEmpty(worker[q].addr, worker[q].id)
        \/ \E ans \in Answer : \/ HandleIssue(worker[q].addr, worker[q].id, ans)
                              \/ RolledBack(worker[q].addr, worker[q].id, ans)
    BY <1>1 DEF Answered, WronglyEmpty, BodyLost
  <2>2. inflight' = inflight
    BY <1>1 DEF Answered, WronglyEmpty, BodyLost
  <2> QED
    BY <1>0, <2>1, <2>2, HandleIssueEffect, ServiceErrorEffect DEF ServicesKept, TypeOK
<1>2. CASE TestError(q)
  BY <1>2 DEF TestError, providerVars, ServicesKept, TypeOK
<1>3. CASE \E how \in {"timeout", "unavailable"} : NoResponse(q, how)
  BY <1>0, <1>3 DEF NoResponse, ServicesKept, TypeOK
<1> QED
  BY <1>1, <1>2, <1>3 DEF Attempt

(* The goroutine writes its row: the row stays coherent, has been answered  *)
(* only with what was given at its address, and is asked for again only if  *)
(* it has no answer.                                                        *)
Writes(q, row, new) ==
  /\ SaveRow(worker[q].id, row)
  /\ worker' = [worker EXCEPT ![q] = new]
  /\ Coherent(row)
  /\ row.responseCode = 0 => Row(worker[q].id).responseCode = 0
  /\ row.code # NoCode => Given(row.addr, worker[q].id, row.code)
  /\ new.stage \in {"call", "switch", "finish"} /\ new.id = worker[q].id
  /\ new.stage = "call" => new.addr = row.addr
  /\ new.stage # "finish" => row.responseCode \in {0, 500}
  /\ HoldsRow(q, new)

(* What a goroutine that writes its row has in hand.                        *)
LEMMA RowInHand ==
  ASSUME TypeOK, RowsCoherent, RequestsInHand, NEW q \in Queues, WriteRow(q)
  PROVE  /\ worker[q].stage \in {"save", "fail", "switch"}
         /\ worker[q].id \in RequestID
         /\ worker[q].id[2] \in DOMAIN issues[worker[q].id[1]]
         /\ Row(worker[q].id) \in Issue
         /\ Coherent(Row(worker[q].id))
         /\ Row(worker[q].id).responseCode \in {0, 500}
         /\ Row(worker[q].id).code = NoCode
<1> DEFINE r == worker[q].id
<1>1. worker[q].stage \in {"save", "fail", "switch"}
  BY DEF WriteRow, SaveIssueResponse, SaveIssueError, SwitchAddr, Stage
<1>2. r \in RequestID
  BY <1>1, WorkerFields DEF TypeOK
<1>3. r[2] \in DOMAIN issues[r[1]] /\ Row(r).responseCode \in {0, 500}
  BY <1>1 DEF RequestsInHand, InHand
<1>4. Row(r) \in Issue
  BY <1>2, <1>3, RowType DEF TypeOK
<1>5. Coherent(Row(r))
  BY <1>2, <1>3, RequestFields DEF RowsCoherent, Row
<1> QED
  BY <1>1, <1>2, <1>3, <1>4, <1>5 DEF Coherent

(* An answer written into a row without one.                                *)
LEMMA SavedAnswerEffect ==
  ASSUME NEW row \in Issue, NEW ans \in Answer,
         ans.responseCode = IF ans.code = NoCode THEN 409 ELSE 200
  PROVE  /\ SavedAnswer(row, ans) \in Issue /\ Coherent(SavedAnswer(row, ans))
         /\ SavedAnswer(row, ans).addr = row.addr
         /\ SavedAnswer(row, ans).code = ans.code
         /\ SavedAnswer(row, ans).responseCode \in {200, 409}
<1> DEFINE status == IF ans.responseCode = 200 THEN "ok" ELSE "out_of_stock"
           new == [row EXCEPT !.status = status, !.code = ans.code,
                              !.requestStatus = "ok",
                              !.responseCode = ans.responseCode]
<1>1. SavedAnswer(row, ans) = new
  BY DEF SavedAnswer
<1>2. /\ status \in {"ok", "out_of_stock"}
      /\ status = "ok" <=> ans.code # NoCode
      /\ ans.responseCode \in {200, 409} /\ ans.code \in Codes \cup {NoCode}
      /\ status = "ok" => ans.responseCode = 200
  BY DEF Answer
<1> HIDE DEF status
<1>3. /\ new.addr = row.addr /\ new.code = ans.code /\ new.status = status
      /\ new.responseCode = ans.responseCode /\ new.requestStatus = "ok"
  BY <1>2 DEF Issue
<1>4. new \in Issue
  <2> DEFINE row1 == [row EXCEPT !.status = status]
             row2 == [row1 EXCEPT !.code = ans.code]
             row3 == [row2 EXCEPT !.requestStatus = "ok"]
  <2>1. row1 \in Issue
    BY <1>2 DEF Issue
  <2>2. new = [row3 EXCEPT !.responseCode = ans.responseCode]
    OBVIOUS
  <2> HIDE DEF row1
  <2>3. row2 \in Issue
    BY <1>2, <2>1 DEF Issue
  <2> HIDE DEF row2
  <2>4. row3 \in Issue
    BY <2>3 DEF Issue
  <2> HIDE DEF row3, new
  <2> QED
    BY <1>2, <2>2, <2>4 DEF Issue
<1> HIDE DEF new
<1>5. Coherent(new)
  BY <1>2, <1>3 DEF Coherent
<1> QED
  BY <1>1, <1>2, <1>3, <1>4, <1>5

(* A failure written into a row without an answer.                          *)
LEMMA SavedFailureEffect ==
  ASSUME NEW row \in Issue, Coherent(row), row.code = NoCode, NEW failure \in Failure,
         failure.requestStatus = "unavailable" => failure.responseCode = 0
  PROVE  /\ SavedFailure(row, failure) \in Issue
         /\ Coherent(SavedFailure(row, failure))
         /\ SavedFailure(row, failure).code = NoCode
         /\ SavedFailure(row, failure).responseCode = 0 => row.responseCode = 0
<1> DEFINE new == [row EXCEPT !.requestStatus = failure.requestStatus,
                              !.responseCode = failure.responseCode]
<1>1. SavedFailure(row, failure) = IF row.requestStatus = "none" THEN new ELSE row
  BY DEF SavedFailure
<1>2. /\ new.code = NoCode /\ new.status = row.status
      /\ new.requestStatus = failure.requestStatus
      /\ new.responseCode = failure.responseCode
  BY DEF Issue, Failure
<1>3. new \in Issue
  <2> DEFINE row1 == [row EXCEPT !.requestStatus = failure.requestStatus]
  <2>1. row1 \in Issue
    BY DEF Issue, Failure
  <2>2. new = [row1 EXCEPT !.responseCode = failure.responseCode]
    OBVIOUS
  <2> HIDE DEF row1, new
  <2> QED
    BY <2>1, <2>2 DEF Issue, Failure
<1>4. failure.requestStatus \in {"timeout", "unavailable"}
  BY DEF Failure
<1> HIDE DEF new
<1>5. Coherent(new)
  BY <1>2, <1>4 DEF Coherent
<1> QED
  BY <1>1, <1>2, <1>3, <1>5 DEF Coherent

(* After an answer or an error has been written.                            *)
LEMMA AfterRequestType ==
  ASSUME NEW q \in Queues, NEW r \in RequestID, NEW hop, NEW row \in Issue,
         Coherent(row), AfterRequest(q, r, hop, row)
  PROVE  \E new \in Worker :
           /\ worker' = [worker EXCEPT ![q] = new]
           /\ new.stage \in {"switch", "finish"} /\ new.id = r
           /\ new.stage = "switch" =>
                row.responseCode \in {0, 500} /\ FallbackAddr[q] # NoAddr
<1> DEFINE again == hop = 1 /\ CanRetryWithFallback(row) /\ FallbackAddr[q] # NoAddr
           new == [stage |-> IF again THEN "switch" ELSE "finish", id |-> r]
<1>1. new \in Worker /\ new.stage \in {"switch", "finish"} /\ new.id = r
  BY DEF Worker
<1>2. new.stage = "switch" => again
  OBVIOUS
<1>3. CanRetryWithFallback(row) => row.responseCode \in {0, 500}
  BY DEF CanRetryWithFallback, Coherent, Issue
<1>4. worker' = [worker EXCEPT ![q] = new]
  BY DEF AfterRequest, Goto
<1> QED
  BY <1>1, <1>2, <1>3, <1>4

(* The three steps that write a row.                                        *)
LEMMA WriteRowEffect ==
  ASSUME TypeOK, RowsCoherent, RequestsInHand, NEW q \in Queues, WriteRow(q)
  PROVE  \E row \in Issue, new \in Worker : Writes(q, row, new)
<1> DEFINE w == worker[q]
           r == w.id
<1>0. /\ r \in RequestID /\ Row(r) \in Issue /\ Coherent(Row(r))
      /\ Row(r).responseCode \in {0, 500} /\ Row(r).code = NoCode
  BY RowInHand
<1>1. CASE SaveIssueResponse(q)
  <2> DEFINE row == SavedAnswer(Row(r), w.answer)
  <2>1. /\ w.stage = "save" /\ w.answer \in Answer
        /\ w.answer.responseCode = IF w.answer.code = NoCode THEN 409 ELSE 200
        /\ w.answer.code # NoCode => Given(Row(r).addr, r, w.answer.code)
    BY <1>1, WorkerFields
       DEF SaveIssueResponse, Stage, TypeOK, RequestsInHand, InHand
  <2>2. /\ row \in Issue /\ Coherent(row) /\ row.addr = Row(r).addr
        /\ row.code = w.answer.code /\ row.responseCode \in {200, 409}
    BY <1>0, <2>1, SavedAnswerEffect
  <2>4. SaveRow(r, row) /\ AfterRequest(q, r, w.hop, row)
    BY <1>1 DEF SaveIssueResponse
  <2> HIDE DEF row
  <2>6. PICK new \in Worker :
          /\ worker' = [worker EXCEPT ![q] = new]
          /\ new.stage \in {"switch", "finish"} /\ new.id = r
          /\ new.stage = "switch" =>
               row.responseCode \in {0, 500} /\ FallbackAddr[q] # NoAddr
    BY <1>0, <2>2, <2>4, AfterRequestType
  <2>7. Writes(q, row, new)
    BY <2>1, <2>2, <2>4, <2>6 DEF Writes, HoldsRow
  <2> QED
    BY <2>2, <2>6, <2>7
<1>2. CASE SaveIssueError(q)
  <2> DEFINE row == SavedFailure(Row(r), w.failure)
  <2>1. /\ w.stage = "fail" /\ w.failure \in Failure
        /\ w.failure.requestStatus = "unavailable" => w.failure.responseCode = 0
    BY <1>2, WorkerFields
       DEF SaveIssueError, Stage, TypeOK, RequestsInHand, InHand
  <2>2. /\ row \in Issue /\ Coherent(row) /\ row.code = NoCode
        /\ row.responseCode = 0 => Row(r).responseCode = 0
    BY <1>0, <2>1, SavedFailureEffect
  <2>4. SaveRow(r, row) /\ AfterRequest(q, r, w.hop, row)
    BY <1>2 DEF SaveIssueError
  <2> HIDE DEF row
  <2>6. PICK new \in Worker :
          /\ worker' = [worker EXCEPT ![q] = new]
          /\ new.stage \in {"switch", "finish"} /\ new.id = r
          /\ new.stage = "switch" =>
               row.responseCode \in {0, 500} /\ FallbackAddr[q] # NoAddr
    BY <1>0, <2>2, <2>4, AfterRequestType
  <2>7. Writes(q, row, new)
    BY <2>2, <2>4, <2>6 DEF Writes, HoldsRow
  <2> QED
    BY <2>2, <2>6, <2>7
<1>3. CASE SwitchAddr(q)
  <2> DEFINE a == OtherAddr(q, Row(r).addr)
             row == MovedTo(Row(r), a)
             new == Call(r, a, 2)
  <2>1. FallbackAddr[q] # NoAddr
    BY <1>3 DEF SwitchAddr, Stage, RequestsInHand, InHand
  <2>2. a \in Addrs /\ MaxTries \in Nat \ {0}
    BY <2>1, DeliveryAssumption DEF OtherAddr
  <2>3. /\ row \in Issue /\ row.addr = a /\ row.code = NoCode
        /\ row.responseCode = Row(r).responseCode
    BY <1>0, <2>2 DEF MovedTo, Issue
  <2>4. Coherent(row)
    BY <1>0 DEF Coherent, MovedTo, Issue
  <2>5. new \in Worker
    BY <1>0, <2>2 DEF Call, Worker
  <2>6. /\ new.stage = "call" /\ new.id = r /\ new.addr = a
        /\ SaveRow(r, row) /\ worker' = [worker EXCEPT ![q] = new]
    BY <1>3 DEF SwitchAddr, Goto, Call
  <2> HIDE DEF row, new
  <2>7. Writes(q, row, new)
    BY <1>0, <2>3, <2>4, <2>5, <2>6 DEF Writes, HoldsRow
  <2> QED
    BY <2>3, <2>5, <2>7
<1> QED
  BY <1>1, <1>2, <1>3 DEF WriteRow

(* Finding a request to repeat, or making one: it is the only open row.     *)
LEMMA FindIssueEffect ==
  ASSUME TypeOK, RowsCoherent, OnlyLastOpen, NEW q \in Queues, FindIssue(q)
  PROVE  /\ worker[q].stage = "find" /\ worker[q].order \in OrderID
         /\ UNCHANGED <<storeVars, issueQueue, providerVars>>
         /\ \/ /\ UNCHANGED issues
               /\ \E i \in DOMAIN issues[worker[q].order] :
                    /\ issues[worker[q].order][i].responseCode = 0
                    /\ worker' = [worker EXCEPT ![q] =
                         Call(<<worker[q].order, i>>, issues[worker[q].order][i].addr, 1)]
            \/ /\ \A i \in DOMAIN issues[worker[q].order] :
                    issues[worker[q].order][i].responseCode # 0
               /\ Len(issues[worker[q].order]) < MaxIssues
               /\ issues' = [issues EXCEPT ![worker[q].order] = Append(@, NewIssue(q))]
               /\ worker' = [worker EXCEPT ![q] =
                    Call(<<worker[q].order, Len(issues[worker[q].order]) + 1>>,
                         MainAddr[q], 1)]
<1> DEFINE o == worker[q].order
<1>1. worker[q].stage = "find" /\ o \in OrderID
  BY WorkerFields DEF FindIssue, Stage, TypeOK
<1>2. FirstIncomplete(o) = {} => \A i \in DOMAIN issues[o] : issues[o][i].responseCode # 0
  <2> SUFFICES ASSUME NEW i \in DOMAIN issues[o], issues[o][i].responseCode = 0
               PROVE  i \in FirstIncomplete(o)
    OBVIOUS
  <2>1. i = Len(issues[o]) /\ issues[o] \in Seq(Issue)
    BY <1>1 DEF OnlyLastOpen, TypeOK
  <2>2. \A j \in 1..(i - 1) : j \in DOMAIN issues[o] /\ j # Len(issues[o])
    BY <2>1, LenProperties
  <2>3. \A j \in 1..(i - 1) : issues[o][j].responseCode # 0
    BY <1>1, <2>2 DEF OnlyLastOpen
  <2> QED
    BY <2>3 DEF FirstIncomplete, Incomplete
<1>3. CASE \E i \in FirstIncomplete(o) :
             Goto(q, Call(<<o, i>>, issues[o][i].addr, 1)) /\ UNCHANGED issues
  BY <1>1, <1>3 DEF FindIssue, FirstIncomplete, Incomplete, Goto
<1>4. CASE /\ FirstIncomplete(o) = {}
           /\ Len(issues[o]) < MaxIssues
           /\ issues' = [issues EXCEPT ![o] = Append(@, NewIssue(q))]
           /\ Goto(q, Call(<<o, Len(issues[o]) + 1>>, MainAddr[q], 1))
  BY <1>1, <1>2, <1>4 DEF FindIssue, Goto
<1> QED
  BY <1>3, <1>4 DEF FindIssue

-----------------------------------------------------------------------------
(* Which steps change the rows of the shop's database.                      *)
LEMMA RowSteps ==
  ASSUME [Next]_vars
  PROVE  \/ \E g \in Groups, u \in Users, ps \in SUBSET Products : GroupPaid(g, u, ps)
         \/ \E q \in Queues : Take(q) \/ FinishOrder(q)
         \/ \E o \in OrderID : CancelOrder(o)
         \/ UNCHANGED rows
<1> USE DEF rows
<1>1. CASE Environment
  BY <1>1 DEF Environment, Announce, PaymentSideFails
<1>2. CASE DeliveryStep
  <2>1. CASE ChooseProvider \/ ChooseProviderFails \/ ProviderStep
    BY <2>1 DEF ChooseProvider, ChooseProviderFails, ProviderStep, LateIssue,
                GenerateCodes, storeVars
  <2>2. ASSUME NEW q \in Queues, WorkerStep(q) \/ WorkerFault(q)
        PROVE  Take(q) \/ FinishOrder(q) \/ UNCHANGED rows
    BY <2>2 DEF WorkerStep, WorkerFault, FindIssue, Answered, SaveIssueResponse,
                SaveIssueError, SwitchAddr, TakeFails, WorkerFails, TestError,
                WronglyEmpty, BodyLost, NoResponse, storeVars
  <2> QED
    BY <1>2, <2>1, <2>2 DEF DeliveryStep
<1>3. CASE Recovery \/ Crash \/ UNCHANGED vars
  BY <1>3 DEF Recovery, ListForRecovery, RecoverOrder, Crash, CrashStore, vars, storeVars
<1> QED
  BY <1>1, <1>2, <1>3 DEF Next

(* Which steps change the goroutines' records and the issue rows.           *)
LEMMA WorkSteps ==
  ASSUME [Next]_vars
  PROVE  \/ \E q \in Queues : Attempt(q)
         \/ \E q \in Queues : WriteRow(q)
         \/ \E q \in Queues : FindIssue(q)
         \/ \E q \in Queues : Take(q)
         \/ \E q \in Queues : FinishOrder(q) \/ WorkerFails(q)
         \/ Crash
         \/ UNCHANGED <<issues, worker>>
<1> USE DEF deliveryVars
<1>1. CASE Environment
  BY <1>1 DEF Environment, GroupPaid, Announce, PaymentSideFails
<1>2. CASE DeliveryStep
  <2>1. CASE ChooseProvider \/ ChooseProviderFails \/ ProviderStep
    BY <2>1 DEF ChooseProvider, ChooseProviderFails, ProviderStep, LateIssue,
                GenerateCodes
  <2>2. CASE \E o \in OrderID : CancelOrder(o)
    BY <2>2 DEF CancelOrder
  <2>3. ASSUME NEW q \in Queues, WorkerStep(q) \/ WorkerFault(q)
        PROVE  \/ Attempt(q) \/ WriteRow(q) \/ FindIssue(q) \/ Take(q)
               \/ FinishOrder(q) \/ WorkerFails(q) \/ UNCHANGED <<issues, worker>>
    BY <2>3 DEF WorkerStep, WorkerFault, TakeFails, Attempt, WriteRow
  <2> QED
    BY <1>2, <2>1, <2>2, <2>3 DEF DeliveryStep
<1>3. CASE Recovery \/ UNCHANGED vars
  BY <1>3 DEF Recovery, vars
<1> QED
  BY <1>1, <1>2, <1>3 DEF Next

(* A late request and new codes leave the code services in order.           *)
LEMMA ProviderServices ==
  ASSUME TypeOK, ProviderStep
  PROVE  ServicesKept
<1>1. CASE \E x \in inflight : LateIssue(x)
  <2>1. PICK x \in inflight : LateIssue(x)
    BY <1>1
  <2>2. x.addr \in Addrs /\ x.req \in RequestID /\ inflight' = inflight \ {x}
    BY <2>1 DEF TypeOK, LateIssue
  <2>3. CASE \E ans \in Answer : HandleIssue(x.addr, x.req, ans)
    BY <2>2, <2>3, HandleIssueEffect DEF ServicesKept, TypeOK
  <2>4. CASE TakenForEmpty(x.addr, x.req)
    BY <2>2, <2>4, ServiceErrorEffect DEF ServicesKept, TypeOK
  <2> QED
    BY <2>1, <2>3, <2>4 DEF LateIssue
<1>2. CASE \E d \in Stores, cs \in SUBSET Codes : GenerateCodes(d, cs)
  BY <1>2 DEF GenerateCodes, ServicesKept, TypeOK
<1> QED
  BY <1>1, <1>2 DEF ProviderStep

(* Which steps change them.                                                 *)
LEMMA ServiceSteps ==
  ASSUME [Next]_vars
  PROVE  \/ \E q \in Queues : Attempt(q)
         \/ \E x \in inflight : LateIssue(x)
         \/ \E d \in Stores, cs \in SUBSET Codes : GenerateCodes(d, cs)
         \/ UNCHANGED providerVars
<1>1. CASE Environment
  BY <1>1 DEF Environment, GroupPaid, Announce, PaymentSideFails
<1>2. CASE DeliveryStep
  <2>1. CASE ChooseProvider \/ ChooseProviderFails \/ \E o \in OrderID : CancelOrder(o)
    BY <2>1 DEF ChooseProvider, ChooseProviderFails, CancelOrder
  <2>2. ASSUME NEW q \in Queues, WorkerStep(q) \/ WorkerFault(q)
        PROVE  Attempt(q) \/ UNCHANGED providerVars
    BY <2>2 DEF WorkerStep, WorkerFault, Attempt, Take, FindIssue,
                SaveIssueResponse, SaveIssueError, SwitchAddr, FinishOrder,
                TakeFails, WorkerFails
  <2> QED
    BY <1>2, <2>1, <2>2 DEF DeliveryStep, ProviderStep
<1>3. CASE Recovery \/ Crash \/ UNCHANGED vars
  BY <1>3 DEF Recovery, Crash, CrashDelivery, vars
<1> QED
  BY <1>1, <1>2, <1>3 DEF Next

(* Every step leaves them in order.                                         *)
LEMMA ServicesNext ==
  ASSUME TypeOK, [Next]_vars
  PROVE  ServicesKept
<1>1. UNCHANGED providerVars => ServicesKept
  BY DEF ServicesKept, providerVars, TypeOK
<1> QED
  BY <1>1, ServiceSteps, AttemptServices, ProviderServices DEF ProviderStep

-----------------------------------------------------------------------------
(* What those steps do to the rows.                                         *)

(* The event a goroutine takes is known, of its queue, and the order it     *)
(* goes on with has been moved on from paid.                                *)
LEMMA TakeEffect ==
  ASSUME IInv, NEW q \in Queues, Take(q)
  PROVE  LET e == Head(issueQueue[q])
         IN  /\ e \in KnownEvent /\ QueueOf[e.order[2]] = q /\ e.order \in OrderID
             /\ \/ /\ e.status \in ValidStatus
                   /\ orderStatus' = StartDelivering(e)
                   /\ orderStatus'[e.order] \in Tried
                   /\ worker' = [worker EXCEPT ![q] = [stage |-> "find", order |-> e.order]]
                \/ UNCHANGED <<orderStatus, worker>>
             /\ UNCHANGED <<orderCode, owner, payStatus, payEvent, deposits,
                            charges, refunds, issues>>
<1> DEFINE e == Head(issueQueue[q])
           Mine == {x \in KnownEvent : QueueOf[x.order[2]] = q}
<1>1. issueQueue[q] \in Seq(Mine) /\ issueQueue[q] # <<>>
  BY DEF IInv, EventsKnown, Take
<1>2. e \in Mine
  BY <1>1, HeadTailProperties
<1>3. /\ e.order \in OrderID /\ orderStatus \in [OrderID -> OrderStatus \cup {"absent"}]
      /\ orderStatus[e.order] # "absent"
      /\ e.status = "paid" \/ orderStatus[e.order] \in Tried
      /\ orderStatus[e.order] \notin {"created", "payment_failed"}
  BY <1>2 DEF KnownEvent, OrderEvent, IInv, TypeOK, StoreTypeOK, OrdersArePaid
<1>4. StartDelivering(e)[e.order] \in Tried
  <2>1. orderStatus[e.order] \in Tried \cup {"paid"}
    BY <1>3 DEF OrderStatus, Tried, Handled
  <2> QED
    BY <1>3, <2>1 DEF StartDelivering, UpdateStatus, Tried
<1>5. \/ /\ e.status \in ValidStatus
         /\ orderStatus' = StartDelivering(e)
         /\ worker' = [worker EXCEPT ![q] = [stage |-> "find", order |-> e.order]]
      \/ UNCHANGED <<orderStatus, worker>>
  BY DEF Take, Goto
<1>6. UNCHANGED <<orderCode, owner, payStatus, payEvent, deposits, charges, refunds, issues>>
  BY DEF Take
<1> QED
  BY <1>2, <1>3, <1>4, <1>5, <1>6

(* The transaction at the end: the order is delivered with the unused code  *)
(* of its row, or fails; it is charged either way.                          *)
Delivers(o, row) ==
  /\ row.status = "ok" /\ row.code \in Codes /\ ~ExistsByCode(row.code)
  /\ orderStatus' = [orderStatus EXCEPT ![o] = "delivered"]
  /\ orderCode' = [orderCode EXCEPT ![o] = row.code]
GivesUp(o) ==
  /\ \E failure \in Cancellable : orderStatus' = [orderStatus EXCEPT ![o] = failure]
  /\ orderCode' = orderCode

(* Either way the order had been tried, its payment is paid, and it is      *)
(* charged once.                                                            *)
LEMMA FinishEffect ==
  ASSUME IInv, NEW q \in Queues, FinishOrder(q)
  PROVE  LET r == worker[q].id
             o == r[1]
         IN  /\ r \in RequestID /\ o \in OrderID /\ r[2] \in DOMAIN issues[o]
             /\ orderStatus[o] \in Tried /\ payStatus[o[1]] = "paid"
             /\ deposits[o[1]] = 1
             /\ Delivers(o, issues[o][r[2]]) \/ GivesUp(o)
             /\ charges' = [charges EXCEPT ![o] = 1]
             /\ UNCHANGED <<owner, payStatus, payEvent, deposits, refunds, issues>>
             /\ worker' = [worker EXCEPT ![q] = Idle]
<1> DEFINE r == worker[q].id
           o == r[1]
           row == Row(r)
           new == StatusAndCode(row)
<1>1. worker[q].stage = "finish" /\ worker[q] \in Worker
  BY DEF FinishOrder, Stage, IInv, TypeOK
<1>2. r \in RequestID /\ o \in OrderID /\ o[1] \in Groups
  BY <1>1, WorkerFields, RequestFields
<1>3. r[2] \in DOMAIN issues[o]
  BY <1>1 DEF IInv, RequestsInHand, InHand
<1>4. row \in Issue /\ Coherent(row)
  BY <1>2, <1>3, RowType DEF IInv, TypeOK, RowsCoherent, Row
<1>5. orderStatus[o] \in Tried
  BY <1>1 DEF IInv, OrdersInHand, OrderOf
<1>6. payStatus[o[1]] = "paid" /\ deposits[o[1]] = 1
  BY <1>2, <1>5 DEF IInv, OrdersArePaid, PaymentPaid, Tried, Handled
<1>7. charges' = [charges EXCEPT ![o] = 1]
  <2>1. charges \in [OrderID -> Nat] /\ charges[o] \in {0, 1}
    BY <1>2 DEF IInv, MoneyOnce, TypeOK, StoreTypeOK
  <2>2. charges' = CreateOrIgnore(charges, o)
    BY DEF FinishOrder, ChargeAfter
  <2> QED
    BY <1>2, <2>1, <2>2 DEF CreateOrIgnore
<1>8. Delivers(o, row) \/ GivesUp(o)
  <2>1. UpdateByID(o, new)
    BY DEF FinishOrder
  <2>2. CASE row.code # NoCode /\ ExistsByCode(row.code)
    BY <2>1, <2>2 DEF StatusAndCode, UpdateByID, GivesUp, Cancellable
  <2>3. CASE row.code # NoCode /\ ~ExistsByCode(row.code)
    <3>1. row.status = "ok" /\ row.code \in Codes
      BY <1>4, <2>3 DEF Coherent, Issue
    <3>2. new = [status |-> "delivered", code |-> row.code]
      BY <2>3, <3>1 DEF StatusAndCode, StatusFromIssue
    <3> QED
      BY <2>1, <2>3, <3>1, <3>2 DEF UpdateByID, Delivers
  <2>4. CASE row.code = NoCode
    <3>1. row.status # "ok"
      BY <1>4, <2>4 DEF Coherent
    <3>2. StatusFromIssue(row) \in Cancellable
      BY <3>1 DEF StatusFromIssue, Cancellable
    <3>3. new = [status |-> StatusFromIssue(row), code |-> NoCode]
      BY <2>4 DEF StatusAndCode
    <3>4. /\ orderStatus' = [orderStatus EXCEPT ![o] = StatusFromIssue(row)]
          /\ orderCode' = orderCode
      BY <2>1, <3>3 DEF UpdateByID
    <3> QED
      BY <3>2, <3>4 DEF GivesUp
  <2> QED
    BY <2>2, <2>3, <2>4
<1>9. /\ UNCHANGED <<owner, payStatus, payEvent, deposits, refunds, issues>>
      /\ worker' = [worker EXCEPT ![q] = Idle]
  BY DEF FinishOrder, Goto
<1> QED
  BY <1>2, <1>3, <1>5, <1>6, <1>7, <1>8, <1>9 DEF Row

(* A cancellation refunds the charge.                                       *)
LEMMA CancelEffect ==
  ASSUME IInv, NEW o \in OrderID, CancelOrder(o)
  PROVE  /\ orderStatus[o] \in Cancellable /\ charges[o] = 1
         /\ orderStatus' = [orderStatus EXCEPT ![o] = "cancelled"]
         /\ refunds' = [refunds EXCEPT ![o] = 1]
         /\ UNCHANGED <<orderCode, owner, payStatus, payEvent, deposits, charges>>
<1>1. /\ refunds \in [OrderID -> Nat] /\ refunds[o] \in {0, 1}
      /\ orderStatus \in [OrderID -> OrderStatus \cup {"absent"}]
  BY DEF IInv, MoneyOnce, TypeOK, StoreTypeOK
<1>2. orderStatus[o] \in Cancellable /\ charges[o] = 1
  BY DEF CancelOrder, IInv, MoneyFollowsOrder, Cancellable, Handled
<1> QED
  BY <1>1, <1>2 DEF CancelOrder, UpdateStatus, CreateOrIgnore

(* A paid group has no orders before.                                       *)
LEMMA GroupPaidEffect ==
  ASSUME IInv, NEW g \in Groups, NEW u \in Users, NEW ps \in SUBSET Products,
         GroupPaid(g, u, ps)
  PROVE  /\ \A o \in OrderID : o[1] = g => orderStatus[o] = "absent"
         /\ orderStatus' = [o \in OrderID |-> IF o[1] = g /\ o[2] \in ps
                                              THEN "paid" ELSE orderStatus[o]]
         /\ payStatus' = [payStatus EXCEPT ![g] = "paid"]
         /\ owner' = [owner EXCEPT ![g] = u]
         /\ payEvent' \in [Groups -> EventID \cup {NoEvent}]
         /\ deposits' = [deposits EXCEPT ![g] = 1]
         /\ ps # {}
         /\ UNCHANGED <<orderCode, charges, refunds>>
  BY DEF GroupPaid, IInv, OrdersArePaid, PaymentPaid, TypeOK, StoreTypeOK, CreateOrIgnore

-----------------------------------------------------------------------------
(* The rows keep their types.                                               *)
RowsTypeOK ==
  /\ orderStatus \in [OrderID -> OrderStatus \cup {"absent"}]
  /\ orderCode \in [OrderID -> Codes \cup {NoCode}]
  /\ owner \in [Groups -> Users \cup {NoUser}]
  /\ payStatus \in [Groups -> PaymentStatus \cup {"absent"}]
  /\ payEvent \in [Groups -> EventID \cup {NoEvent}]
  /\ deposits \in [Groups -> Nat]
  /\ charges \in [OrderID -> Nat]
  /\ refunds \in [OrderID -> Nat]

(* Every step keeps the types of the rows.                                  *)
LEMMA RowsTypeNext ==
  ASSUME IInv, [Next]_vars
  PROVE  RowsTypeOK'
<1>0. RowsTypeOK
  BY DEF IInv, TypeOK, StoreTypeOK, RowsTypeOK
<1>1. CASE \E g \in Groups, u \in Users, ps \in SUBSET Products : GroupPaid(g, u, ps)
  BY <1>0, <1>1, GroupPaidEffect DEF RowsTypeOK, OrderStatus, PaymentStatus
<1>2. CASE \E q \in Queues : Take(q)
  <2>1. PICK q \in Queues : Take(q)
    BY <1>2
  <2> DEFINE e == Head(issueQueue[q])
  <2>2. orderStatus' = StartDelivering(e) \/ orderStatus' = orderStatus
    BY <2>1, TakeEffect
  <2>3. e.order \in OrderID
    BY <2>1, TakeEffect
  <2>4. orderStatus' \in [OrderID -> OrderStatus \cup {"absent"}]
    BY <1>0, <2>2, <2>3 DEF RowsTypeOK, StartDelivering, UpdateStatus, OrderStatus
  <2> QED
    BY <1>0, <2>1, <2>4, TakeEffect DEF RowsTypeOK
<1>3. CASE \E q \in Queues : FinishOrder(q)
  <2>1. PICK q \in Queues : FinishOrder(q)
    BY <1>3
  <2> DEFINE r == worker[q].id
             o == r[1]
  <2>2. /\ Delivers(o, issues[o][r[2]]) \/ GivesUp(o)
        /\ charges' = [charges EXCEPT ![o] = 1] /\ o \in OrderID
        /\ UNCHANGED <<owner, payStatus, payEvent, deposits, refunds>>
    BY <2>1, FinishEffect
  <2>3. /\ orderStatus' \in [OrderID -> OrderStatus \cup {"absent"}]
        /\ orderCode' \in [OrderID -> Codes \cup {NoCode}]
    BY <1>0, <2>2 DEF Delivers, GivesUp, RowsTypeOK, OrderStatus, Cancellable
  <2> QED
    BY <1>0, <2>2, <2>3 DEF RowsTypeOK
<1>4. CASE \E o \in OrderID : CancelOrder(o)
  BY <1>0, <1>4, CancelEffect DEF RowsTypeOK, OrderStatus
<1>5. CASE UNCHANGED rows
  BY <1>0, <1>5 DEF RowsTypeOK, rows
<1> QED
  BY <1>1, <1>2, <1>3, <1>4, <1>5, RowSteps

(* An order that exists goes on existing, one that has been tried stays so. *)
LEMMA OrdersStable ==
  ASSUME IInv, [Next]_vars, NEW o \in OrderID
  PROVE  /\ orderStatus[o] # "absent" => orderStatus'[o] # "absent"
         /\ orderStatus[o] \in Tried => orderStatus'[o] \in Tried
<1>0. orderStatus \in [OrderID -> OrderStatus \cup {"absent"}]
  BY DEF IInv, TypeOK, StoreTypeOK
<1> USE DEF Tried, Handled
<1>1. CASE \E g \in Groups, u \in Users, ps \in SUBSET Products : GroupPaid(g, u, ps)
  BY <1>0, <1>1, GroupPaidEffect
<1>2. CASE \E q \in Queues : Take(q)
  <2>1. PICK q \in Queues : Take(q)
    BY <1>2
  <2> DEFINE e == Head(issueQueue[q])
  <2>2. /\ orderStatus' = StartDelivering(e) \/ orderStatus' = orderStatus
        /\ e.order \in OrderID
    BY <2>1, TakeEffect
  <2> QED
    BY <1>0, <2>2 DEF StartDelivering, UpdateStatus
<1>3. CASE \E q \in Queues : FinishOrder(q)
  <2>1. PICK q \in Queues : FinishOrder(q)
    BY <1>3
  <2> DEFINE r == worker[q].id
             p == r[1]
  <2>2. Delivers(p, issues[p][r[2]]) \/ GivesUp(p)
    BY <2>1, FinishEffect
  <2> QED
    BY <1>0, <2>2 DEF Delivers, GivesUp, Cancellable
<1>4. CASE \E p \in OrderID : CancelOrder(p)
  BY <1>0, <1>4, CancelEffect
<1>5. CASE UNCHANGED rows
  BY <1>5 DEF rows
<1> QED
  BY <1>1, <1>2, <1>3, <1>4, <1>5, RowSteps

(* Orders appear only with their payment and its deposit.                   *)
LEMMA OrdersArePaidNext ==
  ASSUME IInv, [Next]_vars
  PROVE  OrdersArePaid'
<1>0. OrdersArePaid /\ RowsTypeOK
  BY DEF IInv, TypeOK, StoreTypeOK, RowsTypeOK
<1>a. \A o \in OrderID : o[1] \in Groups
  BY DEF OrderID
<1>1. CASE \E g \in Groups, u \in Users, ps \in SUBSET Products : GroupPaid(g, u, ps)
  <2>1. PICK g \in Groups, u \in Users, ps \in SUBSET Products : GroupPaid(g, u, ps)
    BY <1>1
  <2>2. /\ \A h \in Groups : payStatus'[h] = IF h = g THEN "paid" ELSE payStatus[h]
        /\ \A h \in Groups : deposits'[h] = IF h = g THEN 1 ELSE deposits[h]
        /\ \A o \in OrderID : orderStatus'[o] = IF o[1] = g /\ o[2] \in ps
                                                THEN "paid" ELSE orderStatus[o]
    BY <1>0, <2>1, GroupPaidEffect DEF RowsTypeOK
  <2> QED
    BY <1>0, <1>a, <2>2 DEF OrdersArePaid, PaymentPaid
<1>2. CASE \E q \in Queues : Take(q)
  <2>1. PICK q \in Queues : Take(q)
    BY <1>2
  <2> DEFINE e == Head(issueQueue[q])
  <2>2. /\ orderStatus' = StartDelivering(e) \/ orderStatus' = orderStatus
        /\ e.order \in OrderID /\ UNCHANGED <<payStatus, deposits>>
        /\ orderStatus[e.order] # "absent"
    BY <2>1, TakeEffect DEF KnownEvent
  <2>3. \A o \in OrderID : \/ orderStatus'[o] = orderStatus[o]
                           \/ /\ orderStatus[o] # "absent"
                              /\ orderStatus'[o] = "delivering"
    <3> HIDE DEF e
    <3> QED
      BY <1>0, <2>2 DEF StartDelivering, UpdateStatus, RowsTypeOK
  <2> QED
    BY <1>0, <2>2, <2>3 DEF OrdersArePaid, PaymentPaid
<1>3. CASE \E q \in Queues : FinishOrder(q)
  <2>1. PICK q \in Queues : FinishOrder(q)
    BY <1>3
  <2> DEFINE r == worker[q].id
             p == r[1]
  <2>2. /\ Delivers(p, issues[p][r[2]]) \/ GivesUp(p)
        /\ p \in OrderID /\ orderStatus[p] \in Tried
        /\ UNCHANGED <<payStatus, deposits>>
    BY <2>1, FinishEffect
  <2>3. \A o \in OrderID : \/ orderStatus'[o] = orderStatus[o]
                           \/ /\ orderStatus[o] # "absent"
                              /\ orderStatus'[o] \in Cancellable \cup {"delivered"}
    BY <1>0, <2>2 DEF Delivers, GivesUp, Tried, Handled, RowsTypeOK
  <2> QED
    BY <1>0, <2>2, <2>3 DEF OrdersArePaid, PaymentPaid, Cancellable
<1>4. CASE \E o \in OrderID : CancelOrder(o)
  BY <1>0, <1>4, CancelEffect DEF OrdersArePaid, PaymentPaid, RowsTypeOK, Cancellable
<1>5. CASE UNCHANGED rows
  BY <1>0, <1>5 DEF rows, OrdersArePaid, PaymentPaid
<1> QED
  BY <1>1, <1>2, <1>3, <1>4, <1>5, RowSteps

(* The balance rows follow the orders, and codes are not shared.            *)
LEMMA MoneyNext ==
  ASSUME IInv, [Next]_vars
  PROVE  MoneyOnce' /\ MoneyFollowsOrder'
<1>0. OrdersArePaid /\ RowsTypeOK /\ MoneyOnce /\ MoneyFollowsOrder
  BY DEF IInv, TypeOK, StoreTypeOK, RowsTypeOK
<1>a. \A o \in OrderID : o[1] \in Groups
  BY DEF OrderID
<1> USE DEF MoneyOnce, MoneyFollowsOrder, Handled
<1>1. CASE \E g \in Groups, u \in Users, ps \in SUBSET Products : GroupPaid(g, u, ps)
  <2>1. PICK g \in Groups, u \in Users, ps \in SUBSET Products : GroupPaid(g, u, ps)
    BY <1>1
  <2>2. /\ \A h \in Groups : deposits'[h] = IF h = g THEN 1 ELSE deposits[h]
        /\ UNCHANGED <<charges, refunds>>
    BY <1>0, <2>1, GroupPaidEffect DEF RowsTypeOK
  <2>3. \A o \in OrderID : \/ orderStatus'[o] = orderStatus[o]
                           \/ orderStatus'[o] = "paid" /\ o[1] = g
    BY <2>1, GroupPaidEffect
  <2>4. deposits[g] = 0
    BY <1>0, <2>1 DEF GroupPaid, OrdersArePaid, PaymentPaid
  <2> QED
    BY <1>0, <1>a, <2>2, <2>3, <2>4
<1>2. CASE \E q \in Queues : Take(q)
  <2>1. PICK q \in Queues : Take(q)
    BY <1>2
  <2> DEFINE e == Head(issueQueue[q])
  <2>2. /\ orderStatus' = StartDelivering(e) \/ orderStatus' = orderStatus
        /\ e.order \in OrderID /\ UNCHANGED <<deposits, charges, refunds>>
    BY <2>1, TakeEffect
  <2>3. \A o \in OrderID : orderStatus'[o] \in {"delivering", orderStatus[o]}
    BY <1>0, <2>2 DEF StartDelivering, UpdateStatus, RowsTypeOK
  <2> QED
    BY <1>0, <2>2, <2>3
<1>3. CASE \E q \in Queues : FinishOrder(q)
  <2>1. PICK q \in Queues : FinishOrder(q)
    BY <1>3
  <2> DEFINE r == worker[q].id
             p == r[1]
  <2>2. /\ Delivers(p, issues[p][r[2]]) \/ GivesUp(p)
        /\ p \in OrderID /\ deposits[p[1]] = 1
        /\ charges' = [charges EXCEPT ![p] = 1]
        /\ UNCHANGED <<deposits, refunds>>
    BY <2>1, FinishEffect
  <2>3. \A o \in OrderID : /\ o # p => orderStatus'[o] = orderStatus[o]
                           /\ orderStatus'[p] \in Cancellable \cup {"delivered"}
                           /\ charges'[o] = IF o = p THEN 1 ELSE charges[o]
    BY <1>0, <2>2 DEF Delivers, GivesUp, RowsTypeOK
  <2> HIDE DEF p
  <2> QED
    BY <1>0, <2>2, <2>3 DEF Cancellable
<1>4. CASE \E o \in OrderID : CancelOrder(o)
  <2>1. PICK p \in OrderID : CancelOrder(p)
    BY <1>4
  <2>2. /\ charges[p] = 1 /\ UNCHANGED <<deposits, charges>>
        /\ \A o \in OrderID : /\ refunds'[o] = IF o = p THEN 1 ELSE refunds[o]
                              /\ orderStatus'[o] = IF o = p THEN "cancelled" ELSE orderStatus[o]
    BY <1>0, <2>1, CancelEffect DEF RowsTypeOK
  <2> QED
    BY <1>0, <2>2
<1>5. CASE UNCHANGED rows
  BY <1>0, <1>5 DEF rows
<1> QED
  BY <1>1, <1>2, <1>3, <1>4, <1>5, RowSteps

(* Only an unused code is written into an order.                            *)
LEMMA NoSharedCodeNext ==
  ASSUME IInv, [Next]_vars
  PROVE  NoSharedCode'
<1>0. RowsTypeOK /\ NoSharedCode
  BY DEF IInv, TypeOK, StoreTypeOK, RowsTypeOK
<1>1. CASE UNCHANGED orderCode
  BY <1>0, <1>1 DEF NoSharedCode
<1>2. CASE \E q \in Queues : FinishOrder(q)
  <2>1. PICK q \in Queues : FinishOrder(q)
    BY <1>2
  <2> DEFINE p == worker[q].id[1]
             row == issues[p][worker[q].id[2]]
  <2>2. p \in OrderID /\ (Delivers(p, row) \/ GivesUp(p))
    BY <2>1, FinishEffect
  <2>3. CASE Delivers(p, row)
    <3>1. /\ \A o \in OrderID : orderCode[o] # row.code
          /\ \A o \in OrderID : orderCode'[o] = IF o = p THEN row.code ELSE orderCode[o]
      BY <1>0, <2>2, <2>3 DEF Delivers, ExistsByCode, RowsTypeOK
    <3> HIDE DEF p, row
    <3> QED
      BY <1>0, <3>1 DEF NoSharedCode
  <2> QED
    BY <1>1, <2>2, <2>3 DEF GivesUp
<1> QED
  BY <1>1, <1>2, RowSteps, TakeEffect, CancelEffect, GroupPaidEffect DEF rows

-----------------------------------------------------------------------------
(* Queues.  A known event stays known.                                      *)
LEMMA KnownStable ==
  ASSUME IInv, [Next]_vars
  PROVE  /\ KnownEvent \subseteq KnownEvent' /\ KnownEvent' \subseteq OrderEvent
         /\ ListedEvent \subseteq ListedEvent' /\ ListedEvent' \subseteq OrderEvent
         /\ \A q \in Queues : {e \in KnownEvent : QueueOf[e.order[2]] = q}
                                \subseteq {e \in KnownEvent : QueueOf[e.order[2]] = q}'
  BY OrdersStable DEF KnownEvent, ListedEvent, OrderEvent, OrderStatus

(* The snapshot of an order that exists is a known event.                   *)
LEMMA SnapshotKnown ==
  ASSUME IInv, NEW o \in OrderID, orderStatus[o] # "absent"
  PROVE  Snapshot(o) \in KnownEvent
<1>1. orderStatus[o] \in Tried \cup {"paid"}
  BY DEF IInv, TypeOK, StoreTypeOK, OrdersArePaid, OrderStatus, Tried, Handled
<1>2. Snapshot(o) \in OrderEvent
  BY SnapshotType DEF IInv, TypeOK, StoreTypeOK
<1> QED
  BY <1>1, <1>2 DEF KnownEvent, Snapshot, OrderEvent

(* Which steps change the queues of the delivery side.                      *)
LEMMA QueueSteps ==
  ASSUME [Next]_vars
  PROVE  \/ \E o \in OrderID : Announce(o)
         \/ ChooseProvider
         \/ ChooseProviderFails
         \/ \E q \in Queues : Take(q) \/ TakeFails(q)
         \/ Recovery
         \/ Crash
         \/ UNCHANGED <<initQueue, paidQueue, recovering, issueQueue>>
<1> USE DEF storeVars, deliveryVars
<1>1. CASE Environment
  BY <1>1 DEF Environment, GroupPaid, PaymentSideFails
<1>2. CASE DeliveryStep
  <2>1. CASE ProviderStep \/ \E o \in OrderID : CancelOrder(o)
    BY <2>1 DEF ProviderStep, LateIssue, GenerateCodes, CancelOrder
  <2>2. ASSUME NEW q \in Queues, WorkerStep(q) \/ WorkerFault(q)
        PROVE  \/ Take(q) \/ TakeFails(q)
               \/ UNCHANGED <<initQueue, paidQueue, recovering, issueQueue>>
    BY <2>2 DEF WorkerStep, WorkerFault, FindIssue, Answered, SaveIssueResponse,
                SaveIssueError, SwitchAddr, FinishOrder, WorkerFails, TestError,
                WronglyEmpty, BodyLost, NoResponse
  <2> QED
    BY <1>2, <2>1, <2>2 DEF DeliveryStep
<1>3. CASE UNCHANGED vars
  BY <1>3 DEF vars
<1> QED
  BY <1>1, <1>2, <1>3 DEF Next

(* ChooseProvider moves a known event to the queue of its product.          *)
LEMMA ChooseProviderQueues ==
  ASSUME EventsKnown, TypeOK, ChooseProvider
  PROVE  /\ paidQueue' \in Seq(KnownEvent)
         /\ issueQueue' \in [Queues -> Seq(OrderEvent)]
         /\ \A q \in Queues :
              issueQueue'[q] \in Seq({e \in KnownEvent : QueueOf[e.order[2]] = q})
<1> DEFINE h == Head(paidQueue)
           p == QueueOf[h.order[2]]
           Mine(q) == {e \in KnownEvent : QueueOf[e.order[2]] = q}
<1>1. h \in KnownEvent /\ paidQueue' \in Seq(KnownEvent)
  BY HeadTailProperties DEF ChooseProvider, EventsKnown
<1>2. h \in Mine(p) /\ h \in OrderEvent /\ p \in Queues
  <2>1. h \in KnownEvent /\ h \in OrderEvent
    BY <1>1 DEF KnownEvent
  <2>2. h.order[2] \in Products
    BY <2>1 DEF OrderEvent, OrderID
  <2> QED
    BY <2>1, <2>2, DeliveryAssumption
<1>3. issueQueue' = [issueQueue EXCEPT ![p] = Append(@, h)]
  BY DEF ChooseProvider
<1>4. /\ issueQueue \in [Queues -> Seq(OrderEvent)]
      /\ \A q \in Queues : issueQueue[q] \in Seq(Mine(q))
  BY DEF TypeOK, EventsKnown
<1>5. Append(issueQueue[p], h) \in Seq(Mine(p)) /\ Append(issueQueue[p], h) \in Seq(OrderEvent)
  BY <1>2, <1>4, AppendProperties
<1> HIDE DEF h, p, Mine
<1>6. /\ issueQueue' \in [Queues -> Seq(OrderEvent)]
      /\ \A q \in Queues : issueQueue'[q] \in Seq(Mine(q))
  BY <1>2, <1>3, <1>4, <1>5
<1> QED
  BY <1>1, <1>6 DEF Mine

(* Taking an event leaves the rest of its queue.                            *)
LEMMA TakeQueues ==
  ASSUME EventsKnown, TypeOK, NEW q \in Queues, Take(q) \/ TakeFails(q)
  PROVE  /\ issueQueue' \in [Queues -> Seq(OrderEvent)]
         /\ \A p \in Queues :
              issueQueue'[p] \in Seq({e \in KnownEvent : QueueOf[e.order[2]] = p})
<1> DEFINE Mine(p) == {e \in KnownEvent : QueueOf[e.order[2]] = p}
<1>1. issueQueue' = [issueQueue EXCEPT ![q] = Tail(@)] /\ issueQueue[q] # <<>>
  BY DEF Take, TakeFails
<1>2. /\ issueQueue \in [Queues -> Seq(OrderEvent)]
      /\ \A p \in Queues : issueQueue[p] \in Seq(Mine(p))
  BY DEF TypeOK, EventsKnown
<1>3. Tail(issueQueue[q]) \in Seq(Mine(q)) /\ Tail(issueQueue[q]) \in Seq(OrderEvent)
  BY <1>1, <1>2, HeadTailProperties
<1> HIDE DEF Mine
<1>4. /\ issueQueue' \in [Queues -> Seq(OrderEvent)]
      /\ \A p \in Queues : issueQueue'[p] \in Seq(Mine(p))
  BY <1>1, <1>2, <1>3
<1> QED
  BY <1>4 DEF Mine

(* What a recovery request lists is known, or waits for its payment.        *)
LEMMA ListedRows ==
  ASSUME IInv, NEW h \in Recoveries, ListForRecovery(h)
  PROVE  recovering' \in [Recoveries -> Seq(ListedEvent)]
<1>0. PICK S \in SUBSET (Recoverable \cup Unseen) :
        \E f \in SetToSeqs({ListedRow(o) : o \in S}) :
          recovering' = [recovering EXCEPT ![h] = f]
  BY DEF ListForRecovery
<1>1. PICK listing \in SetToSeqs({ListedRow(o) : o \in S}) :
        recovering' = [recovering EXCEPT ![h] = listing]
  BY <1>0
<1> DEFINE T == {ListedRow(o) : o \in S}
           listed == [o \in S |-> ListedRow(o)]
<1>2. S \in SUBSET OrderID
  BY DEF Recoverable, Unseen
<1>3. T \subseteq ListedEvent
  <2>1. ASSUME NEW o \in S PROVE ListedRow(o) \in ListedEvent
    <3>1. CASE o \in Unseen
      BY <1>2, <3>1 DEF ListedRow, ListedEvent
    <3>2. CASE o \notin Unseen
      BY <1>2, <3>2, SnapshotKnown DEF ListedRow, ListedEvent, Unseen, Snapshot
    <3> QED
      BY <3>1, <3>2
  <2> QED
    BY <2>1
<1>4. listed \in Surjection(S, T)
  BY DEF Surjection
<1> HIDE DEF T, listed
<1>5. listing \in Seq(T)
  BY <1>1, <1>2, <1>4, RowsInSomeOrder DEF T
<1>6. listing \in Seq(ListedEvent)
  BY <1>3, <1>5, SeqMonotonic
<1> QED
  BY <1>1, <1>6 DEF IInv, EventsKnown

(* A recovery request publishes those of the listed orders that are known.  *)
LEMMA RecoveryQueues ==
  ASSUME IInv, Recovery
  PROVE  /\ paidQueue' \in Seq(KnownEvent)
         /\ recovering' \in [Recoveries -> Seq(ListedEvent)]
         /\ UNCHANGED <<initQueue, issueQueue>>
<1>0. paidQueue \in Seq(KnownEvent) /\ recovering \in [Recoveries -> Seq(ListedEvent)]
  BY DEF IInv, EventsKnown
<1> PICK h \in Recoveries : ListForRecovery(h) \/ RecoverOrder(h)
  BY DEF Recovery
<1>1. CASE ListForRecovery(h)
  BY <1>0, <1>1, ListedRows DEF ListForRecovery, Recovery, deliveryVars
<1>2. CASE RecoverOrder(h)
  <2> DEFINE e == Head(recovering[h])
  <2>1. e \in ListedEvent /\ Tail(recovering[h]) \in Seq(ListedEvent)
    BY <1>0, <1>2, HeadTailProperties DEF RecoverOrder
  <2>2. e.status \in RecoveredStatus => e \in KnownEvent
    BY <2>1 DEF ListedEvent, RecoveredStatus
  <2>3. paidQueue' \in Seq(KnownEvent)
    BY <1>0, <1>2, <2>2, AppendProperties DEF RecoverOrder
  <2> QED
    BY <1>0, <1>2, <2>1, <2>3
       DEF RecoverOrder, InitRecoverable, PaymentPaid, Recovery, deliveryVars
<1> QED
  BY <1>1, <1>2

(* Every step leaves known events in the queues, and nothing is ever        *)
(* published to payments:init.                                              *)
LEMMA QueuesNext ==
  ASSUME IInv, [Next]_vars
  PROVE  /\ paidQueue' \in Seq(KnownEvent)
         /\ recovering' \in [Recoveries -> Seq(ListedEvent)]
         /\ issueQueue' \in [Queues -> Seq(OrderEvent)]
         /\ \A q \in Queues :
              issueQueue'[q] \in Seq({e \in KnownEvent : QueueOf[e.order[2]] = q})
         /\ initQueue' \in {initQueue, <<>>}
<1>0. EventsKnown /\ TypeOK
  BY DEF IInv
<1>1. CASE \E o \in OrderID : Announce(o)
  <2>1. PICK o \in OrderID : Announce(o)
    BY <1>1
  <2>2. [order |-> o, status |-> "paid"] \in KnownEvent
    BY <2>1 DEF Announce, KnownEvent, OrderEvent, OrderStatus
  <2>3. paidQueue' \in Seq(KnownEvent)
    BY <1>0, <2>1, <2>2, AppendProperties DEF Announce, EventsKnown
  <2> QED
    BY <1>0, <2>1, <2>3 DEF Announce, EventsKnown, TypeOK, deliveryVars
<1>2. CASE ChooseProvider
  BY <1>0, <1>2, ChooseProviderQueues DEF ChooseProvider, EventsKnown
<1>3. CASE ChooseProviderFails
  BY <1>0, <1>3, HeadTailProperties
     DEF ChooseProviderFails, EventsKnown, TypeOK, deliveryVars
<1>4. CASE \E q \in Queues : Take(q) \/ TakeFails(q)
  BY <1>0, <1>4, TakeQueues DEF Take, TakeFails, EventsKnown
<1>5. CASE Recovery
  BY <1>0, <1>5, RecoveryQueues DEF EventsKnown, TypeOK
<1>6. CASE Crash
  BY <1>6, EmptySeq DEF Crash, CrashStore, CrashDelivery
<1>7. CASE UNCHANGED <<initQueue, paidQueue, recovering, issueQueue>>
  BY <1>0, <1>7 DEF EventsKnown, TypeOK
<1> QED
  BY <1>1, <1>2, <1>3, <1>4, <1>5, <1>6, <1>7, QueueSteps

(* So events stay known.                                                    *)
LEMMA EventsKnownNext ==
  ASSUME IInv, [Next]_vars
  PROVE  EventsKnown'
<1>1. /\ paidQueue' \in Seq(KnownEvent')
      /\ recovering' \in [Recoveries -> Seq(ListedEvent')]
  BY QueuesNext, KnownStable, SeqMonotonic
<1>2. ASSUME NEW q \in Queues
      PROVE  issueQueue'[q] \in Seq({e \in KnownEvent : QueueOf[e.order[2]] = q}')
  BY QueuesNext, KnownStable, SeqMonotonic
<1> QED
  BY <1>1, <1>2 DEF EventsKnown

-----------------------------------------------------------------------------
(* Goroutines and issue rows.                                               *)

(* What a goroutine has in hand stays so while its row does: the services   *)
(* take nothing back.                                                       *)
LEMMA InHandKept ==
  ASSUME IInv, ServicesKept, NEW p \in Queues, worker'[p] = worker[p],
         LET r == worker[p].id
         IN  worker[p].stage \notin {"idle", "find"} =>
               /\ r[2] \in DOMAIN issues'[r[1]]
               /\ issues'[r[1]][r[2]] = issues[r[1]][r[2]]
  PROVE  InHand(p)'
<1> DEFINE w == worker[p]
           r == w.id
<1>1. InHand(p) /\ w \in Worker
  BY DEF IInv, RequestsInHand, TypeOK
<1> SUFFICES ASSUME w.stage \notin {"idle", "find"}
             PROVE  InHand(p)'
  BY DEF InHand
<1>2. r \in RequestID /\ Row(r) \in Issue
  BY <1>1, WorkerFields, RowType DEF InHand, IInv, TypeOK
<1>3. Row(r).addr \in Addrs /\ StoreOf[Row(r).addr] \in Stores
  BY <1>2, DeliveryAssumption DEF Issue
<1>4. \A c : Given(Row(r).addr, r, c) => GivenNext(Row(r).addr, r, c)
  BY <1>3 DEF Given, GivenNext, ServicesKept
<1>5. /\ w' = w /\ Row(w.id)' = Row(r)
      /\ Given(Row(w.id).addr, w.id, w.answer.code)'
           <=> GivenNext(Row(r).addr, r, w.answer.code)
  BY DEF Row, Given, GivenNext
<1> QED
  BY <1>1, <1>4, <1>5 DEF InHand

(* The goroutines of other queues work on other orders.                     *)
LEMMA OthersElsewhere ==
  ASSUME IInv, NEW p \in Queues, NEW q \in Queues, p # q,
         worker[p].stage # "idle", worker[q].stage # "idle"
  PROVE  OrderOf(worker[p]) # OrderOf(worker[q])
  BY DEF IInv, OrdersInHand

(* An attempt.                                                              *)
LEMMA WorkAttempt ==
  ASSUME IInv, NEW q \in Queues, Attempt(q)
  PROVE  worker' \in [Queues -> Worker] /\ issues' = issues /\ RequestsInHand'
<1> DEFINE w == worker[q]
           r == w.id
<1>0. TypeOK /\ InHand(q) /\ w.stage = "call" /\ issues' = issues /\ ServicesKept
  BY AttemptFrame, AttemptServices DEF IInv, RequestsInHand
<1>1. PICK new \in Worker :
        /\ worker' = [worker EXCEPT ![q] = new]
        /\ new.stage \in {"call", "save", "fail"} /\ new.id = r
        /\ new.stage = "call" => new.addr = w.addr
        /\ new.stage = "save" /\ new.answer.code # NoCode =>
             GivenNext(w.addr, r, new.answer.code)
        /\ HoldsRow(q, new)
  BY <1>0, AttemptEffect DEF AsksOn
<1>2. worker' \in [Queues -> Worker] /\ worker'[q] = new
  BY <1>0, <1>1 DEF TypeOK
<1>3. ASSUME NEW p \in Queues, p # q PROVE InHand(p)'
  <2>1. worker'[p] = worker[p]
    BY <1>0, <1>1, <1>3 DEF TypeOK
  <2>2. InHand(p)
    BY DEF IInv, RequestsInHand
  <2> QED
    BY <1>0, <2>1, <2>2, InHandKept DEF InHand
<1>4. InHand(q)'
  <2>1. /\ r[2] \in DOMAIN issues[r[1]] /\ Row(r).responseCode \in {0, 500}
        /\ w.addr = Row(r).addr
    BY <1>0 DEF InHand
  <2>2. /\ w' = new /\ Row(w.id)' = Row(r)
        /\ Given(Row(w.id).addr, w.id, w.answer.code)'
             <=> GivenNext(Row(r).addr, r, new.answer.code)
    BY <1>0, <1>1, <1>2 DEF Row, Given, GivenNext
  <2>3. r[2] \in DOMAIN issues'[r[1]]
    BY <1>0, <2>1
  <2> QED
    BY <1>1, <2>1, <2>2, <2>3 DEF InHand, HoldsRow
<1> QED
  BY <1>0, <1>2, <1>3, <1>4 DEF RequestsInHand

(* A row is written.                                                        *)
LEMMA WorkWriteRow ==
  ASSUME IInv, ServicesKept, UNCHANGED grants, NEW q \in Queues, WriteRow(q)
  PROVE  /\ worker' \in [Queues -> Worker] /\ issues' \in [OrderID -> Seq(Issue)]
         /\ RowsCoherent' /\ OnlyLastOpen' /\ RequestsInHand'
         /\ CodeFromRecordedAddress'
<1> DEFINE w == worker[q]
           r == w.id
<1>0. /\ TypeOK /\ RowsCoherent /\ RequestsInHand /\ OnlyLastOpen
      /\ CodeFromRecordedAddress
  BY DEF IInv
<1>1. /\ w.stage \in {"save", "fail", "switch"} /\ r \in RequestID
      /\ r[2] \in DOMAIN issues[r[1]]
  BY <1>0, RowInHand
<1>2. PICK row \in Issue, new \in Worker : Writes(q, row, new)
  BY <1>0, WriteRowEffect
<1>3. SaveRow(r, row) /\ worker' = [worker EXCEPT ![q] = new]
  BY <1>2 DEF Writes
<1>4. /\ issues' \in [OrderID -> Seq(Issue)]
      /\ \A o \in OrderID : Len(issues'[o]) = Len(issues[o])
      /\ \A o \in OrderID : DOMAIN issues'[o] = DOMAIN issues[o]
      /\ \A o \in OrderID : \A i \in DOMAIN issues[o] :
           issues'[o][i] = IF o = r[1] /\ i = r[2] THEN row ELSE issues[o][i]
  BY <1>0, <1>1, <1>3, SaveRowEffect DEF TypeOK
<1>5. worker' \in [Queues -> Worker] /\ worker'[q] = new
  BY <1>0, <1>3 DEF TypeOK
<1>6. RowsCoherent'
  BY <1>0, <1>2, <1>4 DEF RowsCoherent, Writes
<1>7. OnlyLastOpen'
  <2> SUFFICES ASSUME NEW o \in OrderID, NEW i \in DOMAIN issues[o],
                      issues'[o][i].responseCode = 0
               PROVE  i = Len(issues[o])
    BY <1>4 DEF OnlyLastOpen
  <2>1. issues[o][i].responseCode = 0
    BY <1>2, <1>4 DEF Writes, Row
  <2> QED
    BY <1>0, <2>1 DEF OnlyLastOpen
<1>8. RequestsInHand'
  <2>1. ASSUME NEW p \in Queues, p # q PROVE InHand(p)'
    <3> DEFINE x == worker[p].id
    <3>1. worker'[p] = worker[p]
      BY <1>0, <1>3, <2>1 DEF TypeOK
    <3>2. worker[p].stage \notin {"idle", "find"} =>
            x[1] # r[1] /\ x[1] \in OrderID /\ x[2] \in DOMAIN issues[x[1]]
      BY <1>0, <1>1, <2>1, OthersElsewhere, WorkerFields, RequestFields
         DEF OrderOf, TypeOK, RequestsInHand, InHand
    <3>3. worker[p].stage \notin {"idle", "find"} =>
            /\ x[2] \in DOMAIN issues'[x[1]]
            /\ issues'[x[1]][x[2]] = issues[x[1]][x[2]]
      BY <1>4, <3>2
    <3> QED
      BY <3>1, <3>3, InHandKept
  <2>2. InHand(q)'
    <3>1. r[2] \in DOMAIN issues'[r[1]] /\ issues'[r[1]][r[2]] = row
      BY <1>1, <1>4, RequestFields
    <3> QED
      BY <1>2, <1>5, <3>1 DEF InHand, Writes, HoldsRow, Row
  <2> QED
    BY <2>1, <2>2 DEF RequestsInHand
<1>9. CodeFromRecordedAddress'
  <2> SUFFICES ASSUME NEW x \in RequestID, x[2] \in DOMAIN issues'[x[1]],
                      issues'[x[1]][x[2]].code # NoCode
               PROVE  Given(issues'[x[1]][x[2]].addr, x, issues'[x[1]][x[2]].code)
    BY DEF CodeFromRecordedAddress, Row, Given
  <2>0. x[1] \in OrderID /\ x[2] \in DOMAIN issues[x[1]]
    BY <1>4, RequestFields
  <2>1. CASE x[1] = r[1] /\ x[2] = r[2]
    <3>1. x = r /\ issues'[x[1]][x[2]] = row
      BY <1>1, <1>4, <2>0, <2>1, RequestEqual
    <3> QED
      BY <1>2, <3>1 DEF Writes
  <2>2. CASE ~(x[1] = r[1] /\ x[2] = r[2])
    <3>1. issues'[x[1]][x[2]] = Row(x)
      BY <1>4, <2>0, <2>2 DEF Row
    <3> QED
      BY <1>0, <2>0, <3>1 DEF CodeFromRecordedAddress
  <2> QED
    BY <2>1, <2>2
<1> QED
  BY <1>4, <1>5, <1>6, <1>7, <1>8, <1>9

(* The record of a goroutine that starts a request is well-typed.           *)
LEMMA CallType ==
  ASSUME NEW r \in RequestID, NEW a \in Addrs, NEW hop \in {1, 2}
  PROVE  /\ Call(r, a, hop) \in Worker /\ Call(r, a, hop).stage = "call"
         /\ Call(r, a, hop).id = r /\ Call(r, a, hop).addr = a
  BY DeliveryAssumption DEF Call, Worker

(* A new row is well-typed and coherent.                                    *)
LEMMA NewIssueType ==
  ASSUME NEW q \in Queues
  PROVE  /\ NewIssue(q) \in Issue /\ Coherent(NewIssue(q))
         /\ NewIssue(q).responseCode = 0 /\ NewIssue(q).addr = MainAddr[q]
         /\ NewIssue(q).code = NoCode
  BY DeliveryAssumption DEF NewIssue, Issue, Coherent

(* An unanswered request is found.                                          *)
LEMMA WorkFindOpen ==
  ASSUME IInv, ServicesKept, NEW q \in Queues, FindIssue(q), UNCHANGED issues
  PROVE  worker' \in [Queues -> Worker] /\ RequestsInHand'
<1> DEFINE o == worker[q].order
<1>0. TypeOK /\ RowsCoherent /\ OnlyLastOpen /\ RequestsInHand
  BY DEF IInv
<1>1. o \in OrderID /\ issues[o] \in Seq(Issue) /\ Len(issues[o]) \in Nat
  BY <1>0, FindIssueEffect, LenProperties DEF TypeOK
<1>2. PICK i \in DOMAIN issues[o] :
        /\ issues[o][i].responseCode = 0
        /\ worker' = [worker EXCEPT ![q] = Call(<<o, i>>, issues[o][i].addr, 1)]
  <2>1. CASE issues' = [issues EXCEPT ![o] = Append(@, NewIssue(q))]
    <3>1. Len(issues'[o]) = Len(issues[o]) + 1
      BY <1>0, <1>1, <2>1, NewIssueType, AppendRowEffect DEF TypeOK
    <3> QED
      BY <1>1, <3>1
  <2> QED
    BY <1>0, <2>1, FindIssueEffect
<1>3. /\ <<o, i>> \in RequestID /\ issues[o][i] \in Issue
  BY <1>0, <1>1, <1>2, RowsAreRequests, RowType DEF TypeOK
<1> DEFINE new == Call(<<o, i>>, issues[o][i].addr, 1)
<1>4. /\ new \in Worker /\ new.stage = "call" /\ new.id = <<o, i>>
      /\ new.addr = issues[o][i].addr
  BY <1>3, CallType DEF Issue
<1> HIDE DEF new
<1>5. worker' \in [Queues -> Worker] /\ worker'[q] = new
  BY <1>0, <1>2, <1>4 DEF TypeOK, new
<1>6. ASSUME NEW p \in Queues, p # q PROVE InHand(p)'
  <2>1. worker'[p] = worker[p]
    BY <1>0, <1>2, <1>6 DEF TypeOK
  <2> QED
    BY <1>0, <2>1, InHandKept DEF RequestsInHand, InHand
<1>7. InHand(q)'
  <2> DEFINE row == issues'[o][i]
  <2>1. i \in DOMAIN issues'[o] /\ row.responseCode = 0 /\ new.addr = row.addr
    BY <1>2, <1>4
  <2> HIDE DEF row
  <2>2. Row(worker[q].id)' = row
    BY <1>4, <1>5 DEF Row, row
  <2> QED
    BY <1>4, <1>5, <2>1, <2>2 DEF InHand
<1> QED
  BY <1>5, <1>6, <1>7 DEF RequestsInHand

(* A request is made: all rows of the order have their response.            *)
LEMMA WorkFindNew ==
  ASSUME IInv, ServicesKept, UNCHANGED grants, NEW q \in Queues, FindIssue(q),
         ~UNCHANGED issues
  PROVE  /\ worker' \in [Queues -> Worker] /\ issues' \in [OrderID -> Seq(Issue)]
         /\ RowsCoherent' /\ OnlyLastOpen' /\ RequestsInHand'
         /\ CodeFromRecordedAddress'
<1> DEFINE o == worker[q].order
           row == NewIssue(q)
           n == Len(issues[o]) + 1
           new == Call(<<o, n>>, MainAddr[q], 1)
<1>0. /\ TypeOK /\ RowsCoherent /\ OnlyLastOpen /\ RequestsInHand
      /\ CodeFromRecordedAddress
  BY DEF IInv
<1>1. /\ o \in OrderID
      /\ \A i \in DOMAIN issues[o] : issues[o][i].responseCode # 0
      /\ n - 1 < MaxIssues
      /\ issues' = [issues EXCEPT ![o] = Append(@, row)]
      /\ worker' = [worker EXCEPT ![q] = new]
  <2>1. issues[worker[q].order] \in Seq(Issue)
    BY <1>0, FindIssueEffect DEF TypeOK
  <2>2. n - 1 = Len(issues[o])
    BY <2>1, LenProperties
  <2> QED
    BY <1>0, <2>2, FindIssueEffect
<1>2. /\ issues[o] \in Seq(Issue) /\ DOMAIN issues[o] = 1..(n - 1)
      /\ n \in Nat \ {0} /\ n \in 1..MaxIssues
  <2>1. issues[o] \in Seq(Issue) /\ Len(issues[o]) \in Nat
        /\ DOMAIN issues[o] = 1..Len(issues[o])
    BY <1>0, <1>1, LenProperties DEF TypeOK
  <2>2. MaxIssues \in Nat
    BY DeliveryAssumption
  <2> QED
    BY <1>1, <2>1, <2>2
<1>3. /\ row \in Issue /\ Coherent(row) /\ row.responseCode = 0
      /\ row.addr = MainAddr[q] /\ row.code = NoCode
  BY NewIssueType
<1>4. <<o, n>> \in RequestID /\ MainAddr[q] \in Addrs
  BY <1>1, <1>2, DeliveryAssumption DEF RequestID
<1>5. /\ new \in Worker /\ new.stage = "call" /\ new.id = <<o, n>>
      /\ new.addr = MainAddr[q]
  BY <1>4, CallType
<1> HIDE DEF row, new
<1>6. /\ issues' \in [OrderID -> Seq(Issue)]
      /\ \A p \in OrderID : p # o => issues'[p] = issues[p]
      /\ Len(issues'[o]) = n /\ issues'[o][n] = row /\ DOMAIN issues'[o] = 1..n
      /\ \A i \in 1..(n - 1) : issues'[o][i] = issues[o][i]
  BY <1>0, <1>1, <1>2, <1>3, AppendRowEffect DEF TypeOK
<1>7. worker' \in [Queues -> Worker] /\ worker'[q] = new
  BY <1>0, <1>1, <1>5 DEF TypeOK
<1> HIDE DEF n
<1>8. RowsCoherent'
  <2> SUFFICES ASSUME NEW p \in OrderID
               PROVE  /\ Len(issues'[p]) <= MaxIssues
                      /\ \A i \in DOMAIN issues'[p] : Coherent(issues'[p][i])
    BY DEF RowsCoherent
  <2>1. CASE p = o
    <3>1. \A i \in 1..(n - 1) : Coherent(issues[o][i])
      BY <1>0, <1>1, <1>2 DEF RowsCoherent
    <3>2. \A i \in 1..n : i = n \/ i \in 1..(n - 1)
      BY <1>2
    <3> QED
      BY <1>2, <1>3, <1>6, <2>1, <3>1, <3>2
  <2>2. CASE p # o
    BY <1>0, <1>6, <2>2 DEF RowsCoherent
  <2> QED
    BY <2>1, <2>2
<1>9. OnlyLastOpen'
  <2> SUFFICES ASSUME NEW p \in OrderID, NEW i \in DOMAIN issues'[p],
                      issues'[p][i].responseCode = 0
               PROVE  i = Len(issues'[p])
    BY DEF OnlyLastOpen
  <2>1. CASE p = o
    <3>1. i = n \/ i \in 1..(n - 1)
      BY <1>2, <1>6, <2>1
    <3>2. i \notin 1..(n - 1)
      BY <1>1, <1>2, <1>6, <2>1
    <3> QED
      BY <1>6, <2>1, <3>1, <3>2
  <2>2. CASE p # o
    BY <1>0, <1>6, <2>2 DEF OnlyLastOpen
  <2> QED
    BY <2>1, <2>2
<1>10. RequestsInHand'
  <2>1. ASSUME NEW p \in Queues, p # q PROVE InHand(p)'
    <3> DEFINE x == worker[p].id
    <3>1. worker'[p] = worker[p]
      BY <1>0, <1>1, <2>1 DEF TypeOK
    <3>2. worker[p].stage \notin {"idle", "find"} =>
            x[1] # o /\ x[1] \in OrderID /\ x[2] \in DOMAIN issues[x[1]]
      <4>1. worker[q].stage = "find"
        BY DEF FindIssue, Stage
      <4> QED
        BY <1>0, <2>1, <4>1, OthersElsewhere, WorkerFields, RequestFields
           DEF OrderOf, TypeOK, RequestsInHand, InHand
    <3>3. worker[p].stage \notin {"idle", "find"} =>
            /\ x[2] \in DOMAIN issues'[x[1]]
            /\ issues'[x[1]][x[2]] = issues[x[1]][x[2]]
      BY <1>6, <3>2
    <3> QED
      BY <3>1, <3>3, InHandKept
  <2>2. InHand(q)'
    <3>1. n \in DOMAIN issues'[o] /\ issues'[o][n] = row
      BY <1>2, <1>6
    <3> QED
      BY <1>3, <1>5, <1>7, <3>1 DEF InHand, Row
  <2> QED
    BY <2>1, <2>2 DEF RequestsInHand
<1>11. CodeFromRecordedAddress'
  <2> SUFFICES ASSUME NEW x \in RequestID, x[2] \in DOMAIN issues'[x[1]],
                      issues'[x[1]][x[2]].code # NoCode
               PROVE  Given(issues'[x[1]][x[2]].addr, x, issues'[x[1]][x[2]].code)
    BY DEF CodeFromRecordedAddress, Row, Given
  <2>1. x[1] \in OrderID
    BY RequestFields
  <2>2. x[2] \in DOMAIN issues[x[1]] /\ issues'[x[1]][x[2]] = Row(x)
    <3>1. CASE x[1] = o
      <4>1. x[2] # n
        BY <1>3, <1>6, <3>1
      <4>2. x[2] \in 1..(n - 1)
        BY <1>2, <1>6, <3>1, <4>1
      <4> QED
        BY <1>2, <1>6, <3>1, <4>2 DEF Row
    <3>2. CASE x[1] # o
      BY <1>6, <2>1, <3>2 DEF Row
    <3> QED
      BY <3>1, <3>2
  <2> QED
    BY <1>0, <2>2 DEF CodeFromRecordedAddress
<1> QED
  BY <1>6, <1>7, <1>8, <1>9, <1>10, <1>11

(* Steps that leave the issue rows and what is in hand alone, or drop it.   *)
LEMMA WorkRest ==
  ASSUME IInv, ServicesKept, UNCHANGED issues, worker' \in [Queues -> Worker],
         \A p \in Queues : worker'[p] = worker[p] \/ worker'[p].stage \in {"idle", "find"}
  PROVE  /\ RowsCoherent' /\ OnlyLastOpen' /\ RequestsInHand'
         /\ CodeFromRecordedAddress'
<1>1. RowsCoherent' /\ OnlyLastOpen'
  BY DEF IInv, RowsCoherent, OnlyLastOpen
<1>2. ASSUME NEW p \in Queues PROVE InHand(p)'
  <2>1. CASE worker'[p] = worker[p]
    BY <2>1, InHandKept DEF IInv, RequestsInHand, InHand
  <2>2. CASE worker'[p].stage \in {"idle", "find"}
    BY <2>2 DEF InHand
  <2> QED
    BY <2>1, <2>2
<1>3. CodeFromRecordedAddress'
  <2> SUFFICES ASSUME NEW x \in RequestID, x[2] \in DOMAIN issues[x[1]],
                      Row(x).code # NoCode
               PROVE  GivenNext(Row(x).addr, x, Row(x).code)
    BY DEF CodeFromRecordedAddress, Row, Given, GivenNext
  <2>1. Given(Row(x).addr, x, Row(x).code)
    BY DEF IInv, CodeFromRecordedAddress
  <2>2. StoreOf[Row(x).addr] \in Stores
    <3>1. Row(x) \in Issue
      BY RowType DEF IInv, TypeOK
    <3> QED
      BY <3>1, DeliveryAssumption DEF Issue
  <2> QED
    BY <2>1, <2>2 DEF Given, GivenNext, ServicesKept
<1> QED
  BY <1>1, <1>2, <1>3 DEF RequestsInHand

(* Every step keeps goroutines and rows in order.                           *)
LEMMA WorkNext ==
  ASSUME IInv, [Next]_vars
  PROVE  /\ worker' \in [Queues -> Worker] /\ issues' \in [OrderID -> Seq(Issue)]
         /\ RowsCoherent' /\ OnlyLastOpen' /\ RequestsInHand'
         /\ CodeFromRecordedAddress'
<1>0. ServicesKept /\ TypeOK
  BY ServicesNext DEF IInv
<1>1. CASE \E q \in Queues : Attempt(q)
  <2>1. PICK q \in Queues : Attempt(q)
    BY <1>1
  <2>2. worker' \in [Queues -> Worker] /\ issues' = issues /\ RequestsInHand'
    BY <2>1, WorkAttempt
  <2>3. RowsCoherent' /\ OnlyLastOpen'
    BY <2>2 DEF IInv, RowsCoherent, OnlyLastOpen
  <2>4. CodeFromRecordedAddress'
    <3> SUFFICES ASSUME NEW x \in RequestID, x[2] \in DOMAIN issues[x[1]],
                        Row(x).code # NoCode
                 PROVE  GivenNext(Row(x).addr, x, Row(x).code)
      BY <2>2 DEF CodeFromRecordedAddress, Row, Given, GivenNext
    <3>1. Given(Row(x).addr, x, Row(x).code)
      BY DEF IInv, CodeFromRecordedAddress
    <3>2. StoreOf[Row(x).addr] \in Stores
      <4>1. Row(x) \in Issue
        BY RowType DEF IInv, TypeOK
      <4> QED
        BY <4>1, DeliveryAssumption DEF Issue
    <3> QED
      BY <1>0, <3>1, <3>2 DEF Given, GivenNext, ServicesKept
  <2> QED
    BY <1>0, <2>2, <2>3, <2>4 DEF TypeOK
<1>2. CASE \E q \in Queues : WriteRow(q)
  <2>1. UNCHANGED grants
    BY <1>2 DEF WriteRow, SaveIssueResponse, SaveIssueError, SwitchAddr, providerVars
  <2> QED
    BY <1>0, <1>2, <2>1, WorkWriteRow
<1>3. CASE \E q \in Queues : FindIssue(q)
  <2>1. PICK q \in Queues : FindIssue(q)
    BY <1>3
  <2>2. UNCHANGED grants
    BY <2>1 DEF FindIssue, providerVars
  <2>3. CASE UNCHANGED issues
    <3>1. worker' \in [Queues -> Worker] /\ RequestsInHand'
      BY <1>0, <2>1, <2>3, WorkFindOpen
    <3>2. RowsCoherent' /\ OnlyLastOpen'
      BY <2>3 DEF IInv, RowsCoherent, OnlyLastOpen
    <3>3. CodeFromRecordedAddress'
      BY <2>2, <2>3 DEF IInv, CodeFromRecordedAddress, Row, Given
    <3> QED
      BY <1>0, <2>3, <3>1, <3>2, <3>3 DEF TypeOK
  <2> QED
    BY <1>0, <2>1, <2>2, <2>3, WorkFindNew
<1>4. CASE \/ \E q \in Queues : Take(q) \/ FinishOrder(q) \/ WorkerFails(q)
           \/ Crash
           \/ UNCHANGED <<issues, worker>>
  <2>0. Idle \in Worker /\ Idle.stage = "idle"
    BY DEF Worker, Idle
  <2>1. /\ UNCHANGED issues
        /\ \/ UNCHANGED worker
           \/ worker' = [q \in Queues |-> Idle]
           \/ \E q \in Queues, new \in Worker :
                /\ new.stage \in {"idle", "find"}
                /\ worker' = [worker EXCEPT ![q] = new]
    <3>1. ASSUME NEW q \in Queues, Take(q)
          PROVE  \/ UNCHANGED worker
                 \/ \E new \in Worker : /\ new.stage \in {"idle", "find"}
                                        /\ worker' = [worker EXCEPT ![q] = new]
      <4> DEFINE e == Head(issueQueue[q])
                 new == [stage |-> "find", order |-> e.order]
      <4>1. e.order \in OrderID /\ (UNCHANGED worker \/ worker' = [worker EXCEPT ![q] = new])
        BY <3>1, TakeEffect
      <4>2. new \in Worker /\ new.stage = "find"
        BY <4>1 DEF Worker
      <4> QED
        BY <4>1, <4>2
    <3>2. ASSUME NEW q \in Queues, FinishOrder(q) \/ WorkerFails(q)
          PROVE  worker' = [worker EXCEPT ![q] = Idle]
      BY <3>2 DEF FinishOrder, WorkerFails, Goto
    <3>3. Crash => worker' = [q \in Queues |-> Idle]
      BY DEF Crash, CrashDelivery
    <3>4. UNCHANGED issues
      BY <1>4 DEF Take, FinishOrder, WorkerFails, Crash, CrashDelivery
    <3> QED
      BY <1>4, <2>0, <3>1, <3>2, <3>3, <3>4
  <2>2. /\ worker' \in [Queues -> Worker]
        /\ \A p \in Queues : worker'[p] = worker[p] \/ worker'[p].stage \in {"idle", "find"}
    BY <1>0, <2>0, <2>1 DEF TypeOK
  <2> QED
    BY <1>0, <2>1, <2>2, WorkRest DEF TypeOK
<1> QED
  BY <1>1, <1>2, <1>3, <1>4, WorkSteps

(* A row with an answer is never written again, and no row is removed.      *)
LEMMA RowsKept ==
  ASSUME IInv, [Next]_vars, NEW o \in OrderID, NEW i \in DOMAIN issues[o]
  PROVE  /\ i \in DOMAIN issues'[o]
         /\ issues[o][i].responseCode \in {200, 409} => issues'[o][i] = issues[o][i]
<1>0. TypeOK /\ RowsCoherent /\ RequestsInHand /\ OnlyLastOpen
  BY DEF IInv
<1>1. CASE UNCHANGED issues
  BY <1>1
<1>2. CASE \E q \in Queues : WriteRow(q)
  <2>1. PICK q \in Queues : WriteRow(q)
    BY <1>2
  <2> DEFINE r == worker[q].id
  <2>2. /\ r \in RequestID /\ r[2] \in DOMAIN issues[r[1]]
        /\ issues[r[1]][r[2]].responseCode \in {0, 500}
    BY <1>0, <2>1, RowInHand DEF Row
  <2>3. PICK row \in Issue, new \in Worker : Writes(q, row, new)
    BY <1>0, <2>1, WriteRowEffect
  <2>4. SaveRow(r, row)
    BY <2>3 DEF Writes
  <2> HIDE DEF r
  <2>5. /\ \A p \in OrderID : DOMAIN issues'[p] = DOMAIN issues[p]
        /\ \A p \in OrderID : \A j \in DOMAIN issues[p] :
             issues'[p][j] = IF p = r[1] /\ j = r[2] THEN row ELSE issues[p][j]
    <3>1. issues \in [OrderID -> Seq(Issue)]
      BY <1>0 DEF TypeOK
    <3> QED
      BY <2>2, <2>4, <3>1, SaveRowEffect
  <2> QED
    BY <2>2, <2>5
<1>3. CASE \E q \in Queues : FindIssue(q)
  <2>1. PICK q \in Queues : FindIssue(q)
    BY <1>3
  <2>2. CASE issues' = [issues EXCEPT ![worker[q].order] = Append(@, NewIssue(q))]
    BY <1>0, <2>1, <2>2, FindIssueEffect, NewIssueType, AppendRowEffect DEF TypeOK
  <2> QED
    BY <1>0, <1>1, <2>1, <2>2, FindIssueEffect
<1>4. \/ UNCHANGED issues
      \/ \E q \in Queues : WriteRow(q) \/ FindIssue(q)
  BY WorkSteps, AttemptFrame, <1>0
     DEF Take, FinishOrder, WorkerFails, Crash, CrashDelivery
<1> QED
  BY <1>1, <1>2, <1>3, <1>4

(* A goroutine that is at work stays on the order it has, or has just taken *)
(* an order of its queue off it and moved it on.                            *)
LEMMA HandSteps ==
  ASSUME IInv, [Next]_vars, NEW p \in Queues, worker'[p].stage # "idle"
  PROVE  \/ /\ worker[p].stage # "idle"
            /\ OrderOf(worker'[p]) = OrderOf(worker[p])
         \/ LET o == OrderOf(worker'[p])
            IN  o \in OrderID /\ QueueOf[o[2]] = p /\ orderStatus'[o] \in Tried
<1>0. TypeOK /\ RowsCoherent /\ RequestsInHand /\ OnlyLastOpen
      /\ worker \in [Queues -> Worker]
  BY DEF IInv, TypeOK
<1>1. CASE worker'[p] = worker[p]
  BY <1>1
<1> SUFFICES ASSUME worker'[p] # worker[p]
             PROVE  \/ /\ worker[p].stage # "idle"
                       /\ OrderOf(worker'[p]) = OrderOf(worker[p])
                    \/ LET o == OrderOf(worker'[p])
                       IN  o \in OrderID /\ QueueOf[o[2]] = p /\ orderStatus'[o] \in Tried
  BY <1>1
<1>2. ASSUME NEW q \in Queues, Attempt(q)
      PROVE  worker[p].stage # "idle" /\ OrderOf(worker'[p]) = OrderOf(worker[p])
  <2>1. worker[q].stage = "call"
    BY <1>0, <1>2, AttemptFrame
  <2>2. PICK new \in Worker : /\ worker' = [worker EXCEPT ![q] = new]
                              /\ new.stage \in {"call", "save", "fail"}
                              /\ new.id = worker[q].id
    BY <1>0, <1>2, AttemptEffect DEF AsksOn
  <2>3. p = q /\ worker'[p] = new
    BY <1>0, <2>2
  <2> QED
    BY <2>1, <2>2, <2>3 DEF OrderOf
<1>3. ASSUME NEW q \in Queues, WriteRow(q)
      PROVE  worker[p].stage # "idle" /\ OrderOf(worker'[p]) = OrderOf(worker[p])
  <2>1. worker[q].stage \in {"save", "fail", "switch"}
    BY <1>0, <1>3, RowInHand
  <2>2. PICK row \in Issue, new \in Worker : Writes(q, row, new)
    BY <1>0, <1>3, WriteRowEffect
  <2>3. /\ worker' = [worker EXCEPT ![q] = new]
        /\ new.stage \in {"call", "switch", "finish"} /\ new.id = worker[q].id
    BY <2>2 DEF Writes
  <2>4. p = q /\ worker'[p] = new
    BY <1>0, <2>3
  <2> QED
    BY <2>1, <2>3, <2>4 DEF OrderOf
<1>4. ASSUME NEW q \in Queues, FindIssue(q)
      PROVE  worker[p].stage # "idle" /\ OrderOf(worker'[p]) = OrderOf(worker[p])
  <2> DEFINE o == worker[q].order
  <2>1. /\ worker[q].stage = "find"
        /\ \E i, a : worker' = [worker EXCEPT ![q] = Call(<<o, i>>, a, 1)]
    BY <1>0, <1>4, FindIssueEffect
  <2>2. PICK i, a : worker' = [worker EXCEPT ![q] = Call(<<o, i>>, a, 1)]
    BY <2>1
  <2>3. p = q /\ worker'[p] = Call(<<o, i>>, a, 1)
    BY <1>0, <2>2
  <2> QED
    BY <2>1, <2>3 DEF OrderOf, Call
<1>5. ASSUME NEW q \in Queues, Take(q)
      PROVE  LET o == OrderOf(worker'[p])
             IN  o \in OrderID /\ QueueOf[o[2]] = p /\ orderStatus'[o] \in Tried
  <2> DEFINE e == Head(issueQueue[q])
             new == [stage |-> "find", order |-> e.order]
  <2>1. \/ /\ e.order \in OrderID /\ QueueOf[e.order[2]] = q
           /\ orderStatus'[e.order] \in Tried
           /\ worker' = [worker EXCEPT ![q] = new]
        \/ UNCHANGED worker
    BY <1>5, TakeEffect
  <2>2. p = q /\ worker'[p] = new
    BY <1>0, <2>1
  <2> QED
    BY <1>0, <2>1, <2>2 DEF OrderOf
<1>6. ASSUME \/ \E q \in Queues : FinishOrder(q) \/ WorkerFails(q)
             \/ Crash
      PROVE  FALSE
  <2>1. worker'[p] = worker[p] \/ worker'[p] = Idle
    BY <1>0, <1>6 DEF FinishOrder, WorkerFails, Goto, Crash, CrashDelivery
  <2> QED
    BY <2>1 DEF Idle
<1> QED
  BY <1>2, <1>3, <1>4, <1>5, <1>6, WorkSteps

(* Every step keeps the goroutines on orders of their own queues.           *)
LEMMA OrdersInHandNext ==
  ASSUME IInv, [Next]_vars
  PROVE  OrdersInHand'
<1> SUFFICES ASSUME NEW p \in Queues, worker'[p].stage # "idle"
             PROVE  /\ QueueOf[OrderOf(worker'[p])[2]] = p
                    /\ orderStatus'[OrderOf(worker'[p])] \in Tried
  BY DEF OrdersInHand, OrderOf
<1>1. CASE worker[p].stage # "idle" /\ OrderOf(worker'[p]) = OrderOf(worker[p])
  <2>1. OrderOf(worker[p]) \in OrderID
    BY <1>1, OrderOfType DEF IInv, TypeOK
  <2>2. /\ QueueOf[OrderOf(worker[p])[2]] = p
        /\ orderStatus[OrderOf(worker[p])] \in Tried
    BY <1>1 DEF IInv, OrdersInHand
  <2> QED
    BY <1>1, <2>1, <2>2, OrdersStable
<1> QED
  BY <1>1, HandSteps

(* A code service has new requests only of the goroutine that calls it, or  *)
(* of one that has given up on it.                                          *)
LEMMA NewGrants ==
  ASSUME TypeOK, NEW a \in Addrs, NEW r \in RequestID,
         \/ TakenForEmpty(a, r)
         \/ \E ans \in Answer : HandleIssue(a, r, ans) \/ RolledBack(a, r, ans)
  PROVE  \A d \in Stores : \A x \in grants'[d] : x \in grants[d] \/ x.req = r
<1>0. StoreOf[a] \in Stores
  BY DeliveryAssumption
<1>1. CASE UNCHANGED grants
  BY <1>1
<1>2. CASE \E c : Grant(StoreOf[a], r, c)
  BY <1>0, <1>2 DEF Grant, TypeOK
<1>3. ASSUME NEW ans \in Answer, HandleIssue(a, r, ans)
      PROVE  UNCHANGED grants \/ \E c : Grant(StoreOf[a], r, c)
  BY <1>3 DEF HandleIssue, HandleNewRequest
<1> QED
  BY <1>1, <1>2, <1>3 DEF TakenForEmpty, RolledBack

(* No row is written for an order no goroutine works on.                    *)
LEMMA IssuesOfOthers ==
  ASSUME IInv, [Next]_vars, NEW o \in OrderID,
         \A q \in Queues : worker[q].stage # "idle" => OrderOf(worker[q]) # o
  PROVE  issues'[o] = issues[o]
<1>0. TypeOK /\ RowsCoherent /\ RequestsInHand /\ OnlyLastOpen
      /\ issues \in [OrderID -> Seq(Issue)]
  BY DEF IInv, TypeOK
<1>1. ASSUME NEW q \in Queues, Attempt(q) PROVE UNCHANGED issues
  BY <1>0, <1>1, AttemptFrame
<1>2. ASSUME NEW q \in Queues, WriteRow(q) PROVE issues'[o] = issues[o]
  <2>1. worker[q].stage \in {"save", "fail", "switch"} /\ worker[q].id \in RequestID
    BY <1>0, <1>2, RowInHand
  <2>2. worker[q].id[1] # o /\ worker[q].id[1] \in OrderID
    BY <2>1, RequestFields DEF OrderOf
  <2>3. \E row : SaveRow(worker[q].id, row)
    BY <1>2 DEF WriteRow, SaveIssueResponse, SaveIssueError, SwitchAddr
  <2> QED
    BY <1>0, <2>2, <2>3 DEF SaveRow
<1>3. ASSUME NEW q \in Queues, FindIssue(q) PROVE issues'[o] = issues[o]
  <2>1. worker[q].stage = "find"
    BY <1>3 DEF FindIssue, Stage
  <2>2. worker[q].order # o
    BY <2>1 DEF OrderOf
  <2> QED
    BY <1>0, <1>3, <2>2, FindIssueEffect
<1>4. ASSUME \/ \E q \in Queues : Take(q) \/ FinishOrder(q) \/ WorkerFails(q)
             \/ Crash
      PROVE  UNCHANGED issues
  BY <1>4 DEF Take, FinishOrder, WorkerFails, Crash, CrashDelivery
<1> QED
  BY <1>1, <1>2, <1>3, <1>4, WorkSteps

(* Nor is one asked for or given for an order that is in no request.        *)
LEMMA ServicesOfOthers ==
  ASSUME IInv, [Next]_vars, NEW o \in OrderID,
         \A q \in Queues : worker[q].stage # "idle" => OrderOf(worker[q]) # o,
         \A x \in inflight : x.req[1] # o,
         \A d \in Stores : \A x \in grants[d] : x.req[1] # o
  PROVE  /\ \A x \in inflight' : x.req[1] # o
         /\ \A d \in Stores : \A x \in grants'[d] : x.req[1] # o
<1>0. TypeOK
  BY DEF IInv
<1>1. ASSUME NEW q \in Queues, Attempt(q)
      PROVE  /\ \A x \in inflight' : x.req[1] # o
             /\ \A d \in Stores : \A x \in grants'[d] : x.req[1] # o
  <2>1. /\ worker[q].stage = "call"
        /\ worker[q].addr \in Addrs /\ worker[q].id \in RequestID
    BY <1>0, <1>1, AttemptFrame, WorkerFields DEF TypeOK
  <2>2. worker[q].id[1] # o
    BY <2>1 DEF OrderOf
  <2>3. CASE Answered(q) \/ WronglyEmpty(q) \/ BodyLost(q)
    <3>1. \/ TakenForEmpty(worker[q].addr, worker[q].id)
          \/ \E ans \in Answer : \/ HandleIssue(worker[q].addr, worker[q].id, ans)
                                \/ RolledBack(worker[q].addr, worker[q].id, ans)
      BY <2>3 DEF Answered, WronglyEmpty, BodyLost
    <3>2. UNCHANGED inflight
      BY <2>3 DEF Answered, WronglyEmpty, BodyLost
    <3>3. \A d \in Stores : \A x \in grants'[d] :
            x \in grants[d] \/ x.req = worker[q].id
      BY <1>0, <2>1, <3>1, NewGrants
    <3> QED
      BY <2>2, <3>2, <3>3
  <2>4. CASE TestError(q)
    BY <2>4 DEF TestError, providerVars
  <2>5. CASE \E how \in {"timeout", "unavailable"} : NoResponse(q, how)
    BY <2>2, <2>5 DEF NoResponse
  <2> QED
    BY <1>1, <2>3, <2>4, <2>5 DEF Attempt
<1>2. CASE \E x \in inflight : LateIssue(x)
  <2>1. PICK x \in inflight : LateIssue(x)
    BY <1>2
  <2>2. /\ inflight' = inflight \ {x}
        /\ \/ TakenForEmpty(x.addr, x.req)
           \/ \E ans \in Answer : HandleIssue(x.addr, x.req, ans)
    BY <2>1 DEF LateIssue
  <2>3. x.addr \in Addrs /\ x.req \in RequestID
    BY <1>0 DEF TypeOK
  <2>4. \A d \in Stores : \A y \in grants'[d] : y \in grants[d] \/ y.req = x.req
    BY <1>0, <2>2, <2>3, NewGrants
  <2> QED
    BY <2>2, <2>4
<1>3. CASE \E d \in Stores, cs \in SUBSET Codes : GenerateCodes(d, cs)
  BY <1>3 DEF GenerateCodes
<1>4. CASE UNCHANGED providerVars
  BY <1>4 DEF providerVars
<1> QED
  BY <1>1, <1>2, <1>3, <1>4, ServiceSteps

(* So nothing is asked for on behalf of an order that does not exist.       *)
LEMMA RequestsOfPaidNext ==
  ASSUME IInv, [Next]_vars
  PROVE  RequestsOfPaid'
<1> SUFFICES ASSUME NEW o \in OrderID, orderStatus'[o] = "absent"
             PROVE  /\ issues'[o] = <<>>
                    /\ \A x \in inflight' : x.req[1] # o
                    /\ \A d \in Stores : \A x \in grants'[d] : x.req[1] # o
  BY DEF RequestsOfPaid, Requested
<1>1. orderStatus[o] = "absent"
  BY OrdersStable
<1>2. /\ issues[o] = <<>>
      /\ \A x \in inflight : x.req[1] # o
      /\ \A d \in Stores : \A x \in grants[d] : x.req[1] # o
  BY <1>1 DEF IInv, RequestsOfPaid, Requested
<1>3. \A q \in Queues : worker[q].stage # "idle" => OrderOf(worker[q]) # o
  BY <1>1 DEF IInv, OrdersInHand, Tried, Handled
<1> QED
  BY <1>2, <1>3, IssuesOfOthers, ServicesOfOthers

(* A row that is ok has been answered.                                      *)
LEMMA OkRowsKept ==
  ASSUME IInv, [Next]_vars, NEW o \in OrderID, NEW i \in DOMAIN issues[o],
         issues[o][i].status = "ok"
  PROVE  i \in DOMAIN issues'[o] /\ issues'[o][i] = issues[o][i]
<1>1. issues[o][i].responseCode = 200
  BY DEF IInv, RowsCoherent, Coherent
<1> QED
  BY <1>1, RowsKept

(* Every step keeps delivered orders and their codes together with an       *)
(* answer in their own rows.                                                *)
LEMMA DeliveredWithItsCodeNext ==
  ASSUME IInv, [Next]_vars
  PROVE  DeliveredWithItsCode'
<1>0. /\ DeliveredWithItsCode /\ RowsTypeOK
      /\ issues \in [OrderID -> Seq(Issue)] /\ worker \in [Queues -> Worker]
  BY DEF IInv, TypeOK, StoreTypeOK, RowsTypeOK
<1> SUFFICES ASSUME NEW o \in OrderID
             PROVE  /\ orderStatus'[o] = "delivered" => orderCode'[o] # NoCode
                    /\ orderCode'[o] # NoCode =>
                         \E i \in DOMAIN issues'[o] :
                           /\ issues'[o][i].status = "ok"
                           /\ issues'[o][i].code = orderCode'[o]
  BY DEF DeliveredWithItsCode
<1>1. CASE orderCode'[o] = orderCode[o]
           /\ (orderStatus'[o] = "delivered" => orderStatus[o] = "delivered")
  BY <1>0, <1>1, OkRowsKept DEF DeliveredWithItsCode
<1>2. ASSUME NEW q \in Queues, FinishOrder(q)
      PROVE  \/ /\ orderCode'[o] = orderCode[o]
                /\ orderStatus'[o] = "delivered" => orderStatus[o] = "delivered"
             \/ /\ orderCode'[o] # NoCode
                /\ \E i \in DOMAIN issues[o] : /\ issues[o][i].status = "ok"
                                               /\ issues[o][i].code = orderCode'[o]
  <2> DEFINE r == worker[q].id
             row == issues[r[1]][r[2]]
  <2>1. /\ r[1] \in OrderID /\ r[2] \in DOMAIN issues[r[1]]
        /\ Delivers(r[1], row) \/ GivesUp(r[1])
    BY <1>2, FinishEffect
  <2>2. CASE r[1] # o
    BY <1>0, <2>1, <2>2 DEF RowsTypeOK, Delivers, GivesUp
  <2>3. CASE r[1] = o /\ Delivers(o, row)
    <3>1. orderCode'[o] = row.code /\ row.code # NoCode /\ row.status = "ok"
      BY <1>0, <2>3, StoreAssumption DEF RowsTypeOK, Delivers
    <3> QED
      BY <2>1, <2>3, <3>1
  <2>4. CASE r[1] = o /\ GivesUp(o)
    BY <1>0, <2>4 DEF RowsTypeOK, GivesUp, Cancellable
  <2> QED
    BY <2>1, <2>2, <2>3, <2>4
<1>3. ASSUME NEW q \in Queues, Take(q)
      PROVE  /\ orderCode'[o] = orderCode[o]
             /\ orderStatus'[o] = "delivered" => orderStatus[o] = "delivered"
  BY <1>0, <1>3, TakeEffect DEF StartDelivering, UpdateStatus, RowsTypeOK
<1>4. ASSUME NEW x \in OrderID, CancelOrder(x)
      PROVE  /\ orderCode'[o] = orderCode[o]
             /\ orderStatus'[o] = "delivered" => orderStatus[o] = "delivered"
  BY <1>0, <1>4, CancelEffect DEF RowsTypeOK
<1>5. ASSUME NEW g \in Groups, NEW u \in Users, NEW ps \in SUBSET Products,
             GroupPaid(g, u, ps)
      PROVE  /\ orderCode'[o] = orderCode[o]
             /\ orderStatus'[o] = "delivered" => orderStatus[o] = "delivered"
  BY <1>5 DEF GroupPaid
<1>6. UNCHANGED rows => /\ orderCode'[o] = orderCode[o]
                        /\ orderStatus'[o] = "delivered" => orderStatus[o] = "delivered"
  BY DEF rows
<1> QED
  <2>1. \/ /\ orderCode'[o] = orderCode[o]
           /\ orderStatus'[o] = "delivered" => orderStatus[o] = "delivered"
        \/ /\ orderCode'[o] # NoCode
           /\ \E i \in DOMAIN issues[o] : /\ issues[o][i].status = "ok"
                                          /\ issues[o][i].code = orderCode'[o]
    BY <1>2, <1>3, <1>4, <1>5, <1>6, RowSteps
  <2> QED
    BY <1>1, <2>1, OkRowsKept

(* Failures are counted.                                                    *)
LEMMA FaultsNext ==
  ASSUME IInv, [Next]_vars
  PROVE  faults' \in Nat
<1>0. TypeOK /\ faults \in Nat /\ MaxFaults \in Nat
  BY StoreAssumption DEF IInv, TypeOK, StoreTypeOK
<1>1. InjectFault => faults' \in Nat
  BY <1>0 DEF InjectFault
<1>2. Environment => faults' \in Nat
  BY <1>0, <1>1 DEF Environment, GroupPaid, Announce, PaymentSideFails
<1>3. ASSUME NEW q \in Queues, WorkerStep(q) \/ WorkerFault(q)
      PROVE  faults' \in Nat
  <2>1. Attempt(q) => faults' \in Nat
    BY <1>0, AttemptFrame
  <2>2. WorkerStep(q) => Attempt(q) \/ UNCHANGED faults
    BY DEF WorkerStep, Attempt, Take, FindIssue, SaveIssueResponse, SaveIssueError,
           SwitchAddr, FinishOrder, storeVars
  <2>3. WorkerFault(q) => Attempt(q) \/ InjectFault
    BY DEF WorkerFault, Attempt, TakeFails, WorkerFails
  <2> QED
    BY <1>0, <1>1, <1>3, <2>1, <2>2, <2>3
<1>4. DeliveryStep => faults' \in Nat
  BY <1>0, <1>1, <1>3
     DEF DeliveryStep, ChooseProvider, ChooseProviderFails, CancelOrder,
         ProviderStep, LateIssue, GenerateCodes, storeVars
<1>5. Recovery \/ Crash => faults' \in Nat
  BY <1>0, <1>1 DEF Recovery, ListForRecovery, RecoverOrder, Crash, CrashStore
<1>6. UNCHANGED vars => faults' \in Nat
  BY <1>0 DEF vars, storeVars
<1> QED
  BY <1>2, <1>4, <1>5, <1>6 DEF Next

(* Every step keeps the types.                                              *)
LEMMA TypeOKNext ==
  ASSUME IInv, [Next]_vars
  PROVE  TypeOK'
<1>0. TypeOK
  BY DEF IInv
<1>1. StoreTypeOK'
  <2>1. RowsTypeOK'
    BY RowsTypeNext
  <2>2. paidQueue' \in Seq(OrderEvent) /\ recovering' \in [Recoveries -> Seq(OrderEvent)]
    <3>1. KnownEvent \subseteq OrderEvent /\ ListedEvent \subseteq OrderEvent
      BY DEF KnownEvent, ListedEvent, OrderEvent, OrderStatus
    <3> QED
      BY <3>1, QueuesNext, SeqMonotonic
  <2>3. initQueue' \in Seq(InitEvent)
    <3>1. initQueue \in Seq(InitEvent)
      BY <1>0 DEF TypeOK, StoreTypeOK
    <3>2. initQueue' = initQueue \/ initQueue' = <<>>
      BY QueuesNext
    <3> QED
      BY <3>1, <3>2, EmptySeq
  <2> QED
    BY <2>1, <2>2, <2>3, FaultsNext DEF StoreTypeOK, RowsTypeOK
<1>2. issueQueue' \in [Queues -> Seq(OrderEvent)]
  BY QueuesNext
<1>3. worker' \in [Queues -> Worker] /\ issues' \in [OrderID -> Seq(Issue)]
  BY WorkNext
<1>4. ServicesKept
  BY <1>0, ServicesNext
<1>5. /\ pool' \in [Stores -> SUBSET Codes]
      /\ grants' \in [Stores -> SUBSET [req : RequestID, code : Codes \cup {NoCode}]]
      /\ inflight' \subseteq [addr : Addrs, req : RequestID,
                              how : {"timeout", "unavailable"}]
  BY <1>4 DEF ServicesKept
<1> QED
  BY <1>1, <1>2, <1>3, <1>5 DEF TypeOK

(* The shop starts empty.                                                   *)
LEMMA IInvInit ==
  ASSUME Init
  PROVE  IInv
<1> USE DEF Init, StoreInit
<1>1. TypeOK
  <2>1. StoreTypeOK
    BY DEF StoreTypeOK
  <2>2. worker \in [Queues -> Worker]
    BY DEF Worker
  <2> QED
    BY <2>1, <2>2 DEF TypeOK
<1>2. OrdersArePaid
  BY DEF OrdersArePaid, PaymentPaid
<1>3. EventsKnown
  BY DEF EventsKnown
<1>4. OrdersInHand
  BY DEF OrdersInHand, Idle
<1>5. RowsCoherent /\ OnlyLastOpen
  BY DeliveryAssumption DEF RowsCoherent, OnlyLastOpen
<1>6. RequestsInHand
  BY DEF RequestsInHand, InHand, Idle
<1>7. MoneyOnce /\ MoneyFollowsOrder
  BY DEF MoneyOnce, MoneyFollowsOrder, Handled, OrderID
<1>8. NoSharedCode /\ DeliveredWithItsCode
  BY DEF NoSharedCode, DeliveredWithItsCode
<1>9. CodeFromRecordedAddress
  BY RequestFields DEF CodeFromRecordedAddress
<1>10. RequestsOfPaid
  BY DEF RequestsOfPaid, Requested
<1> QED
  BY <1>1, <1>2, <1>3, <1>4, <1>5, <1>6, <1>7, <1>8, <1>9, <1>10 DEF IInv

(* The invariant is inductive.                                              *)
LEMMA IInvNext ==
  ASSUME IInv, [Next]_vars
  PROVE  IInv'
BY TypeOKNext, OrdersArePaidNext, EventsKnownNext, OrdersInHandNext, WorkNext,
   RequestsOfPaidNext, MoneyNext, NoSharedCodeNext, DeliveredWithItsCodeNext DEF IInv

-----------------------------------------------------------------------------
(* The results.                                                             *)

(* Of every state the delivery side can reach, whatever workers, providers, *)
(* failures and crashes do, for any numbers of orders, queues, services,    *)
(* codes and retries.                                                       *)
THEOREM Invariance == Spec => []IInv
<1>1. Init => IInv
  BY IInvInit
<1>2. IInv /\ [Next]_vars => IInv'
  BY IInvNext
<1> QED
  BY <1>1, <1>2, PTL DEF Spec

(* Rows, queues, goroutines and services keep their types.                  *)
THEOREM TypeCorrect == Spec => []TypeOK
<1>1. IInv => TypeOK
  BY DEF IInv
<1> QED
  BY <1>1, Invariance, PTL

(* No code belongs to two orders, not even when services repeat a code.     *)
THEOREM CodesNotShared == Spec => []NoSharedCode
<1>1. IInv => NoSharedCode
  BY DEF IInv
<1> QED
  BY <1>1, Invariance, PTL

(* A delivered order has a code, recorded in one of its own rows.           *)
THEOREM DeliveredOrdersHaveCodes == Spec => []DeliveredWithItsCode
<1>1. IInv => DeliveredWithItsCode
  BY DEF IInv
<1> QED
  BY <1>1, Invariance, PTL

(* A recorded code was given out by the service at the recorded address.    *)
THEOREM CodesHaveTheirAddress == Spec => []CodeFromRecordedAddress
<1>1. IInv => CodeFromRecordedAddress
  BY DEF IInv
<1> QED
  BY <1>1, Invariance, PTL

(* Charges come out of deposits, refunds out of charges, each once.         *)
THEOREM MoneyIsAccounted == Spec => []MoneyFollowsOrder
<1>1. IInv => MoneyFollowsOrder
  BY DEF IInv
<1> QED
  BY <1>1, Invariance, PTL

(* At most one row of an order waits for a response.                        *)
THEOREM RequestsAreRepeated == Spec => []OneOpenRequest
<1>1. IInv => OneOpenRequest
  <2> SUFFICES ASSUME IInv, NEW o \in OrderID
               PROVE  Cardinality({i \in DOMAIN issues[o] :
                                     issues[o][i].responseCode = 0}) <= 1
    BY DEF OneOpenRequest
  <2> DEFINE open == {i \in DOMAIN issues[o] : issues[o][i].responseCode = 0}
             last == Len(issues[o])
  <2>1. open \subseteq {last}
    BY DEF IInv, OnlyLastOpen
  <2> HIDE DEF open
  <2>2. Cardinality({last}) = 1 /\ IsFiniteSet({last})
    BY FS_Singleton
  <2>3. Cardinality(open) <= 1
    BY <2>1, <2>2, FS_Subset
  <2> QED
    BY <2>3 DEF open
<1> QED
  BY <1>1, Invariance, PTL

(* A row with a provider's answer never changes, and an order never loses   *)
(* its code.                                                                *)
THEOREM AnswersAreKept == Spec => AnswersKept
<1> DEFINE Kept ==
      /\ \A r \in RequestID :
           r[2] \in DOMAIN issues[r[1]] /\ Row(r).responseCode \in {200, 409} =>
             Row(r)' = Row(r)
      /\ \A o \in OrderID : orderCode[o] # NoCode => orderCode'[o] # NoCode
<1>1. IInv /\ [Next]_vars => [Kept]_vars
  <2> SUFFICES ASSUME IInv, [Next]_vars PROVE Kept
    OBVIOUS
  <2>1. ASSUME NEW r \in RequestID, r[2] \in DOMAIN issues[r[1]],
               Row(r).responseCode \in {200, 409}
        PROVE  Row(r)' = Row(r)
    <3>1. r[1] \in OrderID
      BY RequestFields
    <3>2. issues'[r[1]][r[2]] = issues[r[1]][r[2]]
      BY <2>1, <3>1, RowsKept DEF Row
    <3> QED
      BY <3>2 DEF Row
  <2>2. ASSUME NEW o \in OrderID, orderCode[o] # NoCode
        PROVE  orderCode'[o] # NoCode
    <3>1. orderCode \in [OrderID -> Codes \cup {NoCode}]
      BY DEF IInv, TypeOK, StoreTypeOK
    <3>2. ASSUME NEW q \in Queues, FinishOrder(q) PROVE orderCode'[o] # NoCode
      <4> DEFINE r == worker[q].id
      <4>1. r[1] \in OrderID /\ (Delivers(r[1], issues[r[1]][r[2]]) \/ GivesUp(r[1]))
        BY <3>2, FinishEffect
      <4> QED
        BY <2>2, <3>1, <4>1, StoreAssumption DEF Delivers, GivesUp
    <3>3. UNCHANGED orderCode \/ \E q \in Queues : FinishOrder(q)
      BY RowSteps DEF GroupPaid, Take, CancelOrder, rows
    <3> QED
      BY <2>2, <3>2, <3>3
  <2> QED
    BY <2>1, <2>2
<1> HIDE DEF Kept
<1>2. Spec => [][Kept]_vars
  BY <1>1, Invariance, PTL DEF Spec
<1> QED
  BY <1>2 DEF AnswersKept, Kept

-----------------------------------------------------------------------------
(* The refinement of DeliveryContract.                                      *)
LEMMA ContractInit == Init => Contract!Init
  BY DEF Init, StoreInit, Contract!Init

(* A payment accepted puts the orders of its group on sale.                 *)
LEMMA PayStep ==
  ASSUME IInv, NEW g \in Groups, NEW u \in Users, NEW ps \in SUBSET Products,
         GroupPaid(g, u, ps)
  PROVE  \E os \in SUBSET OrderID : Contract!Pay(os)
<1> DEFINE os == {o \in OrderID : o[1] = g /\ o[2] \in ps}
<1>0. /\ \A o \in OrderID : o[1] = g => orderStatus[o] = "absent"
      /\ orderStatus' = [o \in OrderID |-> IF o[1] = g /\ o[2] \in ps
                                           THEN "paid" ELSE orderStatus[o]]
      /\ ps # {} /\ UNCHANGED <<orderCode, charges, refunds>>
  BY GroupPaidEffect
<1>1. os # {}
  <2>1. PICK p \in Products : p \in ps
    BY <1>0
  <2>2. <<g, p>> \in os
    BY <2>1 DEF OrderID
  <2> QED
    BY <2>2
<1>2. \A o \in os : orderStatus[o] = "absent"
  BY <1>0
<1>3. orderStatus' = [o \in OrderID |-> IF o \in os THEN "paid" ELSE orderStatus[o]]
  BY <1>0
<1>4. os \in SUBSET OrderID
  OBVIOUS
<1> HIDE DEF os
<1>5. Contract!Pay(os)
  BY <1>0, <1>1, <1>2, <1>3 DEF Contract!Pay
<1> QED
  BY <1>4, <1>5

(* Taking an event off a queue is an attempt, unless the event is stale or  *)
(* the order in delivery already.                                           *)
LEMMA TryStep ==
  ASSUME IInv, NEW q \in Queues, Take(q)
  PROVE  (\E o \in OrderID : Contract!Try(o)) \/ UNCHANGED Contract!cvars
<1> DEFINE e == Head(issueQueue[q])
           o == e.order
<1>0. orderStatus \in [OrderID -> OrderStatus \cup {"absent"}]
  BY DEF IInv, TypeOK, StoreTypeOK
<1>1. /\ o \in OrderID
      /\ \/ e.status \in ValidStatus /\ orderStatus' = StartDelivering(e)
         \/ UNCHANGED orderStatus
      /\ UNCHANGED <<orderCode, charges, refunds>>
  BY TakeEffect
<1>2. CASE UNCHANGED orderStatus
  BY <1>1, <1>2 DEF Contract!cvars
<1>3. CASE /\ e.status \in ValidStatus /\ orderStatus' = StartDelivering(e)
           /\ orderStatus' # orderStatus
  <2>1. /\ orderStatus[o] = e.status
        /\ orderStatus' = [orderStatus EXCEPT ![o] = "delivering"]
    BY <1>3 DEF StartDelivering, UpdateStatus
  <2>2. orderStatus[o] # "delivering"
    BY <1>0, <1>1, <1>3, <2>1
  <2>3. orderStatus[o] \in Contract!Failures \cup {"paid"}
    BY <1>3, <2>1, <2>2 DEF ValidStatus, Contract!Failures
  <2>4. Contract!Try(o)
    BY <1>1, <2>1, <2>3 DEF Contract!Try
  <2> QED
    BY <1>1, <2>4
<1> QED
  BY <1>1, <1>2, <1>3

(* The transaction at the end of an attempt is a delivery or gives up, with *)
(* the charge in the same step.                                             *)
LEMMA EndStep ==
  ASSUME IInv, NEW q \in Queues, FinishOrder(q)
  PROVE  \E o \in OrderID :
           \/ \E c \in Codes : Contract!Deliver(o, c)
           \/ \E failure \in Contract!Failures : Contract!GiveUp(o, failure)
<1> DEFINE r == worker[q].id
           o == r[1]
           row == issues[o][r[2]]
<1>1. /\ o \in OrderID /\ orderStatus[o] \in Tried
      /\ Delivers(o, row) \/ GivesUp(o)
      /\ charges' = [charges EXCEPT ![o] = 1] /\ UNCHANGED refunds
  BY FinishEffect
<1>2. orderStatus[o] \in Contract!Tried
  BY <1>1 DEF Tried, Handled, Contract!Tried, Contract!Failures
<1> HIDE DEF o, row
<1>3. CASE Delivers(o, row)
  <2>1. row.code \in Codes /\ Contract!Unused(row.code)
    BY <1>3 DEF Delivers, ExistsByCode, Contract!Unused
  <2>2. Contract!Deliver(o, row.code)
    BY <1>1, <1>2, <1>3, <2>1 DEF Delivers, Contract!Deliver
  <2> QED
    BY <1>1, <2>1, <2>2
<1>4. CASE GivesUp(o)
  <2>1. PICK failure \in Cancellable : orderStatus' = [orderStatus EXCEPT ![o] = failure]
    BY <1>4 DEF GivesUp
  <2>2. failure \in Contract!Failures
    BY DEF Cancellable, Contract!Failures
  <2>3. Contract!GiveUp(o, failure)
    BY <1>1, <1>2, <1>4, <2>1 DEF GivesUp, Contract!GiveUp
  <2> QED
    BY <1>1, <2>2, <2>3
<1> QED
  BY <1>1, <1>3, <1>4

(* A cancellation refunds what was charged.                                 *)
LEMMA CancelStep ==
  ASSUME IInv, NEW o \in OrderID, CancelOrder(o)
  PROVE  Contract!Cancel(o)
BY CancelEffect DEF Contract!Cancel, Contract!Failures, Cancellable

(* Every step of the delivery side is a step of the contract or none.       *)
LEMMA ContractNext ==
  ASSUME IInv, [Next]_vars
  PROVE  [Contract!Next]_(Contract!cvars)
<1>1. ASSUME NEW g \in Groups, NEW u \in Users, NEW ps \in SUBSET Products,
             GroupPaid(g, u, ps)
      PROVE  Contract!Next
  BY <1>1, PayStep DEF Contract!Next
<1>2. ASSUME NEW q \in Queues, Take(q)
      PROVE  Contract!Next \/ UNCHANGED Contract!cvars
  BY <1>2, TryStep DEF Contract!Next
<1>3. ASSUME NEW q \in Queues, FinishOrder(q)
      PROVE  Contract!Next
  BY <1>3, EndStep DEF Contract!Next
<1>4. ASSUME NEW o \in OrderID, CancelOrder(o)
      PROVE  Contract!Next
  BY <1>4, CancelStep DEF Contract!Next
<1>5. CASE UNCHANGED rows
  BY <1>5 DEF rows, Contract!cvars
<1> QED
  BY <1>1, <1>2, <1>3, <1>4, <1>5, RowSteps

(* The queues, workers, issue rows and providers implement DeliveryContract.*)
THEOREM Refinement == Spec => ImplementsDeliveryContract
<1>1. Init => Contract!Init
  BY ContractInit
<1>2. IInv /\ [Next]_vars => [Contract!Next]_(Contract!cvars)
  BY ContractNext
<1> QED
  BY <1>1, <1>2, Invariance, PTL DEF Spec, ImplementsDeliveryContract, Contract!Spec

=============================================================================
