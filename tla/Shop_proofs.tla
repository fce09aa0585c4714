----------------------------- MODULE Shop_proofs -----------------------------
(***************************************************************************)
(* The two sides of the shop together.  Every step of the payment side is  *)
(* a step, of the environment or of nobody, of what the delivery side sees *)
(* (DeliverySide), and every step of the delivery side keeps the invariant *)
(* of the payment side: so what is proved of each side alone, in           *)
(* PaymentFlow_proofs and Delivery_proofs, holds of the shop.              *)
(***************************************************************************)
EXTENDS Shop, FiniteSetTheorems, SequenceTheorems, TLAPS

(* The inductive invariant: that of the payment side, that of delivery as  *)
(* delivery sees the rows, and two facts neither side has alone.  A        *)
(* payment belongs to a user and has orders; UpdatePayment publishes what  *)
(* it has read.                                                            *)
PaymentsHaveOrders ==
  \A g \in Groups : payStatus[g] # "absent" =>
    /\ owner[g] \in Users
    /\ \E p \in Products : orderStatus[<<g, p>>] # "absent"

ReadPaid == {e \in OrderEvent : e.status = "paid" /\ orderStatus[e.order] # "absent"}
PublishesPaid ==
  updateWorker.stage = "publish" => updateWorker.events \in Seq(ReadPaid)

IInv == P!IInv /\ DeliverySide!IInv /\ PaymentsHaveOrders /\ PublishesPaid

(* What PaymentFlow and Delivery assume of their constants.                 *)
LEMMA Assumptions ==
  /\ P!StoreAssumption
  /\ DeliverySide!StoreAssumption /\ DeliverySide!DeliveryAssumption
BY StoreAssumption, ShopAssumption
   DEF P!StoreAssumption, StoreAssumption, DeliverySide!StoreAssumption,
       D!DeliveryAssumption, DeliverySide!DeliveryAssumption,
       IsFiniteSet, P!IsFiniteSet, DeliverySide!IsFiniteSet, D!IsFiniteSet

(* Orders and events are the same to everyone.                              *)
LEMMA SameTypes ==
  /\ P!OrderID = OrderID /\ DeliverySide!OrderID = OrderID /\ D!OrderID = OrderID
  /\ P!EventID = EventID /\ DeliverySide!EventID = EventID
  /\ P!OrderStatus = OrderStatus /\ DeliverySide!OrderStatus = OrderStatus
  /\ P!OrderEvent = OrderEvent /\ DeliverySide!OrderEvent = OrderEvent
BY DEF OrderID, P!OrderID, DeliverySide!OrderID, D!OrderID,
       EventID, P!EventID, DeliverySide!EventID,
       OrderStatus, P!OrderStatus, DeliverySide!OrderStatus,
       OrderEvent, P!OrderEvent, DeliverySide!OrderEvent

-----------------------------------------------------------------------------
(* What the delivery side sees.                                             *)

(* The types of the rows, from the payment side.                            *)
LEMMA RowTypes ==
  ASSUME P!IInv
  PROVE  /\ orderStatus \in [OrderID -> OrderStatus \cup {"absent"}]
         /\ payStatus \in [Groups -> PaymentStatus \cup {"absent"}]
         /\ payEvent \in [Groups -> EventID \cup {NoEvent}]
         /\ owner \in [Groups -> Users \cup {NoUser}]
         /\ deposits \in [Groups -> Nat]
         /\ orderCode \in [OrderID -> Codes \cup {NoCode}]
         /\ charges \in [OrderID -> Nat] /\ refunds \in [OrderID -> Nat]
         /\ recovering \in [Recoveries -> Seq(OrderEvent)] /\ faults \in Nat
BY SameTypes
   DEF P!IInv, P!TypeOK, P!StoreTypeOK, PaymentStatus, P!PaymentStatus

(* Nothing it sees changes with the rows unchanged.                         *)
LEMMA SeenUnchanged ==
  ASSUME UNCHANGED <<orderStatus, owner, payStatus, payEvent>>
  PROVE  UNCHANGED <<SeenOrders, SeenOwners, SeenPayments, SeenEvents>>
BY DEF SeenOrders, SeenOwners, SeenPayments, SeenEvents, IfPaid

(* An order is seen if its payment is paid.                                 *)
LEMMA SeenIffPaid ==
  ASSUME IInv, NEW o \in OrderID
  PROVE  /\ SeenOrders[o] # "absent" => payStatus[o[1]] = "paid" /\ SeenOrders[o] = orderStatus[o]
         /\ payStatus[o[1]] = "paid" => SeenOrders[o] = orderStatus[o]
BY DEF SeenOrders

(* Nothing of the store changes for it either.                              *)
LEMMA RowsUnchanged ==
  /\ UNCHANGED D!rows => UNCHANGED DeliverySide!rows
  /\ UNCHANGED D!storeVars => UNCHANGED DeliverySide!storeVars
BY SeenUnchanged DEF D!rows, D!storeVars, DeliverySide!rows, DeliverySide!storeVars

(* At the start there is nothing to see.                                    *)
LEMMA SeenInit ==
  ASSUME Init
  PROVE  DeliverySide!Init
<1> USE DEF Init, P!Init, P!StoreInit, D!Init
<1>1. /\ SeenOrders = [o \in OrderID |-> "absent"]
      /\ SeenOwners = [g \in Groups |-> NoUser]
      /\ SeenPayments = [g \in Groups |-> "absent"]
      /\ SeenEvents = [g \in Groups |-> NoEvent]
  <2>1. \A o \in OrderID : o[1] \in Groups
    BY DEF OrderID
  <2> QED
    BY <2>1 DEF SeenOrders, SeenOwners, SeenPayments, SeenEvents, IfPaid
<1>2. DeliverySide!StoreInit
  BY <1>1, SameTypes DEF DeliverySide!StoreInit
<1>3. /\ issueQueue = [q \in Queues |-> <<>>]
      /\ issues = [o \in DeliverySide!OrderID |-> <<>>]
      /\ worker = [q \in Queues |-> DeliverySide!Idle]
      /\ pool = [d \in Stores |-> {}]
      /\ grants = [d \in Stores |-> {}]
      /\ inflight = {}
  BY SameTypes DEF D!Idle, DeliverySide!Idle
<1> QED
  BY <1>2, <1>3 DEF DeliverySide!Init

-----------------------------------------------------------------------------
(* The steps of the delivery side are its own steps.                        *)

(* What a code service answers is the same.                                 *)
LEMMA ServiceSame ==
  /\ \A a, r, ans : D!HandleIssue(a, r, ans) <=> DeliverySide!HandleIssue(a, r, ans)
  /\ \A a, r, ans : D!RolledBack(a, r, ans) <=> DeliverySide!RolledBack(a, r, ans)
  /\ \A a, r : D!TakenForEmpty(a, r) <=> DeliverySide!TakenForEmpty(a, r)
  /\ D!Answer = DeliverySide!Answer
BY DEF D!HandleIssue, D!HandleNewRequest, D!Grant, D!Ok, D!OutOfStock, D!Repeated,
       D!ServerError, D!Answer, D!RolledBack, D!TakenForEmpty, D!NewRequest,
       DeliverySide!HandleIssue, DeliverySide!HandleNewRequest, DeliverySide!Grant,
       DeliverySide!Ok, DeliverySide!OutOfStock, DeliverySide!Repeated,
       DeliverySide!ServerError, DeliverySide!Answer, DeliverySide!RolledBack,
       DeliverySide!TakenForEmpty, DeliverySide!NewRequest

(* An attempt of a request.                                                 *)
LEMMA AttemptSame ==
  ASSUME NEW q \in Queues
  PROVE  /\ D!Answered(q) => DeliverySide!Answered(q)
         /\ D!BodyLost(q) => DeliverySide!BodyLost(q)
         /\ D!TestError(q) => DeliverySide!TestError(q)
         /\ D!WronglyEmpty(q) => DeliverySide!WronglyEmpty(q)
         /\ \A how : D!NoResponse(q, how) => DeliverySide!NoResponse(q, how)
<1>1. \A f : D!Fail(q, f) <=> DeliverySide!Fail(q, f)
  BY DEF D!Fail, D!Goto, DeliverySide!Fail, DeliverySide!Goto
<1>2. \A x, y : D!Failed(x, y) = DeliverySide!Failed(x, y)
  BY DEF D!Failed, DeliverySide!Failed
<1>3. D!Answered(q) => DeliverySide!Answered(q)
  BY <1>1, <1>2, ServiceSame, RowsUnchanged
     DEF D!Answered, D!Stage, D!Goto,
         DeliverySide!Answered, DeliverySide!Stage, DeliverySide!Goto
<1>4. D!BodyLost(q) => DeliverySide!BodyLost(q)
  BY <1>1, <1>2, ServiceSame, RowsUnchanged
     DEF D!BodyLost, D!Stage, D!Goto, D!InjectFault,
         DeliverySide!BodyLost, DeliverySide!Stage, DeliverySide!Goto,
         DeliverySide!InjectFault
<1>5. D!TestError(q) => DeliverySide!TestError(q)
  BY <1>1, <1>2, RowsUnchanged
     DEF D!TestError, D!Stage, D!InjectFault, D!providerVars,
         DeliverySide!TestError, DeliverySide!Stage, DeliverySide!InjectFault,
         DeliverySide!providerVars
<1>6. \A how : D!NoResponse(q, how) => DeliverySide!NoResponse(q, how)
  BY <1>1, <1>2, RowsUnchanged
     DEF D!NoResponse, D!Stage, D!InjectFault,
         DeliverySide!NoResponse, DeliverySide!Stage, DeliverySide!InjectFault
<1>7. D!WronglyEmpty(q) => DeliverySide!WronglyEmpty(q)
  BY ServiceSame, RowsUnchanged
     DEF D!WronglyEmpty, D!Stage, D!Goto, D!InjectFault, D!OutOfStock,
         DeliverySide!WronglyEmpty, DeliverySide!Stage, DeliverySide!Goto,
         DeliverySide!InjectFault, DeliverySide!OutOfStock
<1> QED
  BY <1>3, <1>4, <1>5, <1>6, <1>7

(* The other steps of a goroutine that leave the rows of orders alone.      *)
LEMMA HandlerSame ==
  ASSUME NEW q \in Queues
  PROVE  /\ D!FindIssue(q) => DeliverySide!FindIssue(q)
         /\ D!SaveIssueResponse(q) => DeliverySide!SaveIssueResponse(q)
         /\ D!SaveIssueError(q) => DeliverySide!SaveIssueError(q)
         /\ D!SwitchAddr(q) => DeliverySide!SwitchAddr(q)
         /\ D!WorkerFails(q) => DeliverySide!WorkerFails(q)
         /\ D!TakeFails(q) => DeliverySide!TakeFails(q)
<1> USE DEF D!Stage, DeliverySide!Stage, D!Goto, DeliverySide!Goto,
            D!Row, DeliverySide!Row, D!SaveRow, DeliverySide!SaveRow,
            D!providerVars, DeliverySide!providerVars,
            D!InjectFault, DeliverySide!InjectFault
<1>1. D!FindIssue(q) => DeliverySide!FindIssue(q)
  <2>1. \A o : D!FirstIncomplete(o) = DeliverySide!FirstIncomplete(o)
    BY DEF D!FirstIncomplete, DeliverySide!FirstIncomplete,
           D!Incomplete, DeliverySide!Incomplete
  <2>2. \A r, a, hop : D!Call(r, a, hop) = DeliverySide!Call(r, a, hop)
    BY DEF D!Call, DeliverySide!Call
  <2>3. D!NewIssue(q) = DeliverySide!NewIssue(q)
    BY DEF D!NewIssue, DeliverySide!NewIssue
  <2> QED
    BY <2>1, <2>2, <2>3, RowsUnchanged DEF D!FindIssue, DeliverySide!FindIssue
<1>2. \A r, hop, row : D!AfterRequest(q, r, hop, row) <=> DeliverySide!AfterRequest(q, r, hop, row)
  BY DEF D!AfterRequest, DeliverySide!AfterRequest,
         D!CanRetryWithFallback, DeliverySide!CanRetryWithFallback
<1>3. D!SaveIssueResponse(q) => DeliverySide!SaveIssueResponse(q)
  BY <1>2, RowsUnchanged
     DEF D!SaveIssueResponse, DeliverySide!SaveIssueResponse,
         D!SavedAnswer, DeliverySide!SavedAnswer
<1>4. D!SaveIssueError(q) => DeliverySide!SaveIssueError(q)
  BY <1>2, RowsUnchanged
     DEF D!SaveIssueError, DeliverySide!SaveIssueError,
         D!SavedFailure, DeliverySide!SavedFailure
<1>5. D!SwitchAddr(q) => DeliverySide!SwitchAddr(q)
  BY RowsUnchanged
     DEF D!SwitchAddr, DeliverySide!SwitchAddr, D!OtherAddr, DeliverySide!OtherAddr,
         D!MovedTo, DeliverySide!MovedTo, D!Call, DeliverySide!Call
<1>6. D!WorkerFails(q) => DeliverySide!WorkerFails(q)
  BY RowsUnchanged DEF D!WorkerFails, DeliverySide!WorkerFails, D!Idle, DeliverySide!Idle
<1>7. D!TakeFails(q) => DeliverySide!TakeFails(q)
  BY RowsUnchanged DEF D!TakeFails, DeliverySide!TakeFails
<1> QED
  BY <1>1, <1>3, <1>4, <1>5, <1>6, <1>7

(* ChooseProvider and the code services.                                    *)
LEMMA QueuesSame ==
  /\ D!ChooseProvider => DeliverySide!ChooseProvider
  /\ D!ChooseProviderFails => DeliverySide!ChooseProviderFails
  /\ D!ProviderStep => DeliverySide!ProviderStep
<1> USE DEF D!providerVars, DeliverySide!providerVars,
            D!deliveryVars, DeliverySide!deliveryVars
<1>1. D!ChooseProvider => DeliverySide!ChooseProvider
  BY RowsUnchanged
     DEF D!ChooseProvider, DeliverySide!ChooseProvider, D!HasRoom, DeliverySide!HasRoom
<1>2. D!ChooseProviderFails => DeliverySide!ChooseProviderFails
  BY RowsUnchanged
     DEF D!ChooseProviderFails, DeliverySide!ChooseProviderFails,
         D!InjectFault, DeliverySide!InjectFault
<1>3. \A x : D!LateIssue(x) => DeliverySide!LateIssue(x)
  BY ServiceSame, RowsUnchanged
     DEF D!LateIssue, D!InjectFault, DeliverySide!LateIssue, DeliverySide!InjectFault
<1>4. \A d, cs : D!GenerateCodes(d, cs) => DeliverySide!GenerateCodes(d, cs)
  BY RowsUnchanged DEF D!GenerateCodes, DeliverySide!GenerateCodes
<1>5. D!ProviderStep => DeliverySide!ProviderStep
  BY <1>3, <1>4 DEF D!ProviderStep, DeliverySide!ProviderStep
<1> QED
  BY <1>1, <1>2, <1>5

(* They move orders on, and none but those of paid payments.                *)
MovesPaidOnly ==
  \A o \in OrderID : orderStatus'[o] # orderStatus[o] =>
    orderStatus[o] # "absent" /\ payStatus[o[1]] = "paid"

(* Writing the status of a seen order is seen.                              *)
LEMMA SeenWrite ==
  ASSUME IInv, NEW o \in OrderID, payStatus[o[1]] = "paid", NEW new,
         orderStatus' = [orderStatus EXCEPT ![o] = new],
         UNCHANGED <<owner, payStatus, payEvent>>
  PROVE  /\ SeenOrders' = [SeenOrders EXCEPT ![o] = new]
         /\ UNCHANGED <<SeenOwners, SeenPayments, SeenEvents>>
<1>1. orderStatus \in [OrderID -> OrderStatus \cup {"absent"}]
  BY RowTypes DEF IInv
<1> QED
  BY <1>1 DEF SeenOrders, SeenOwners, SeenPayments, SeenEvents, IfPaid

(* The goroutine takes an event: it is about an order that is paid.         *)
LEMMA TakeSame ==
  ASSUME IInv, NEW q \in Queues, D!Take(q)
  PROVE  /\ DeliverySide!Take(q)
         /\ MovesPaidOnly
<1> DEFINE e == Head(issueQueue[q])
<1>1. /\ e \in DeliverySide!KnownEvent /\ e.order \in OrderID
      /\ SeenOrders[e.order] # "absent"
  <2>1. issueQueue[q] \in Seq({x \in DeliverySide!KnownEvent : QueueOf[x.order[2]] = q})
        /\ issueQueue[q] # <<>>
    BY DEF IInv, DeliverySide!IInv, DeliverySide!EventsKnown, D!Take
  <2>2. e \in DeliverySide!KnownEvent
    BY <2>1, HeadTailProperties
  <2> QED
    BY <2>2, SameTypes DEF DeliverySide!KnownEvent, OrderEvent
<1>2. payStatus[e.order[1]] = "paid" /\ SeenOrders[e.order] = orderStatus[e.order]
  BY <1>1, SeenIffPaid
<1>3. /\ UNCHANGED <<owner, payStatus, payEvent>>
      /\ orderStatus' = D!StartDelivering(e) \/ orderStatus' = orderStatus
  BY DEF D!Take
<1>4. /\ orderStatus' = D!StartDelivering(e) => SeenOrders' = DeliverySide!StartDelivering(e)
      /\ UNCHANGED <<SeenOwners, SeenPayments, SeenEvents>>
  <2>1. CASE orderStatus' = [orderStatus EXCEPT ![e.order] = "delivering"]
             /\ orderStatus[e.order] = e.status
    BY <1>1, <1>2, <1>3, <2>1, SeenWrite
       DEF DeliverySide!StartDelivering, DeliverySide!UpdateStatus
  <2>2. CASE orderStatus' = orderStatus
    <3>1. orderStatus' = D!StartDelivering(e) =>
            orderStatus[e.order] # e.status \/ orderStatus[e.order] = "delivering"
      <4>1. orderStatus \in [OrderID -> OrderStatus \cup {"absent"}]
        BY RowTypes DEF IInv
      <4> QED
        BY <1>1, <2>2, <4>1 DEF D!StartDelivering, D!UpdateStatus
    <3>2. DeliverySide!StartDelivering(e) = SeenOrders
          \/ (orderStatus[e.order] = e.status /\ orderStatus[e.order] # "delivering")
      BY <1>1, <1>2 DEF DeliverySide!StartDelivering, DeliverySide!UpdateStatus, SeenOrders
    <3> QED
      BY <1>3, <2>2, <3>1, <3>2, SeenUnchanged
  <2> QED
    BY <1>3, <2>1, <2>2 DEF D!StartDelivering, D!UpdateStatus
<1>5. orderStatus' = orderStatus => SeenOrders' = SeenOrders
  BY <1>3, SeenUnchanged
<1>6. D!ValidStatus = DeliverySide!ValidStatus
  BY DEF D!ValidStatus, DeliverySide!ValidStatus
<1>7. DeliverySide!Take(q)
  BY <1>4, <1>5, <1>6
     DEF D!Take, DeliverySide!Take, D!Stage, DeliverySide!Stage, D!Goto,
         DeliverySide!Goto, D!providerVars, DeliverySide!providerVars
<1>8. \A o \in OrderID : orderStatus'[o] # orderStatus[o] => o = e.order
  <2>1. orderStatus \in [OrderID -> OrderStatus \cup {"absent"}]
    BY RowTypes DEF IInv
  <2> QED
    BY <1>3, <2>1 DEF D!StartDelivering, D!UpdateStatus
<1> QED
  BY <1>1, <1>2, <1>7, <1>8 DEF MovesPaidOnly

(* The goroutine ends: its order is paid.                                   *)
LEMMA FinishSame ==
  ASSUME IInv, NEW q \in Queues, D!FinishOrder(q)
  PROVE  /\ DeliverySide!FinishOrder(q)
         /\ MovesPaidOnly
<1> DEFINE r == worker[q].id
           p == r[1]
           new == D!StatusAndCode(D!Row(r))
<1>1. p \in OrderID /\ SeenOrders[p] # "absent"
  <2>1. worker[q] \in DeliverySide!Worker /\ worker[q].stage = "finish"
    BY DEF IInv, DeliverySide!IInv, DeliverySide!TypeOK, D!FinishOrder, D!Stage
  <2>2. r \in DeliverySide!RequestID
    BY <2>1, Assumptions, DeliverySide!WorkerFields
  <2>3. SeenOrders[p] \in DeliverySide!Tried
    BY <2>1 DEF IInv, DeliverySide!IInv, DeliverySide!OrdersInHand, DeliverySide!OrderOf
  <2> QED
    BY <2>2, <2>3, SameTypes
       DEF DeliverySide!RequestID, DeliverySide!Tried, DeliverySide!Handled
<1>2. payStatus[p[1]] = "paid" /\ orderStatus[p] # "absent"
  BY <1>1, SeenIffPaid
<1>3. new = DeliverySide!StatusAndCode(DeliverySide!Row(r))
  BY SameTypes
     DEF D!StatusAndCode, DeliverySide!StatusAndCode, D!ExistsByCode,
         DeliverySide!ExistsByCode, D!StatusFromIssue, DeliverySide!StatusFromIssue,
         D!Row, DeliverySide!Row
<1>4. /\ orderStatus' = [orderStatus EXCEPT ![p] = new.status]
      /\ UNCHANGED <<owner, payStatus, payEvent>>
  BY DEF D!FinishOrder, D!UpdateByID
<1> HIDE DEF new
<1>5. /\ SeenOrders' = [SeenOrders EXCEPT ![p] = new.status]
      /\ UNCHANGED <<SeenOwners, SeenPayments, SeenEvents>>
  BY <1>1, <1>2, <1>4, SeenWrite
<1>6. DeliverySide!FinishOrder(q)
  BY <1>3, <1>5
     DEF new, D!FinishOrder, DeliverySide!FinishOrder, D!UpdateByID, DeliverySide!UpdateByID,
         D!ChargeAfter, DeliverySide!ChargeAfter, D!CreateOrIgnore,
         DeliverySide!CreateOrIgnore, D!Stage, DeliverySide!Stage, D!Goto,
         DeliverySide!Goto, D!Idle, DeliverySide!Idle, D!providerVars,
         DeliverySide!providerVars
<1>7. \A o \in OrderID : orderStatus'[o] # orderStatus[o] => o = p
  <2>1. orderStatus \in [OrderID -> OrderStatus \cup {"absent"}]
    BY RowTypes DEF IInv
  <2> QED
    BY <1>4, <2>1
<1> QED
  BY <1>2, <1>6, <1>7 DEF MovesPaidOnly

(* The customer cancels: the order is paid.                                 *)
LEMMA CancelSame ==
  ASSUME IInv, NEW p \in OrderID, D!CancelOrder(p)
  PROVE  /\ DeliverySide!CancelOrder(p)
         /\ MovesPaidOnly
<1>1. payStatus[p[1]] = "paid" /\ SeenOrders[p] = orderStatus[p] /\ p[1] \in Groups
  BY DEF D!CancelOrder, D!PaymentPaid, SeenOrders, OrderID
<1>2. /\ orderStatus' = [orderStatus EXCEPT ![p] = "cancelled"]
      /\ UNCHANGED <<owner, payStatus, payEvent>>
  BY DEF D!CancelOrder, D!UpdateStatus
<1>3. /\ SeenOrders' = [SeenOrders EXCEPT ![p] = "cancelled"]
      /\ UNCHANGED <<SeenOwners, SeenPayments, SeenEvents>>
  BY <1>1, <1>2, SeenWrite
<1>4. SeenPayments[p[1]] = "paid"
  BY <1>1 DEF SeenPayments, IfPaid
<1>5. DeliverySide!CancelOrder(p)
  BY <1>1, <1>3, <1>4
     DEF D!CancelOrder, DeliverySide!CancelOrder, D!Cancellable, DeliverySide!Cancellable,
         DeliverySide!PaymentPaid, DeliverySide!UpdateStatus, D!CreateOrIgnore,
         DeliverySide!CreateOrIgnore, D!deliveryVars, DeliverySide!deliveryVars,
         D!providerVars, DeliverySide!providerVars
<1>6. \A o \in OrderID : orderStatus'[o] # orderStatus[o] => o = p
  <2>1. orderStatus \in [OrderID -> OrderStatus \cup {"absent"}]
    BY RowTypes DEF IInv
  <2> QED
    BY <1>2, <2>1
<1> QED
  BY <1>1, <1>5, <1>6 DEF MovesPaidOnly, D!CancelOrder, D!Cancellable

(* All steps of the delivery side.                                          *)
LEMMA DeliverySame ==
  ASSUME IInv, D!DeliveryStep
  PROVE  /\ DeliverySide!DeliveryStep
         /\ MovesPaidOnly
<1> USE DEF MovesPaidOnly
<1>1. CASE D!ChooseProvider \/ D!ChooseProviderFails \/ D!ProviderStep
  <2>1. UNCHANGED orderStatus
    BY <1>1 DEF D!ChooseProvider, D!ChooseProviderFails, D!ProviderStep, D!LateIssue,
                D!GenerateCodes, D!rows, D!storeVars
  <2> QED
    BY <1>1, <2>1, QueuesSame DEF DeliverySide!DeliveryStep
<1>2. CASE \E o \in OrderID : D!CancelOrder(o)
  BY <1>2, CancelSame, SameTypes DEF DeliverySide!DeliveryStep
<1>3. ASSUME NEW q \in Queues, D!WorkerStep(q) \/ D!WorkerFault(q)
      PROVE  (DeliverySide!WorkerStep(q) \/ DeliverySide!WorkerFault(q)) /\ MovesPaidOnly
  <2>1. CASE D!Take(q) \/ D!FinishOrder(q)
    BY <2>1, TakeSame, FinishSame DEF DeliverySide!WorkerStep
  <2>2. CASE D!Answered(q) \/ D!TestError(q) \/ D!WronglyEmpty(q) \/ D!BodyLost(q)
             \/ \E how \in {"timeout", "unavailable"} : D!NoResponse(q, how)
    <3>1. UNCHANGED orderStatus
      BY <2>2 DEF D!Answered, D!TestError, D!WronglyEmpty, D!BodyLost, D!NoResponse,
                  D!rows, D!storeVars
    <3> QED
      BY <2>2, <3>1, AttemptSame DEF DeliverySide!WorkerStep, DeliverySide!WorkerFault
  <2>3. CASE \/ D!FindIssue(q) \/ D!SaveIssueResponse(q) \/ D!SaveIssueError(q)
             \/ D!SwitchAddr(q) \/ D!TakeFails(q) \/ D!WorkerFails(q)
    <3>1. UNCHANGED orderStatus
      BY <2>3 DEF D!FindIssue, D!SaveIssueResponse, D!SaveIssueError, D!SwitchAddr,
                  D!TakeFails, D!WorkerFails, D!rows, D!storeVars
    <3> QED
      BY <2>3, <3>1, HandlerSame DEF DeliverySide!WorkerStep, DeliverySide!WorkerFault
  <2> QED
    BY <1>3, <2>1, <2>2, <2>3 DEF D!WorkerStep, D!WorkerFault
<1> QED
  BY <1>1, <1>2, <1>3, SameTypes DEF D!DeliveryStep, DeliverySide!DeliveryStep

-----------------------------------------------------------------------------
(* The steps of the payment side are seen as steps of the environment, or   *)
(* not at all.                                                              *)

(* What the delivery side sees of the rest of the shop's state.             *)
sideVars == <<orderCode, deposits, charges, refunds, paidQueue, recovering, deliveryVars>>

(* Nothing changes that it sees.                                            *)
LEMMA NotSeen ==
  ASSUME UNCHANGED <<SeenOrders, SeenOwners, SeenPayments, SeenEvents>>,
         UNCHANGED sideVars, UNCHANGED faults
  PROVE  UNCHANGED DeliverySide!vars
BY DEF sideVars, deliveryVars, DeliverySide!vars, DeliverySide!storeVars,
       DeliverySide!rows, DeliverySide!deliveryVars, DeliverySide!providerVars

(* Only the count of failures changes.                                      *)
LEMMA FailureSeen ==
  ASSUME UNCHANGED <<SeenOrders, SeenOwners, SeenPayments, SeenEvents>>,
         UNCHANGED sideVars, P!InjectFault
  PROVE  DeliverySide!PaymentSideFails
BY DEF sideVars, deliveryVars, P!InjectFault, DeliverySide!PaymentSideFails,
       DeliverySide!InjectFault, DeliverySide!rows, DeliverySide!deliveryVars,
       DeliverySide!providerVars

(* A new payment and its orders are not paid.                               *)
LEMMA CreateNotSeen ==
  ASSUME IInv, NEW g \in Groups, NEW u \in Users, NEW ps \in SUBSET Products,
         P!CreateOrder(g, u, ps), UNCHANGED deliveryVars
  PROVE  UNCHANGED DeliverySide!vars
<1>1. /\ orderStatus \in [OrderID -> OrderStatus \cup {"absent"}]
      /\ payStatus \in [Groups -> PaymentStatus \cup {"absent"}]
      /\ owner \in [Groups -> Users \cup {NoUser}]
      /\ \A o \in OrderID : o[1] \in Groups
  BY RowTypes DEF IInv, OrderID
<1>2. /\ payStatus[g] = "absent"
      /\ orderStatus' = [o \in OrderID |-> IF o[1] = g /\ o[2] \in ps
                                           THEN "created" ELSE orderStatus[o]]
      /\ payStatus' = [payStatus EXCEPT ![g] = "init"]
      /\ owner' = [owner EXCEPT ![g] = u]
      /\ payEvent' = payEvent
  BY SameTypes DEF P!CreateOrder
<1>3. UNCHANGED <<SeenOrders, SeenOwners, SeenPayments, SeenEvents>>
  BY <1>1, <1>2 DEF SeenOrders, SeenOwners, SeenPayments, SeenEvents, IfPaid
<1>4. UNCHANGED sideVars /\ UNCHANGED faults
  BY DEF P!CreateOrder, sideVars
<1> QED
  BY <1>3, <1>4, NotSeen

(* Nor is one that is awaited.                                              *)
LEMMA AwaitNotSeen ==
  ASSUME IInv, P!MarkAwait, UNCHANGED deliveryVars
  PROVE  UNCHANGED DeliverySide!vars
<1>1. /\ payStatus \in [Groups -> PaymentStatus \cup {"absent"}]
      /\ \A o \in OrderID : o[1] \in Groups
  BY RowTypes DEF IInv, OrderID
<1>2. \A g \in Groups : payStatus'[g] = payStatus[g]
                          \/ (payStatus[g] = "init" /\ payStatus'[g] = "await")
  BY <1>1 DEF P!MarkAwait, P!UpdateStatus
<1>3. UNCHANGED <<orderStatus, owner, payEvent>>
  BY DEF P!MarkAwait
<1>4. UNCHANGED <<SeenOrders, SeenOwners, SeenPayments, SeenEvents>>
  BY <1>1, <1>2, <1>3 DEF SeenOrders, SeenOwners, SeenPayments, SeenEvents, IfPaid
<1>5. UNCHANGED sideVars /\ UNCHANGED faults
  BY DEF P!MarkAwait, sideVars
<1> QED
  BY <1>4, <1>5, NotSeen

(* UpdatePayment: a failed payment is not seen, a paid one appears with its *)
(* orders, its event and its deposit.                                       *)
LEMMA SettleSeen ==
  ASSUME IInv, P!SettlePayment, UNCHANGED deliveryVars
  PROVE  DeliverySide!Environment \/ UNCHANGED DeliverySide!vars
<1> DEFINE ev == Head(updateQueue)
           g == ev.group
           ps == {p \in Products : orderStatus[<<g, p>>] # "absent"}
<1>1. /\ orderStatus \in [OrderID -> OrderStatus \cup {"absent"}]
      /\ payStatus \in [Groups -> PaymentStatus \cup {"absent"}]
      /\ payEvent \in [Groups -> EventID \cup {NoEvent}]
      /\ owner \in [Groups -> Users \cup {NoUser}]
      /\ \A o \in OrderID : o[1] \in Groups /\ o[2] \in Products /\ o = <<o[1], o[2]>>
  BY RowTypes DEF IInv, OrderID
<1>2. /\ g \in Groups /\ ev.id \in EventID /\ ev.id[1] = g /\ ev.status \in {"paid", "failed"}
  <2>1. updateQueue \in Seq(P!DecidedEvent) /\ updateQueue # <<>>
    BY DEF IInv, P!IInv, P!EventsDecided, P!SettlePayment, P!TakeUpdate
  <2>2. ev \in P!DecidedEvent
    BY <2>1, HeadTailProperties
  <2> QED
    BY <2>2, SameTypes DEF P!DecidedEvent, P!PaymentEvent, P!Settled
<1>3. /\ payStatus[g] = "await"
      /\ payStatus' = [payStatus EXCEPT ![g] = ev.status]
      /\ payEvent' = [payEvent EXCEPT ![g] = ev.id]
      /\ deposits' = IF ev.status = "paid" THEN P!CreateOrIgnore(deposits, g) ELSE deposits
      /\ orderStatus' = P!UpdateOrdersStatus(g, P!NewOrderStatus(ev.status))
  BY DEF P!SettlePayment, P!Awaiting, P!UpdateStatus
<1>4. UNCHANGED <<owner, orderCode, charges, refunds, paidQueue, recovering, faults>>
  BY DEF P!SettlePayment, P!TakeUpdate
<1>5. \A o \in OrderID : o[1] # g => orderStatus'[o] = orderStatus[o]
  BY <1>3, SameTypes DEF P!UpdateOrdersStatus
<1> HIDE DEF ev
<1>6. CASE ev.status = "failed"
  <2>1. UNCHANGED <<SeenOrders, SeenOwners, SeenPayments, SeenEvents>>
    BY <1>1, <1>2, <1>3, <1>4, <1>5, <1>6
       DEF SeenOrders, SeenOwners, SeenPayments, SeenEvents, IfPaid
  <2>2. UNCHANGED sideVars
    BY <1>3, <1>4, <1>6 DEF sideVars
  <2> QED
    BY <1>4, <2>1, <2>2, NotSeen
<1>7. CASE ev.status = "paid"
  <2>1. ps # {} /\ owner[g] \in Users
    BY <1>2, <1>3 DEF IInv, PaymentsHaveOrders
  <2>2. SeenPayments[g] = "absent"
    BY <1>2, <1>3 DEF SeenPayments, IfPaid
  <2>3. \A o \in OrderID : o[1] = g /\ orderStatus[o] # "absent" => orderStatus[o] = "created"
    BY <1>3, SameTypes DEF IInv, P!IInv, P!OrdersFollowPayment
  <2>4. \A o \in OrderID : o[1] = g =>
          orderStatus'[o] = IF o[2] \in ps THEN "paid" ELSE "absent"
    BY <1>1, <1>2, <1>3, <1>7, <2>3, SameTypes DEF P!UpdateOrdersStatus, P!NewOrderStatus
  <2>5. SeenOrders' = [o \in OrderID |-> IF o[1] = g /\ o[2] \in ps
                                        THEN "paid" ELSE SeenOrders[o]]
    <3> HIDE DEF ps, g
    <3>1. ASSUME NEW o \in OrderID
          PROVE  (IF payStatus'[o[1]] = "paid" THEN orderStatus'[o] ELSE "absent")
                   = IF o[1] = g /\ o[2] \in ps THEN "paid" ELSE SeenOrders[o]
      BY <1>1, <1>2, <1>3, <1>5, <1>7, <2>4 DEF SeenOrders
    <3> QED
      BY <3>1 DEF SeenOrders
  <2>6. /\ SeenPayments' = [SeenPayments EXCEPT ![g] = "paid"]
        /\ SeenEvents' = [SeenEvents EXCEPT ![g] = ev.id]
        /\ SeenOwners' = [SeenOwners EXCEPT ![g] = owner[g]]
    <3> HIDE DEF g
    <3> QED
      BY <1>1, <1>2, <1>3, <1>4, <1>7 DEF SeenPayments, SeenEvents, SeenOwners, IfPaid
  <2>7. deposits' = DeliverySide!CreateOrIgnore(deposits, g)
    BY <1>3, <1>7 DEF P!CreateOrIgnore, DeliverySide!CreateOrIgnore
  <2>8. \E e \in EventID : e[1] = g /\ SeenEvents' = [SeenEvents EXCEPT ![g] = e]
    BY <1>2, <2>6
  <2>9. ps \in SUBSET Products
    OBVIOUS
  <2> HIDE DEF g, ps
  <2>10. DeliverySide!GroupPaid(g, owner[g], ps)
    BY <1>4, <2>1, <2>2, <2>5, <2>6, <2>7, <2>8, SameTypes
       DEF DeliverySide!GroupPaid, deliveryVars, DeliverySide!deliveryVars,
           DeliverySide!providerVars
  <2> QED
    BY <1>2, <2>1, <2>9, <2>10 DEF DeliverySide!Environment
<1> QED
  BY <1>2, <1>6, <1>7

(* UpdatePayment announces an order that is paid.                           *)
LEMMA PublishSeen ==
  ASSUME IInv, P!PublishPaid, UNCHANGED deliveryVars
  PROVE  DeliverySide!Environment
<1> DEFINE e == Head(updateWorker.events)
           o == e.order
<1>1. e \in ReadPaid /\ e \in P!AnnouncedEvent
  <2>1. updateWorker.stage = "publish"
    BY DEF P!PublishPaid
  <2>2. updateWorker.events \in Seq(P!OrderEvent) \ {<<>>}
    BY <2>1 DEF IInv, P!IInv, P!TypeOK, P!UpdateWorker, P!Idle
  <2>3. updateWorker.events \in Seq(ReadPaid) /\ updateWorker.events \in Seq(P!AnnouncedEvent)
    BY <2>1 DEF IInv, PublishesPaid, P!IInv, P!AnnouncementsPaid
  <2> QED
    BY <2>2, <2>3, HeadTailProperties
<1>2. o \in OrderID /\ orderStatus[o] # "absent" /\ payStatus[o[1]] = "paid"
      /\ e = [order |-> o, status |-> "paid"] /\ o[1] \in Groups
  BY <1>1 DEF ReadPaid, OrderEvent, P!AnnouncedEvent, OrderID
<1>3. SeenOrders[o] # "absent" /\ SeenPayments[o[1]] = "paid"
  BY <1>2 DEF SeenOrders, SeenPayments, IfPaid
<1>4. paidQueue' = Append(paidQueue, [order |-> o, status |-> "paid"])
  BY <1>2 DEF P!PublishPaid
<1>5. UNCHANGED <<SeenOrders, SeenOwners, SeenPayments, SeenEvents>>
  BY SeenUnchanged DEF P!PublishPaid, P!rows
<1> HIDE DEF e, o
<1>6. DeliverySide!Announce(o)
  BY <1>3, <1>4, <1>5
     DEF P!PublishPaid, P!rows, P!HasRoom, DeliverySide!Announce, DeliverySide!HasRoom,
         DeliverySide!rows, deliveryVars, DeliverySide!deliveryVars,
         DeliverySide!providerVars
<1> QED
  BY <1>2, <1>6, SameTypes DEF DeliverySide!Environment

(* Every step of the payment side.                                          *)
LEMMA PaymentSeen ==
  ASSUME IInv, P!PaymentStep, UNCHANGED deliveryVars
  PROVE  DeliverySide!Environment \/ UNCHANGED DeliverySide!vars
<1> USE DEF P!rows, P!storeVars, P!serviceVars, P!flowVars, sideVars
<1>1. CASE \E g \in Groups, u \in Users, ps \in SUBSET Products : P!CreateOrder(g, u, ps)
  BY <1>1, CreateNotSeen
<1>2. CASE P!MarkAwait
  BY <1>2, AwaitNotSeen
<1>3. CASE P!SettlePayment
  BY <1>3, SettleSeen
<1>4. CASE P!PublishPaid
  BY <1>4, PublishSeen
<1>5. CASE \/ \E g \in Groups : P!PublishInit(g)
           \/ P!TakeInit \/ P!PostPayment \/ P!SkipKnownEvent \/ P!RejectEvent \/ P!ListPaid
  <2>1. UNCHANGED <<orderStatus, owner, payStatus, payEvent, sideVars, faults>>
    BY <1>5 DEF P!PublishInit, P!TakeInit, P!PostPayment, P!TakeUpdate,
                P!SkipKnownEvent, P!RejectEvent, P!ListPaid
  <2> QED
    BY <2>1, SeenUnchanged, NotSeen
<1>6. CASE \E x \in P!EventID : \/ \E st \in P!DecisionStatus : P!BeginDecision(x, st)
                                \/ P!SaveDecision(x) \/ P!DeliverWebhook(x)
                                \/ P!ResendWebhook(x)
  <2>1. UNCHANGED <<orderStatus, owner, payStatus, payEvent, sideVars, faults>>
    BY <1>6 DEF P!BeginDecision, P!SaveDecision, P!DeliverWebhook, P!ResendWebhook
  <2> QED
    BY <2>1, SeenUnchanged, NotSeen
<1>7. CASE \/ \E g \in Groups : P!AbandonCreate(g)
           \/ P!PostPaymentFails \/ P!MarkAwaitFails \/ P!UpdateFails \/ P!ListPaidFails
           \/ \E x \in P!EventID : P!LoseWebhook(x)
  <2>1. UNCHANGED <<orderStatus, owner, payStatus, payEvent, sideVars>> /\ P!InjectFault
    BY <1>7 DEF P!AbandonCreate, P!PostPaymentFails, P!MarkAwaitFails, P!UpdateFails,
                P!TakeUpdate, P!ListPaidFails, P!LoseWebhook
  <2> QED
    BY <2>1, SeenUnchanged, FailureSeen DEF DeliverySide!Environment
<1> QED
  BY <1>1, <1>2, <1>3, <1>4, <1>5, <1>6, <1>7 DEF P!PaymentStep

-----------------------------------------------------------------------------
(* Recovery and crashes.                                                    *)

(* An order to be recovered is seen as it is, or waits for its payment.     *)
LEMMA RecoverableSeen ==
  ASSUME IInv, NEW o \in Recoverable
  PROVE  /\ o \in OrderID
         /\ \/ o \in DeliverySide!Unseen /\ orderStatus[o] = "created"
            \/ o \in DeliverySide!Recoverable /\ SeenOrders[o] = orderStatus[o]
         /\ DeliverySide!ListedRow(o) = Snapshot(o)
<1>1. o \in OrderID /\ orderStatus[o] \in RecoveredStatus \cup {"created"} /\ o[1] \in Groups
  BY DEF Recoverable, OrderID
<1>2. orderStatus[o] # "created" => payStatus[o[1]] = "paid"
  BY <1>1, SameTypes, RowTypes
     DEF IInv, P!IInv, P!OrdersFollowPayment, RecoveredStatus, PaymentStatus
<1>3. payStatus[o[1]] = "paid" => orderStatus[o] # "created"
  BY <1>1, SameTypes DEF IInv, P!IInv, P!OrdersFollowPayment, RecoveredStatus
<1>4. CASE payStatus[o[1]] = "paid"
  <2>1. SeenOrders[o] = orderStatus[o] /\ orderStatus[o] \in RecoveredStatus
    BY <1>1, <1>3, <1>4 DEF SeenOrders
  <2> QED
    BY <1>1, <2>1, SameTypes
       DEF DeliverySide!Recoverable, DeliverySide!RecoveredStatus, RecoveredStatus,
           DeliverySide!ListedRow, DeliverySide!Unseen, Snapshot
<1>5. CASE payStatus[o[1]] # "paid"
  <2>1. SeenOrders[o] = "absent" /\ orderStatus[o] = "created"
    BY <1>1, <1>2, <1>5 DEF SeenOrders
  <2> QED
    BY <1>1, <2>1, SameTypes DEF DeliverySide!ListedRow, DeliverySide!Unseen, Snapshot
<1> QED
  BY <1>4, <1>5

(* What is to be recovered among the orders seen is to be recovered.        *)
LEMMA SeenRecoverable ==
  DeliverySide!Recoverable \subseteq Recoverable
BY SameTypes
   DEF DeliverySide!Recoverable, Recoverable, DeliverySide!RecoveredStatus,
       RecoveredStatus, SeenOrders

(* Sets are counted and listed the same.                                    *)
LEMMA SameListings ==
  /\ \A S : DeliverySide!Cardinality(S) = Cardinality(S)
  /\ \A S : DeliverySide!SetToSeqs(S) = SetToSeqs(S)
<1>1. \A S : DeliverySide!Cardinality(S) = Cardinality(S)
  BY DEF DeliverySide!Cardinality, Cardinality
<1> QED
  BY <1>1 DEF DeliverySide!SetToSeqs, SetToSeqs

(* The listing of a recovery request is one the delivery side allows,       *)
(* with the rows that wait for their payment, and their share of its LIMIT. *)
LEMMA StartRecoverySeen ==
  ASSUME IInv, NEW h \in Recoveries, StartRecovery(h)
  PROVE  DeliverySide!ListForRecovery(h)
<1>0. PICK S \in RecoveryCandidates : \E listed \in Listing(S) :
        S # {} /\ recovering' = [recovering EXCEPT ![h] = listed]
  BY DEF StartRecovery
<1>1. S # {} /\ \E listed \in Listing(S) : recovering' = [recovering EXCEPT ![h] = listed]
  BY <1>0
<1>2. /\ S \subseteq Recoverable /\ Cardinality(S) <= RecoveryLimit
      /\ Recoverable \subseteq S \/ Cardinality(S) = RecoveryLimit
  BY StoreAssumption DEF RecoveryCandidates
<1>3. /\ S \in SUBSET (DeliverySide!Recoverable \cup DeliverySide!Unseen)
      /\ DeliverySide!Recoverable \subseteq S \/ Cardinality(S) = RecoveryLimit
  BY <1>2, RecoverableSeen, SeenRecoverable
<1>4. {DeliverySide!ListedRow(o) : o \in S} = {Snapshot(o) : o \in S}
  BY <1>2, RecoverableSeen
<1>5. \E listed \in DeliverySide!SetToSeqs({DeliverySide!ListedRow(o) : o \in S}) :
        recovering' = [recovering EXCEPT ![h] = listed]
  BY <1>1, <1>4, SameListings DEF Listing
<1>6. /\ recovering[h] = <<>> /\ UNCHANGED <<rows, paidQueue, faults>>
      /\ UNCHANGED DeliverySide!rows
  BY SeenUnchanged DEF StartRecovery, rows, DeliverySide!rows
<1> QED
  BY <1>1, <1>2, <1>3, <1>5, <1>6, SameListings DEF DeliverySide!ListForRecovery

(* Nor does it matter to its loop what else waits for a payment.            *)
LEMMA RecoverOrderSeen ==
  ASSUME NEW h \in Recoveries, RecoverOrder(h)
  PROVE  DeliverySide!RecoverOrder(h)
<1>1. UNCHANGED DeliverySide!rows
  BY SeenUnchanged DEF RecoverOrder, rows, DeliverySide!rows
<1> QED
  BY <1>1 DEF RecoverOrder, DeliverySide!RecoverOrder, HasRoom, DeliverySide!HasRoom,
              RecoveredStatus, DeliverySide!RecoveredStatus,
              DeliverySide!InitRecoverable, DeliverySide!PaymentPaid

(* A crash takes both sides.                                                *)
LEMMA CrashSeen ==
  ASSUME Crash
  PROVE  DeliverySide!Crash
<1>1. UNCHANGED DeliverySide!rows
  BY SeenUnchanged DEF Crash, CrashStore, rows, DeliverySide!rows
<1> QED
  BY <1>1 DEF Crash, CrashStore, InjectFault, D!CrashDelivery, D!Idle, D!providerVars,
              DeliverySide!Crash, DeliverySide!CrashStore, DeliverySide!InjectFault,
              DeliverySide!CrashDelivery, DeliverySide!Idle, DeliverySide!providerVars

(* Every step of the shop is one the delivery side allows.                  *)
LEMMA SeenNext ==
  ASSUME IInv, [Next]_vars
  PROVE  [DeliverySide!Next]_(DeliverySide!vars)
<1>1. CASE P!PaymentStep /\ UNCHANGED deliveryVars
  BY <1>1, PaymentSeen DEF DeliverySide!Next
<1>2. CASE D!DeliveryStep
  BY <1>2, DeliverySame DEF DeliverySide!Next
<1>3. CASE Recovery
  <2>1. UNCHANGED <<DeliverySide!deliveryVars, DeliverySide!providerVars>>
    BY <1>3 DEF Recovery, deliveryVars, DeliverySide!deliveryVars, DeliverySide!providerVars
  <2> QED
    BY <1>3, <2>1, StartRecoverySeen, RecoverOrderSeen
       DEF Recovery, DeliverySide!Recovery, DeliverySide!Next
<1>4. CASE Crash
  BY <1>4, CrashSeen DEF DeliverySide!Next
<1>5. CASE UNCHANGED vars
  BY <1>5, SeenUnchanged, NotSeen DEF vars, storeVars, rows, sideVars
<1> QED
  BY <1>1, <1>2, <1>3, <1>4, <1>5 DEF Next

-----------------------------------------------------------------------------
(* What the delivery side does keeps the invariant of the payment side.     *)

(* Orders of paid payments may move on, paid events may be taken, charges   *)
(* and refunds be written, and failures happen.                             *)
LEMMA PaymentSideKept ==
  ASSUME P!IInv,
         UNCHANGED <<owner, payStatus, payEvent, deposits, initQueue, recovering, paymentVars>>,
         orderStatus' \in [OrderID -> OrderStatus \cup {"absent"}],
         \A o \in OrderID : orderStatus'[o] # orderStatus[o] =>
           payStatus[o[1]] = "paid" /\ orderStatus'[o] \notin {"created", "payment_failed"},
         orderCode' \in [OrderID -> Codes \cup {NoCode}],
         charges' \in [OrderID -> Nat], refunds' \in [OrderID -> Nat],
         paidQueue' \in Seq(P!AnnouncedEvent), faults' \in Nat,
         faults' = 0 => faults = 0
  PROVE  P!IInv'
<1> USE DEF paymentVars
<1>1. P!TypeOK'
  <2>1. P!StoreTypeOK'
    <3>1. paidQueue' \in Seq(P!OrderEvent)
      <4>1. P!AnnouncedEvent \subseteq P!OrderEvent
        BY DEF P!AnnouncedEvent
      <4> QED
        BY <4>1, SeqMonotonic
    <3> QED
      BY <3>1, SameTypes DEF P!IInv, P!TypeOK, P!StoreTypeOK
  <2> QED
    BY <2>1 DEF P!IInv, P!TypeOK
<1>2. P!ServiceRowDecided' /\ P!TracesInOrder' /\ P!ServiceKnowsPayment'
  BY DEF P!IInv, P!ServiceRowDecided, P!TracesInOrder, P!ServiceKnowsPayment, P!Decided,
         P!IsSettled
<1>3. P!EventsDecided' /\ P!InitInOrder'
  BY DEF P!IInv, P!EventsDecided, P!DecidedEvent, P!Decided, P!InitInOrder
<1>4. P!OneCarrier'
  BY DEF P!IInv, P!OneCarrier, P!Carried, P!InitTaken, P!InitPositions
<1>5. P!PaidAgreement' /\ P!DepositMatchesPayment'
  BY DEF P!IInv, P!PaidAgreement, P!DepositMatchesPayment, P!IsSettled, P!Decided
<1>6. P!OrdersFollowPayment'
  BY SameTypes DEF P!IInv, P!OrdersFollowPayment
<1>7. P!AnnouncementsPaid'
  BY DEF P!IInv, P!AnnouncementsPaid, P!AnnouncedEvent, P!ListedEvent
<1> QED
  BY <1>1, <1>2, <1>3, <1>4, <1>5, <1>6, <1>7 DEF P!IInv

(* What a failure on the delivery side does to the count of failures.       *)
LEMMA FaultsCounted ==
  ASSUME P!IInv, D!DeliveryStep
  PROVE  faults' = 0 => faults = 0
<1>1. D!InjectFault => faults' # 0
  BY RowTypes DEF D!InjectFault
<1> USE DEF D!rows, D!storeVars
<1>2. CASE D!ChooseProviderFails \/ \E q \in Queues : D!WorkerFault(q)
  BY <1>1, <1>2 DEF D!ChooseProviderFails, D!WorkerFault, D!TakeFails, D!WorkerFails,
                    D!TestError, D!WronglyEmpty, D!BodyLost, D!NoResponse
<1>3. CASE D!ChooseProvider \/ D!ProviderStep \/ \E o \in D!OrderID : D!CancelOrder(o)
  BY <1>1, <1>3 DEF D!ChooseProvider, D!ProviderStep, D!LateIssue, D!GenerateCodes,
                    D!CancelOrder
<1>4. CASE \E q \in Queues : D!WorkerStep(q)
  BY <1>4 DEF D!WorkerStep, D!Take, D!FindIssue, D!Answered, D!SaveIssueResponse,
              D!SaveIssueError, D!SwitchAddr, D!FinishOrder
<1> QED
  BY <1>2, <1>3, <1>4 DEF D!DeliveryStep

(* What a step of the delivery side leaves alone.                           *)
LEMMA DeliveryFrame ==
  ASSUME D!DeliveryStep
  PROVE  /\ UNCHANGED <<owner, payStatus, payEvent, deposits, initQueue, recovering>>
         /\ \/ paidQueue' = paidQueue
            \/ paidQueue # <<>> /\ paidQueue' = Tail(paidQueue)
         /\ \/ UNCHANGED orderStatus
            \/ \E o, new : orderStatus' = [orderStatus EXCEPT ![o] = new]
<1> USE DEF D!rows, D!storeVars, D!StartDelivering, D!UpdateStatus, D!UpdateByID
<1>1. CASE D!ChooseProvider \/ D!ChooseProviderFails \/ D!ProviderStep
           \/ \E o \in D!OrderID : D!CancelOrder(o)
  BY <1>1 DEF D!ChooseProvider, D!ChooseProviderFails, D!ProviderStep, D!LateIssue,
              D!GenerateCodes, D!CancelOrder
<1>2. CASE \E q \in Queues : D!WorkerStep(q)
  BY <1>2 DEF D!WorkerStep, D!Take, D!FindIssue, D!Answered, D!SaveIssueResponse,
              D!SaveIssueError, D!SwitchAddr, D!FinishOrder
<1>3. CASE \E q \in Queues : D!WorkerFault(q)
  BY <1>3 DEF D!WorkerFault, D!TakeFails, D!WorkerFails, D!TestError, D!WronglyEmpty,
              D!BodyLost, D!NoResponse
<1> QED
  BY <1>1, <1>2, <1>3 DEF D!DeliveryStep

(* A step of the delivery side.                                             *)
LEMMA DeliveryKeeps ==
  ASSUME IInv, D!DeliveryStep, UNCHANGED paymentVars, DeliverySide!IInv'
  PROVE  P!IInv'
<1>1. /\ UNCHANGED <<owner, payStatus, payEvent, deposits, initQueue, recovering>>
      /\ \A o \in OrderID : orderStatus'[o] # orderStatus[o] => payStatus[o[1]] = "paid"
  BY DeliveryFrame, DeliverySame DEF MovesPaidOnly
<1>2. /\ SeenOrders' \in [OrderID -> OrderStatus \cup {"absent"}]
      /\ \A o \in OrderID : SeenOrders'[o] \notin {"created", "payment_failed"}
      /\ orderCode' \in [OrderID -> Codes \cup {NoCode}]
      /\ charges' \in [OrderID -> Nat] /\ refunds' \in [OrderID -> Nat]
      /\ faults' \in Nat
  BY SameTypes
     DEF DeliverySide!IInv, DeliverySide!TypeOK, DeliverySide!StoreTypeOK,
         DeliverySide!OrdersArePaid
<1>3. \A o \in OrderID : payStatus[o[1]] = "paid" => SeenOrders'[o] = orderStatus'[o]
  BY <1>1 DEF SeenOrders
<1>4. orderStatus' \in [OrderID -> OrderStatus \cup {"absent"}]
  <2>1. orderStatus \in [OrderID -> OrderStatus \cup {"absent"}]
    BY RowTypes DEF IInv
  <2>2. orderStatus' = [o \in OrderID |-> orderStatus'[o]]
    BY <2>1, DeliveryFrame
  <2>3. \A o \in OrderID : orderStatus'[o] \in OrderStatus \cup {"absent"}
    BY <1>1, <1>2, <1>3, <2>1
  <2> QED
    BY <2>2, <2>3
<1>5. paidQueue' \in Seq(P!AnnouncedEvent)
  <2>1. paidQueue \in Seq(P!AnnouncedEvent)
    BY DEF IInv, P!IInv, P!AnnouncementsPaid
  <2> QED
    BY <2>1, DeliveryFrame, HeadTailProperties
<1> QED
  BY <1>1, <1>2, <1>3, <1>4, <1>5, FaultsCounted, PaymentSideKept DEF IInv

-----------------------------------------------------------------------------
(* Payments, their orders and what UpdatePayment publishes.                 *)

(* Every other step is one of the payment side's own.                       *)
LEMMA PaymentNext ==
  ASSUME [Next]_vars
  PROVE  [P!Next]_(P!vars) \/ (D!DeliveryStep /\ UNCHANGED paymentVars)
<1>1. CASE P!PaymentStep
  BY <1>1 DEF P!Next
<1>2. CASE Recovery
  <2>1. \A S : P!Cardinality(S) = Cardinality(S)
    BY DEF P!Cardinality, Cardinality
  <2>2. \A S : P!SetToSeqs(S) = SetToSeqs(S)
    BY <2>1 DEF P!SetToSeqs, SetToSeqs
  <2>3. P!Recoverable = Recoverable /\ \A o : P!Snapshot(o) = Snapshot(o)
    BY SameTypes DEF P!Recoverable, Recoverable, P!RecoveredStatus, RecoveredStatus,
                     P!Snapshot, Snapshot
  <2>4. P!RecoveryCandidates = RecoveryCandidates
    BY <2>1, <2>3 DEF P!RecoveryCandidates, RecoveryCandidates
  <2>5. \A S : P!Listing(S) = Listing(S)
    BY <2>2, <2>3 DEF P!Listing, Listing
  <2>6. \A h \in Recoveries : StartRecovery(h) => P!StartRecovery(h)
    BY <2>4, <2>5 DEF StartRecovery, P!StartRecovery, rows, P!rows
  <2>7. \A h \in Recoveries : RecoverOrder(h) => P!RecoverOrder(h)
    BY DEF RecoverOrder, P!RecoverOrder, HasRoom, P!HasRoom, RecoveredStatus,
           P!RecoveredStatus, InitRecoverable, P!InitRecoverable, PaymentPaid,
           P!PaymentPaid, PaymentSnapshot, P!PaymentSnapshot, rows, P!rows
  <2> QED
    BY <1>2, <2>6, <2>7
       DEF Recovery, paymentVars, P!flowVars, P!serviceVars, P!Recovery, P!Next
<1>3. CASE Crash
  BY <1>3 DEF Crash, CrashStore, P!Crash, P!CrashStore, InjectFault, P!InjectFault,
              rows, P!rows, P!Next
<1>4. CASE UNCHANGED vars
  BY <1>4 DEF vars, paymentVars, storeVars, rows, P!vars, P!storeVars, P!rows,
              P!flowVars, P!serviceVars
<1> QED
  BY <1>1, <1>2, <1>3, <1>4 DEF Next

(* What a step of the payment side does to the rows of orders: a group is   *)
(* created, settled, or left alone.                                         *)
LEMMA PaymentRows ==
  ASSUME P!IInv, [P!Next]_(P!vars)
  PROVE  \/ \E g \in Groups, u \in Users, ps \in SUBSET Products : P!CreateOrder(g, u, ps)
         \/ /\ UNCHANGED owner
            /\ \A g \in Groups : payStatus'[g] # "absent" => payStatus[g] # "absent"
            /\ \A o \in OrderID : orderStatus[o] # "absent" => orderStatus'[o] # "absent"
<1>1. /\ orderStatus \in [OrderID -> OrderStatus \cup {"absent"}]
      /\ payStatus \in [Groups -> PaymentStatus \cup {"absent"}]
  BY RowTypes
<1>2. CASE P!MarkAwait
  BY <1>1, <1>2 DEF P!MarkAwait, P!UpdateStatus
<1>3. CASE P!SettlePayment
  <2> DEFINE g == Head(updateQueue).group
             s == Head(updateQueue).status
  <2>1. /\ payStatus[g] = "await" /\ UNCHANGED owner
        /\ payStatus' = [payStatus EXCEPT ![g] = s]
        /\ orderStatus' = P!UpdateOrdersStatus(g, P!NewOrderStatus(s))
    BY <1>3 DEF P!SettlePayment, P!TakeUpdate, P!Awaiting, P!UpdateStatus
  <2> HIDE DEF g, s
  <2>2. \A h \in Groups : payStatus'[h] # "absent" => payStatus[h] # "absent"
    BY <1>1, <2>1
  <2>3. P!NewOrderStatus(s) # "absent"
    BY DEF P!NewOrderStatus
  <2>4. \A o \in OrderID : orderStatus[o] # "absent" => orderStatus'[o] # "absent"
    BY <1>1, <2>1, <2>3, SameTypes DEF P!UpdateOrdersStatus
  <2> QED
    BY <2>1, <2>2, <2>4
<1>4. CASE /\ P!PaymentStep /\ ~P!MarkAwait /\ ~P!SettlePayment
           /\ ~\E g \in Groups, u \in Users, ps \in SUBSET Products : P!CreateOrder(g, u, ps)
  <2>1. UNCHANGED <<orderStatus, owner, payStatus>>
    BY <1>4
       DEF P!PaymentStep, P!PublishInit, P!AbandonCreate, P!ResendWebhook, P!TakeInit,
           P!PostPayment, P!PostPaymentFails, P!MarkAwaitFails, P!BeginDecision,
           P!SaveDecision, P!DeliverWebhook, P!LoseWebhook, P!SkipKnownEvent,
           P!RejectEvent, P!UpdateFails, P!TakeUpdate, P!ListPaid, P!ListPaidFails,
           P!PublishPaid, P!storeVars, P!rows
  <2> QED
    BY <2>1
<1>5. CASE P!Recovery \/ P!ConsumePaid \/ P!Crash \/ UNCHANGED P!vars
  <2>1. UNCHANGED <<orderStatus, owner, payStatus>>
    BY <1>5 DEF P!Recovery, P!StartRecovery, P!RecoverOrder, P!ConsumePaid, P!Crash,
                P!CrashStore, P!vars, P!storeVars, P!rows
  <2> QED
    BY <2>1
<1> QED
  BY <1>2, <1>3, <1>4, <1>5 DEF P!Next

(* An order stays.                                                          *)
LEMMA OrdersStay ==
  ASSUME IInv, [Next]_vars, NEW o \in OrderID, orderStatus[o] # "absent"
  PROVE  orderStatus'[o] # "absent"
<1>1. CASE D!DeliveryStep
  <2>1. CASE payStatus[o[1]] = "paid"
    <3>1. SeenOrders[o] # "absent"
      BY <2>1, SeenIffPaid
    <3>2. SeenOrders'[o] # "absent"
      BY <3>1, SameTypes, SeenNext, Assumptions, DeliverySide!OrdersStable DEF IInv
    <3> QED
      BY <3>2 DEF SeenOrders
  <2>2. CASE payStatus[o[1]] # "paid"
    BY <1>1, <2>2, DeliverySame DEF MovesPaidOnly
  <2> QED
    BY <2>1, <2>2
<1>2. CASE [P!Next]_(P!vars)
  <2>1. CASE \E g \in Groups, u \in Users, ps \in SUBSET Products : P!CreateOrder(g, u, ps)
    BY <2>1, SameTypes DEF P!CreateOrder
  <2> QED
    BY <1>2, <2>1, PaymentRows DEF IInv
<1> QED
  BY <1>1, <1>2, PaymentNext

(* PaymentsHaveOrders is preserved by every step.                           *)
LEMMA PaymentsHaveOrdersNext ==
  ASSUME IInv, [Next]_vars
  PROVE  PaymentsHaveOrders'
<1> SUFFICES ASSUME NEW g \in Groups, payStatus'[g] # "absent"
             PROVE  owner'[g] \in Users /\ \E p \in Products : orderStatus'[<<g, p>>] # "absent"
  BY DEF PaymentsHaveOrders
<1>1. CASE payStatus[g] # "absent" /\ owner'[g] = owner[g]
  <2>1. PICK p \in Products : orderStatus[<<g, p>>] # "absent"
    BY <1>1 DEF IInv, PaymentsHaveOrders
  <2>2. <<g, p>> \in OrderID
    BY DEF OrderID
  <2> QED
    BY <1>1, <2>1, <2>2, OrdersStay DEF IInv, PaymentsHaveOrders
<1>2. CASE D!DeliveryStep
  BY <1>1, <1>2, DeliveryFrame
<1>3. ASSUME NEW h \in Groups, NEW u \in Users, NEW ps \in SUBSET Products,
             P!CreateOrder(h, u, ps)
      PROVE  owner'[g] \in Users /\ \E p \in Products : orderStatus'[<<g, p>>] # "absent"
  <2>1. /\ ps # {}
        /\ payStatus' = [payStatus EXCEPT ![h] = "init"]
        /\ owner' = [owner EXCEPT ![h] = u]
        /\ orderStatus' = [o \in OrderID |-> IF o[1] = h /\ o[2] \in ps
                                             THEN "created" ELSE orderStatus[o]]
    BY <1>3, SameTypes DEF P!CreateOrder
  <2>2. /\ payStatus \in [Groups -> PaymentStatus \cup {"absent"}]
        /\ owner \in [Groups -> Users \cup {NoUser}]
    BY RowTypes DEF IInv
  <2>3. CASE g = h
    <3>1. PICK p \in ps : TRUE
      BY <2>1
    <3>2. <<g, p>> \in OrderID /\ orderStatus'[<<g, p>>] = "created"
      BY <2>1, <2>3 DEF OrderID
    <3> QED
      BY <2>1, <2>2, <2>3, <3>2
  <2>4. CASE g # h
    BY <1>1, <2>1, <2>2, <2>4
  <2> QED
    BY <2>3, <2>4
<1>4. CASE [P!Next]_(P!vars)
  BY <1>1, <1>3, <1>4, PaymentRows DEF IInv
<1> QED
  BY <1>2, <1>4, PaymentNext

(* What UpdatePayment has read it may go on publishing.                     *)
LEMMA ReadStable ==
  ASSUME IInv, [Next]_vars
  PROVE  ReadPaid \subseteq ReadPaid'
<1>1. \A e \in OrderEvent : e.order \in OrderID
  BY DEF OrderEvent
<1> QED
  BY <1>1, OrdersStay DEF ReadPaid

(* PublishesPaid is preserved by every step.                                *)
LEMMA PublishesPaidNext ==
  ASSUME IInv, [Next]_vars
  PROVE  PublishesPaid'
<1>1. updateWorker.stage = "publish" => updateWorker.events \in Seq(ReadPaid')
  BY ReadStable, SeqMonotonic DEF IInv, PublishesPaid
<1>2. CASE updateWorker' = updateWorker \/ updateWorker'.stage # "publish"
  BY <1>1, <1>2 DEF PublishesPaid
<1>3. CASE P!ListPaid
  <2>1. PICK events \in P!Listing({o \in P!FindByGroupID(updateWorker.group) :
                                     orderStatus[o] = "paid"}) :
               updateWorker' = P!Publishing(events)
    BY <1>3 DEF P!ListPaid
  <2> DEFINE Paid == {o \in P!OrderID : orderStatus[o] = "paid"}
  <2>2. events \in Seq({P!Snapshot(o) : o \in Paid})
    BY Assumptions, P!PaidListing DEF IInv, P!IInv, P!TypeInv
  <2>3. {P!Snapshot(o) : o \in Paid} \subseteq ReadPaid
    <3> SUFFICES ASSUME NEW o \in Paid PROVE P!Snapshot(o) \in ReadPaid
      OBVIOUS
    <3> QED
      BY SameTypes DEF P!Snapshot, ReadPaid, OrderEvent, OrderStatus
  <2>4. events \in Seq(ReadPaid')
    BY <2>2, <2>3, ReadStable, SeqMonotonic
  <2> QED
    BY <2>1, <2>4 DEF P!Publishing, P!Idle, PublishesPaid
<1>4. CASE P!PublishPaid
  <2>1. updateWorker.events \in Seq(ReadPaid') /\ updateWorker.events # <<>>
    <3>1. updateWorker.stage = "publish"
      BY <1>4 DEF P!PublishPaid
    <3>2. updateWorker.events \in Seq(P!OrderEvent) \ {<<>>}
      BY <3>1 DEF IInv, P!IInv, P!TypeOK, P!UpdateWorker, P!Idle
    <3> QED
      BY <1>1, <3>1, <3>2
  <2>2. Tail(updateWorker.events) \in Seq(ReadPaid')
    BY <2>1, HeadTailProperties
  <2> QED
    BY <1>4, <2>2 DEF P!PublishPaid, P!Publishing, P!Idle, PublishesPaid
<1>5. P!ListPaid \/ P!PublishPaid
      \/ updateWorker' = updateWorker \/ updateWorker'.stage # "publish"
  <2>1. CASE P!PaymentStep
    BY <2>1
       DEF P!PaymentStep, P!CreateOrder, P!PublishInit, P!AbandonCreate, P!ResendWebhook,
           P!TakeInit, P!PostPayment, P!PostPaymentFails, P!MarkAwait, P!MarkAwaitFails,
           P!BeginDecision, P!SaveDecision, P!DeliverWebhook, P!LoseWebhook,
           P!SkipKnownEvent, P!SettlePayment, P!RejectEvent, P!UpdateFails,
           P!ListOrdersOf, P!ListPaidFails, P!Idle, P!flowVars
  <2>2. CASE UNCHANGED paymentVars \/ Recovery \/ Crash \/ UNCHANGED vars
    BY <2>2 DEF paymentVars, Recovery, Crash, P!CrashFlow, P!Idle, vars
  <2> QED
    BY <2>1, <2>2 DEF Next
<1> QED
  BY <1>2, <1>3, <1>4, <1>5

-----------------------------------------------------------------------------
(* The inductive invariant and the theorems.                                *)

(* It holds at the start.                                                   *)
LEMMA InitInv ==
  ASSUME Init
  PROVE  IInv
<1>1. P!IInv
  BY Assumptions, P!IInvInit DEF Init
<1>2. DeliverySide!IInv
  BY Assumptions, SeenInit, DeliverySide!IInvInit
<1>3. PaymentsHaveOrders /\ PublishesPaid
  BY DEF Init, P!Init, P!StoreInit, P!Idle, PaymentsHaveOrders, PublishesPaid
<1> QED
  BY <1>1, <1>2, <1>3 DEF IInv

(* Every step preserves it: the sides keep each other's invariants.         *)
LEMMA NextInv ==
  ASSUME IInv, [Next]_vars
  PROVE  IInv'
<1>1. DeliverySide!IInv'
  BY Assumptions, SeenNext, DeliverySide!IInvNext DEF IInv
<1>2. P!IInv'
  <2>1. CASE [P!Next]_(P!vars)
    BY <2>1, Assumptions, P!IInvNext DEF IInv
  <2> QED
    BY <1>1, <2>1, PaymentNext, DeliveryKeeps
<1> QED
  BY <1>1, <1>2, PaymentsHaveOrdersNext, PublishesPaidNext DEF IInv

(* The invariants of both sides hold in the whole shop.                     *)
THEOREM Invariance == Spec => []IInv
<1>1. Init => IInv
  BY InitInv
<1>2. IInv /\ [Next]_vars => IInv'
  BY NextInv
<1> QED
  BY <1>1, <1>2, PTL DEF Spec

(* The payment side's inductive invariant holds with delivery in full.      *)
THEOREM PaymentSideStaysSound == Spec => []PaymentSideHolds
<1>1. IInv => PaymentSideHolds
  BY DEF IInv, PaymentSideHolds
<1> QED
  BY <1>1, Invariance, PTL

(* The shop implements what Delivery assumes of the payment side: whatever  *)
(* is shown of Delivery holds in the shop.                                  *)
THEOREM Refinement == Spec => ImplementsDelivery
<1>1. Init => DeliverySide!Init
  BY SeenInit
<1>2. IInv /\ [Next]_vars => [DeliverySide!Next]_(DeliverySide!vars)
  BY SeenNext
<1> QED
  BY <1>1, <1>2, Invariance, PTL DEF Spec, ImplementsDelivery, DeliverySide!Spec

(* Every variable keeps its type.                                           *)
THEOREM TypeCorrect == Spec => []TypeOK
<1>1. IInv => TypeOK
  <2> SUFFICES ASSUME IInv PROVE TypeOK
    OBVIOUS
  <2>1. P!TypeOK
    BY DEF IInv, P!IInv
  <2>2. D!StoreTypeOK
    BY <2>1
       DEF P!TypeOK, P!StoreTypeOK, D!StoreTypeOK, P!OrderID, D!OrderID, P!EventID,
           D!EventID, P!OrderStatus, D!OrderStatus, P!PaymentStatus, D!PaymentStatus,
           P!InitEvent, D!InitEvent, P!OrderEvent, D!OrderEvent
  <2>3. DeliverySide!TypeOK
    BY DEF IInv, DeliverySide!IInv
  <2>4. /\ D!Worker = DeliverySide!Worker /\ D!Issue = DeliverySide!Issue
        /\ D!RequestID = DeliverySide!RequestID /\ D!OrderID = DeliverySide!OrderID
        /\ D!OrderEvent = DeliverySide!OrderEvent
    BY DEF D!Worker, DeliverySide!Worker, D!Idle, DeliverySide!Idle, D!Answer,
           DeliverySide!Answer, D!Failure, DeliverySide!Failure, D!Issue,
           DeliverySide!Issue, D!RequestID, DeliverySide!RequestID, D!OrderID,
           DeliverySide!OrderID, D!OrderEvent, DeliverySide!OrderEvent,
           D!OrderStatus, DeliverySide!OrderStatus
  <2> QED
    BY <2>1, <2>2, <2>3, <2>4 DEF TypeOK, D!TypeOK, DeliverySide!TypeOK
<1> QED
  BY <1>1, Invariance, PTL

(* No worker, no issue row and no provider knows an order before the money  *)
(* of its payment is on the balance.                                        *)
THEOREM PaymentComesFirst == Spec => []NothingBeforePayment
<1>1. IInv => NothingBeforePayment
  <2> SUFFICES ASSUME IInv, NEW o \in OrderID,
                      \/ \E q \in Queues : worker[q].stage = "find" /\ worker[q].order = o
                      \/ issues[o] # <<>>
                      \/ \E d \in Stores : \E x \in grants[d] : x.req[1] = o
               PROVE  payStatus[o[1]] = "paid" /\ deposits[o[1]] = 1
    BY DEF NothingBeforePayment
  <2>1. SeenOrders[o] # "absent"
    <3>1. CASE \E q \in Queues : worker[q].stage = "find" /\ worker[q].order = o
      BY <3>1 DEF IInv, DeliverySide!IInv, DeliverySide!OrdersInHand,
                  DeliverySide!OrderOf, DeliverySide!Tried, DeliverySide!Handled
    <3>2. CASE \/ issues[o] # <<>>
               \/ \E d \in Stores : \E x \in grants[d] : x.req[1] = o
      BY <3>2, SameTypes DEF IInv, DeliverySide!IInv, DeliverySide!RequestsOfPaid,
                             DeliverySide!Requested
    <3> QED
      BY <3>1, <3>2
  <2>2. payStatus[o[1]] = "paid" /\ o[1] \in Groups
    BY <2>1, SeenIffPaid DEF OrderID
  <2> QED
    BY <2>2 DEF IInv, P!IInv, P!DepositMatchesPayment
<1> QED
  BY <1>1, Invariance, PTL

(* An order past its payment is seen by the delivery side as it is.         *)
LEMMA PastPaymentSeen ==
  ASSUME IInv, NEW o \in OrderID,
         orderStatus[o] \notin {"absent", "created", "payment_failed"}
  PROVE  SeenOrders[o] = orderStatus[o]
<1>1. payStatus[o[1]] \in PaymentStatus \cup {"absent"}
  BY RowTypes DEF IInv, OrderID
<1>2. payStatus[o[1]] = "paid"
  BY <1>1, SameTypes DEF IInv, P!IInv, P!OrdersFollowPayment, PaymentStatus
<1> QED
  BY <1>2 DEF SeenOrders

(* So its money is as Delivery promises, and before the payment nothing is  *)
(* charged.                                                                 *)
LEMMA MoneyInShop ==
  ASSUME IInv
  PROVE  D!MoneyFollowsOrder
<1>1. DeliverySide!MoneyFollowsOrder
  BY DEF IInv, DeliverySide!IInv
<1>2. D!Handled = DeliverySide!Handled
      /\ D!Handled \cap {"absent", "created", "payment_failed"} = {}
  BY DEF D!Handled, DeliverySide!Handled
<1>3. ASSUME NEW o \in OrderID
      PROVE  /\ refunds[o] <= charges[o] /\ charges[o] <= deposits[o[1]]
             /\ orderStatus[o] = "paid" => charges[o] = 0
             /\ orderStatus[o] \in D!Handled => charges[o] = 1
             /\ orderStatus[o] = "cancelled" => refunds[o] = 1
  BY <1>1, <1>2, SameTypes, PastPaymentSeen DEF DeliverySide!MoneyFollowsOrder
<1> QED
  BY <1>3, SameTypes DEF D!MoneyFollowsOrder

(* What Delivery promises of codes and money holds in the shop, for every   *)
(* order whatever its payment: no code is shared, a delivered order has one *)
(* that was given to its own request, and it is charged and refunded as its *)
(* status says.                                                             *)
THEOREM DeliveryHoldsInShop ==
  Spec => []/\ D!NoSharedCode /\ D!DeliveredWithItsCode
            /\ D!CodeFromRecordedAddress /\ D!MoneyFollowsOrder
<1>1. ASSUME IInv
      PROVE  /\ D!NoSharedCode /\ D!DeliveredWithItsCode
             /\ D!CodeFromRecordedAddress /\ D!MoneyFollowsOrder
  <2>1. /\ DeliverySide!NoSharedCode /\ DeliverySide!DeliveredWithItsCode
        /\ DeliverySide!CodeFromRecordedAddress /\ DeliverySide!MoneyFollowsOrder
    BY <1>1 DEF IInv, DeliverySide!IInv
  <2>2. D!NoSharedCode
    BY <2>1, SameTypes DEF D!NoSharedCode, DeliverySide!NoSharedCode
  <2>3. D!CodeFromRecordedAddress
    BY <2>1, SameTypes
       DEF D!CodeFromRecordedAddress, DeliverySide!CodeFromRecordedAddress, D!RequestID,
           DeliverySide!RequestID, D!Row, DeliverySide!Row, D!Given, DeliverySide!Given
  <2>4. D!DeliveredWithItsCode
    <3> SUFFICES ASSUME NEW o \in OrderID
                 PROVE  /\ orderStatus[o] = "delivered" => orderCode[o] # NoCode
                        /\ orderCode[o] # NoCode =>
                             \E i \in DOMAIN issues[o] : /\ issues[o][i].status = "ok"
                                                         /\ issues[o][i].code = orderCode[o]
      BY SameTypes DEF D!DeliveredWithItsCode
    <3> QED
      BY <1>1, <2>1, SameTypes, PastPaymentSeen DEF DeliverySide!DeliveredWithItsCode
  <2>5. D!MoneyFollowsOrder
    BY <1>1, MoneyInShop
  <2> QED
    BY <2>2, <2>3, <2>4, <2>5
<1>2. IInv => /\ D!NoSharedCode /\ D!DeliveredWithItsCode
              /\ D!CodeFromRecordedAddress /\ D!MoneyFollowsOrder
  BY <1>1
<1> QED
  BY <1>2, Invariance, PTL

(* Delivery moves an order on within what the contract of the payment side  *)
(* calls paid.                                                              *)
LEMMA DeliveryInvisible ==
  ASSUME IInv, IInv', D!DeliveryStep, UNCHANGED paymentVars
  PROVE  UNCHANGED P!Contract!contractVars
<1>1. UNCHANGED <<payStatus, deposits, decision>> /\ MovesPaidOnly
  BY DeliveryFrame, DeliverySame DEF paymentVars
<1>2. \A g \in Groups : P!DecisionsOf(g)' = P!DecisionsOf(g)
  BY <1>1 DEF P!DecisionsOf, P!Decided
<1>3. [g \in Groups |-> P!DecisionsOf(g)]' = [g \in Groups |-> P!DecisionsOf(g)]
  BY <1>2
<1>4. [g \in Groups |-> P!Phase(payStatus'[g])] = [g \in Groups |-> P!Phase(payStatus[g])]
  BY <1>1
<1>5. ASSUME NEW o \in OrderID
      PROVE  P!Outcome(orderStatus'[o]) = P!Outcome(orderStatus[o])
  <2>1. CASE orderStatus'[o] # orderStatus[o]
    <3>1. orderStatus[o] # "absent" /\ payStatus[o[1]] = "paid" /\ payStatus'[o[1]] = "paid"
      BY <1>1, <2>1 DEF MovesPaidOnly
    <3>2. orderStatus'[o] # "absent"
      BY <3>1, OrdersStay DEF Next
    <3>3. /\ orderStatus[o] \notin {"created", "payment_failed"}
          /\ orderStatus'[o] \notin {"created", "payment_failed"}
      BY <3>1, <3>2, SameTypes DEF IInv, P!IInv, P!OrdersFollowPayment
    <3> QED
      BY <3>1, <3>2, <3>3 DEF P!Outcome
  <2> QED
    BY <2>1
<1>6. [o \in P!OrderID |-> P!Outcome(orderStatus'[o])]
        = [o \in P!OrderID |-> P!Outcome(orderStatus[o])]
  BY <1>5, SameTypes
<1> QED
  BY <1>1, <1>3, <1>4, <1>6 DEF P!Contract!contractVars

(* Both contracts hold in the shop: PaymentContract of its payments, and    *)
(* DeliveryContract of its orders from the moment they are paid.            *)
THEOREM BothContracts == Spec => P!ImplementsPaymentContract /\ DeliverySide!ImplementsDeliveryContract
<1>1. Spec => DeliverySide!ImplementsDeliveryContract
  <2>1. DeliverySide!Spec => DeliverySide!ImplementsDeliveryContract
    BY Assumptions, DeliverySide!Refinement
  <2> QED
    BY <2>1, Refinement, PTL DEF ImplementsDelivery
<1>2. Init => P!Contract!Init
  BY Assumptions, P!ContractInit DEF Init
<1>3. IInv /\ IInv' /\ [Next]_vars => [P!Contract!Next]_(P!Contract!contractVars)
  <2> SUFFICES ASSUME IInv, IInv', [Next]_vars
               PROVE  [P!Contract!Next]_(P!Contract!contractVars)
    OBVIOUS
  <2>1. CASE [P!Next]_(P!vars)
    BY <2>1, Assumptions, P!ContractNext DEF IInv
  <2> QED
    BY <2>1, PaymentNext, DeliveryInvisible
<1>4. Spec => P!ImplementsPaymentContract
  BY <1>2, <1>3, Invariance, PTL DEF Spec, P!ImplementsPaymentContract, P!Contract!Spec
<1> QED
  BY <1>1, <1>4

(* What a provider has answered stays recorded, and an order keeps a code.  *)
THEOREM AnswersAreKept == Spec => DeliverySide!AnswersKept
<1>1. DeliverySide!Spec => DeliverySide!AnswersKept
  BY Assumptions, DeliverySide!AnswersAreKept
<1> QED
  BY <1>1, Refinement, PTL DEF ImplementsDelivery

(* A settled payment stays as it is, and none of its orders goes back to    *)
(* created or payment_failed, whatever delivery does with them.             *)
THEOREM SettledForGood == Spec => P!SettledIsFinal
<1> DEFINE Final ==
      \A g \in Groups : P!IsSettled(g) =>
        /\ payStatus'[g] = payStatus[g]
        /\ payEvent'[g] = payEvent[g]
        /\ deposits'[g] = deposits[g]
        /\ \A o \in P!OrdersOf(g) :
             orderStatus'[o] \in {"created", "payment_failed"} =>
               orderStatus'[o] = orderStatus[o]
<1>1. IInv /\ IInv' /\ [Next]_vars => [Final]_(P!vars)
  <2> SUFFICES ASSUME IInv, IInv', [Next]_vars PROVE Final
    OBVIOUS
  <2>1. CASE [P!Next]_(P!vars)
    BY <2>1, Assumptions, P!SettledStep DEF IInv
  <2>2. CASE D!DeliveryStep /\ UNCHANGED paymentVars
    <3>1. UNCHANGED <<payStatus, payEvent, deposits>> /\ MovesPaidOnly
      BY <2>2, DeliveryFrame, DeliverySame
    <3>2. ASSUME NEW o \in OrderID, orderStatus'[o] \in {"created", "payment_failed"}
          PROVE  orderStatus'[o] = orderStatus[o]
      BY <3>1, <3>2, SameTypes DEF MovesPaidOnly, IInv, P!IInv, P!OrdersFollowPayment
    <3> QED
      BY <3>1, <3>2, SameTypes DEF P!OrdersOf
  <2> QED
    BY <2>1, <2>2, PaymentNext
<1> QED
  BY <1>1, Invariance, PTL DEF Spec, P!SettledIsFinal

-----------------------------------------------------------------------------
(* Sums over finite sets.  The folds of the community modules are defined by*)
(* a recursive function on the subsets; what holds of every sum is shown of *)
(* a set that would be smallest among those it fails for.                   *)

(* The recursion behind SumFunctionOnSet: g gives the sum of f over every   *)
(* subset of S, by taking the chosen element of a set first.                *)
Pick(s) == CHOOSE x \in s : TRUE
IsSum(g, f, S) ==
  g = [s \in SUBSET S |-> IF s = {} THEN 0 ELSE f[Pick(s)] + g[s \ {Pick(s)}]]
Sums(f, S) == CHOOSE g : IsSum(g, f, S)

(* A sum is the value of that recursive function.                           *)
LEMMA SumIter ==
  ASSUME NEW f, NEW S
  PROVE  SumFunctionOnSet(f, S) = Sums(f, S)[S]
BY DEF SumFunctionOnSet, FoldFunctionOnSet, MapThenFoldSet, Sums, IsSum, Pick

(* Among subsets of a finite set there is one with no other below it.       *)
LEMMA Smallest ==
  ASSUME NEW S, IsFiniteSet(S), NEW A \in SUBSET SUBSET S, A # {}
  PROVE  \E T \in A : \A U \in A : U \subseteq T => U = T
<1>1. A \subseteq FiniteSubsetsOf(S)
  BY FS_Subset DEF FiniteSubsetsOf
<1>2. PICK T \in A : \A U \in A : <<U, T>> \notin StrictSubsetOrdering(S)
  BY <1>1, FS_StrictSubsetOrderingWellFounded, WFMin
<1> QED
  BY <1>2 DEF StrictSubsetOrdering

(* The recursive function of a larger set gives the same sums.              *)
LEMMA SumsAgree ==
  ASSUME NEW f, NEW S, NEW T \in SUBSET S, IsFiniteSet(T),
         NEW g, IsSum(g, f, S), NEW h, IsSum(h, f, T)
  PROVE  g[T] = h[T]
<1> DEFINE A == {s \in SUBSET T : g[s] # h[s]}
<1>1. SUFFICES ASSUME A # {} PROVE FALSE
  OBVIOUS
<1>2. PICK s \in A : \A U \in A : U \subseteq s => U = s
  <2>1. A \in SUBSET SUBSET T
    OBVIOUS
  <2> HIDE DEF A
  <2> QED
    BY <1>1, <2>1, Smallest
<1>3. s \in SUBSET T /\ s \in SUBSET S
  BY <1>2
<1>4. s # {}
  BY <1>2, <1>3 DEF IsSum
<1>5. Pick(s) \in s /\ s \ {Pick(s)} \in SUBSET T /\ s \ {Pick(s)} # s
  BY <1>3, <1>4 DEF Pick
<1>6. g[s \ {Pick(s)}] = h[s \ {Pick(s)}]
  BY <1>2, <1>5
<1>7. g[s] = f[Pick(s)] + g[s \ {Pick(s)}] /\ h[s] = f[Pick(s)] + h[s \ {Pick(s)}]
  BY <1>3, <1>4 DEF IsSum
<1> QED
  BY <1>2, <1>6, <1>7

(* There is such a function.                                                *)
LEMMA SumsExist ==
  ASSUME NEW f, NEW S, IsFiniteSet(S)
  PROVE  \E g : IsSum(g, f, S)
<1> DEFINE A == {T \in SUBSET S : ~\E g : IsSum(g, f, T)}
<1>1. SUFFICES ASSUME A # {} PROVE FALSE
  OBVIOUS
<1>2. PICK T \in A : \A U \in A : U \subseteq T => U = T
  <2>1. A \in SUBSET SUBSET S
    OBVIOUS
  <2> HIDE DEF A
  <2> QED
    BY <1>1, <2>1, Smallest
<1>3. \A U \in SUBSET T : U # T => IsSum(Sums(f, U), f, U)
  BY <1>2 DEF Sums
<1>4. \A U \in SUBSET T : IsFiniteSet(U)
  BY <1>2, FS_Subset
<1> DEFINE Rest(s) == s \ {Pick(s)}
           g == [s \in SUBSET T |-> IF s = {} THEN 0
                                    ELSE f[Pick(s)] + Sums(f, Rest(s))[Rest(s)]]
<1>5. \A s \in SUBSET T : s # {} => /\ Rest(s) \in SUBSET T /\ Rest(s) \in SUBSET s
                                   /\ Rest(s) # s /\ Rest(s) # T
  BY DEF Pick
<1> HIDE DEF Rest
<1>6. \A s \in SUBSET T : s # T => g[s] = Sums(f, s)[s]
  <2> SUFFICES ASSUME NEW s \in SUBSET T, s # T PROVE g[s] = Sums(f, s)[s]
    OBVIOUS
  <2>1. CASE s = {}
    BY <1>3, <2>1 DEF IsSum
  <2>2. CASE s # {}
    <3>1. Sums(f, s)[s] = f[Pick(s)] + Sums(f, s)[Rest(s)]
      BY <1>3, <2>2 DEF IsSum, Rest
    <3>2. Sums(f, s)[Rest(s)] = Sums(f, Rest(s))[Rest(s)]
      BY <1>3, <1>4, <1>5, <2>2, SumsAgree
    <3> QED
      BY <2>2, <3>1, <3>2
  <2> QED
    BY <2>1, <2>2
<1>7. g = [s \in SUBSET T |-> IF s = {} THEN 0 ELSE f[Pick(s)] + g[Rest(s)]]
  <2> SUFFICES ASSUME NEW s \in SUBSET T, s # {}
               PROVE  g[Rest(s)] = Sums(f, Rest(s))[Rest(s)]
    OBVIOUS
  <2> QED
    BY <1>5, <1>6
<1>8. IsSum(g, f, T)
  BY <1>7 DEF IsSum, Rest
<1> QED
  BY <1>2, <1>8

(* A sum is empty, or takes the chosen element first.                       *)
LEMMA SumRecursion ==
  ASSUME NEW f, NEW S, IsFiniteSet(S)
  PROVE  /\ S = {} => SumFunctionOnSet(f, S) = 0
         /\ S # {} => /\ Pick(S) \in S
                      /\ SumFunctionOnSet(f, S)
                           = f[Pick(S)] + SumFunctionOnSet(f, S \ {Pick(S)})
<1>1. \A T \in SUBSET S : IsFiniteSet(T) /\ IsSum(Sums(f, T), f, T)
  BY FS_Subset, SumsExist DEF Sums
<1>2. CASE S = {}
  BY <1>1, <1>2, SumIter DEF IsSum
<1>3. CASE S # {}
  <2> DEFINE R == S \ {Pick(S)}
  <2>1. Sums(f, S)[S] = f[Pick(S)] + Sums(f, S)[R]
    BY <1>1, <1>3 DEF IsSum
  <2>2. Sums(f, S)[R] = Sums(f, R)[R]
    BY <1>1, SumsAgree
  <2> QED
    BY <1>3, <2>1, <2>2, SumIter DEF Pick
<1> QED
  BY <1>2, <1>3

(* Sums of integers are integers.                                           *)
LEMMA SumType ==
  ASSUME NEW S, IsFiniteSet(S), NEW f, \A x \in S : f[x] \in Int
  PROVE  SumFunctionOnSet(f, S) \in Int
<1> DEFINE A == {T \in SUBSET S : SumFunctionOnSet(f, T) \notin Int}
<1>1. SUFFICES ASSUME A # {} PROVE FALSE
  OBVIOUS
<1>2. PICK T \in A : \A U \in A : U \subseteq T => U = T
  <2>1. A \in SUBSET SUBSET S
    OBVIOUS
  <2> HIDE DEF A
  <2> QED
    BY <1>1, <2>1, Smallest
<1>3. IsFiniteSet(T)
  BY <1>2, FS_Subset
<1>4. T # {}
  <2>1. T = {} => SumFunctionOnSet(f, T) = 0
    BY <1>3, SumRecursion
  <2> QED
    BY <1>2, <2>1
<1>5. Pick(T) \in T /\ T \ {Pick(T)} \notin A
  BY <1>2, <1>3, <1>4, SumRecursion
<1>6. SumFunctionOnSet(f, T \ {Pick(T)}) \in Int
  BY <1>2, <1>5
<1>7. SumFunctionOnSet(f, T) \in Int
  BY <1>2, <1>3, <1>4, <1>5, <1>6, SumRecursion
<1> QED
  BY <1>2, <1>7

(* Any element may be taken out first.                                      *)
LEMMA SumTakeOut ==
  ASSUME NEW S, IsFiniteSet(S), NEW f, \A x \in S : f[x] \in Int, NEW x \in S
  PROVE  SumFunctionOnSet(f, S) = f[x] + SumFunctionOnSet(f, S \ {x})
<1> DEFINE sum(T) == SumFunctionOnSet(f, T)
           A == {T \in SUBSET S : \E y \in T : sum(T) # f[y] + sum(T \ {y})}
<1>1. SUFFICES ASSUME A # {} PROVE FALSE
  OBVIOUS
<1>2. PICK T \in A : \A U \in A : U \subseteq T => U = T
  <2>1. A \in SUBSET SUBSET S
    OBVIOUS
  <2> HIDE DEF A
  <2> QED
    BY <1>1, <2>1, Smallest
<1>3. PICK y \in T : sum(T) # f[y] + sum(T \ {y})
  BY <1>2
<1>4. \A U \in SUBSET T : IsFiniteSet(U) /\ sum(U) \in Int
  BY <1>2, FS_Subset, SumType
<1> DEFINE c == Pick(T)
<1>5. c \in T /\ sum(T) = f[c] + sum(T \ {c})
  BY <1>3, <1>4, SumRecursion
<1>6. \A U \in SUBSET T : \A z \in U : U # T => sum(U) = f[z] + sum(U \ {z})
  BY <1>2
<1> HIDE DEF c, sum
<1>7. c # y
  BY <1>3, <1>5
<1> DEFINE rest == sum((T \ {c}) \ {y})
<1>8. sum(T \ {c}) = f[y] + rest
  BY <1>3, <1>5, <1>6, <1>7
<1>9. sum(T \ {y}) = f[c] + rest
  <2>1. (T \ {c}) \ {y} = (T \ {y}) \ {c}
    OBVIOUS
  <2> QED
    BY <1>3, <1>5, <1>6, <1>7, <2>1
<1>10. f[c] \in Int /\ f[y] \in Int /\ rest \in Int
  BY <1>2, <1>3, <1>4, <1>5
<1> HIDE DEF rest
<1>11. sum(T) = f[y] + sum(T \ {y})
  BY <1>5, <1>8, <1>9, <1>10
<1> QED
  BY <1>3, <1>11

(* Induction over the subsets of a finite set, one element more at a time.  *)
LEMMA OneMore ==
  ASSUME NEW S, IsFiniteSet(S), NEW A \in SUBSET SUBSET S, {} \in A,
         \A T \in SUBSET S : \A x \in T : T \ {x} \in A => T \in A
  PROVE  S \in A
<1> DEFINE B == {T \in SUBSET S : T \notin A}
<1>1. SUFFICES ASSUME B # {} PROVE FALSE
  OBVIOUS
<1>2. PICK T \in B : \A U \in B : U \subseteq T => U = T
  <2>1. B \in SUBSET SUBSET S
    OBVIOUS
  <2> HIDE DEF B
  <2> QED
    BY <1>1, <2>1, Smallest
<1>3. PICK x \in T : TRUE
  BY <1>2
<1>4. T \ {x} \in A
  BY <1>2, <1>3
<1> QED
  BY <1>2, <1>3, <1>4

(* The sum of nothing.                                                      *)
LEMMA SumEmpty == \A f : SumFunctionOnSet(f, {}) = 0
BY SumRecursion, FS_EmptySet

(* A sum grows with what it sums.                                           *)
LEMMA SumUpTo ==
  ASSUME NEW S, IsFiniteSet(S), NEW f, NEW g,
         \A x \in S : f[x] \in Int /\ g[x] \in Int /\ f[x] <= g[x]
  PROVE  SumFunctionOnSet(f, S) <= SumFunctionOnSet(g, S)
<1> DEFINE A == {T \in SUBSET S : SumFunctionOnSet(f, T) <= SumFunctionOnSet(g, T)}
<1>1. {} \in A
  BY SumEmpty
<1>2. ASSUME NEW T \in SUBSET S, NEW x \in T, T \ {x} \in A
      PROVE  T \in A
  <2>1. IsFiniteSet(T) /\ IsFiniteSet(T \ {x})
    BY FS_Subset
  <2>2. /\ SumFunctionOnSet(f, T) = f[x] + SumFunctionOnSet(f, T \ {x})
        /\ SumFunctionOnSet(g, T) = g[x] + SumFunctionOnSet(g, T \ {x})
    BY <2>1, SumTakeOut
  <2>3. SumFunctionOnSet(f, T \ {x}) \in Int /\ SumFunctionOnSet(g, T \ {x}) \in Int
    BY <2>1, SumType
  <2>4. /\ SumFunctionOnSet(f, T \ {x}) <= SumFunctionOnSet(g, T \ {x})
        /\ f[x] \in Int /\ g[x] \in Int /\ f[x] <= g[x]
    BY <1>2
  <2> QED
    BY <2>2, <2>3, <2>4
<1>3. A \in SUBSET SUBSET S
  OBVIOUS
<1> HIDE DEF A
<1>4. S \in A
  BY <1>1, <1>2, <1>3, OneMore
<1> QED
  BY <1>4 DEF A

(* Equal summands make equal sums.                                          *)
LEMMA SumSame ==
  ASSUME NEW S, IsFiniteSet(S), NEW f, NEW g,
         \A x \in S : f[x] \in Int /\ f[x] = g[x]
  PROVE  SumFunctionOnSet(f, S) = SumFunctionOnSet(g, S)
<1>1. /\ SumFunctionOnSet(f, S) <= SumFunctionOnSet(g, S)
      /\ SumFunctionOnSet(g, S) <= SumFunctionOnSet(f, S)
  BY SumUpTo
<1>2. SumFunctionOnSet(f, S) \in Int /\ SumFunctionOnSet(g, S) \in Int
  BY SumType
<1> QED
  BY <1>1, <1>2

(* Sums add up, summand by summand.                                         *)
LEMMA SumPlus ==
  ASSUME NEW S, IsFiniteSet(S), NEW f, NEW g, NEW h,
         \A x \in S : f[x] \in Int /\ g[x] \in Int /\ h[x] = f[x] + g[x]
  PROVE  SumFunctionOnSet(h, S) = SumFunctionOnSet(f, S) + SumFunctionOnSet(g, S)
<1> DEFINE A == {T \in SUBSET S : SumFunctionOnSet(h, T)
                     = SumFunctionOnSet(f, T) + SumFunctionOnSet(g, T)}
<1>1. {} \in A
  BY SumEmpty
<1>2. ASSUME NEW T \in SUBSET S, NEW x \in T, T \ {x} \in A
      PROVE  T \in A
  <2>1. IsFiniteSet(T) /\ IsFiniteSet(T \ {x}) /\ \A y \in T : h[y] \in Int
    BY FS_Subset
  <2>2. /\ SumFunctionOnSet(f, T) = f[x] + SumFunctionOnSet(f, T \ {x})
        /\ SumFunctionOnSet(g, T) = g[x] + SumFunctionOnSet(g, T \ {x})
        /\ SumFunctionOnSet(h, T) = h[x] + SumFunctionOnSet(h, T \ {x})
    BY <2>1, SumTakeOut
  <2>3. SumFunctionOnSet(f, T \ {x}) \in Int /\ SumFunctionOnSet(g, T \ {x}) \in Int
    BY <2>1, SumType
  <2>4. /\ SumFunctionOnSet(h, T \ {x})
             = SumFunctionOnSet(f, T \ {x}) + SumFunctionOnSet(g, T \ {x})
        /\ f[x] \in Int /\ g[x] \in Int /\ h[x] = f[x] + g[x]
    BY <1>2
  <2> QED
    BY <2>2, <2>3, <2>4
<1>3. A \in SUBSET SUBSET S
  OBVIOUS
<1> HIDE DEF A
<1>4. S \in A
  BY <1>1, <1>2, <1>3, OneMore
<1> QED
  BY <1>4 DEF A

(* The sum over two sets without a common element.                          *)
LEMMA SumUnion ==
  ASSUME NEW S, IsFiniteSet(S), NEW R, IsFiniteSet(R), R \cap S = {},
         NEW f, \A x \in R \cup S : f[x] \in Int
  PROVE  SumFunctionOnSet(f, R \cup S) = SumFunctionOnSet(f, R) + SumFunctionOnSet(f, S)
<1> DEFINE A == {T \in SUBSET S : SumFunctionOnSet(f, R \cup T)
                     = SumFunctionOnSet(f, R) + SumFunctionOnSet(f, T)}
<1>1. {} \in A
  <2>1. R \cup {} = R /\ SumFunctionOnSet(f, R) \in Int
    BY SumType
  <2> QED
    BY <2>1, SumEmpty
<1>2. ASSUME NEW T \in SUBSET S, NEW x \in T, T \ {x} \in A
      PROVE  T \in A
  <2>1. IsFiniteSet(T) /\ IsFiniteSet(T \ {x}) /\ IsFiniteSet(R \cup T)
    BY FS_Subset, FS_Union
  <2>2. (R \cup T) \ {x} = R \cup (T \ {x})
    OBVIOUS
  <2>3. /\ SumFunctionOnSet(f, T) = f[x] + SumFunctionOnSet(f, T \ {x})
        /\ SumFunctionOnSet(f, R \cup T) = f[x] + SumFunctionOnSet(f, (R \cup T) \ {x})
    BY <2>1, SumTakeOut
  <2>4. SumFunctionOnSet(f, R) \in Int /\ SumFunctionOnSet(f, T \ {x}) \in Int
    BY <2>1, SumType
  <2>5. /\ SumFunctionOnSet(f, R \cup (T \ {x}))
             = SumFunctionOnSet(f, R) + SumFunctionOnSet(f, T \ {x})
        /\ f[x] \in Int
    BY <1>2
  <2>6. SumFunctionOnSet(f, R \cup T) = SumFunctionOnSet(f, R) + SumFunctionOnSet(f, T)
    <3> DEFINE r == SumFunctionOnSet(f, R)
               t == SumFunctionOnSet(f, T \ {x})
    <3>1. SumFunctionOnSet(f, R \cup T) = f[x] + (r + t)
      BY <2>2, <2>3, <2>5
    <3>2. r + SumFunctionOnSet(f, T) = r + (f[x] + t)
      BY <2>3
    <3>3. f[x] \in Int /\ r \in Int /\ t \in Int
      BY <2>4, <2>5
    <3> HIDE DEF r, t
    <3> QED
      BY <3>1, <3>2, <3>3 DEF r
  <2> QED
    BY <2>6
<1>3. A \in SUBSET SUBSET S
  OBVIOUS
<1> HIDE DEF A
<1>4. S \in A
  BY <1>1, <1>2, <1>3, OneMore
<1> QED
  BY <1>4 DEF A

(* Zeros sum to zero.                                                       *)
LEMMA SumZero ==
  ASSUME NEW S, IsFiniteSet(S), NEW f, \A x \in S : f[x] = 0
  PROVE  SumFunctionOnSet(f, S) = 0
<1> DEFINE s == SumFunctionOnSet(f, S)
<1>1. s = s + s
  BY SumPlus
<1>2. s \in Int
  BY SumType
<1> HIDE DEF s
<1>3. s = 0
  BY <1>1, <1>2
<1> QED
  BY <1>3 DEF s

(* Elements whose summand is zero may be left out.                          *)
LEMMA SumPart ==
  ASSUME NEW S, IsFiniteSet(S), NEW T \in SUBSET S, NEW f,
         \A x \in T : f[x] \in Int, \A x \in S \ T : f[x] = 0
  PROVE  SumFunctionOnSet(f, S) = SumFunctionOnSet(f, T)
<1>1. IsFiniteSet(T) /\ IsFiniteSet(S \ T) /\ T \cap (S \ T) = {} /\ T \cup (S \ T) = S
  BY FS_Subset
<1>2. SumFunctionOnSet(f, T \cup (S \ T))
        = SumFunctionOnSet(f, T) + SumFunctionOnSet(f, S \ T)
  BY <1>1, SumUnion
<1>3. SumFunctionOnSet(f, S \ T) = 0 /\ SumFunctionOnSet(f, T) \in Int
  BY <1>1, SumZero, SumType
<1> QED
  BY <1>1, <1>2, <1>3

-----------------------------------------------------------------------------
(* The balance.                                                             *)

(* What an order adds to the balance of its user: its part of the deposit,  *)
(* less its charge, plus its refund.                                        *)
Part == [o \in OrderID |-> deposits[o[1]] * Amount[o]]
Booked == [o \in OrderID |-> Charged[o] + Refunded[o]]
Net == [o \in OrderID |-> Part[o] + Booked[o]]

(* Rows, counts and amounts are finite and of their types.                  *)
LEMMA BalanceTypes ==
  ASSUME IInv
  PROVE  /\ IsFiniteSet(OrderID)
         /\ \A o \in OrderID : /\ o[1] \in Groups /\ Amount[o] \in Nat
                               /\ charges[o] \in {0, 1} /\ refunds[o] \in {0, 1}
         /\ \A g \in Groups : deposits[g] = IF payStatus[g] = "paid" THEN 1 ELSE 0
         /\ \A g \in Groups : /\ FindByGroupID(g) \in SUBSET OrderID
                              /\ IsFiniteSet(FindByGroupID(g))
                              /\ \A o \in FindByGroupID(g) : o[1] = g
         /\ \A u \in Users : /\ PaymentsOfUser(u) \in SUBSET Groups
                             /\ IsFiniteSet(PaymentsOfUser(u))
                             /\ OrdersOfUser(u) \in SUBSET OrderID
                             /\ IsFiniteSet(OrdersOfUser(u))
<1>1. IsFiniteSet(OrderID)
  BY StoreAssumption, FS_Product DEF OrderID
<1>2. \A o \in OrderID : o[1] \in Groups /\ Amount[o] \in Nat
  BY ShopAssumption DEF OrderID, Amount
<1>3. \A o \in OrderID : charges[o] \in {0, 1} /\ refunds[o] \in {0, 1}
  BY SameTypes DEF IInv, DeliverySide!IInv, DeliverySide!MoneyOnce
<1>4. \A g \in Groups : deposits[g] = IF payStatus[g] = "paid" THEN 1 ELSE 0
  BY DEF IInv, P!IInv, P!DepositMatchesPayment
<1>5. \A g \in Groups : /\ FindByGroupID(g) \in SUBSET OrderID
                       /\ IsFiniteSet(FindByGroupID(g))
                       /\ \A o \in FindByGroupID(g) : o[1] = g
  BY <1>1, FS_Subset DEF FindByGroupID
<1>6. \A u \in Users : /\ PaymentsOfUser(u) \in SUBSET Groups
                      /\ OrdersOfUser(u) \in SUBSET OrderID
  BY <1>5 DEF PaymentsOfUser, OrdersOfUser
<1>7. \A u \in Users : IsFiniteSet(PaymentsOfUser(u)) /\ IsFiniteSet(OrdersOfUser(u))
  BY <1>1, <1>6, StoreAssumption, FS_Subset
<1> QED
  BY <1>1, <1>2, <1>3, <1>4, <1>5, <1>6, <1>7

(* A deposit is the sum of its orders' parts.                               *)
LEMMA DepositParts ==
  ASSUME IInv, NEW g \in Groups
  PROVE  Deposited[g] = SumFunctionOnSet(Part, FindByGroupID(g))
<1> DEFINE F == FindByGroupID(g)
<1>1. IsFiniteSet(F) /\ \A o \in F : o \in OrderID /\ o[1] = g /\ Amount[o] \in Int
  BY BalanceTypes
<1>2. SumFunctionOnSet(Amount, F) \in Int
  BY <1>1, SumType
<1>3. CASE deposits[g] = 1
  <2>1. \A o \in F : Amount[o] = Part[o]
    BY <1>1, <1>3 DEF Part
  <2>2. SumFunctionOnSet(Amount, F) = SumFunctionOnSet(Part, F)
    BY <1>1, <2>1, SumSame
  <2> QED
    BY <1>2, <1>3, <2>2 DEF Deposited, PaymentAmount
<1>4. CASE deposits[g] = 0
  <2>1. \A o \in F : Part[o] = 0
    BY <1>1, <1>4 DEF Part
  <2>2. SumFunctionOnSet(Part, F) = 0
    BY <1>1, <2>1, SumZero
  <2> QED
    BY <1>2, <1>4, <2>2 DEF Deposited, PaymentAmount
<1> QED
  BY <1>3, <1>4, BalanceTypes

(* The deposits of a user are the parts of all his orders.                  *)
LEMMA DepositsOfUser ==
  ASSUME IInv, NEW u \in Users
  PROVE  SumFunctionOnSet(Deposited, PaymentsOfUser(u))
           = SumFunctionOnSet(Part, OrdersOfUser(u))
<1> DEFINE G == PaymentsOfUser(u)
           Of(H) == UNION {FindByGroupID(g) : g \in H}
           A == {H \in SUBSET G : SumFunctionOnSet(Deposited, H)
                                    = SumFunctionOnSet(Part, Of(H))}
<1>1. \A o \in OrderID : Part[o] \in Int
  BY BalanceTypes DEF Part
<1>2. \A g \in Groups : Deposited[g] \in Int
  BY <1>1, BalanceTypes, DepositParts, SumType
<1>3. G \in SUBSET Groups /\ IsFiniteSet(G)
  BY BalanceTypes
<1>4. {} \in A
  <2>1. Of({}) = {}
    OBVIOUS
  <2> QED
    BY <2>1, SumEmpty
<1>5. ASSUME NEW H \in SUBSET G, NEW g \in H, H \ {g} \in A
      PROVE  H \in A
  <2> DEFINE R == Of(H \ {g})
             F == FindByGroupID(g)
  <2>1. Of(H) = R \cup F /\ R \cap F = {}
    BY <1>3, BalanceTypes
  <2>2. /\ R \in SUBSET OrderID /\ IsFiniteSet(R) /\ F \in SUBSET OrderID
        /\ IsFiniteSet(F) /\ IsFiniteSet(H) /\ IsFiniteSet(H \ {g})
    <3>1. R \in SUBSET OrderID
      BY <1>3, BalanceTypes
    <3> HIDE DEF R
    <3> QED
      BY <1>3, <3>1, BalanceTypes, FS_Subset
  <2>3. SumFunctionOnSet(Deposited, H)
          = Deposited[g] + SumFunctionOnSet(Deposited, H \ {g})
    BY <1>2, <1>3, <2>2, SumTakeOut
  <2> HIDE DEF R, F
  <2>4. SumFunctionOnSet(Part, R \cup F)
          = SumFunctionOnSet(Part, R) + SumFunctionOnSet(Part, F)
    BY <1>1, <2>1, <2>2, SumUnion
  <2>5. SumFunctionOnSet(Part, R) \in Int /\ SumFunctionOnSet(Part, F) \in Int
    BY <1>1, <2>2, SumType
  <2>6. Deposited[g] = SumFunctionOnSet(Part, F)
    BY <1>3, DepositParts DEF F
  <2>7. SumFunctionOnSet(Deposited, H \ {g}) = SumFunctionOnSet(Part, R)
    BY <1>5 DEF R
  <2>8. SumFunctionOnSet(Deposited, H) = SumFunctionOnSet(Part, R \cup F)
    BY <2>3, <2>4, <2>5, <2>6, <2>7
  <2> QED
    BY <2>1, <2>8
<1>6. A \in SUBSET SUBSET G
  OBVIOUS
<1> HIDE DEF A
<1>7. G \in A
  BY <1>3, <1>4, <1>5, <1>6, OneMore
<1> QED
  BY <1>7 DEF A, OrdersOfUser

(* So the balance is the sum of what its orders add.                        *)
LEMMA BalanceByOrder ==
  ASSUME IInv, NEW u \in Users
  PROVE  Balance(u) = SumFunctionOnSet(Net, OrdersOfUser(u))
<1> DEFINE O == OrdersOfUser(u)
<1>1. IsFiniteSet(O) /\ O \in SUBSET OrderID
  BY BalanceTypes
<1>2. \A o \in OrderID : /\ Part[o] \in Int /\ Charged[o] \in Int /\ Refunded[o] \in Int
                        /\ Booked[o] = Charged[o] + Refunded[o]
                        /\ Net[o] = Part[o] + Booked[o]
  BY BalanceTypes DEF Part, Charged, Refunded, Booked, Net
<1> HIDE DEF O
<1>3. SumFunctionOnSet(Booked, O)
        = SumFunctionOnSet(Charged, O) + SumFunctionOnSet(Refunded, O)
  BY <1>1, <1>2, SumPlus
<1>4. SumFunctionOnSet(Net, O) = SumFunctionOnSet(Part, O) + SumFunctionOnSet(Booked, O)
  BY <1>1, <1>2, SumPlus
<1> DEFINE p == SumFunctionOnSet(Part, O)
           c == SumFunctionOnSet(Charged, O)
           r == SumFunctionOnSet(Refunded, O)
<1>5. p \in Int /\ c \in Int /\ r \in Int
  BY <1>1, <1>2, SumType
<1>6. Balance(u) = (p + c) + r
  BY DepositsOfUser DEF Balance, O
<1>7. SumFunctionOnSet(Net, O) = p + (c + r)
  BY <1>3, <1>4
<1> HIDE DEF p, c, r
<1>8. Balance(u) = SumFunctionOnSet(Net, O)
  BY <1>5, <1>6, <1>7
<1> QED
  BY <1>8 DEF O

(* What one order adds: its price if it is held, nothing unless it is owed. *)
LEMMA NetBounds ==
  ASSUME IInv, NEW u \in Users, NEW o \in OrdersOfUser(u)
  PROVE  /\ Net[o] \in Int /\ Amount[o] \in Int
         /\ o \in Held(u) => Amount[o] <= Net[o]
         /\ 0 <= Net[o]
         /\ Net[o] <= Amount[o]
         /\ o \notin Owed(u) => Net[o] <= 0
<1>1. o \in OrderID /\ o[1] \in Groups
  BY BalanceTypes
<1> DEFINE d == deposits[o[1]]
           c == charges[o]
           r == refunds[o]
           a == Amount[o]
<1>2. /\ d \in {0, 1} /\ c \in {0, 1} /\ r \in {0, 1} /\ a \in Nat
      /\ d = IF payStatus[o[1]] = "paid" THEN 1 ELSE 0
  BY <1>1, BalanceTypes
<1>3. /\ r <= c /\ c <= d
      /\ orderStatus[o] = "paid" => c = 0
      /\ orderStatus[o] \in D!Handled => c = 1
      /\ orderStatus[o] = "cancelled" => r = 1
  BY <1>1, MoneyInShop, SameTypes DEF D!MoneyFollowsOrder
<1>4. Net[o] = d * a + (-(c * a) + r * a)
  BY <1>1 DEF Net, Part, Booked, Charged, Refunded
<1>5. orderStatus[o] = "paid" => d = 1
  <2>1. orderStatus[o] = "paid" => payStatus[o[1]] = "paid"
    BY <1>1, SameTypes, RowTypes
       DEF IInv, P!IInv, P!OrdersFollowPayment, PaymentStatus
  <2> QED
    BY <1>2, <2>1
<1>6. o \in Held(u) => d = 1 /\ ((c = 0 /\ r = 0) \/ r = 1)
  BY <1>2, <1>3, <1>5 DEF Held
<1>7. o \notin Owed(u) => d = 0 \/ (c = 1 /\ r = 0)
  BY <1>2, <1>3 DEF Owed
<1> HIDE DEF d, c, r, a
<1>8. \/ d = 0 /\ c = 0 /\ r = 0 /\ Net[o] = 0
      \/ d = 1 /\ c = 0 /\ r = 0 /\ Net[o] = a
      \/ d = 1 /\ c = 1 /\ r = 0 /\ Net[o] = 0
      \/ d = 1 /\ c = 1 /\ r = 1 /\ Net[o] = a
  BY <1>2, <1>3, <1>4
<1>9. /\ Net[o] \in Int /\ a \in Int
      /\ o \in Held(u) => a <= Net[o]
      /\ 0 <= Net[o] /\ Net[o] <= a
      /\ o \notin Owed(u) => Net[o] <= 0
  BY <1>2, <1>6, <1>7, <1>8
<1> QED
  BY <1>9 DEF a

(* Every state's balance lies between what is held for the user and what    *)
(* is owed to him.                                                          *)
LEMMA BalanceBounds ==
  ASSUME IInv, NEW u \in Users
  PROVE  /\ SumFunctionOnSet(Amount, Held(u)) <= Balance(u)
         /\ Balance(u) <= SumFunctionOnSet(Amount, Owed(u))
         /\ 0 <= SumFunctionOnSet(Amount, Held(u))
<1> DEFINE O == OrdersOfUser(u)
           lower == [o \in OrderID |-> IF o \in Held(u) THEN Amount[o] ELSE 0]
           upper == [o \in OrderID |-> IF o \in Owed(u) THEN Amount[o] ELSE 0]
           none == [o \in OrderID |-> 0]
<1>1. /\ IsFiniteSet(O) /\ O \in SUBSET OrderID
      /\ Held(u) \in SUBSET O /\ Owed(u) \in SUBSET O
      /\ IsFiniteSet(Held(u)) /\ IsFiniteSet(Owed(u))
  BY BalanceTypes, FS_Subset DEF Held, Owed
<1>2. \A o \in O : /\ Net[o] \in Int /\ lower[o] \in Int /\ upper[o] \in Int
                  /\ none[o] \in Int /\ 0 <= lower[o] /\ none[o] <= lower[o]
                  /\ lower[o] <= Net[o] /\ Net[o] <= upper[o]
  BY <1>1, NetBounds, BalanceTypes
<1>3. /\ \A o \in Held(u) : lower[o] = Amount[o] /\ lower[o] \in Int
      /\ \A o \in O \ Held(u) : lower[o] = 0
      /\ \A o \in Owed(u) : upper[o] = Amount[o] /\ upper[o] \in Int
      /\ \A o \in O \ Owed(u) : upper[o] = 0
      /\ \A o \in O : none[o] = 0
  BY <1>1, <1>2
<1> HIDE DEF lower, upper, none, O
<1>4. /\ SumFunctionOnSet(lower, O) = SumFunctionOnSet(lower, Held(u))
      /\ SumFunctionOnSet(upper, O) = SumFunctionOnSet(upper, Owed(u))
  BY <1>1, <1>3, SumPart
<1>5. /\ SumFunctionOnSet(lower, Held(u)) = SumFunctionOnSet(Amount, Held(u))
      /\ SumFunctionOnSet(upper, Owed(u)) = SumFunctionOnSet(Amount, Owed(u))
  BY <1>1, <1>3, SumSame
<1>6. /\ SumFunctionOnSet(lower, O) <= SumFunctionOnSet(Net, O)
      /\ SumFunctionOnSet(Net, O) <= SumFunctionOnSet(upper, O)
      /\ SumFunctionOnSet(none, O) <= SumFunctionOnSet(lower, O)
  BY <1>1, <1>2, SumUpTo
<1>7. SumFunctionOnSet(none, O) = 0
  BY <1>1, <1>3, SumZero
<1> QED
  BY <1>4, <1>5, <1>6, <1>7, BalanceByOrder DEF O

(* A user's balance always lies between what is held for him and what is    *)
(* owed to him, however events are announced, lost, recovered and repeated, *)
(* and is never negative.                                                   *)
THEOREM BalanceIsExplained ==
  Spec => []/\ BalanceExplained
            /\ \A u \in Users : 0 <= Balance(u)
<1>1. ASSUME IInv
      PROVE  BalanceExplained /\ \A u \in Users : 0 <= Balance(u)
  <2> SUFFICES ASSUME NEW u \in Users
               PROVE  /\ SumFunctionOnSet(Amount, Held(u)) <= Balance(u)
                      /\ Balance(u) <= SumFunctionOnSet(Amount, Owed(u))
                      /\ 0 <= Balance(u)
    BY DEF BalanceExplained
  <2>1. /\ SumFunctionOnSet(Amount, Held(u)) \in Int
        /\ Balance(u) \in Int
    <3>1. /\ IsFiniteSet(OrdersOfUser(u)) /\ OrdersOfUser(u) \in SUBSET OrderID
          /\ \A o \in OrdersOfUser(u) : Net[o] \in Int /\ Amount[o] \in Int
      BY <1>1, BalanceTypes, NetBounds
    <3>2. IsFiniteSet(Held(u)) /\ Held(u) \in SUBSET OrdersOfUser(u)
      BY <3>1, FS_Subset DEF Held
    <3> QED
      BY <1>1, <3>1, <3>2, SumType, BalanceByOrder
  <2> QED
    BY <1>1, <2>1, BalanceBounds
<1>2. IInv => BalanceExplained /\ \A u \in Users : 0 <= Balance(u)
  BY <1>1
<1> QED
  BY <1>2, Invariance, PTL

=============================================================================
