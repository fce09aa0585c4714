-------------------------- MODULE PaymentFlow_proofs --------------------------
(***************************************************************************)
(* Proofs about PaymentFlow: typing, the safety properties, the action     *)
(* property and the refinement of PaymentContract, for every number of     *)
(* groups, products, users and requests and every bound.                   *)
(***************************************************************************)
EXTENDS PaymentFlow, Store_proofs

-----------------------------------------------------------------------------
(* The inductive invariant behind these properties.                         *)

(* The service's row holds a decision under the event id it was made with, *)
(* or is as it was created.                                                *)
ServiceRowDecided ==
  \A g \in Groups :
    LET e == serviceEvent[g]
    IN  IF e = NoEvent THEN serviceStatus[g] \in {"absent", "new"}
        ELSE /\ e \in EventID /\ e[1] = g
             /\ Decided(e) /\ decision[e].status = serviceStatus[g]

(* The order in which a payment's traces appear: the shop's row, then the  *)
(* service's row, then requests to decide, then the decided row.           *)
TracesInOrder ==
  /\ \A g \in Groups : serviceStatus[g] # "absent" => payStatus[g] # "absent"
  /\ \A e \in EventID :
       /\ decision[e].stage # "none" => serviceStatus[e[1]] # "absent"
       /\ Decided(e) => serviceEvent[e[1]] # NoEvent

(* Whatever waits in payments:update was decided by the service.            *)
DecidedEvent ==
  {ev \in PaymentEvent : /\ ev.group = ev.id[1]
                         /\ Decided(ev.id)
                         /\ decision[ev.id].status = ev.status}
EventsDecided == updateQueue \in Seq(DecidedEvent)

(* The init event belongs to a payment that exists, and the worker marks   *)
(* it await only after the service has it.                                 *)
InitInOrder ==
  /\ \A i \in DOMAIN initQueue : payStatus[initQueue[i].group] # "absent"
  /\ initWorker # Idle => payStatus[initWorker.group] # "absent"
  /\ initWorker.stage = "await" => serviceStatus[initWorker.group] # "absent"
  /\ \A g \in creating : payStatus[g] # "absent"

(* InitEventCarried without counting: the places exclude each other, each  *)
(* is of a payment in init, and what is queued will not be ignored by      *)
(* InitPayment for its status.                                             *)
Carried(g) == g \in creating \/ InitTaken(g) \/ InitPositions(g) # {}
OneCarrier ==
  /\ \A i, j \in DOMAIN initQueue : initQueue[i].group = initQueue[j].group => i = j
  /\ \A i \in DOMAIN initQueue : initQueue[i].status = "init"
  /\ \A g \in Groups :
       /\ g \in creating => ~InitTaken(g)
       /\ g \in creating \/ InitTaken(g) => InitPositions(g) = {}
       /\ Carried(g) => payStatus[g] = "init"
       /\ payStatus[g] = "init" /\ faults = 0 => Carried(g)

(* NoUnpaidAnnouncement as membership, the form the sequence lemmas take.   *)
AnnouncedEvent == {e \in OrderEvent : payStatus[e.order[1]] = "paid"}
ListedEvent ==
  {e \in OrderEvent : e.status \in RecoveredStatus => payStatus[e.order[1]] = "paid"}
AnnouncementsPaid ==
  /\ paidQueue \in Seq(AnnouncedEvent)
  /\ updateWorker.stage = "publish" => updateWorker.events \in Seq(AnnouncedEvent)
  /\ recovering \in [Recoveries -> Seq(ListedEvent)]

(* All of it: preserved by every action, and implies the properties above.  *)
IInv ==
  /\ TypeOK /\ ServiceRowDecided /\ TracesInOrder /\ EventsDecided
  /\ InitInOrder /\ OneCarrier /\ ServiceKnowsPayment
  /\ PaidAgreement /\ DepositMatchesPayment /\ OrdersFollowPayment
  /\ AnnouncementsPaid

-----------------------------------------------------------------------------
(* Typing and the service's row, which no step of the shop disturbs, are   *)
(* proved together.  That the row holds a decision makes ResendRow, the    *)
(* resend the fairness is about, one of the resends of Next.               *)
TypeInv == TypeOK /\ ServiceRowDecided

(* The initial states are well-typed.                                       *)
LEMMA TypeInvInit == Init => TypeInv
<1> SUFFICES ASSUME Init PROVE TypeInv
  OBVIOUS
<1>1. StoreTypeOK
  BY EmptySeq DEF Init, StoreInit, StoreTypeOK
<1>2. /\ creating \subseteq Groups /\ initWorker \in InitWorker
      /\ updateQueue \in Seq(PaymentEvent) /\ updateWorker \in UpdateWorker
  BY EmptySeq DEF Init, InitWorker, UpdateWorker
<1>3. /\ serviceStatus \in [Groups -> DecisionStatus \cup {"absent"}]
      /\ serviceEvent \in [Groups -> EventID \cup {NoEvent}]
      /\ decision \in [EventID -> Decision]
  BY DEF Init, NoDecision, Decision, DecisionStatus, EventID
<1>4. ServiceRowDecided
  BY DEF Init, ServiceRowDecided
<1> QED
  BY <1>1, <1>2, <1>3, <1>4 DEF TypeInv, TypeOK

(* CreateOrder and the publication of the init event.                       *)
LEMMA TypeCreate ==
  ASSUME TypeInv, NEW g \in Groups, NEW u \in Users, NEW ps \in SUBSET Products,
         CreateOrder(g, u, ps)
  PROVE  TypeInv'
<1> USE DEF TypeInv, TypeOK
<1>1. StoreTypeOK'
  BY DEF CreateOrder, StoreTypeOK, OrderStatus, PaymentStatus
<1>2. ServiceRowDecided'
  BY DEF CreateOrder, ServiceRowDecided, Decided, serviceVars
<1> QED
  BY <1>1, <1>2 DEF CreateOrder, serviceVars

(* Publishing the init event keeps the types.                               *)
LEMMA TypePublishInit ==
  ASSUME TypeInv, InitInOrder, NEW g \in Groups, PublishInit(g)
  PROVE  TypeInv'
<1> USE DEF TypeInv, TypeOK
<1>1. PaymentSnapshot(g) \in InitEvent
  BY DEF PaymentSnapshot, InitEvent, InitInOrder, PublishInit, StoreTypeOK
<1>2. initQueue' \in Seq(InitEvent)
  BY <1>1, AppendProperties DEF PublishInit, StoreTypeOK
<1>3. StoreTypeOK'
  BY <1>2 DEF PublishInit, StoreTypeOK, rows
<1>4. ServiceRowDecided'
  BY DEF PublishInit, ServiceRowDecided, Decided, serviceVars
<1> QED
  BY <1>3, <1>4 DEF PublishInit, serviceVars

(* Abandoning it does, too.                                                 *)
LEMMA TypeAbandonCreate ==
  ASSUME TypeInv, NEW g \in Groups, AbandonCreate(g)
  PROVE  TypeInv'
  BY DEF TypeInv, TypeOK, AbandonCreate, InjectFault, StoreTypeOK, rows,
         ServiceRowDecided, Decided, serviceVars

(* InitPayment.                                                             *)
LEMMA TypeInitPayment ==
  ASSUME TypeInv,
         TakeInit \/ PostPayment \/ PostPaymentFails \/ MarkAwait \/ MarkAwaitFails
  PROVE  TypeInv'
<1> USE DEF TypeInv, TypeOK
<1>1. CASE TakeInit
  <2>1. /\ Head(initQueue) \in InitEvent
        /\ Tail(initQueue) \in Seq(InitEvent)
    BY <1>1, HeadTailProperties DEF TakeInit, StoreTypeOK
  <2>2. StoreTypeOK'
    BY <1>1, <2>1 DEF TakeInit, StoreTypeOK, rows
  <2>3. initWorker' \in InitWorker
    BY <1>1, <2>1 DEF TakeInit, InitWorker, InitEvent
  <2>4. ServiceRowDecided'
    BY <1>1 DEF TakeInit, ServiceRowDecided, Decided, serviceVars
  <2> QED
    BY <1>1, <2>2, <2>3, <2>4 DEF TakeInit, serviceVars
<1>2. CASE PostPayment \/ PostPaymentFails
  <2>1. initWorker.group \in Groups
    BY <1>2 DEF PostPayment, PostPaymentFails, InitWorker, Idle
  <2>2. /\ serviceStatus' \in [Groups -> DecisionStatus \cup {"absent"}]
        /\ \A g \in Groups : serviceStatus'[g] # serviceStatus[g] =>
             serviceStatus[g] = "absent" /\ serviceStatus'[g] = "new"
    BY <1>2, <2>1 DEF PostPayment, PostPaymentFails, ServiceCreate,
                      DecisionStatus, Settled
  <2>3. initWorker' \in InitWorker
    BY <1>2, <2>1 DEF PostPayment, PostPaymentFails, InitWorker, Idle
  <2>4. ServiceRowDecided'
    BY <1>2, <2>2 DEF PostPayment, PostPaymentFails, ServiceRowDecided, Decided,
                      Decision, DecisionStatus, Settled
  <2>5. StoreTypeOK'
    BY <1>2 DEF PostPayment, PostPaymentFails, storeVars, rows, StoreTypeOK,
                InjectFault
  <2> QED
    BY <1>2, <2>2, <2>3, <2>4, <2>5 DEF PostPayment, PostPaymentFails
<1>3. CASE MarkAwait
  <2>1. initWorker.group \in Groups
    BY <1>3 DEF MarkAwait, InitWorker, Idle
  <2>2. payStatus' \in [Groups -> PaymentStatus \cup {"absent"}]
    BY <1>3, <2>1, UpdateStatusType DEF MarkAwait, StoreTypeOK, PaymentStatus
  <2>3. StoreTypeOK'
    BY <1>3, <2>2 DEF MarkAwait, StoreTypeOK
  <2>4. ServiceRowDecided'
    BY <1>3 DEF MarkAwait, ServiceRowDecided, Decided, serviceVars
  <2> QED
    BY <1>3, <2>3, <2>4 DEF MarkAwait, serviceVars, InitWorker
<1>4. CASE MarkAwaitFails
  BY <1>4 DEF MarkAwaitFails, InjectFault, StoreTypeOK, rows, InitWorker,
              ServiceRowDecided, Decided, serviceVars
<1> QED
  BY <1>1, <1>2, <1>3, <1>4

(* The payments service.                                                    *)
LEMMA TypeService ==
  ASSUME TypeInv, NEW e \in EventID,
         \/ \E s \in DecisionStatus : BeginDecision(e, s)
         \/ SaveDecision(e) \/ LoseWebhook(e)
  PROVE  TypeInv'
<1> USE DEF TypeInv, TypeOK
<1>0. e[1] \in Groups
  BY DEF EventID
<1>1. StoreTypeOK'
  BY DEF BeginDecision, SaveDecision, LoseWebhook, InjectFault, storeVars, rows,
         StoreTypeOK
<1>2. decision' \in [EventID -> Decision]
  BY DEF BeginDecision, SaveDecision, LoseWebhook, Decision
<1>3. /\ serviceStatus' \in [Groups -> DecisionStatus \cup {"absent"}]
      /\ serviceEvent' \in [Groups -> EventID \cup {NoEvent}]
  <2>1. decision[e].status \in DecisionStatus
    BY DEF Decision
  <2>2. CASE SaveDecision(e)
    BY <1>0, <2>1, <2>2 DEF SaveDecision
  <2>3. CASE LoseWebhook(e) \/ \E s \in DecisionStatus : BeginDecision(e, s)
    BY <2>3 DEF LoseWebhook, BeginDecision
  <2> QED
    BY <2>2, <2>3
<1>4. ServiceRowDecided'
  <2>1. CASE \E s \in DecisionStatus : BeginDecision(e, s)
    BY <2>1 DEF BeginDecision, ServiceRowDecided, Decided, Decision
  <2>2. CASE SaveDecision(e)
    <3>1. e # NoEvent
      BY StoreAssumption DEF EventID
    <3> QED
      BY <2>2, <3>1, <1>0 DEF SaveDecision, ServiceRowDecided, Decided, Decision
  <2>3. CASE LoseWebhook(e)
    BY <2>3 DEF LoseWebhook, ServiceRowDecided, Decided, Decision
  <2> QED
    BY <2>1, <2>2, <2>3
<1> QED
  BY <1>1, <1>2, <1>3, <1>4
     DEF BeginDecision, SaveDecision, LoseWebhook, flowVars

(* A webhook call puts a well-typed event into payments:update.             *)
LEMMA WebhookType ==
  ASSUME TypeInv, NEW e \in EventID, NEW s \in DecisionStatus
  PROVE  WebhookPayment(e, s) \in Seq(PaymentEvent)
<1>1. s \in Settled => [id |-> e, group |-> e[1], status |-> s] \in PaymentEvent
  BY DEF PaymentEvent, EventID
<1> QED
  BY <1>1, AppendProperties DEF WebhookPayment, SaveUpdateEvent, TypeInv, TypeOK

(* A delivered webhook is an event of a decision.                           *)
LEMMA TypeDeliverWebhook ==
  ASSUME TypeInv, NEW e \in EventID, DeliverWebhook(e)
  PROVE  TypeInv'
<1> USE DEF TypeInv, TypeOK
<1>1. decision[e].status \in DecisionStatus
  BY DEF Decision
<1>2. updateQueue' \in Seq(PaymentEvent)
  BY <1>1, WebhookType DEF DeliverWebhook
<1>3. decision' \in [EventID -> Decision]
  BY DEF DeliverWebhook, Decision
<1>4. ServiceRowDecided'
  BY DEF DeliverWebhook, ServiceRowDecided, Decided, Decision
<1> QED
  BY <1>2, <1>3, <1>4 DEF DeliverWebhook, storeVars, rows, StoreTypeOK

(* So is a resent one.                                                      *)
LEMMA TypeResendWebhook ==
  ASSUME TypeInv, NEW e \in EventID, ResendWebhook(e)
  PROVE  TypeInv'
<1> USE DEF TypeInv, TypeOK
<1>1. decision[e].status \in DecisionStatus
  BY DEF Decision
<1>2. updateQueue' \in Seq(PaymentEvent)
  BY <1>1, WebhookType DEF ResendWebhook
<1>3. ServiceRowDecided'
  BY DEF ResendWebhook, ServiceRowDecided, Decided, serviceVars
<1> QED
  BY <1>2, <1>3 DEF ResendWebhook, storeVars, rows, StoreTypeOK, serviceVars

(* UpdatePayment.                                                           *)
LEMMA TakenEvent ==
  ASSUME TypeInv, TakeUpdate
  PROVE  /\ Head(updateQueue) \in PaymentEvent
         /\ updateQueue' \in Seq(PaymentEvent)
  BY HeadTailProperties DEF TypeInv, TypeOK, TakeUpdate

(* The four outcomes of the update transaction keep the types.              *)
LEMMA TypeUpdatePayment ==
  ASSUME TypeInv, SkipKnownEvent \/ SettlePayment \/ RejectEvent \/ UpdateFails
  PROVE  TypeInv'
<1> USE DEF TypeInv, TypeOK
<1>0. TakeUpdate
  BY DEF SkipKnownEvent, SettlePayment, RejectEvent, UpdateFails
<1>1. /\ Head(updateQueue) \in PaymentEvent
      /\ updateQueue' \in Seq(PaymentEvent)
  BY <1>0, TakenEvent
<1>2. updateWorker' \in UpdateWorker
  BY <1>1 DEF SkipKnownEvent, SettlePayment, RejectEvent, UpdateFails,
              UpdateWorker, ListOrdersOf, PaymentEvent
<1>3. ServiceRowDecided'
  BY <1>0 DEF TakeUpdate, ServiceRowDecided, Decided, serviceVars
<1>4. StoreTypeOK'
  <2>1. CASE SettlePayment
    <3> DEFINE ev == Head(updateQueue)
    <3>1. ev.group \in Groups /\ ev.status \in PaymentStatus /\ ev.id \in EventID
      BY <1>1 DEF PaymentEvent, Settled, PaymentStatus
    <3>2. payStatus' \in [Groups -> PaymentStatus \cup {"absent"}]
      BY <2>1, <3>1, UpdateStatusType DEF SettlePayment, StoreTypeOK
    <3>3. payEvent' \in [Groups -> EventID \cup {NoEvent}]
      BY <2>1, <3>1 DEF SettlePayment, StoreTypeOK
    <3>4. deposits' \in [Groups -> Nat]
      BY <2>1, <3>1, CreateOrIgnoreType DEF SettlePayment, StoreTypeOK
    <3>5. orderStatus' \in [OrderID -> OrderStatus \cup {"absent"}]
      BY <2>1 DEF SettlePayment, UpdateOrdersStatus, NewOrderStatus, OrderStatus,
                  StoreTypeOK
    <3> QED
      BY <1>0, <2>1, <3>2, <3>3, <3>4, <3>5
         DEF SettlePayment, TakeUpdate, StoreTypeOK
  <2>2. CASE SkipKnownEvent \/ RejectEvent \/ UpdateFails
    BY <1>0, <2>2 DEF SkipKnownEvent, RejectEvent, UpdateFails, TakeUpdate,
                      InjectFault, StoreTypeOK
  <2> QED
    BY <2>1, <2>2
<1> QED
  BY <1>0, <1>1, <1>2, <1>3, <1>4 DEF TakeUpdate, serviceVars

(* The listing after the transaction.                                       *)
LEMMA PaidListing ==
  ASSUME TypeInv, NEW g, NEW events \in Listing({o \in FindByGroupID(g) :
                                                   orderStatus[o] = "paid"})
  PROVE  events \in Seq({Snapshot(o) : o \in {o \in OrderID : orderStatus[o] = "paid"}})
<1> DEFINE S == {o \in FindByGroupID(g) : orderStatus[o] = "paid"}
           P == {o \in OrderID : orderStatus[o] = "paid"}
<1>1. S \in SUBSET OrderID /\ S \subseteq P
  BY DEF FindByGroupID
<1>2. events \in Seq({Snapshot(o) : o \in S})
  BY <1>1, ListingType
<1>3. {Snapshot(o) : o \in S} \subseteq {Snapshot(o) : o \in P}
  BY <1>1
<1> QED
  BY <1>2, <1>3, SeqMonotonic

(* The listed orders are queue events.                                      *)
LEMMA TypeListPaid ==
  ASSUME TypeInv, ListPaid \/ ListPaidFails \/ PublishPaid
  PROVE  TypeInv'
<1> USE DEF TypeInv, TypeOK
<1>1. ServiceRowDecided'
  BY DEF ListPaid, ListPaidFails, PublishPaid, ServiceRowDecided, Decided,
         serviceVars
<1>2. CASE ListPaid
  <2>1. PICK events \in Listing({o \in FindByGroupID(updateWorker.group) :
                                   orderStatus[o] = "paid"}) :
               updateWorker' = Publishing(events)
    BY <1>2 DEF ListPaid
  <2>2. {Snapshot(o) : o \in {o \in OrderID : orderStatus[o] = "paid"}}
          \subseteq OrderEvent
    BY SnapshotType DEF StoreTypeOK
  <2>3. events \in Seq(OrderEvent)
    BY <2>2, PaidListing, SeqMonotonic
  <2>4. updateWorker' \in UpdateWorker
    BY <2>1, <2>3 DEF Publishing, UpdateWorker
  <2> QED
    BY <1>1, <1>2, <2>4 DEF ListPaid, storeVars, rows, StoreTypeOK, serviceVars
<1>3. CASE ListPaidFails
  BY <1>1, <1>3 DEF ListPaidFails, InjectFault, rows, StoreTypeOK, serviceVars,
                    UpdateWorker
<1>4. CASE PublishPaid
  <2>1. updateWorker.events \in Seq(OrderEvent) /\ updateWorker.events # <<>>
    BY <1>4 DEF PublishPaid, UpdateWorker, Idle
  <2>2. /\ Head(updateWorker.events) \in OrderEvent
        /\ Tail(updateWorker.events) \in Seq(OrderEvent)
    BY <2>1, HeadTailProperties
  <2>3. paidQueue' \in Seq(OrderEvent)
    BY <1>4, <2>2, AppendProperties DEF PublishPaid, StoreTypeOK
  <2>4. updateWorker' \in UpdateWorker
    BY <1>4, <2>2 DEF PublishPaid, Publishing, UpdateWorker
  <2> QED
    BY <1>1, <1>4, <2>3, <2>4 DEF PublishPaid, rows, StoreTypeOK, serviceVars
<1> QED
  BY <1>2, <1>3, <1>4

(* The recovery request, the consumer, a crash.                             *)
LEMMA TypeRest ==
  ASSUME TypeInv, Recovery \/ ConsumePaid \/ Crash \/ UNCHANGED vars
  PROVE  TypeInv'
<1> USE DEF TypeInv, TypeOK
<1>1. ServiceRowDecided'
  BY DEF Recovery, ConsumePaid, Crash, CrashFlow, vars, serviceVars,
         ServiceRowDecided, Decided
<1>2. CASE Recovery
  <2>1. StoreTypeOK'
    <3> PICK h \in Recoveries : StartRecovery(h) \/ RecoverOrder(h)
      BY <1>2 DEF Recovery
    <3>1. CASE StartRecovery(h)
      BY <3>1, StartRecoveryType DEF StartRecovery, StoreTypeOK, rows
    <3>2. CASE RecoverOrder(h)
      BY <3>2, RecoverOrderType
    <3> QED
      BY <3>1, <3>2
  <2> QED
    BY <1>1, <1>2, <2>1 DEF Recovery, flowVars, serviceVars
<1>3. CASE ConsumePaid
  <2>1. StoreTypeOK'
    BY <1>3, HeadTailProperties DEF ConsumePaid, StoreTypeOK, rows
  <2> QED
    BY <1>1, <1>3, <2>1 DEF ConsumePaid, flowVars, serviceVars
<1>4. CASE Crash
  BY <1>1, <1>4, CrashStoreType, EmptySeq
     DEF Crash, CrashFlow, serviceVars, InitWorker, UpdateWorker
<1>5. CASE UNCHANGED vars
  BY <1>1, <1>5 DEF vars, storeVars, rows, flowVars, serviceVars, StoreTypeOK
<1> QED
  BY <1>2, <1>3, <1>4, <1>5

(* Every step keeps the types.                                              *)
LEMMA TypeInvNext ==
  ASSUME TypeInv, InitInOrder, [Next]_vars
  PROVE  TypeInv'
<1>1. CASE PaymentStep
  <2>1. CASE \E g \in Groups, u \in Users, ps \in SUBSET Products : CreateOrder(g, u, ps)
    BY <2>1, TypeCreate
  <2>2. CASE \E g \in Groups : PublishInit(g) \/ AbandonCreate(g)
    BY <2>2, TypePublishInit, TypeAbandonCreate
  <2>3. CASE \E e \in EventID :
               \/ \E s \in DecisionStatus : BeginDecision(e, s)
               \/ SaveDecision(e) \/ DeliverWebhook(e) \/ LoseWebhook(e)
               \/ ResendWebhook(e)
    BY <2>3, TypeService, TypeDeliverWebhook, TypeResendWebhook
  <2> QED
    BY <1>1, <2>1, <2>2, <2>3, TypeInitPayment, TypeUpdatePayment, TypeListPaid
       DEF PaymentStep
<1> QED
  BY <1>1, TypeRest DEF Next

-----------------------------------------------------------------------------
(* Which steps change the payments' rows, and which the service's state.    *)
LEMMA RowSteps ==
  ASSUME [Next]_vars
  PROVE  \/ \E g \in Groups, u \in Users, ps \in SUBSET Products : CreateOrder(g, u, ps)
         \/ MarkAwait
         \/ SettlePayment
         \/ UNCHANGED rows
<1> USE DEF rows
<1>1. CASE PaymentStep
  BY <1>1
     DEF PaymentStep, PublishInit, AbandonCreate, ResendWebhook, TakeInit,
         PostPayment, PostPaymentFails, MarkAwaitFails, BeginDecision,
         SaveDecision, DeliverWebhook, LoseWebhook, SkipKnownEvent, RejectEvent,
         UpdateFails, TakeUpdate, ListPaid, ListPaidFails, PublishPaid, storeVars
<1>2. CASE Recovery \/ ConsumePaid \/ Crash \/ UNCHANGED vars
  BY <1>2 DEF Recovery, StartRecovery, RecoverOrder, ConsumePaid, Crash,
              CrashStore, vars, storeVars
<1> QED
  BY <1>1, <1>2 DEF Next

(* What a step may do to the rows of the payments service.                  *)
LEMMA ServiceSteps ==
  ASSUME [Next]_vars
  PROVE  \/ PostPayment
         \/ PostPaymentFails
         \/ \E e \in EventID : \/ \E s \in DecisionStatus : BeginDecision(e, s)
                               \/ SaveDecision(e)
                               \/ DeliverWebhook(e) \/ LoseWebhook(e)
         \/ UNCHANGED serviceVars
<1> USE DEF serviceVars
<1>1. CASE PaymentStep
  BY <1>1
     DEF PaymentStep, CreateOrder, PublishInit, AbandonCreate, ResendWebhook,
         TakeInit, MarkAwait, MarkAwaitFails, SkipKnownEvent, SettlePayment,
         RejectEvent, UpdateFails, TakeUpdate, ListPaid, ListPaidFails, PublishPaid
<1>2. CASE Recovery \/ ConsumePaid \/ Crash \/ UNCHANGED vars
  BY <1>2 DEF Recovery, ConsumePaid, Crash, CrashFlow, vars
<1> QED
  BY <1>1, <1>2 DEF Next

(* A decision once saved keeps its status.                                  *)
LEMMA DecisionsStable ==
  ASSUME TypeInv, [Next]_vars, NEW e \in EventID, Decided(e)
  PROVE  Decided(e)' /\ decision'[e].status = decision[e].status
  BY ServiceSteps
     DEF TypeInv, TypeOK, Decision, Decided, PostPayment, PostPaymentFails,
         BeginDecision, SaveDecision, DeliverWebhook, LoseWebhook, serviceVars

(* A payment once created stays, once paid it stays paid; the service never *)
(* forgets a payment, nor that it has been decided.                         *)
LEMMA PaymentsStable ==
  ASSUME TypeInv, [Next]_vars, NEW g \in Groups
  PROVE  /\ payStatus[g] # "absent" => payStatus'[g] # "absent"
         /\ payStatus[g] \in Settled => payStatus'[g] = payStatus[g]
<1>1. CASE \E h \in Groups, u \in Users, ps \in SUBSET Products : CreateOrder(h, u, ps)
  BY <1>1 DEF CreateOrder, TypeInv, TypeOK, StoreTypeOK, Settled
<1>2. CASE MarkAwait
  BY <1>2 DEF MarkAwait, UpdateStatus, TypeInv, TypeOK, StoreTypeOK, Settled
<1>3. CASE SettlePayment
  <2>1. Head(updateQueue) \in PaymentEvent
    BY <1>3, TakenEvent DEF SettlePayment
  <2> QED
    BY <1>3, <2>1 DEF SettlePayment, UpdateStatus, TypeInv, TypeOK, StoreTypeOK,
                      Settled, PaymentEvent
<1>4. CASE UNCHANGED rows
  BY <1>4 DEF rows
<1> QED
  BY <1>1, <1>2, <1>3, <1>4, RowSteps

(* Decisions and the decided row never become undecided.                    *)
LEMMA ServiceStable ==
  ASSUME TypeInv, [Next]_vars, NEW g \in Groups
  PROVE  /\ serviceStatus[g] # "absent" => serviceStatus'[g] # "absent"
         /\ serviceEvent[g] # NoEvent => serviceEvent'[g] # NoEvent
<1>1. CASE PostPayment \/ PostPaymentFails
  BY <1>1 DEF PostPayment, PostPaymentFails, ServiceCreate, TypeInv, TypeOK,
              DecisionStatus, Settled
<1>2. CASE \E e \in EventID : SaveDecision(e)
  <2>1. PICK e \in EventID : SaveDecision(e)
    BY <1>2
  <2>2. decision[e].status \in DecisionStatus
    BY DEF TypeInv, TypeOK, Decision
  <2> QED
    BY <2>1, <2>2, StoreAssumption
       DEF SaveDecision, TypeInv, TypeOK, DecisionStatus, Settled, EventID
<1>3. CASE \/ UNCHANGED serviceVars
           \/ \E e \in EventID : \/ \E s \in DecisionStatus : BeginDecision(e, s)
                                 \/ DeliverWebhook(e) \/ LoseWebhook(e)
  BY <1>3 DEF serviceVars, BeginDecision, DeliverWebhook, LoseWebhook
<1> QED
  BY <1>1, <1>2, <1>3, ServiceSteps

-----------------------------------------------------------------------------
(* The remaining conjuncts of IInv, one lemma each.                         *)
LEMMA TracesInOrderNext ==
  ASSUME TypeInv, TracesInOrder, InitInOrder, [Next]_vars
  PROVE  TracesInOrder'
<1>1. ASSUME NEW g \in Groups, serviceStatus'[g] # "absent"
      PROVE  payStatus'[g] # "absent"
  <2>1. CASE serviceStatus[g] # "absent"
    BY <2>1, PaymentsStable DEF TracesInOrder
  <2>2. CASE serviceStatus[g] = "absent"
    <3>1. PostPayment \/ PostPaymentFails
      <4>1. \A e \in EventID : decision[e].stage # "none" => e[1] # g
        BY <2>2 DEF TracesInOrder
      <4> QED
        BY <1>1, <2>2, <4>1, ServiceSteps
           DEF BeginDecision, SaveDecision, DeliverWebhook, LoseWebhook,
               serviceVars, TypeInv, TypeOK, EventID
    <3>2. initWorker # Idle /\ initWorker.group = g
      BY <1>1, <2>2, <3>1
         DEF PostPayment, PostPaymentFails, ServiceCreate, TypeInv, TypeOK, Idle,
             InitWorker
    <3> QED
      BY <3>2, PaymentsStable DEF InitInOrder
  <2> QED
    BY <2>1, <2>2
<1>2. ASSUME NEW e \in EventID
      PROVE  /\ decision'[e].stage # "none" => serviceStatus'[e[1]] # "absent"
             /\ Decided(e)' => serviceEvent'[e[1]] # NoEvent
  <2>0. e[1] \in Groups
    BY DEF EventID
  <2>1. CASE decision'[e] = decision[e]
    BY <2>0, <2>1, ServiceStable DEF TracesInOrder, Decided
  <2>2. CASE decision'[e] # decision[e]
    <3>1. \/ \E s \in DecisionStatus : BeginDecision(e, s)
          \/ SaveDecision(e) \/ DeliverWebhook(e) \/ LoseWebhook(e)
      BY <2>2, ServiceSteps
         DEF PostPayment, PostPaymentFails, BeginDecision, SaveDecision,
             DeliverWebhook, LoseWebhook, serviceVars, TypeInv, TypeOK
    <3>2. CASE \E s \in DecisionStatus : BeginDecision(e, s)
      BY <3>2, <2>0 DEF BeginDecision, Decided, TypeInv, TypeOK
    <3>3. CASE SaveDecision(e)
      <4>1. decision[e].status \in DecisionStatus
        BY DEF TypeInv, TypeOK, Decision
      <4> QED
        BY <3>3, <4>1, <2>0, StoreAssumption
           DEF SaveDecision, TypeInv, TypeOK, DecisionStatus, Settled, EventID
    <3>4. CASE DeliverWebhook(e) \/ LoseWebhook(e)
      BY <3>4, <2>0, ServiceStable
         DEF DeliverWebhook, LoseWebhook, TracesInOrder, Decided
    <3> QED
      BY <3>1, <3>2, <3>3, <3>4
  <2> QED
    BY <2>1, <2>2
<1> QED
  BY <1>1, <1>2 DEF TracesInOrder

(* The webhook queue holds decided events after every step.                 *)
LEMMA EventsDecidedNext ==
  ASSUME TypeInv, EventsDecided, [Next]_vars
  PROVE  EventsDecided'
<1>1. DecidedEvent \subseteq DecidedEvent'
  BY DecisionsStable DEF DecidedEvent, PaymentEvent
<1>2. updateQueue \in Seq(DecidedEvent')
  BY <1>1, SeqMonotonic DEF EventsDecided
<1>3. CASE \E e \in EventID : DeliverWebhook(e) \/ ResendWebhook(e)
  <2>1. PICK e \in EventID : DeliverWebhook(e) \/ ResendWebhook(e)
    BY <1>3
  <2>2. Decided(e)
    BY <2>1 DEF DeliverWebhook, ResendWebhook, Decided
  <2>3. decision[e].status \in Settled =>
          [id |-> e, group |-> e[1], status |-> decision[e].status] \in DecidedEvent'
    BY <2>2, DecisionsStable DEF DecidedEvent, PaymentEvent, EventID
  <2> QED
    BY <1>2, <2>1, <2>3, AppendProperties
       DEF DeliverWebhook, ResendWebhook, WebhookPayment, SaveUpdateEvent,
           EventsDecided
<1>4. CASE TakeUpdate
  BY <1>2, <1>4, HeadTailProperties DEF TakeUpdate, EventsDecided
<1>5. CASE CrashFlow
  BY <1>5, EmptySeq DEF CrashFlow, EventsDecided
<1>6. CASE UNCHANGED updateQueue
  BY <1>2, <1>6 DEF EventsDecided
<1>7. \/ \E e \in EventID : DeliverWebhook(e) \/ ResendWebhook(e)
      \/ TakeUpdate \/ CrashFlow \/ UNCHANGED updateQueue
  <2>1. CASE PaymentStep
    BY <2>1
       DEF PaymentStep, CreateOrder, PublishInit, AbandonCreate, TakeInit,
           PostPayment, PostPaymentFails, MarkAwait, MarkAwaitFails, BeginDecision,
           SaveDecision, LoseWebhook, SkipKnownEvent, SettlePayment, RejectEvent,
           UpdateFails, ListPaid, ListPaidFails, PublishPaid, flowVars
  <2>2. CASE Recovery \/ ConsumePaid \/ Crash \/ UNCHANGED vars
    BY <2>2 DEF Recovery, ConsumePaid, Crash, vars, flowVars
  <2> QED
    BY <2>1, <2>2 DEF Next
<1> QED
  BY <1>3, <1>4, <1>5, <1>6, <1>7

(* The init event stays with an existing payment after every step.          *)
LEMMA InitInOrderNext ==
  ASSUME TypeInv, InitInOrder, [Next]_vars
  PROVE  InitInOrder'
<1>1. ASSUME NEW i \in DOMAIN initQueue'
      PROVE  payStatus'[initQueue'[i].group] # "absent"
  <2> DEFINE Known == {e \in InitEvent : payStatus[e.group] # "absent"}
  <2>1. initQueue \in Seq(Known)
    <3>1. initQueue \in Seq(InitEvent)
      BY DEF TypeInv, TypeOK, StoreTypeOK
    <3>2. \A j \in 1..Len(initQueue) : initQueue[j] \in Known
      BY <3>1, ElementOfSeq, LenProperties DEF InitInOrder
    <3> QED
      BY <3>1, <3>2
  <2>2. \/ \E g \in Groups : PublishInit(g)
        \/ TakeInit
        \/ initQueue' = initQueue \/ initQueue' = <<>>
    <3>1. CASE PaymentStep
      BY <3>1
         DEF PaymentStep, CreateOrder, AbandonCreate, ResendWebhook, PostPayment,
             PostPaymentFails, MarkAwait, MarkAwaitFails, BeginDecision,
             SaveDecision, DeliverWebhook, LoseWebhook, SkipKnownEvent,
             SettlePayment, RejectEvent, UpdateFails, TakeUpdate, ListPaid,
             ListPaidFails, PublishPaid, storeVars
    <3>2. CASE Recovery \/ ConsumePaid \/ Crash \/ UNCHANGED vars
      BY <3>2 DEF Recovery, StartRecovery, RecoverOrder, InitRecoverable, PaymentPaid,
                  ConsumePaid, Crash, CrashStore, vars, storeVars
    <3> QED
      BY <3>1, <3>2 DEF Next
  <2>3. initQueue' \in Seq(Known)
    <3>1. ASSUME NEW g \in Groups, PublishInit(g)
          PROVE  initQueue' \in Seq(Known)
      <4>1. PaymentSnapshot(g) \in Known
        BY <3>1 DEF PublishInit, PaymentSnapshot, InitEvent, InitInOrder, TypeInv,
                    TypeOK, StoreTypeOK
      <4> QED
        BY <2>1, <3>1, <4>1, AppendProperties DEF PublishInit
    <3>2. CASE TakeInit
      BY <2>1, <3>2, HeadTailProperties DEF TakeInit
    <3>3. CASE initQueue' = <<>>
      BY <3>3, EmptySeq
    <3> QED
      BY <2>1, <2>2, <3>1, <3>2, <3>3
  <2>4. initQueue'[i] \in Known
    BY <1>1, <2>3, ElementOfSeq, LenProperties
  <2> QED
    BY <2>4, PaymentsStable DEF InitEvent
<1>2. /\ initWorker' # Idle => payStatus'[initWorker'.group] # "absent"
      /\ initWorker'.stage = "await" => serviceStatus'[initWorker'.group] # "absent"
  <2>1. CASE TakeInit
    <3>1. /\ Head(initQueue) \in InitEvent
          /\ payStatus[Head(initQueue).group] # "absent"
      <4>1. initQueue \in Seq(InitEvent) /\ initQueue # <<>>
        BY <2>1 DEF TakeInit, TypeInv, TypeOK, StoreTypeOK
      <4>2. 1 \in DOMAIN initQueue /\ Head(initQueue) = initQueue[1]
        BY <4>1, EmptySeq, LenProperties
      <4> QED
        BY <4>1, <4>2, HeadTailProperties DEF InitInOrder
    <3> QED
      BY <2>1, <3>1, PaymentsStable DEF TakeInit, Idle, InitEvent
  <2>2. CASE PostPayment
    <3>1. initWorker.group \in Groups /\ initWorker # Idle
      BY <2>2 DEF PostPayment, InitWorker, Idle, TypeInv, TypeOK
    <3>2. initWorker'.group = initWorker.group
      BY <2>2, <3>1 DEF PostPayment, InitWorker, Idle, TypeInv, TypeOK
    <3>3. payStatus'[initWorker.group] # "absent"
      BY <3>1, PaymentsStable DEF InitInOrder
    <3>4. serviceStatus'[initWorker.group] # "absent"
      BY <2>2, <3>1 DEF PostPayment, ServiceCreate, TypeInv, TypeOK
    <3> QED
      BY <3>2, <3>3, <3>4
  <2>3. CASE initWorker' = initWorker
    <3>1. initWorker # Idle => initWorker.group \in Groups
      BY DEF TypeInv, TypeOK, InitWorker
    <3>2. initWorker.stage = "await" => initWorker # Idle
      BY DEF Idle
    <3> QED
      BY <2>3, <3>1, <3>2, PaymentsStable, ServiceStable DEF InitInOrder
  <2>4. CASE initWorker' = Idle
    BY <2>4 DEF Idle
  <2>5. TakeInit \/ PostPayment \/ initWorker' = initWorker \/ initWorker' = Idle
    <3>1. CASE PaymentStep
      BY <3>1
         DEF PaymentStep, CreateOrder, PublishInit, AbandonCreate, ResendWebhook,
             PostPaymentFails, MarkAwait, MarkAwaitFails, BeginDecision,
             SaveDecision, DeliverWebhook, LoseWebhook, SkipKnownEvent,
             SettlePayment, RejectEvent, UpdateFails, TakeUpdate, ListPaid,
             ListPaidFails, PublishPaid, flowVars
    <3>2. CASE Recovery \/ ConsumePaid \/ Crash \/ UNCHANGED vars
      BY <3>2 DEF Recovery, ConsumePaid, Crash, CrashFlow, vars, flowVars
    <3> QED
      BY <3>1, <3>2 DEF Next
  <2> QED
    BY <2>1, <2>2, <2>3, <2>4, <2>5
<1>3. ASSUME NEW g \in creating'
      PROVE  payStatus'[g] # "absent"
  <2>1. CASE g \in creating
    BY <2>1, PaymentsStable DEF InitInOrder, TypeInv, TypeOK
  <2>2. CASE g \notin creating
    <3>1. \E u \in Users, ps \in SUBSET Products : g \in Groups /\ CreateOrder(g, u, ps)
      <4>1. CASE PaymentStep
        BY <1>3, <2>2, <4>1
           DEF PaymentStep, CreateOrder, PublishInit, AbandonCreate, ResendWebhook,
               TakeInit, PostPayment, PostPaymentFails, MarkAwait, MarkAwaitFails,
               BeginDecision, SaveDecision, DeliverWebhook, LoseWebhook,
               SkipKnownEvent, SettlePayment, RejectEvent, UpdateFails, TakeUpdate,
               ListPaid, ListPaidFails, PublishPaid, flowVars
      <4>2. CASE Recovery \/ ConsumePaid \/ Crash \/ UNCHANGED vars
        BY <1>3, <2>2, <4>2 DEF Recovery, ConsumePaid, Crash, CrashFlow, vars, flowVars
      <4> QED
        BY <4>1, <4>2 DEF Next
    <3> QED
      BY <3>1 DEF CreateOrder, TypeInv, TypeOK, StoreTypeOK
  <2> QED
    BY <2>1, <2>2
<1> QED
  BY <1>1, <1>2, <1>3 DEF InitInOrder

(* What a settling transaction starts from and does.                        *)
LEMMA SettleFacts ==
  ASSUME TypeInv, EventsDecided, SettlePayment
  PROVE  \E e \in EventID, g \in Groups, s \in Settled :
           /\ g = e[1] /\ Decided(e) /\ decision[e].status = s
           /\ payStatus[g] = "await"
           /\ payStatus' = [payStatus EXCEPT ![g] = s]
           /\ payEvent' = [payEvent EXCEPT ![g] = e]
           /\ deposits' = IF s = "paid" THEN CreateOrIgnore(deposits, g) ELSE deposits
           /\ orderStatus' = UpdateOrdersStatus(g, NewOrderStatus(s))
<1> DEFINE ev == Head(updateQueue)
<1>1. ev \in DecidedEvent
  BY HeadTailProperties DEF EventsDecided, SettlePayment, TakeUpdate
<1>2. /\ ev.id \in EventID /\ ev.group \in Groups /\ ev.status \in Settled
      /\ ev.group = ev.id[1] /\ Decided(ev.id) /\ decision[ev.id].status = ev.status
  BY <1>1 DEF DecidedEvent, PaymentEvent
<1>3. /\ payStatus[ev.group] = "await"
      /\ payStatus' = [payStatus EXCEPT ![ev.group] = ev.status]
  BY DEF SettlePayment, Awaiting, UpdateStatus
<1> QED
  BY <1>2, <1>3 DEF SettlePayment

(* ServiceKnowsPayment is preserved by every step.                          *)
LEMMA ServiceKnowsPaymentNext ==
  ASSUME TypeInv, TracesInOrder, InitInOrder, EventsDecided, ServiceKnowsPayment,
         [Next]_vars
  PROVE  ServiceKnowsPayment'
<1> SUFFICES ASSUME NEW g \in Groups
             PROVE  /\ payStatus'[g] = "await" => serviceStatus'[g] # "absent"
                    /\ payStatus'[g] \in Settled => serviceEvent'[g] # NoEvent
  BY DEF ServiceKnowsPayment, IsSettled
<1>1. CASE payStatus'[g] = payStatus[g]
  BY <1>1, ServiceStable DEF ServiceKnowsPayment, IsSettled
<1>2. CASE payStatus'[g] # payStatus[g]
  <2>1. CASE \E h \in Groups, u \in Users, ps \in SUBSET Products : CreateOrder(h, u, ps)
    BY <1>2, <2>1 DEF CreateOrder, TypeInv, TypeOK, StoreTypeOK, Settled
  <2>2. CASE MarkAwait
    <3>1. initWorker \in InitWorker /\ initWorker # Idle /\ initWorker.stage = "await"
      BY <2>2 DEF MarkAwait, TypeInv, TypeOK, Idle
    <3>2. g = initWorker.group /\ payStatus'[g] = "await"
      BY <1>2, <2>2, <3>1
         DEF MarkAwait, UpdateStatus, TypeInv, TypeOK, StoreTypeOK, InitWorker
    <3> QED
      BY <3>1, <3>2, ServiceStable DEF InitInOrder, Settled
  <2>3. CASE SettlePayment
    <3>1. PICK e \in EventID, h \in Groups, s \in Settled :
                 /\ h = e[1] /\ Decided(e)
                 /\ payStatus' = [payStatus EXCEPT ![h] = s]
      BY <2>3, SettleFacts
    <3>2. g = h /\ payStatus'[g] = s
      BY <1>2, <3>1 DEF TypeInv, TypeOK, StoreTypeOK
    <3>3. serviceEvent[g] # NoEvent
      BY <3>1, <3>2 DEF TracesInOrder
    <3> QED
      BY <3>2, <3>3, ServiceStable DEF Settled
  <2> QED
    BY <1>2, <2>1, <2>2, <2>3, RowSteps DEF rows
<1> QED
  BY <1>1, <1>2

(* PaidAgreement is preserved by every step.                                *)
LEMMA PaidAgreementNext ==
  ASSUME TypeInv, EventsDecided, PaidAgreement, [Next]_vars
  PROVE  PaidAgreement'
<1> SUFFICES ASSUME NEW g \in Groups
             PROVE  /\ payStatus'[g] \in Settled <=> payEvent'[g] # NoEvent
                    /\ payStatus'[g] \in Settled =>
                         /\ payEvent'[g][1] = g
                         /\ decision'[payEvent'[g]].stage \in {"sending", "done"}
                         /\ decision'[payEvent'[g]].status = payStatus'[g]
  BY DEF PaidAgreement, IsSettled, Decided
<1>1. CASE /\ payEvent'[g] = payEvent[g]
           /\ payStatus'[g] \in Settled <=> payStatus[g] \in Settled
           /\ payStatus[g] \in Settled => payStatus'[g] = payStatus[g]
  <2>1. payEvent[g] # NoEvent => payEvent[g] \in EventID
    BY DEF TypeInv, TypeOK, StoreTypeOK
  <2> QED
    BY <1>1, <2>1, DecisionsStable DEF PaidAgreement, IsSettled, Decided
<1>2. CASE SettlePayment
  <2>1. PICK e \in EventID, h \in Groups, s \in Settled :
               /\ h = e[1] /\ Decided(e) /\ decision[e].status = s
               /\ payStatus' = [payStatus EXCEPT ![h] = s]
               /\ payEvent' = [payEvent EXCEPT ![h] = e]
    BY <1>2, SettleFacts
  <2>2. CASE g = h
    <3>1. payStatus'[g] = s /\ payEvent'[g] = e
      BY <2>1, <2>2 DEF TypeInv, TypeOK, StoreTypeOK
    <3>2. e # NoEvent
      BY StoreAssumption DEF EventID
    <3> QED
      BY <2>1, <2>2, <3>1, <3>2, DecisionsStable DEF Decided
  <2>3. CASE g # h
    BY <1>1, <2>1, <2>3 DEF TypeInv, TypeOK, StoreTypeOK
  <2> QED
    BY <2>2, <2>3
<1>3. CASE \E h \in Groups, u \in Users, ps \in SUBSET Products : CreateOrder(h, u, ps)
  BY <1>1, <1>3 DEF CreateOrder, TypeInv, TypeOK, StoreTypeOK, Settled
<1>4. CASE MarkAwait
  BY <1>1, <1>4 DEF MarkAwait, UpdateStatus, TypeInv, TypeOK, StoreTypeOK, Settled
<1>5. CASE UNCHANGED rows
  BY <1>1, <1>5 DEF rows
<1> QED
  BY <1>2, <1>3, <1>4, <1>5, RowSteps

(* DepositMatchesPayment is preserved by every step.                        *)
LEMMA DepositMatchesPaymentNext ==
  ASSUME TypeInv, EventsDecided, DepositMatchesPayment, [Next]_vars
  PROVE  DepositMatchesPayment'
<1> SUFFICES ASSUME NEW g \in Groups
             PROVE  deposits'[g] = IF payStatus'[g] = "paid" THEN 1 ELSE 0
  BY DEF DepositMatchesPayment
<1> USE DEF DepositMatchesPayment, TypeInv, TypeOK, StoreTypeOK
<1>1. CASE SettlePayment
  <2>1. PICK h \in Groups, s \in Settled :
               /\ payStatus[h] = "await"
               /\ payStatus' = [payStatus EXCEPT ![h] = s]
               /\ deposits' = IF s = "paid" THEN CreateOrIgnore(deposits, h)
                                            ELSE deposits
    BY <1>1, SettleFacts
  <2> QED
    BY <2>1 DEF CreateOrIgnore
<1>2. CASE \E h \in Groups, u \in Users, ps \in SUBSET Products : CreateOrder(h, u, ps)
  BY <1>2 DEF CreateOrder
<1>3. CASE MarkAwait
  BY <1>3 DEF MarkAwait, UpdateStatus
<1>4. CASE UNCHANGED rows
  BY <1>4 DEF rows
<1> QED
  BY <1>1, <1>2, <1>3, <1>4, RowSteps

(* OrdersFollowPayment is preserved by every step.                          *)
LEMMA OrdersFollowPaymentNext ==
  ASSUME TypeInv, EventsDecided, OrdersFollowPayment, [Next]_vars
  PROVE  OrdersFollowPayment'
<1> SUFFICES ASSUME NEW o \in OrderID, orderStatus'[o] # "absent"
             PROVE  /\ payStatus'[o[1]] # "absent"
                    /\ (orderStatus'[o] = "created")
                         <=> (payStatus'[o[1]] \in {"init", "await"})
                    /\ (orderStatus'[o] = "payment_failed")
                         <=> (payStatus'[o[1]] = "failed")
  BY DEF OrdersFollowPayment
<1> USE DEF OrdersFollowPayment, TypeInv, TypeOK, StoreTypeOK
<1>0. o[1] \in Groups
  BY DEF OrderID
<1>1. CASE SettlePayment
  <2>1. PICK h \in Groups, s \in Settled :
               /\ payStatus[h] = "await"
               /\ payStatus' = [payStatus EXCEPT ![h] = s]
               /\ orderStatus' = UpdateOrdersStatus(h, NewOrderStatus(s))
    BY <1>1, SettleFacts
  <2> QED
    BY <1>0, <2>1 DEF UpdateOrdersStatus, NewOrderStatus, Settled
<1>2. CASE \E h \in Groups, u \in Users, ps \in SUBSET Products : CreateOrder(h, u, ps)
  BY <1>0, <1>2 DEF CreateOrder
<1>3. CASE MarkAwait
  BY <1>0, <1>3 DEF MarkAwait, UpdateStatus
<1>4. CASE UNCHANGED rows
  BY <1>4 DEF rows
<1> QED
  BY <1>1, <1>2, <1>3, <1>4, RowSteps

(* Announcements: what enters orders:paid, the worker and the recovery     *)
(* listing is about a paid payment, and a paid payment stays paid.         *)
LEMMA AnnouncedStable ==
  ASSUME TypeInv, [Next]_vars
  PROVE  AnnouncedEvent \subseteq AnnouncedEvent' /\ ListedEvent \subseteq ListedEvent'
  BY PaymentsStable DEF AnnouncedEvent, ListedEvent, OrderEvent, OrderID, Settled

(* An order that is read as paid, or past it, belongs to a paid payment.    *)
LEMMA PaidOrders ==
  ASSUME TypeInv, OrdersFollowPayment,
         NEW o \in OrderID, orderStatus[o] \in RecoveredStatus
  PROVE  payStatus[o[1]] = "paid"
<1>1. o[1] \in Groups
  BY DEF OrderID
<1>2. payStatus[o[1]] \in {"absent", "init", "await", "paid", "failed"}
  BY <1>1 DEF TypeInv, TypeOK, StoreTypeOK, PaymentStatus
<1>3. orderStatus[o] \notin {"absent", "created", "payment_failed"}
  BY DEF RecoveredStatus
<1> QED
  BY <1>2, <1>3 DEF OrdersFollowPayment

(* The listing of paid orders consists of announced events.                 *)
LEMMA PaidSnapshots ==
  ASSUME TypeInv, OrdersFollowPayment
  PROVE  {Snapshot(o) : o \in {o \in OrderID : orderStatus[o] = "paid"}}
           \subseteq AnnouncedEvent
<1> SUFFICES ASSUME NEW o \in OrderID, orderStatus[o] = "paid"
             PROVE  Snapshot(o) \in AnnouncedEvent
  OBVIOUS
<1>1. Snapshot(o) \in OrderEvent /\ Snapshot(o).order = o
  BY SnapshotType DEF TypeInv, TypeOK, StoreTypeOK, Snapshot
<1>2. payStatus[o[1]] = "paid"
  BY PaidOrders DEF RecoveredStatus
<1> QED
  BY <1>1, <1>2 DEF AnnouncedEvent

(* The listing of the recovery consists of listed events.                   *)
LEMMA ListedSnapshots ==
  ASSUME TypeInv, OrdersFollowPayment, NEW h \in Recoveries, StartRecovery(h)
  PROVE  \E listed \in Seq(ListedEvent) : recovering' = [recovering EXCEPT ![h] = listed]
<1>1. PICK S \in RecoveryCandidates : \E listed \in Listing(S) :
        recovering' = [recovering EXCEPT ![h] = listed]
  BY DEF StartRecovery
<1>2. /\ S \in SUBSET OrderID
      /\ \A o \in S : orderStatus[o] \in RecoveredStatus \cup {"created"}
  BY <1>1 DEF RecoveryCandidates, Recoverable
<1>3. \A o \in S : Snapshot(o) \in ListedEvent
  <2> SUFFICES ASSUME NEW o \in S PROVE Snapshot(o) \in ListedEvent
    OBVIOUS
  <2>1. orderStatus[o] # "absent" /\ o \in OrderID
    BY <1>2 DEF RecoveredStatus
  <2>2. Snapshot(o) \in OrderEvent
    BY <2>1, SnapshotType DEF TypeInv, TypeOK, StoreTypeOK
  <2>3. orderStatus[o] \in RecoveredStatus => payStatus[o[1]] = "paid"
    BY <2>1, PaidOrders
  <2> QED
    BY <2>2, <2>3 DEF ListedEvent, Snapshot
<1>4. \A listed \in Listing(S) : listed \in Seq(ListedEvent)
  BY <1>2, <1>3, ListingType, SeqMonotonic
<1> QED
  BY <1>1, <1>4

(* AnnouncementsPaid is preserved by every step.                            *)
LEMMA AnnouncementsPaidNext ==
  ASSUME TypeInv, OrdersFollowPayment, AnnouncementsPaid, [Next]_vars
  PROVE  AnnouncementsPaid'
<1>1. /\ paidQueue \in Seq(AnnouncedEvent')
      /\ updateWorker.stage = "publish" => updateWorker.events \in Seq(AnnouncedEvent')
      /\ recovering \in [Recoveries -> Seq(ListedEvent')]
  BY AnnouncedStable, SeqMonotonic DEF AnnouncementsPaid
<1>2. paidQueue' \in Seq(AnnouncedEvent')
  <2>1. CASE PublishPaid
    <3>1. updateWorker.events \in Seq(AnnouncedEvent') /\ updateWorker.events # <<>>
      BY <1>1, <2>1 DEF PublishPaid, TypeInv, TypeOK, UpdateWorker, Idle
    <3>2. Head(updateWorker.events) \in AnnouncedEvent'
      BY <3>1, HeadTailProperties
    <3> QED
      BY <1>1, <2>1, <3>2, AppendProperties DEF PublishPaid
  <2>2. ASSUME NEW h \in Recoveries, RecoverOrder(h)
        PROVE  paidQueue' \in Seq(AnnouncedEvent')
    <3>1. Head(recovering[h]) \in ListedEvent'
      BY <1>1, <2>2, HeadTailProperties DEF RecoverOrder
    <3>2. Head(recovering[h]).status \in RecoveredStatus =>
            Head(recovering[h]) \in AnnouncedEvent'
      BY <3>1 DEF ListedEvent, AnnouncedEvent
    <3> QED
      BY <1>1, <2>2, <3>2, AppendProperties DEF RecoverOrder
  <2>3. CASE ConsumePaid
    BY <1>1, <2>3, HeadTailProperties DEF ConsumePaid
  <2>4. CASE paidQueue' = paidQueue \/ paidQueue' = <<>>
    BY <1>1, <2>4, EmptySeq
  <2>5. PublishPaid \/ (\E h \in Recoveries : RecoverOrder(h)) \/ ConsumePaid
        \/ paidQueue' = paidQueue \/ paidQueue' = <<>>
    <3>1. CASE PaymentStep
      BY <3>1
         DEF PaymentStep, CreateOrder, PublishInit, AbandonCreate, ResendWebhook,
             TakeInit, PostPayment, PostPaymentFails, MarkAwait, MarkAwaitFails,
             BeginDecision, SaveDecision, DeliverWebhook, LoseWebhook,
             SkipKnownEvent, SettlePayment, RejectEvent, UpdateFails, TakeUpdate,
             ListPaid, ListPaidFails, storeVars
    <3>2. CASE Recovery \/ ConsumePaid \/ Crash \/ UNCHANGED vars
      BY <3>2 DEF Recovery, StartRecovery, Crash, CrashStore, vars, storeVars
    <3> QED
      BY <3>1, <3>2 DEF Next
  <2> QED
    BY <2>1, <2>2, <2>3, <2>4, <2>5
<1>3. updateWorker'.stage = "publish" => updateWorker'.events \in Seq(AnnouncedEvent')
  <2>1. CASE ListPaid
    <3>1. PICK events \in Listing({o \in FindByGroupID(updateWorker.group) :
                                     orderStatus[o] = "paid"}) :
                 updateWorker' = Publishing(events)
      BY <2>1 DEF ListPaid
    <3>2. events \in Seq(AnnouncedEvent')
      BY PaidListing, PaidSnapshots, AnnouncedStable, SeqMonotonic
    <3> QED
      BY <3>1, <3>2 DEF Publishing, Idle
  <2>2. CASE PublishPaid
    <3>1. updateWorker.events \in Seq(AnnouncedEvent') /\ updateWorker.events # <<>>
      BY <1>1, <2>2 DEF PublishPaid, TypeInv, TypeOK, UpdateWorker, Idle
    <3>2. Tail(updateWorker.events) \in Seq(AnnouncedEvent')
      BY <3>1, HeadTailProperties
    <3> QED
      BY <2>2, <3>2 DEF PublishPaid, Publishing, Idle
  <2>3. CASE updateWorker' = updateWorker \/ updateWorker'.stage # "publish"
    BY <1>1, <2>3
  <2>4. ListPaid \/ PublishPaid
        \/ updateWorker' = updateWorker \/ updateWorker'.stage # "publish"
    <3>1. CASE PaymentStep
      BY <3>1
         DEF PaymentStep, CreateOrder, PublishInit, AbandonCreate, ResendWebhook,
             TakeInit, PostPayment, PostPaymentFails, MarkAwait, MarkAwaitFails,
             BeginDecision, SaveDecision, DeliverWebhook, LoseWebhook,
             SkipKnownEvent, SettlePayment, RejectEvent, UpdateFails, ListOrdersOf,
             ListPaidFails, Idle, flowVars
    <3>2. CASE Recovery \/ ConsumePaid \/ Crash \/ UNCHANGED vars
      BY <3>2 DEF Recovery, ConsumePaid, Crash, CrashFlow, Idle, vars, flowVars
    <3> QED
      BY <3>1, <3>2 DEF Next
  <2> QED
    BY <2>1, <2>2, <2>3, <2>4
<1>4. recovering' \in [Recoveries -> Seq(ListedEvent')]
  <2> DEFINE none == [h \in Recoveries |-> <<>>]
  <2>1. ASSUME NEW h \in Recoveries, StartRecovery(h)
        PROVE  recovering' \in [Recoveries -> Seq(ListedEvent')]
    <3>1. PICK listed \in Seq(ListedEvent) : recovering' = [recovering EXCEPT ![h] = listed]
      BY <2>1, ListedSnapshots
    <3>2. listed \in Seq(ListedEvent')
      BY AnnouncedStable, SeqMonotonic
    <3> QED
      BY <1>1, <3>1, <3>2
  <2>2. ASSUME NEW h \in Recoveries, RecoverOrder(h)
        PROVE  recovering' \in [Recoveries -> Seq(ListedEvent')]
    BY <1>1, <2>2, HeadTailProperties DEF RecoverOrder
  <2>3. CASE recovering' = recovering \/ recovering' = none
    BY <1>1, <2>3, EmptySeq
  <2>4. \/ \E h \in Recoveries : StartRecovery(h) \/ RecoverOrder(h)
        \/ recovering' = recovering \/ recovering' = none
    <3>1. CASE PaymentStep
      BY <3>1
         DEF PaymentStep, CreateOrder, PublishInit, AbandonCreate, ResendWebhook,
             TakeInit, PostPayment, PostPaymentFails, MarkAwait, MarkAwaitFails,
             BeginDecision, SaveDecision, DeliverWebhook, LoseWebhook,
             SkipKnownEvent, SettlePayment, RejectEvent, UpdateFails, TakeUpdate,
             ListPaid, ListPaidFails, PublishPaid, storeVars
    <3>2. CASE Recovery \/ ConsumePaid \/ Crash \/ UNCHANGED vars
      BY <3>2 DEF Recovery, ConsumePaid, Crash, CrashStore, vars, storeVars
    <3> QED
      BY <3>1, <3>2 DEF Next
  <2> QED
    BY <2>1, <2>2, <2>3, <2>4
<1> QED
  BY <1>2, <1>3, <1>4 DEF AnnouncementsPaid

-----------------------------------------------------------------------------
(* The one init event of a payment.                                         *)

(* What a step may do to the places of the init events: move one on, lose   *)
(* some of them to a failure, or nothing.                                   *)
InitUnmoved ==
  /\ creating' = creating /\ initWorker' = initWorker /\ initQueue' = initQueue
  /\ faults' = 0 => faults = 0

InitLost ==
  /\ creating' \subseteq creating
  /\ initWorker' = initWorker \/ initWorker' = Idle
  /\ initQueue' = initQueue \/ initQueue' = <<>>
  /\ payStatus' = payStatus
  /\ faults' # 0

(* Every step is of one of these kinds.                                     *)
LEMMA InitSteps ==
  ASSUME TypeInv, [Next]_vars
  PROVE  \/ \E g \in Groups, u \in Users, ps \in SUBSET Products : CreateOrder(g, u, ps)
         \/ \E g \in Groups : PublishInit(g)
         \/ TakeInit \/ PostPayment \/ MarkAwait
         \/ SettlePayment /\ InitUnmoved
         \/ InitLost
         \/ InitUnmoved /\ payStatus' = payStatus
<1>0. faults \in Nat
  BY DEF TypeInv, TypeOK, StoreTypeOK
<1>1. InjectFault => faults' # 0
  BY <1>0 DEF InjectFault
<1>2. CASE (\E g \in Groups : AbandonCreate(g)) \/ PostPaymentFails \/ MarkAwaitFails \/ Crash
  BY <1>1, <1>2 DEF AbandonCreate, PostPaymentFails, MarkAwaitFails, Crash, CrashStore,
                    CrashFlow, rows, InitLost
<1>3. CASE SettlePayment
  BY <1>3 DEF SettlePayment, TakeUpdate, InitUnmoved
<1>4. CASE UpdateFails \/ ListPaidFails \/ \E e \in EventID : LoseWebhook(e)
  BY <1>1, <1>4 DEF UpdateFails, TakeUpdate, ListPaidFails, LoseWebhook, rows, flowVars,
                    InitLost
<1>5. CASE \/ \E e \in EventID : \/ \E s \in DecisionStatus : BeginDecision(e, s)
                                 \/ SaveDecision(e) \/ DeliverWebhook(e)
                                 \/ ResendWebhook(e)
           \/ SkipKnownEvent \/ RejectEvent \/ ListPaid \/ PublishPaid
  <2>1. UNCHANGED <<creating, initWorker, initQueue, faults, payStatus>>
    BY <1>5 DEF ResendWebhook, BeginDecision, SaveDecision, DeliverWebhook,
                SkipKnownEvent, RejectEvent, TakeUpdate, ListPaid, PublishPaid, rows,
                storeVars, flowVars
  <2> QED
    BY <2>1 DEF InitUnmoved
<1>6. CASE Recovery \/ ConsumePaid \/ UNCHANGED vars
  <2>1. UNCHANGED <<creating, initWorker, initQueue, faults, payStatus>>
    BY <1>6 DEF Recovery, StartRecovery, RecoverOrder, InitRecoverable, PaymentPaid,
                ConsumePaid, rows, vars, storeVars, flowVars
  <2> QED
    BY <2>1 DEF InitUnmoved
<1> QED
  BY <1>2, <1>3, <1>4, <1>5, <1>6 DEF Next, PaymentStep

(* Places of a queue, without its elements: none of the empty one.          *)
LEMMA PositionsIff ==
  ASSUME NEW g
  PROVE  InitPositions(g) # {} <=> \E i \in DOMAIN initQueue : initQueue[i].group = g
BY DEF InitPositions

(* A payment taken over by CreateOrder was carried by nobody.               *)
LEMMA CreateCarries ==
  ASSUME TypeInv, OneCarrier, NEW h \in Groups, NEW u \in Users,
         NEW ps \in SUBSET Products, CreateOrder(h, u, ps)
  PROVE  OneCarrier'
<1>1. /\ payStatus \in [Groups -> PaymentStatus \cup {"absent"}]
      /\ payStatus[h] = "absent" /\ payStatus' = [payStatus EXCEPT ![h] = "init"]
      /\ creating' = creating \cup {h}
      /\ UNCHANGED <<initQueue, initWorker, faults>>
  BY DEF CreateOrder, TypeInv, TypeOK, StoreTypeOK
<1>2. ~Carried(h)
  BY <1>1 DEF OneCarrier
<1>3. \A g \in Groups : (InitTaken(g)' <=> InitTaken(g)) /\ InitPositions(g)' = InitPositions(g)
  BY <1>1 DEF InitTaken, InitPositions
<1> QED
  BY <1>1, <1>2, <1>3 DEF OneCarrier, Carried

(* The init event goes from the handler to the queue.                       *)
LEMMA PublishCarries ==
  ASSUME TypeInv, OneCarrier, NEW h \in Groups, PublishInit(h)
  PROVE  OneCarrier'
<1> DEFINE e == PaymentSnapshot(h)
           n == Len(initQueue)
<1>1. /\ h \in creating /\ creating' = creating \ {h}
      /\ initQueue' = Append(initQueue, e)
      /\ UNCHANGED <<payStatus, initWorker, faults>>
  BY DEF PublishInit, rows
<1>2. /\ ~InitTaken(h) /\ InitPositions(h) = {} /\ payStatus[h] = "init"
  BY <1>1 DEF OneCarrier, Carried
<1>3. e.group = h /\ e.status = "init" /\ e \in InitEvent
  BY <1>2 DEF PaymentSnapshot, InitEvent, PaymentStatus
<1> HIDE DEF e
<1>4. /\ n \in Nat /\ DOMAIN initQueue = 1..n /\ DOMAIN initQueue' = 1..(n + 1)
      /\ \A i \in 1..n : initQueue'[i] = initQueue[i]
      /\ initQueue'[n + 1] = e
  BY <1>1, <1>3, AppendProperties, LenProperties DEF TypeInv, TypeOK, StoreTypeOK
<1> HIDE DEF n
<1>5. \A i \in DOMAIN initQueue' :
        \/ i \in DOMAIN initQueue /\ initQueue'[i] = initQueue[i]
        \/ i = n + 1 /\ initQueue'[i] = e
  BY <1>4
<1>6. \A i \in DOMAIN initQueue : initQueue[i].group # h
  BY <1>2, PositionsIff
<1>7. \A i, j \in DOMAIN initQueue' : initQueue'[i].group = initQueue'[j].group => i = j
  BY <1>3, <1>5, <1>6 DEF OneCarrier
<1>8. \A i \in DOMAIN initQueue' : initQueue'[i].status = "init"
  BY <1>3, <1>5 DEF OneCarrier
<1>9. ASSUME NEW g \in Groups
      PROVE  /\ InitTaken(g)' <=> InitTaken(g)
             /\ InitPositions(g)' # {} <=> InitPositions(g) # {} \/ g = h
  <2>1. InitPositions(g)' # {} <=> \E i \in DOMAIN initQueue' : initQueue'[i].group = g
    BY DEF InitPositions
  <2>2. InitPositions(g) # {} <=> \E i \in DOMAIN initQueue : initQueue[i].group = g
    BY PositionsIff
  <2>3. DOMAIN initQueue \subseteq DOMAIN initQueue' /\ n + 1 \in DOMAIN initQueue'
        /\ \A i \in DOMAIN initQueue : initQueue'[i] = initQueue[i]
    BY <1>4
  <2> QED
    BY <1>1, <1>3, <1>4, <1>5, <2>1, <2>2, <2>3 DEF InitTaken
<1>10. ASSUME NEW g \in Groups
       PROVE  /\ g \in creating' => ~InitTaken(g)'
              /\ g \in creating' \/ InitTaken(g)' => InitPositions(g)' = {}
              /\ Carried(g)' => payStatus'[g] = "init"
              /\ payStatus'[g] = "init" /\ faults' = 0 => Carried(g)'
  BY <1>1, <1>2, <1>9 DEF OneCarrier, Carried
<1> QED
  BY <1>7, <1>8, <1>10 DEF OneCarrier

(* And from the queue to InitPayment, which does not ignore it.             *)
LEMMA TakeCarries ==
  ASSUME TypeInv, OneCarrier, TakeInit
  PROVE  OneCarrier'
<1> DEFINE h == Head(initQueue).group
           n == Len(initQueue)
<1>0. initQueue \in Seq(InitEvent) /\ initQueue # <<>> /\ initQueue' = Tail(initQueue)
  BY DEF TypeInv, TypeOK, StoreTypeOK, TakeInit
<1>1. /\ n \in Nat \ {0} /\ DOMAIN initQueue = 1..n /\ DOMAIN initQueue' = 1..(n - 1)
      /\ \A i \in 1..(n - 1) : initQueue'[i] = initQueue[i + 1]
      /\ Head(initQueue) = initQueue[1] /\ h \in Groups
  <2>1. /\ Head(initQueue) \in InitEvent /\ Tail(initQueue) \in Seq(InitEvent)
        /\ Len(Tail(initQueue)) = n - 1
        /\ \A i \in 1..Len(Tail(initQueue)) : Tail(initQueue)[i] = initQueue[i + 1]
    BY <1>0, HeadTailProperties
  <2>2. n \in Nat /\ DOMAIN initQueue = 1..n
        /\ DOMAIN Tail(initQueue) = 1..Len(Tail(initQueue))
    BY <1>0, <2>1, LenProperties
  <2>3. n # 0
    BY <1>0, EmptySeq
  <2>4. Head(initQueue) = initQueue[1]
    BY <1>0
  <2> HIDE DEF n
  <2> QED
    BY <1>0, <2>1, <2>2, <2>3, <2>4 DEF InitEvent
<1>2. /\ initWorker = Idle /\ initWorker' = [stage |-> "post", group |-> h]
      /\ UNCHANGED <<payStatus, creating, faults>>
  <2>1. 1 \in DOMAIN initQueue
    BY <1>1
  <2>2. Head(initQueue).status = "init"
    BY <1>1, <2>1 DEF OneCarrier
  <2> QED
    BY <2>2 DEF TakeInit, rows
<1>3. initQueue[1].group = h
  BY <1>1
<1> HIDE DEF h, n
<1>4. \A i \in DOMAIN initQueue' : i + 1 \in DOMAIN initQueue /\ i + 1 # 1
                                   /\ initQueue'[i] = initQueue[i + 1]
  BY <1>1
<1>5. \A i \in DOMAIN initQueue : i = 1 \/ (i - 1 \in DOMAIN initQueue'
                                           /\ initQueue'[i - 1] = initQueue[i])
  BY <1>1
<1>6. 1 \in DOMAIN initQueue /\ \A i, j \in DOMAIN initQueue' : i + 1 = j + 1 => i = j
  BY <1>1
<1>7. \A i, j \in DOMAIN initQueue' : initQueue'[i].group = initQueue'[j].group => i = j
  BY <1>4, <1>6 DEF OneCarrier
<1>8. \A i \in DOMAIN initQueue' : initQueue'[i].status = "init"
  BY <1>4 DEF OneCarrier
<1>9. ASSUME NEW g \in Groups
      PROVE  /\ ~InitTaken(g)
             /\ InitTaken(g)' <=> g = h
             /\ InitPositions(g)' # {} <=> InitPositions(g) # {} /\ g # h
  <2>1. InitPositions(g)' # {} <=> \E i \in DOMAIN initQueue' : initQueue'[i].group = g
    BY DEF InitPositions
  <2>2. InitPositions(g) # {} <=> \E i \in DOMAIN initQueue : initQueue[i].group = g
    BY PositionsIff
  <2>3. ASSUME NEW i \in DOMAIN initQueue', initQueue'[i].group = g
        PROVE  InitPositions(g) # {} /\ g # h
    BY <1>3, <1>4, <1>6, <2>2, <2>3 DEF OneCarrier
  <2>4. ASSUME NEW i \in DOMAIN initQueue, initQueue[i].group = g, g # h
        PROVE  \E j \in DOMAIN initQueue' : initQueue'[j].group = g
    BY <1>3, <1>5, <2>4
  <2>5. InitTaken(g)' <=> g = h
    BY <1>2 DEF InitTaken, Idle
  <2> QED
    BY <1>2, <2>1, <2>2, <2>3, <2>4, <2>5 DEF InitTaken
<1>10. InitPositions(h) # {} /\ h \in Groups
  BY <1>1, <1>3, <1>6, PositionsIff
<1>11. ASSUME NEW g \in Groups
       PROVE  /\ g \in creating' => ~InitTaken(g)'
              /\ g \in creating' \/ InitTaken(g)' => InitPositions(g)' = {}
              /\ Carried(g)' => payStatus'[g] = "init"
              /\ payStatus'[g] = "init" /\ faults' = 0 => Carried(g)'
  BY <1>2, <1>9, <1>10 DEF OneCarrier, Carried
<1> QED
  BY <1>7, <1>8, <1>11 DEF OneCarrier

(* InitPayment asks the service, and lets go of the payment that it awaits. *)
LEMMA InitPaymentCarries ==
  ASSUME TypeInv, OneCarrier, PostPayment \/ MarkAwait
  PROVE  OneCarrier'
<1> DEFINE h == initWorker.group
<1>1. /\ initWorker # Idle /\ h \in Groups
      /\ UNCHANGED <<initQueue, creating, faults>>
      /\ \/ /\ initWorker' # Idle /\ initWorker'.group = h /\ UNCHANGED payStatus
         \/ /\ initWorker' = Idle
            /\ payStatus' = UpdateStatus(payStatus, h, "init", "await")
  BY DEF PostPayment, MarkAwait, storeVars, rows, TypeInv, TypeOK, InitWorker, Idle
<1>2. payStatus \in [Groups -> PaymentStatus \cup {"absent"}]
  BY DEF TypeInv, TypeOK, StoreTypeOK
<1>3. \A g \in Groups : InitPositions(g)' = InitPositions(g)
  BY <1>1 DEF InitPositions
<1>4. \A g \in Groups : InitTaken(g) <=> g = h
  BY <1>1 DEF InitTaken
<1> HIDE DEF h
<1>5. CASE initWorker' # Idle /\ initWorker'.group = h /\ UNCHANGED payStatus
  <2>1. \A g \in Groups : InitTaken(g)' <=> InitTaken(g)
    BY <1>4, <1>5 DEF InitTaken, Idle
  <2> QED
    BY <1>1, <1>3, <1>5, <2>1 DEF OneCarrier, Carried
<1>6. CASE initWorker' = Idle /\ payStatus' = UpdateStatus(payStatus, h, "init", "await")
  <2>1. /\ payStatus[h] = "init" /\ payStatus' = [payStatus EXCEPT ![h] = "await"]
        /\ h \notin creating /\ InitPositions(h) = {}
    BY <1>1, <1>4, <1>6 DEF OneCarrier, Carried, UpdateStatus
  <2>2. \A g \in Groups : ~InitTaken(g)'
    BY <1>6 DEF InitTaken, Idle
  <2> QED
    BY <1>1, <1>2, <1>3, <1>4, <2>1, <2>2 DEF OneCarrier, Carried
<1> QED
  BY <1>1, <1>5, <1>6

(* What a failure takes away leaves at most as much behind.                 *)
LEMMA LossCarries ==
  ASSUME OneCarrier, InitLost
  PROVE  OneCarrier'
<1>1. DOMAIN initQueue' = {} \/ initQueue' = initQueue
  BY EmptySeq DEF InitLost
<1>2. \A g : InitPositions(g)' = {} \/ InitPositions(g)' = InitPositions(g)
  BY <1>1 DEF InitPositions
<1>3. \A g : InitTaken(g)' => InitTaken(g)
  BY DEF InitTaken, InitLost, Idle
<1>4. creating' \subseteq creating /\ payStatus' = payStatus /\ faults' # 0
  BY DEF InitLost
<1>5. \A g \in Groups : Carried(g)' => Carried(g)
  BY <1>2, <1>3, <1>4 DEF Carried
<1>6. \A g \in Groups :
        /\ g \in creating' => ~InitTaken(g)'
        /\ g \in creating' \/ InitTaken(g)' => InitPositions(g)' = {}
  BY <1>2, <1>3, <1>4 DEF OneCarrier
<1>7. \A g \in Groups : /\ Carried(g)' => payStatus'[g] = "init"
                        /\ payStatus'[g] = "init" /\ faults' = 0 => Carried(g)'
  BY <1>4, <1>5 DEF OneCarrier
<1>8. /\ \A i, j \in DOMAIN initQueue' : initQueue'[i].group = initQueue'[j].group => i = j
      /\ \A i \in DOMAIN initQueue' : initQueue'[i].status = "init"
  BY <1>1 DEF OneCarrier
<1> QED
  BY <1>6, <1>7, <1>8 DEF OneCarrier

(* OneCarrier is preserved by every step.                                   *)
LEMMA OneCarrierNext ==
  ASSUME TypeInv, EventsDecided, OneCarrier, [Next]_vars
  PROVE  OneCarrier'
<1>1. CASE InitUnmoved /\ (SettlePayment \/ payStatus' = payStatus)
  <2>1. \A g \in Groups : /\ payStatus'[g] = "init" <=> payStatus[g] = "init"
    <3>1. CASE SettlePayment
      <4>1. PICK e \in EventID, h \in Groups, s \in Settled :
                   payStatus[h] = "await" /\ payStatus' = [payStatus EXCEPT ![h] = s]
        BY <3>1, SettleFacts
      <4> QED
        BY <4>1 DEF Settled, TypeInv, TypeOK, StoreTypeOK
    <3> QED
      BY <1>1, <3>1
  <2>2. \A g \in Groups : /\ InitTaken(g)' <=> InitTaken(g)
                          /\ InitPositions(g)' = InitPositions(g)
                          /\ Carried(g)' <=> Carried(g)
    BY <1>1 DEF InitUnmoved, InitTaken, InitPositions, Carried
  <2> QED
    BY <1>1, <2>1, <2>2 DEF InitUnmoved, OneCarrier
<1> QED
  BY <1>1, InitSteps, CreateCarries, PublishCarries, TakeCarries, InitPaymentCarries,
     LossCarries

-----------------------------------------------------------------------------
(* The inductive invariant and the theorems.                                *)
LEMMA IInvInit == Init => IInv
<1> SUFFICES ASSUME Init PROVE IInv
  OBVIOUS
<1>1. TypeInv
  BY TypeInvInit
<1>2. TracesInOrder
  BY DEF Init, TracesInOrder, NoDecision, Decided
<1>3. EventsDecided /\ AnnouncementsPaid
  BY EmptySeq DEF Init, StoreInit, EventsDecided, AnnouncementsPaid, Idle
<1>4. InitInOrder /\ OneCarrier
  BY EmptySeq DEF Init, StoreInit, InitInOrder, Idle, OneCarrier, Carried, InitTaken,
                  InitPositions
<1>5. ServiceKnowsPayment /\ PaidAgreement /\ DepositMatchesPayment
  BY DEF Init, StoreInit, ServiceKnowsPayment, PaidAgreement,
         DepositMatchesPayment, IsSettled, Settled
<1>6. OrdersFollowPayment
  BY DEF Init, StoreInit, OrdersFollowPayment
<1> QED
  BY <1>1, <1>2, <1>3, <1>4, <1>5, <1>6 DEF IInv, TypeInv

(* The inductive invariant is preserved by every step.                      *)
LEMMA IInvNext == IInv /\ [Next]_vars => IInv'
<1> SUFFICES ASSUME IInv, [Next]_vars PROVE IInv'
  OBVIOUS
<1>0. /\ TypeInv /\ TracesInOrder /\ EventsDecided /\ InitInOrder /\ OneCarrier
      /\ ServiceKnowsPayment /\ PaidAgreement /\ DepositMatchesPayment
      /\ OrdersFollowPayment /\ AnnouncementsPaid
  BY DEF IInv, TypeInv
<1>1. TypeInv'
  BY <1>0, TypeInvNext
<1>2. TracesInOrder' /\ EventsDecided' /\ InitInOrder' /\ OneCarrier'
  BY <1>0, TracesInOrderNext, EventsDecidedNext, InitInOrderNext, OneCarrierNext
<1>3. ServiceKnowsPayment'
  BY <1>0, ServiceKnowsPaymentNext
<1>4. PaidAgreement' /\ DepositMatchesPayment' /\ OrdersFollowPayment'
  BY <1>0, PaidAgreementNext, DepositMatchesPaymentNext, OrdersFollowPaymentNext
<1>5. AnnouncementsPaid'
  BY <1>0, AnnouncementsPaidNext
<1> QED
  BY <1>1, <1>2, <1>3, <1>4, <1>5 DEF IInv, TypeInv

(* The inductive invariant holds in every reachable state.                  *)
THEOREM Invariance == Spec => []IInv
  BY IInvInit, IInvNext, PTL DEF Spec

(* Every variable keeps its type.                                           *)
THEOREM TypeCorrect == Spec => []TypeOK
<1>1. IInv => TypeOK
  BY DEF IInv
<1> QED
  BY <1>1, Invariance, PTL

(* A settled payment carries the event whose decision it took over.         *)
THEOREM SettledByItsEvent == Spec => []PaidAgreement
<1>1. IInv => PaidAgreement
  BY DEF IInv
<1> QED
  BY <1>1, Invariance, PTL

(* One deposit if and only if the payment is paid.                          *)
THEOREM DepositIffPaid == Spec => []DepositMatchesPayment
<1>1. IInv => DepositMatchesPayment
  BY DEF IInv
<1> QED
  BY <1>1, Invariance, PTL

(* The orders of a group and its payment agree.                             *)
THEOREM OrdersAgreeWithPayment == Spec => []OrdersFollowPayment
<1>1. IInv => OrdersFollowPayment
  BY DEF IInv
<1> QED
  BY <1>1, Invariance, PTL

(* The shop awaits and settles only what the service has and has decided.   *)
THEOREM AwaitedIsKnown == Spec => []ServiceKnowsPayment
<1>1. IInv => ServiceKnowsPayment
  BY DEF IInv
<1> QED
  BY <1>1, Invariance, PTL

(* The init event of a payment is in one place, and of a payment in init;   *)
(* only a failure takes it away.                                            *)
THEOREM InitEventsKept == Spec => []InitEventCarried
<1>1. IInv => InitEventCarried
  <2> SUFFICES ASSUME IInv, NEW g \in Groups
               PROVE  /\ InitCarriers(g) <= 1
                      /\ InitCarriers(g) = 1 => payStatus[g] = "init"
                      /\ payStatus[g] = "init" /\ faults = 0 => InitCarriers(g) = 1
    BY DEF InitEventCarried
  <2> DEFINE n == Cardinality(InitPositions(g))
  <2>1. /\ InitPositions(g) = {} => n = 0
        /\ InitPositions(g) # {} => n = 1
    <3>1. ASSUME NEW i \in InitPositions(g)
          PROVE  InitPositions(g) = {i}
      BY DEF IInv, OneCarrier, InitPositions
    <3> QED
      BY <3>1, FS_EmptySet, FS_Singleton
  <2>2. /\ g \in creating => ~InitTaken(g)
        /\ g \in creating \/ InitTaken(g) => InitPositions(g) = {}
        /\ Carried(g) => payStatus[g] = "init"
        /\ payStatus[g] = "init" /\ faults = 0 => Carried(g)
    BY DEF IInv, OneCarrier
  <2> HIDE DEF n
  <2>3. /\ n + (IF g \in creating THEN 1 ELSE 0) + (IF InitTaken(g) THEN 1 ELSE 0) <= 1
        /\ n + (IF g \in creating THEN 1 ELSE 0) + (IF InitTaken(g) THEN 1 ELSE 0) = 1
             <=> Carried(g)
    BY <2>1, <2>2 DEF Carried
  <2> QED
    BY <2>2, <2>3 DEF InitCarriers, n
<1> QED
  BY <1>1, Invariance, PTL

(* Nothing is ever announced for delivery before it is paid.                *)
THEOREM OnlyPaidAnnounced == Spec => []NoUnpaidAnnouncement
<1>1. IInv => NoUnpaidAnnouncement
  <2> SUFFICES ASSUME IInv PROVE NoUnpaidAnnouncement
    OBVIOUS
  <2>1. /\ paidQueue \in Seq(AnnouncedEvent)
        /\ updateWorker.stage = "publish" => updateWorker.events \in Seq(AnnouncedEvent)
        /\ recovering \in [Recoveries -> Seq(ListedEvent)]
    BY DEF IInv, AnnouncementsPaid
  <2>2. \A i \in DOMAIN paidQueue : paidQueue[i] \in AnnouncedEvent
    BY <2>1, ElementOfSeq, LenProperties
  <2>3. updateWorker.stage = "publish" =>
          \A i \in DOMAIN updateWorker.events : updateWorker.events[i] \in AnnouncedEvent
    BY <2>1, ElementOfSeq, LenProperties
  <2>4. \A h \in Recoveries : \A i \in DOMAIN recovering[h] :
          recovering[h][i] \in ListedEvent
    BY <2>1, ElementOfSeq, LenProperties
  <2> QED
    BY <2>2, <2>3, <2>4 DEF NoUnpaidAnnouncement, AnnouncedEvent, ListedEvent
<1> QED
  BY <1>1, Invariance, PTL

(* A settled payment is settled for good.                                   *)
LEMMA SettledStep ==
  ASSUME IInv, [Next]_vars, NEW g \in Groups, IsSettled(g)
  PROVE  /\ payStatus'[g] = payStatus[g]
         /\ payEvent'[g] = payEvent[g]
         /\ deposits'[g] = deposits[g]
         /\ \A o \in OrdersOf(g) :
              orderStatus'[o] \in {"created", "payment_failed"} =>
                orderStatus'[o] = orderStatus[o]
<1>0. TypeInv /\ EventsDecided /\ OrdersFollowPayment
  BY DEF IInv, TypeInv
<1>1. CASE SettlePayment
  <2>1. PICK e \in EventID, h \in Groups, s \in Settled :
               /\ payStatus[h] = "await"
               /\ payStatus' = [payStatus EXCEPT ![h] = s]
               /\ payEvent' = [payEvent EXCEPT ![h] = e]
               /\ deposits' = IF s = "paid" THEN CreateOrIgnore(deposits, h)
                                            ELSE deposits
               /\ orderStatus' = UpdateOrdersStatus(h, NewOrderStatus(s))
    BY <1>0, <1>1, SettleFacts
  <2>2. g # h
    BY <2>1 DEF IsSettled, Settled
  <2>3. /\ payStatus'[g] = payStatus[g] /\ payEvent'[g] = payEvent[g]
        /\ deposits'[g] = deposits[g]
    BY <1>0, <2>1, <2>2 DEF CreateOrIgnore, TypeInv, TypeOK, StoreTypeOK
  <2>4. ASSUME NEW o \in OrdersOf(g)
        PROVE  orderStatus'[o] = orderStatus[o]
    BY <1>0, <2>1, <2>2 DEF UpdateOrdersStatus, OrdersOf, TypeInv, TypeOK, StoreTypeOK
  <2> QED
    BY <2>3, <2>4
<1>2. CASE \E h \in Groups, u \in Users, ps \in SUBSET Products : CreateOrder(h, u, ps)
  BY <1>0, <1>2 DEF CreateOrder, IsSettled, Settled, OrdersOf, TypeInv, TypeOK, StoreTypeOK
<1>3. CASE MarkAwait
  BY <1>0, <1>3 DEF MarkAwait, UpdateStatus, IsSettled, Settled, TypeInv, TypeOK, StoreTypeOK
<1>4. CASE UNCHANGED rows
  BY <1>4 DEF rows
<1> QED
  BY <1>1, <1>2, <1>3, <1>4, RowSteps

(* A settled payment, its event id, its deposit and the outcome for its     *)
(* orders are never changed again, by any later webhook or recovery.        *)
THEOREM SettledForGood == Spec => SettledIsFinal
<1>1. IInv /\ [Next]_vars =>
        [\A g \in Groups : IsSettled(g) =>
           /\ payStatus'[g] = payStatus[g]
           /\ payEvent'[g] = payEvent[g]
           /\ deposits'[g] = deposits[g]
           /\ \A o \in OrdersOf(g) :
                orderStatus'[o] \in {"created", "payment_failed"} =>
                  orderStatus'[o] = orderStatus[o]]_vars
  BY SettledStep
<1> QED
  BY <1>1, Invariance, PTL DEF Spec, SettledIsFinal

-----------------------------------------------------------------------------
(* The refinement of PaymentContract.                                       *)
LEMMA ContractInit == Init => Contract!Init
<1> SUFFICES ASSUME Init PROVE Contract!Init
  OBVIOUS
<1>1. [g \in Groups |-> Phase(payStatus[g])] = [g \in Groups |-> "absent"]
  BY DEF Init, StoreInit, Phase
<1>2. [g \in Groups |-> DecisionsOf(g)] = [g \in Groups |-> {}]
  BY DEF Init, NoDecision, Decided, DecisionsOf
<1>3. [o \in OrderID |-> Outcome(orderStatus[o])] = [o \in OrderID |-> "absent"]
  BY DEF Init, StoreInit, Outcome
<1>4. deposits = [g \in Groups |-> 0]
  BY DEF Init, StoreInit
<1> QED
  BY <1>1, <1>2, <1>3, <1>4 DEF Contract!Init, Contract!OrderID, OrderID

(* Opening a payment.                                                       *)
LEMMA OpenStep ==
  ASSUME IInv, NEW g \in Groups, NEW u \in Users, NEW ps \in SUBSET Products,
         CreateOrder(g, u, ps)
  PROVE  Contract!Open(g)
<1> USE DEF IInv, TypeOK, StoreTypeOK
<1>1. Phase(payStatus[g]) = "absent"
  BY DEF CreateOrder, Phase
<1>2. [h \in Groups |-> Phase(payStatus'[h])]
        = [[h \in Groups |-> Phase(payStatus[h])] EXCEPT ![g] = "open"]
  BY DEF CreateOrder, Phase
<1>3. [o \in OrderID |-> Outcome(orderStatus'[o])]
        = [o \in OrderID |-> IF o[1] = g /\ o[2] \in ps THEN "created"
                             ELSE [q \in OrderID |-> Outcome(orderStatus[q])][o]]
  BY DEF CreateOrder, Outcome
<1>4. [h \in Groups |-> DecisionsOf(h)]' = [h \in Groups |-> DecisionsOf(h)]
  BY DEF CreateOrder, serviceVars, DecisionsOf, Decided
<1>5. deposits' = deposits /\ ps # {}
  BY DEF CreateOrder
<1> QED
  BY <1>1, <1>2, <1>3, <1>4, <1>5 DEF Contract!Open, Contract!OrderID, OrderID

(* A settling transaction.                                                  *)
LEMMA SettleStep ==
  ASSUME IInv, SettlePayment
  PROVE  \E g \in Groups, s \in {"paid", "failed"} : Contract!Settle(g, s)
<1>1. PICK e \in EventID, g \in Groups, s \in Settled :
             /\ g = e[1] /\ Decided(e) /\ decision[e].status = s
             /\ payStatus[g] = "await"
             /\ payStatus' = [payStatus EXCEPT ![g] = s]
             /\ deposits' = IF s = "paid" THEN CreateOrIgnore(deposits, g) ELSE deposits
             /\ orderStatus' = UpdateOrdersStatus(g, NewOrderStatus(s))
  BY SettleFacts DEF IInv, TypeInv
<1> USE DEF IInv, TypeOK, StoreTypeOK
<1>2. [h \in Groups |-> Phase(payStatus[h])][g] = "open"
  BY <1>1 DEF Phase
<1>3. s \in [h \in Groups |-> DecisionsOf(h)][g]
  BY <1>1 DEF DecisionsOf, Settled
<1>4. [h \in Groups |-> Phase(payStatus'[h])]
        = [[h \in Groups |-> Phase(payStatus[h])] EXCEPT ![g] = s]
  BY <1>1 DEF Phase, Settled
<1>5. deposits' = [deposits EXCEPT ![g] = IF s = "paid" THEN 1 ELSE 0]
  <2>1. deposits[g] = 0
    BY <1>1 DEF DepositMatchesPayment
  <2> QED
    BY <1>1, <2>1 DEF CreateOrIgnore
<1>6. [o \in OrderID |-> Outcome(orderStatus'[o])]
        = [o \in OrderID |->
             IF o[1] = g /\ [q \in OrderID |-> Outcome(orderStatus[q])][o] # "absent"
             THEN Contract!OutcomeOf(s)
             ELSE [q \in OrderID |-> Outcome(orderStatus[q])][o]]
  <2> SUFFICES ASSUME NEW o \in OrderID
               PROVE  Outcome(orderStatus'[o])
                        = IF o[1] = g /\ Outcome(orderStatus[o]) # "absent"
                          THEN Contract!OutcomeOf(s) ELSE Outcome(orderStatus[o])
    OBVIOUS
  <2>1. o[1] = g => orderStatus[o] \in {"absent", "created"}
    BY <1>1 DEF OrdersFollowPayment
  <2>2. orderStatus'[o] = IF o[1] = g /\ orderStatus[o] = "created"
                          THEN NewOrderStatus(s) ELSE orderStatus[o]
    BY <1>1 DEF UpdateOrdersStatus
  <2> QED
    BY <2>1, <2>2 DEF Outcome, NewOrderStatus, Contract!OutcomeOf
<1>7. [h \in Groups |-> DecisionsOf(h)]' = [h \in Groups |-> DecisionsOf(h)]
  BY DEF SettlePayment, TakeUpdate, serviceVars, DecisionsOf, Decided
<1>8. Contract!Settle(g, s)
  BY <1>2, <1>3, <1>4, <1>5, <1>6, <1>7 DEF Contract!Settle, Contract!OrderID, OrderID
<1> QED
  BY <1>1, <1>8 DEF Settled

(* A decision of the service.                                               *)
LEMMA DecideStep ==
  ASSUME IInv, NEW e \in EventID, SaveDecision(e)
  PROVE  (\E s \in {"paid", "failed"} : Contract!Decide(e[1], s))
           \/ UNCHANGED Contract!contractVars
<1> DEFINE s == decision[e].status
<1>0. /\ e[1] \in Groups /\ decision[e].stage = "checked"
      /\ decision' = [decision EXCEPT ![e].stage = "sending"]
      /\ decision \in [EventID -> Decision]
      /\ UNCHANGED rows
  BY DEF EventID, SaveDecision, IInv, TypeOK, storeVars
<1>1. \A d \in EventID : /\ decision'[d].status = decision[d].status
                         /\ Decided(d)' <=> Decided(d) \/ d = e
  BY <1>0 DEF Decided, Decision
<1>2. \A g \in Groups : DecisionsOf(g)' = DecisionsOf(g)
                           \cup (IF g = e[1] THEN {s} \cap Settled ELSE {})
  <2> SUFFICES ASSUME NEW g \in Groups, NEW x
               PROVE  x \in DecisionsOf(g)' <=>
                        \/ x \in DecisionsOf(g)
                        \/ g = e[1] /\ x = s /\ x \in Settled
    OBVIOUS
  <2>1. x \in DecisionsOf(g)' <=>
          /\ x \in Settled
          /\ \E d \in EventID : d[1] = g /\ Decided(d)' /\ decision'[d].status = x
    BY DEF DecisionsOf
  <2>2. x \in DecisionsOf(g) <=>
          /\ x \in Settled
          /\ \E d \in EventID : d[1] = g /\ Decided(d) /\ decision[d].status = x
    BY DEF DecisionsOf
  <2> QED
    BY <1>1, <2>1, <2>2
<1>3. Phase(payStatus[e[1]]) # "absent"
  <2>1. payStatus[e[1]] # "absent"
    BY <1>0 DEF IInv, TracesInOrder
  <2> QED
    BY <2>1 DEF Phase
<1>4. /\ [g \in Groups |-> Phase(payStatus'[g])] = [g \in Groups |-> Phase(payStatus[g])]
      /\ [o \in OrderID |-> Outcome(orderStatus'[o])]
           = [o \in OrderID |-> Outcome(orderStatus[o])]
      /\ deposits' = deposits
  BY <1>0 DEF rows
<1>5. CASE s \in Settled
  <2>1. [g \in Groups |-> DecisionsOf(g)]'
          = [[g \in Groups |-> DecisionsOf(g)] EXCEPT
               ![e[1]] = [g \in Groups |-> DecisionsOf(g)][e[1]] \cup {s}]
    <3>1. {s} \cap Settled = {s}
      BY <1>5
    <3>2. \A g \in Groups :
            DecisionsOf(g)' = IF g = e[1] THEN DecisionsOf(g) \cup {s} ELSE DecisionsOf(g)
      BY <1>2, <3>1
    <3> QED
      BY <1>0, <3>2
  <2>2. Contract!Decide(e[1], s)
    BY <1>0, <1>3, <1>4, <2>1 DEF Contract!Decide
  <2> QED
    BY <1>5, <2>2 DEF Settled
<1>6. CASE s \notin Settled
  <2>1. [g \in Groups |-> DecisionsOf(g)]' = [g \in Groups |-> DecisionsOf(g)]
    BY <1>0, <1>2, <1>6
  <2> QED
    BY <1>4, <2>1 DEF Contract!contractVars
<1> QED
  BY <1>5, <1>6

(* Every other step is invisible.                                           *)
LEMMA InvisibleStep ==
  ASSUME IInv, UNCHANGED rows,
         \A e \in EventID : decision'[e].status = decision[e].status \/ ~Decided(e)',
         \A e \in EventID : Decided(e)' <=> Decided(e)
  PROVE  UNCHANGED Contract!contractVars
<1>1. \A g \in Groups : DecisionsOf(g)' = DecisionsOf(g)
  <2> SUFFICES ASSUME NEW g \in Groups, NEW x
               PROVE  x \in DecisionsOf(g)' <=> x \in DecisionsOf(g)
    OBVIOUS
  <2>1. x \in DecisionsOf(g)' <=>
          /\ x \in Settled
          /\ \E d \in EventID : d[1] = g /\ Decided(d)' /\ decision'[d].status = x
    BY DEF DecisionsOf
  <2>2. x \in DecisionsOf(g) <=>
          /\ x \in Settled
          /\ \E d \in EventID : d[1] = g /\ Decided(d) /\ decision[d].status = x
    BY DEF DecisionsOf
  <2> QED
    BY <2>1, <2>2
<1>2. [g \in Groups |-> DecisionsOf(g)]' = [g \in Groups |-> DecisionsOf(g)]
  BY <1>1
<1>3. /\ [g \in Groups |-> Phase(payStatus'[g])] = [g \in Groups |-> Phase(payStatus[g])]
      /\ [o \in OrderID |-> Outcome(orderStatus'[o])]
           = [o \in OrderID |-> Outcome(orderStatus[o])]
      /\ deposits' = deposits
  BY DEF rows
<1> QED
  BY <1>2, <1>3 DEF Contract!contractVars

(* Marking a payment await leaves the contract where it is.                 *)
LEMMA AwaitStep ==
  ASSUME IInv, MarkAwait
  PROVE  UNCHANGED Contract!contractVars
<1> USE DEF IInv, TypeOK, StoreTypeOK
<1>1. [g \in Groups |-> Phase(payStatus'[g])] = [g \in Groups |-> Phase(payStatus[g])]
  BY DEF MarkAwait, UpdateStatus, Phase
<1>2. [g \in Groups |-> DecisionsOf(g)]' = [g \in Groups |-> DecisionsOf(g)]
  BY DEF MarkAwait, serviceVars, DecisionsOf, Decided
<1>3. [o \in OrderID |-> Outcome(orderStatus'[o])]
        = [o \in OrderID |-> Outcome(orderStatus[o])]
      /\ deposits' = deposits
  BY DEF MarkAwait
<1> QED
  BY <1>1, <1>2, <1>3 DEF Contract!contractVars

(* Every step is a step of the contract or leaves it unchanged.             *)
LEMMA ContractNext ==
  ASSUME IInv, [Next]_vars
  PROVE  [Contract!Next]_(Contract!contractVars)
<1>1. CASE \E g \in Groups, u \in Users, ps \in SUBSET Products : CreateOrder(g, u, ps)
  BY <1>1, OpenStep DEF Contract!Next
<1>2. CASE SettlePayment
  BY <1>2, SettleStep DEF Contract!Next
<1>3. CASE MarkAwait
  BY <1>3, AwaitStep
<1>4. CASE UNCHANGED rows
  <2>1. CASE \E e \in EventID : SaveDecision(e)
    BY <2>1, DecideStep DEF Contract!Next, EventID
  <2>2. CASE \/ PostPayment \/ PostPaymentFails
             \/ \E e \in EventID : \/ \E s \in DecisionStatus : BeginDecision(e, s)
                                   \/ DeliverWebhook(e) \/ LoseWebhook(e)
             \/ UNCHANGED serviceVars
    <3>0. decision \in [EventID -> Decision]
      BY DEF IInv, TypeOK
    <3>1. CASE \E e \in EventID, s \in DecisionStatus : BeginDecision(e, s)
      <4>1. PICK e \in EventID, s \in DecisionStatus : BeginDecision(e, s)
        BY <3>1
      <4>2. /\ decision[e].stage = "none" /\ decision'[e].stage = "checked"
            /\ \A d \in EventID : d # e => decision'[d] = decision[d]
        BY <3>0, <4>1 DEF BeginDecision
      <4> QED
        BY <1>4, <4>2, InvisibleStep DEF Decided
    <3>2. CASE \E e \in EventID : DeliverWebhook(e) \/ LoseWebhook(e)
      <4>1. PICK e \in EventID : DeliverWebhook(e) \/ LoseWebhook(e)
        BY <3>2
      <4>2. /\ decision[e].stage = "sending" /\ decision'[e].stage = "done"
            /\ \A d \in EventID : decision'[d].status = decision[d].status
            /\ \A d \in EventID : d # e => decision'[d] = decision[d]
        BY <3>0, <4>1 DEF DeliverWebhook, LoseWebhook, Decision
      <4> QED
        BY <1>4, <4>2, InvisibleStep DEF Decided
    <3>3. CASE PostPayment \/ PostPaymentFails \/ UNCHANGED serviceVars
      <4>1. decision' = decision
        BY <3>3 DEF PostPayment, PostPaymentFails, serviceVars
      <4> QED
        BY <1>4, <4>1, InvisibleStep DEF Decided
    <3> QED
      BY <2>2, <3>1, <3>2, <3>3
  <2> QED
    BY <2>1, <2>2, ServiceSteps
<1> QED
  BY <1>1, <1>2, <1>3, <1>4, RowSteps

(* The queues, workers, webhooks and retries implement PaymentContract.     *)
THEOREM Refinement == Spec => ImplementsPaymentContract
<1>1. Init => Contract!Init
  BY ContractInit
<1>2. IInv /\ [Next]_vars => [Contract!Next]_(Contract!contractVars)
  BY ContractNext
<1> QED
  BY <1>1, <1>2, Invariance, PTL DEF Spec, ImplementsPaymentContract, Contract!Spec

=============================================================================
