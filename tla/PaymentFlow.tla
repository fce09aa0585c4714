---------------------------- MODULE PaymentFlow ----------------------------
(***************************************************************************)
(* From POST /api/orders to paid orders: CreateOrder, the payments:init    *)
(* poller with InitPayment, the payments service and its webhooks, the     *)
(* payments:update poller with UpdatePayment, the recovery request, and    *)
(* crashes of the shop's process between any two of these steps.           *)
(*                                                                         *)
(* A database transaction is one action (SQLite serialises them); a        *)
(* handler is split at every HTTP call and between transactions.           *)
(***************************************************************************)
EXTENDS Store

VARIABLES
  creating,       \* groups committed by CreateOrder, init event not yet published
  initWorker,     \* the payments:init goroutine
  updateQueue,    \* payments:update
  updateWorker,   \* the payments:update goroutine
  serviceStatus,  \* payments service: status of its row, "absent" if none
  serviceEvent,   \* payments service: event_id of its row
  decision        \* payments service: requests to change a payment's status

flowVars == <<creating, initWorker, updateQueue, updateWorker>>
serviceVars == <<serviceStatus, serviceEvent, decision>>
vars == <<storeVars, flowVars, serviceVars>>

Settled == {"paid", "failed"}

(* The status of the URL is not checked.  "new" leaves the payment open to *)
(* a further decision; "other" stands for every other string.              *)
DecisionStatus == Settled \cup {"new", "other"}
PaymentEvent == [id : EventID, group : Groups, status : Settled]

Idle == [stage |-> "idle"]
InitWorker == {Idle} \cup [stage : {"post", "await"}, group : Groups]
UpdateWorker == {Idle} \cup [stage : {"list"}, group : Groups]
                       \cup [stage : {"publish"}, events : Seq(OrderEvent) \ {<<>>}]

(* A request to change a payment's status: it has read the row (checked),  *)
(* saved its decision (sending), or its webhook call is over (done).       *)
NoDecision == [stage |-> "none", status |-> "other"]
Decision == [stage : {"none", "checked", "sending", "done"},
             status : DecisionStatus]

TypeOK ==
  /\ StoreTypeOK
  /\ creating \subseteq Groups
  /\ initWorker \in InitWorker
  /\ updateQueue \in Seq(PaymentEvent)
  /\ updateWorker \in UpdateWorker
  /\ serviceStatus \in [Groups -> DecisionStatus \cup {"absent"}]
  /\ serviceEvent \in [Groups -> EventID \cup {NoEvent}]
  /\ decision \in [EventID -> Decision]

Init ==
  /\ StoreInit
  /\ creating = {}
  /\ initWorker = Idle
  /\ updateQueue = <<>>
  /\ updateWorker = Idle
  /\ serviceStatus = [g \in Groups |-> "absent"]
  /\ serviceEvent = [g \in Groups |-> NoEvent]
  /\ decision = [e \in EventID |-> NoDecision]

-----------------------------------------------------------------------------
(* CreateOrder: one transaction for the orders and the payment, then the   *)
(* init event.                                                             *)

CreateOrder(g, u, ps) ==
  /\ payStatus[g] = "absent"
  /\ ps # {}
  /\ orderStatus' = [o \in OrderID |-> IF o[1] = g /\ o[2] \in ps
                                       THEN "created" ELSE orderStatus[o]]
  /\ payStatus' = [payStatus EXCEPT ![g] = "init"]
  /\ owner' = [owner EXCEPT ![g] = u]
  /\ creating' = creating \cup {g}
  /\ UNCHANGED <<orderCode, payEvent, deposits, charges, refunds, initQueue,
                 paidQueue, recovering, faults, initWorker, updateQueue,
                 updateWorker, serviceVars>>

(* Mistake: an event that finds another one waiting is dropped.             *)
PublishInitIfEmpty(g) ==
  /\ g \in creating
  /\ initQueue' = IF initQueue = <<>> THEN <<PaymentSnapshot(g)>> ELSE initQueue
  /\ creating' = creating \ {g}
  /\ UNCHANGED <<rows, paidQueue, recovering, faults, initWorker, updateQueue,
                 updateWorker, serviceVars>>

PublishInit(g) ==
  /\ g \in creating
  /\ HasRoom(initQueue)
  /\ initQueue' = Append(initQueue, PaymentSnapshot(g))
  /\ creating' = creating \ {g}
  /\ UNCHANGED <<rows, paidQueue, recovering, faults, initWorker, updateQueue,
                 updateWorker, serviceVars>>

(* The read between the transaction and the publish fails, or the client   *)
(* has gone and its context is cancelled.                                  *)
AbandonCreate(g) ==
  /\ g \in creating
  /\ InjectFault
  /\ creating' = creating \ {g}
  /\ UNCHANGED <<rows, initQueue, paidQueue, recovering, initWorker,
                 updateQueue, updateWorker, serviceVars>>

-----------------------------------------------------------------------------
(* InitPayment, in the goroutine that polls payments:init.                  *)

TakeInit ==
  /\ initWorker = Idle
  /\ initQueue # <<>>
  /\ initQueue' = Tail(initQueue)
  /\ initWorker' = IF Head(initQueue).status = "init"
                   THEN [stage |-> "post", group |-> Head(initQueue).group]
                   ELSE Idle
  /\ UNCHANGED <<rows, paidQueue, recovering, faults, creating, updateQueue,
                 updateWorker, serviceVars>>

(* POST /api/payments of the service, idempotent on order_id.               *)
ServiceCreate(g) ==
  IF serviceStatus[g] = "absent"
  THEN [serviceStatus EXCEPT ![g] = "new"]
  ELSE serviceStatus

PostPayment ==
  /\ initWorker.stage = "post"
  /\ serviceStatus' = ServiceCreate(initWorker.group)
  /\ initWorker' = [initWorker EXCEPT !.stage = "await"]
  /\ UNCHANGED <<storeVars, creating, updateQueue, updateWorker,
                 serviceEvent, decision>>

(* Mistake: a failed call is logged and the payment is awaited anyway.      *)
PostPaymentErrorIgnored ==
  /\ initWorker.stage = "post"
  /\ InjectFault
  /\ initWorker' = [initWorker EXCEPT !.stage = "await"]
  /\ UNCHANGED <<rows, initQueue, paidQueue, recovering, creating,
                 updateQueue, updateWorker, serviceVars>>

(* The call fails, before or after the service has done its part; the      *)
(* event is dropped.                                                       *)
PostPaymentFails ==
  /\ initWorker.stage = "post"
  /\ InjectFault
  /\ serviceStatus' \in {serviceStatus, ServiceCreate(initWorker.group)}
  /\ initWorker' = Idle
  /\ UNCHANGED <<rows, initQueue, paidQueue, recovering, creating,
                 updateQueue, updateWorker, serviceEvent, decision>>

MarkAwait ==
  /\ initWorker.stage = "await"
  /\ payStatus' = UpdateStatus(payStatus, initWorker.group, "init", "await")
  /\ initWorker' = Idle
  /\ UNCHANGED <<orderStatus, orderCode, owner, payEvent, deposits, charges,
                 refunds, initQueue, paidQueue, recovering, faults, creating,
                 updateQueue, updateWorker, serviceVars>>

MarkAwaitFails ==
  /\ initWorker.stage = "await"
  /\ InjectFault
  /\ initWorker' = Idle
  /\ UNCHANGED <<rows, initQueue, paidQueue, recovering, creating,
                 updateQueue, updateWorker, serviceVars>>

-----------------------------------------------------------------------------
(* The payments service: the status endpoint reads the row, then saves it, *)
(* then calls the shop's webhook; two requests may both read "new".        *)

BeginDecision(e, s) ==
  /\ serviceStatus[e[1]] = "new"
  /\ decision[e].stage = "none"
  /\ decision' = [decision EXCEPT ![e] = [stage |-> "checked", status |-> s]]
  /\ UNCHANGED <<storeVars, flowVars, serviceStatus, serviceEvent>>

SaveDecision(e) ==
  /\ decision[e].stage = "checked"
  /\ serviceStatus' = [serviceStatus EXCEPT ![e[1]] = decision[e].status]
  /\ serviceEvent' = [serviceEvent EXCEPT ![e[1]] = e]
  /\ decision' = [decision EXCEPT ![e].stage = "sending"]
  /\ UNCHANGED <<storeVars, flowVars>>

SaveUpdateEvent(e, s) ==
  Append(updateQueue, [id |-> e, group |-> e[1], status |-> s])

(* Mistakes: no status is refused; a failed payment is not reported on.     *)
WebhookUnchecked(e, s) == SaveUpdateEvent(e, s)
WebhookPaidOnly(e, s) ==
  IF s = "paid" THEN WebhookUnchecked(e, s) ELSE updateQueue

(* POST /webhook/payments of the shop: any status but paid and failed is   *)
(* refused with 400.                                                       *)
WebhookPayment(e, s) ==
  IF s \in Settled THEN SaveUpdateEvent(e, s) ELSE updateQueue

DeliverWebhook(e) ==
  /\ decision[e].stage = "sending"
  /\ HasRoom(updateQueue)
  /\ updateQueue' = WebhookPayment(e, decision[e].status)
  /\ decision' = [decision EXCEPT ![e].stage = "done"]
  /\ UNCHANGED <<storeVars, creating, initWorker, updateWorker,
                 serviceStatus, serviceEvent>>

LoseWebhook(e) ==
  /\ decision[e].stage = "sending"
  /\ InjectFault
  /\ decision' = [decision EXCEPT ![e].stage = "done"]
  /\ UNCHANGED <<rows, initQueue, paidQueue, recovering, flowVars,
                 serviceStatus, serviceEvent>>

(* The row of the service holds this decision, or has held it before        *)
(* another one was saved over it.                                          *)
Decided(e) == decision[e].stage \in {"sending", "done"}

(* POST /api/payments/{orderID}/webhook of the service, as often as the    *)
(* operator likes: the row is read, and sent some time later, when it may  *)
(* hold another decision already.                                          *)
ResendWebhook(e) ==
  /\ Decided(e)
  /\ HasRoom(updateQueue)
  /\ updateQueue' = WebhookPayment(e, decision[e].status)
  /\ UNCHANGED <<storeVars, creating, initWorker, updateWorker, serviceVars>>

-----------------------------------------------------------------------------
(* UpdatePayment, in the goroutine that polls payments:update.              *)

KnownEvent(id) == \E g \in Groups : payEvent[g] = id

(* The payment as getAwaitPaymentByOrderGroupID looks it up.                *)
AnyStatus(g) == payStatus[g] # "absent"  \* mistake: the status is not asked for
Awaiting(g) == payStatus[g] = "await"

SameStatus(s) == s  \* mistake: the payment's status is taken as the order's
StatusIgnored(s) == "paid"  \* mistake: every decision pays the orders
NewOrderStatus(s) == IF s = "paid" THEN "paid" ELSE "payment_failed"

(* Mistakes: the loop ends with the first order; the group is not asked for. *)
UpdateFirstOrder(g, new) ==
  LET todo == {o \in OrderID : o[1] = g /\ orderStatus[o] = "created"}
  IN  [o \in OrderID |-> IF todo # {} /\ o = (CHOOSE x \in todo : TRUE)
                         THEN new ELSE orderStatus[o]]
UpdateEveryOrder(g, new) ==
  [o \in OrderID |-> IF orderStatus[o] = "created" THEN new ELSE orderStatus[o]]

(* updateOrdersStatus: compare-and-set, order by order, in the transaction. *)
UpdateOrdersStatus(g, new) ==
  [o \in OrderID |-> IF o[1] = g /\ orderStatus[o] = "created"
                     THEN new ELSE orderStatus[o]]

ListOrdersOf(g) == [stage |-> "list", group |-> g]

TakeUpdate ==
  /\ updateWorker = Idle
  /\ updateQueue # <<>>
  /\ updateQueue' = Tail(updateQueue)
  /\ UNCHANGED <<owner, orderCode, charges, refunds, initQueue, paidQueue,
                 recovering, creating, initWorker, serviceVars>>

(* Mistake: a known event ends the handler.                                 *)
DropKnownEvent ==
  /\ TakeUpdate
  /\ KnownEvent(Head(updateQueue).id)
  /\ UNCHANGED <<updateWorker, orderStatus, payStatus, payEvent, deposits, faults>>

SkipKnownEvent ==
  /\ TakeUpdate
  /\ KnownEvent(Head(updateQueue).id)
  /\ updateWorker' = ListOrdersOf(Head(updateQueue).group)
  /\ UNCHANGED <<orderStatus, payStatus, payEvent, deposits, faults>>

SettlePayment ==
  /\ TakeUpdate
  /\ LET ev == Head(updateQueue)
         g == ev.group
     IN  /\ ~KnownEvent(ev.id)
         /\ Awaiting(g)
         /\ payStatus' = UpdateStatus(payStatus, g, "await", ev.status)
         /\ payEvent' = [payEvent EXCEPT ![g] = ev.id]
         /\ deposits' = IF ev.status = "paid"
                        THEN CreateOrIgnore(deposits, g) ELSE deposits
         /\ orderStatus' = UpdateOrdersStatus(g, NewOrderStatus(ev.status))
         /\ updateWorker' = ListOrdersOf(g)
  /\ UNCHANGED faults

(* No awaiting payment of that group: the transaction fails and the event  *)
(* is gone.                                                                *)
RejectEvent ==
  /\ TakeUpdate
  /\ ~KnownEvent(Head(updateQueue).id)
  /\ ~Awaiting(Head(updateQueue).group)
  /\ updateWorker' = Idle
  /\ UNCHANGED <<orderStatus, payStatus, payEvent, deposits, faults>>

(* SQLITE_BUSY or another database error: rolled back, the event is gone.  *)
UpdateFails ==
  /\ TakeUpdate
  /\ InjectFault
  /\ updateWorker' = Idle
  /\ UNCHANGED <<orderStatus, payStatus, payEvent, deposits>>

(* After the transaction, and for a duplicate event too: read the group's  *)
(* orders again and publish the paid ones.                                 *)
Publishing(events) ==
  IF events = <<>> THEN Idle ELSE [stage |-> "publish", events |-> events]

ListPaid ==
  /\ updateWorker.stage = "list"
  /\ \E events \in Listing({o \in FindByGroupID(updateWorker.group) :
                              orderStatus[o] = "paid"}) :
       updateWorker' = Publishing(events)
  /\ UNCHANGED <<storeVars, creating, initWorker, updateQueue, serviceVars>>

ListPaidFails ==
  /\ updateWorker.stage = "list"
  /\ InjectFault
  /\ updateWorker' = Idle
  /\ UNCHANGED <<rows, initQueue, paidQueue, recovering, creating,
                 initWorker, updateQueue, serviceVars>>

PublishPaid ==
  /\ updateWorker.stage = "publish"
  /\ HasRoom(paidQueue)
  /\ paidQueue' = Append(paidQueue, Head(updateWorker.events))
  /\ updateWorker' = Publishing(Tail(updateWorker.events))
  /\ UNCHANGED <<rows, initQueue, recovering, faults, creating, initWorker,
                 updateQueue, serviceVars>>

-----------------------------------------------------------------------------
(* The shop's process stops and is started again.                           *)
CrashFlow ==
  /\ creating' = {}
  /\ initWorker' = Idle
  /\ updateQueue' = <<>>
  /\ updateWorker' = Idle
  /\ UNCHANGED serviceVars

PaymentStep ==
  \/ \E g \in Groups, u \in Users, ps \in SUBSET Products : CreateOrder(g, u, ps)
  \/ \E g \in Groups : PublishInit(g) \/ AbandonCreate(g)
  \/ TakeInit \/ PostPayment \/ PostPaymentFails \/ MarkAwait \/ MarkAwaitFails
  \/ \E e \in EventID : \/ \E s \in DecisionStatus : BeginDecision(e, s)
                        \/ SaveDecision(e) \/ DeliverWebhook(e) \/ LoseWebhook(e)
                        \/ ResendWebhook(e)
  \/ SkipKnownEvent \/ SettlePayment \/ RejectEvent \/ UpdateFails
  \/ ListPaid \/ ListPaidFails \/ PublishPaid

Recovery ==
  /\ \E h \in Recoveries : StartRecovery(h) \/ RecoverOrder(h)
  /\ UNCHANGED <<flowVars, serviceVars>>

(* Environment: the consumer of orders:paid, the Delivery module in full.   *)
ConsumePaid ==
  /\ paidQueue # <<>>
  /\ paidQueue' = Tail(paidQueue)
  /\ UNCHANGED <<rows, initQueue, recovering, faults, flowVars, serviceVars>>

Crash == CrashStore /\ CrashFlow

Next == PaymentStep \/ Recovery \/ ConsumePaid \/ Crash

Spec == Init /\ [][Next]_vars

-----------------------------------------------------------------------------
(* Fairness.  The pollers are endless loops and the HTTP handlers run to   *)
(* their end, so each of their steps happens once it can (SF where another *)
(* producer may fill the queue in between, which is the model's bound and  *)
(* not the code's).  initPayment calls the payments service without a      *)
(* timeout: its goroutine may hang for ever.  Resending a webhook and      *)
(* asking for recovery are an operator's requests, which the README of the *)
(* shop prescribes after a failure.  These are assumptions of the          *)
(* properties that name them, not of the specification.                    *)
InitFairness ==
  /\ \A g \in Groups : SF_vars(PublishInit(g))
  /\ WF_vars(TakeInit) /\ WF_vars(PostPayment) /\ WF_vars(MarkAwait)

DecisionStep(e) == SaveDecision(e) \/ DeliverWebhook(e)
UpdateWorkerStep ==
  SkipKnownEvent \/ SettlePayment \/ RejectEvent \/ ListPaid \/ PublishPaid

UpdateFairness ==
  /\ \A e \in EventID : SF_vars(DecisionStep(e))
  /\ SF_vars(UpdateWorkerStep)

ConsumerFairness == WF_vars(ConsumePaid)

(* A resend of what the service's row holds now.                            *)
ResendRow(g) == serviceEvent[g] # NoEvent /\ ResendWebhook(serviceEvent[g])
ResendFairness == \A g \in Groups : SF_vars(ResendRow(g))

RecoveryFairness == SF_vars(Recovery)

SpecFair == Spec /\ UpdateFairness /\ ConsumerFairness
SpecInitRecovery ==
  SpecFair /\ ResendFairness /\ RecoveryFairness /\ InitFairness

-----------------------------------------------------------------------------
(* Properties.                                                              *)

IsSettled(g) == payStatus[g] \in Settled
OrdersOf(g) == {o \in OrderID : o[1] = g}

(* A settled payment carries the id of one event of its own group, and its *)
(* status is the one the service decided under that id: duplicate, late,   *)
(* reordered and rejected webhooks and racing decisions never leave a      *)
(* status without its event, or the status of one with the id of another.  *)
PaidAgreement ==
  \A g \in Groups :
    /\ IsSettled(g) <=> payEvent[g] # NoEvent
    /\ IsSettled(g) =>
         LET e == payEvent[g]
         IN  e[1] = g /\ Decided(e) /\ decision[e].status = payStatus[g]

(* A payment has its one deposit if and only if it is paid, whatever was   *)
(* retried or lost on the way: no paid group without money on the balance, *)
(* no money for a failed or open payment.                                  *)
DepositMatchesPayment ==
  \A g \in Groups : deposits[g] = IF payStatus[g] = "paid" THEN 1 ELSE 0

(* The orders of a group follow their payment together: created while it   *)
(* is open, payment_failed when it failed, and past created when it is     *)
(* paid.  No order is left behind by the loop of updateOrdersStatus.       *)
OrdersFollowPayment ==
  \A o \in OrderID :
    orderStatus[o] # "absent" =>
      /\ payStatus[o[1]] # "absent"
      /\ (orderStatus[o] = "created") <=> (payStatus[o[1]] \in {"init", "await"})
      /\ (orderStatus[o] = "payment_failed") <=> (payStatus[o[1]] = "failed")

(* Only orders of paid payments are ever announced for delivery: whatever  *)
(* sits in orders:paid, is about to be published by UpdatePayment, or will *)
(* be published by a recovery request from its (stale) listing.            *)
NoUnpaidAnnouncement ==
  /\ \A i \in DOMAIN paidQueue : payStatus[paidQueue[i].order[1]] = "paid"
  /\ updateWorker.stage = "publish" =>
       \A i \in DOMAIN updateWorker.events :
         payStatus[updateWorker.events[i].order[1]] = "paid"
  /\ \A h \in Recoveries : \A i \in DOMAIN recovering[h] :
       recovering[h][i].status \in RecoveredStatus =>
         payStatus[recovering[h][i].order[1]] = "paid"

(* Where the one init event of a payment can be.                            *)
InitPositions(g) == {i \in DOMAIN initQueue : initQueue[i].group = g}
InitTaken(g) == initWorker # Idle /\ initWorker.group = g
InitCarriers(g) ==
  Cardinality(InitPositions(g))
    + (IF g \in creating THEN 1 ELSE 0)
    + (IF InitTaken(g) THEN 1 ELSE 0)

(* The init event of a payment exists at most once, and only while the     *)
(* payment is in init; a payment in init that nothing carries any more was *)
(* stranded by a failure (a crash, a failed call), never by the protocol.  *)
InitEventCarried ==
  \A g \in Groups :
    /\ InitCarriers(g) <= 1
    /\ InitCarriers(g) = 1 => payStatus[g] = "init"
    /\ payStatus[g] = "init" /\ faults = 0 => InitCarriers(g) = 1

(* The shop waits for a payment only if the service knows it, and settles  *)
(* it only once the service has decided.                                   *)
ServiceKnowsPayment ==
  \A g \in Groups :
    /\ payStatus[g] = "await" => serviceStatus[g] # "absent"
    /\ IsSettled(g) => serviceEvent[g] # NoEvent

(* A settled payment, its event id and its deposit never change again, and *)
(* none of its orders goes back to created or payment_failed.              *)
SettledIsFinal ==
  [][\A g \in Groups : IsSettled(g) =>
       /\ payStatus'[g] = payStatus[g]
       /\ payEvent'[g] = payEvent[g]
       /\ deposits'[g] = deposits[g]
       /\ \A o \in OrdersOf(g) :
            orderStatus'[o] \in {"created", "payment_failed"} =>
              orderStatus'[o] = orderStatus[o]]_vars

(* As long as webhooks are resent, an awaiting payment the service has    *)
(* decided is settled in the end, in spite of early, lost and dropped      *)
(* webhooks and crashes; unless a racing request overwrote the service's   *)
(* status with one the shop does not accept.                               *)
DecisionReachesShop ==
  ResendFairness =>
    \A g \in Groups :
      (payStatus[g] = "await" /\ serviceStatus[g] \in Settled)
        ~> (IsSettled(g) \/ serviceStatus[g] \notin Settled)

Announced(o) == \E i \in DOMAIN paidQueue : paidQueue[i].order = o

(* A paid order gets (again) into orders:paid after a crash or a failed    *)
(* read has lost its announcement: a resent webhook, which is a duplicate, *)
(* repeats it, unless a racing decision has left the service with another  *)
(* event than the one the shop took.                                       *)
ResendAnnounces ==
  ResendFairness =>
    \A o \in OrderID :
      orderStatus[o] = "paid"
        ~> Announced(o) \/ serviceEvent[o[1]] # payEvent[o[1]]

(* So does recovery alone; unless the LIMIT of its listing, which has no   *)
(* order, leaves the row out for others that qualify, among them created   *)
(* orders whose payment is never decided and that stay there for ever.     *)
RecoveryAnnounces ==
  RecoveryFairness =>
    \A o \in OrderID :
      orderStatus[o] = "paid"
        ~> Announced(o) \/ Cardinality(Recoverable \ {o}) >= RecoveryLimit

(* Without failures every payment gets out of init, although all of them   *)
(* share one queue and one goroutine with rejected and repeated events.    *)
PaymentStarted ==
  InitFairness /\ [](faults = 0) =>
    \A g \in Groups : payStatus[g] = "init" ~> payStatus[g] # "init"

(* Recovery brings every payment out of init.                               *)
InitRecovered == \A g \in Groups : payStatus[g] = "init" ~> payStatus[g] # "init"

-----------------------------------------------------------------------------
(* The payment side implements PaymentContract.                             *)

Phase(s) == IF s \in {"init", "await"} THEN "open" ELSE s
DecisionsOf(g) ==
  {decision[e].status : e \in {d \in EventID : d[1] = g /\ Decided(d)}} \cap Settled
Outcome(s) == IF s \in {"absent", "created", "payment_failed"} THEN s ELSE "paid"

Contract == INSTANCE PaymentContract WITH
  phase <- [g \in Groups |-> Phase(payStatus[g])],
  decisions <- [g \in Groups |-> DecisionsOf(g)],
  credit <- deposits,
  outcome <- [o \in OrderID |-> Outcome(orderStatus[o])]

(* Every step of queues, workers and webhooks is a step of the contract or *)
(* leaves it unchanged.                                                    *)
ImplementsPaymentContract == Contract!Spec

=============================================================================
