------------------------------- MODULE Store -------------------------------
(***************************************************************************)
(* The state every component of the shop works on: the rows of the SQLite  *)
(* database (orders, payments, balance transactions), the in-memory queues *)
(* payments:init and orders:paid, and POST /api/recovery/orders, which     *)
(* reads the former and refills the latter.  The rows survive a crash of   *)
(* the process; the queues and the recovery requests do not.               *)
(*                                                                         *)
(* An order is named by its payment group and its product: one request     *)
(* creates at most one order per product row (WHERE sku IN (...)).         *)
(***************************************************************************)
EXTENDS Naturals, FiniteSets, Sequences, SequencesExt

CONSTANTS
  Users,          \* user ids
  Groups,         \* order group ids; each has one payment row
  Products,       \* product rows
  Codes,          \* codes the providers can hand out
  Requests,       \* requests to decide a payment, per group (EventIDs)
  Recoveries,     \* requests to recover that may run at a time
  NoUser, NoCode, NoEvent,
  MaxPending,     \* bound: events in a queue
  RecoveryLimit,  \* LIMIT of the recovery listing (500 in the code)
  MaxFaults       \* bound: failures injected in one behaviour

ASSUME StoreAssumption ==
  /\ IsFiniteSet(Groups) /\ IsFiniteSet(Products)
  /\ NoUser \notin Users /\ NoCode \notin Codes
  /\ NoEvent \notin Groups \X Requests
  /\ MaxPending \in Nat /\ RecoveryLimit \in Nat /\ MaxFaults \in Nat

OrderID == Groups \X Products
EventID == Groups \X Requests

OrderStatus == {"created", "paid", "delivering", "delivered", "payment_failed",
                "out_of_stock", "delivery_failed", "cancelled"}
PaymentStatus == {"init", "await", "paid", "failed"}

(* A queue event of orders:paid is the JSON of the order row as it was read. *)
OrderEvent == [order : OrderID, status : OrderStatus]

(* A queue event of payments:init is the JSON of the payment row.           *)
InitEvent == [group : Groups, status : PaymentStatus]

VARIABLES
  orderStatus,  \* orders.status, "absent" when there is no such row
  orderCode,    \* orders.code
  owner,        \* orders.user_id and payments.user_id, per group
  payStatus,    \* payments.status, "absent" when there is no such row
  payEvent,     \* payments.event_id
  deposits,     \* deposit rows of a payment
  charges,      \* charge rows of an order
  refunds,      \* refund rows of an order
  initQueue,    \* payments:init
  paidQueue,    \* orders:paid
  recovering,   \* the rows each running recovery request has still to visit
  faults        \* failures so far

rows == <<orderStatus, orderCode, owner, payStatus, payEvent,
          deposits, charges, refunds>>
storeVars == <<rows, initQueue, paidQueue, recovering, faults>>

StoreTypeOK ==
  /\ orderStatus \in [OrderID -> OrderStatus \cup {"absent"}]
  /\ orderCode \in [OrderID -> Codes \cup {NoCode}]
  /\ owner \in [Groups -> Users \cup {NoUser}]
  /\ payStatus \in [Groups -> PaymentStatus \cup {"absent"}]
  /\ payEvent \in [Groups -> EventID \cup {NoEvent}]
  /\ deposits \in [Groups -> Nat]
  /\ charges \in [OrderID -> Nat]
  /\ refunds \in [OrderID -> Nat]
  /\ initQueue \in Seq(InitEvent)
  /\ paidQueue \in Seq(OrderEvent)
  /\ recovering \in [Recoveries -> Seq(OrderEvent)]
  /\ faults \in Nat

StoreInit ==
  /\ orderStatus = [o \in OrderID |-> "absent"]
  /\ orderCode = [o \in OrderID |-> NoCode]
  /\ owner = [g \in Groups |-> NoUser]
  /\ payStatus = [g \in Groups |-> "absent"]
  /\ payEvent = [g \in Groups |-> NoEvent]
  /\ deposits = [g \in Groups |-> 0]
  /\ charges = [o \in OrderID |-> 0]
  /\ refunds = [o \in OrderID |-> 0]
  /\ initQueue = <<>>
  /\ paidQueue = <<>>
  /\ recovering = [h \in Recoveries |-> <<>>]
  /\ faults = 0

-----------------------------------------------------------------------------
(* Shared operations on rows and queues.                                    *)

(* UPDATE ... SET status = new WHERE id = k AND status = old. *)
UpdateStatus(table, k, old, new) ==
  IF table[k] = old THEN [table EXCEPT ![k] = new] ELSE table

(* INSERT ... ON CONFLICT DO NOTHING under the unique index of the row. *)
CreateOrIgnore(table, k) ==
  IF table[k] = 0 THEN [table EXCEPT ![k] = 1] ELSE table

HasRoom(q) == Len(q) < MaxPending

FindByGroupID(g) == {o \in OrderID : o[1] = g /\ orderStatus[o] # "absent"}

(* GetPaidByOrderGroupID finds a row.                                       *)
PaymentPaid(g) == payStatus[g] = "paid"

(* The row as SaveOrderPaidEvent marshals it. *)
Snapshot(o) == [order |-> o, status |-> orderStatus[o]]

(* The payment row as SaveInitEvent marshals it. *)
PaymentSnapshot(g) == [group |-> g, status |-> payStatus[g]]

(* SELECT without ORDER BY: the selected orders, in some order. *)
Listing(S) == SetToSeqs({Snapshot(o) : o \in S})

InjectFault == faults < MaxFaults /\ faults' = faults + 1

-----------------------------------------------------------------------------
(* POST /api/recovery/orders.                                               *)

(* Mistakes: one status too few, or one too many.                           *)
RecoveredWithoutPaid == {"delivering", "delivery_failed", "out_of_stock"}
RecoveredWithoutDelivering == {"paid", "delivery_failed", "out_of_stock"}
RecoveredWithFailed ==
  {"paid", "payment_failed", "delivering", "delivery_failed", "out_of_stock"}

RecoveredStatus == {"paid", "delivering", "delivery_failed", "out_of_stock"}

(* The query also asks for rows with ext_id = '': there are none, since    *)
(* CreateOrder gives every order an ext_id.                                *)
Recoverable == {o \in OrderID : orderStatus[o] \in RecoveredStatus \cup {"created"}}

(* What GetOrdersByStatus may return: LIMIT rows of those that qualify. *)
RecoveryCandidates ==
  IF Cardinality(Recoverable) <= RecoveryLimit
  THEN {Recoverable}
  ELSE {S \in SUBSET Recoverable : Cardinality(S) = RecoveryLimit}

(* Mistake: every payment in init is started again, though its first init  *)
(* event may still be on its way.                                          *)
InitAgain(g) == payStatus[g] = "init"

(* The branch for created orders takes the paid payment of the group and   *)
(* then asks whether that same row is in init.                              *)
InitRecoverable(g) == PaymentPaid(g) /\ payStatus[g] = "init"

StartRecovery(h) ==
  /\ recovering[h] = <<>>
  /\ \E S \in RecoveryCandidates : \E listed \in Listing(S) :
       S # {} /\ recovering' = [recovering EXCEPT ![h] = listed]
  /\ UNCHANGED <<rows, initQueue, paidQueue, faults>>

(* One iteration of the handler's loop: the row as listed, however stale,  *)
(* is published again.                                                     *)
RecoverOrder(h) ==
  /\ recovering[h] # <<>>
  /\ HasRoom(paidQueue)
  /\ LET e == Head(recovering[h])
         g == e.order[1]
     IN  /\ initQueue' = IF e.status = "created" /\ InitRecoverable(g)
                         THEN Append(initQueue, PaymentSnapshot(g))
                         ELSE initQueue
         /\ paidQueue' = IF e.status \in RecoveredStatus
                         THEN Append(paidQueue, e)
                         ELSE paidQueue
  /\ recovering' = [recovering EXCEPT ![h] = Tail(@)]
  /\ UNCHANGED <<rows, faults>>

(* The process stops: what it held in memory is gone, the rows stay.       *)
CrashStore ==
  /\ InjectFault
  /\ initQueue' = <<>>
  /\ paidQueue' = <<>>
  /\ recovering' = [h \in Recoveries |-> <<>>]
  /\ UNCHANGED rows

=============================================================================
