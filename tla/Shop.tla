-------------------------------- MODULE Shop --------------------------------
(***************************************************************************)
(* The whole shop: the payment side and the delivery side over one         *)
(* database, one set of queues and one process.  What PaymentFlow and      *)
(* Delivery each assume of the other is replaced by the other's actions:   *)
(* orders:paid is filled by UpdatePayment and drained by ChooseProvider,   *)
(* recovery sees the orders of every status, and a crash takes both.       *)
(*                                                                         *)
(* What only shows with both sides together is the user's balance, from    *)
(* the deposit of a payment to the refund of an order.                     *)
(***************************************************************************)
EXTENDS Store, Integers

CONSTANTS
  Queues, QueueOf, Addrs, NoAddr, MainAddr, FallbackAddr, Stores, StoreOf,
  DuplicateCode, MaxTries, MaxIssues,  \* of Delivery
  Price                                \* products.price

VARIABLES
  creating, initWorker, updateQueue, updateWorker, serviceStatus,
  serviceEvent, decision,                              \* of PaymentFlow
  issueQueue, issues, worker, pool, grants, inflight   \* of Delivery

P == INSTANCE PaymentFlow_proofs  \* PaymentFlow, with its theorems
D == INSTANCE Delivery

ASSUME ShopAssumption == D!DeliveryAssumption /\ Price \in [Products -> Nat]

paymentVars == <<creating, initWorker, updateQueue, updateWorker,
                 serviceStatus, serviceEvent, decision>>
deliveryVars == <<issueQueue, issues, worker, pool, grants, inflight>>
vars == <<storeVars, paymentVars, deliveryVars>>

TypeOK == P!TypeOK /\ D!TypeOK

Init == P!Init /\ D!Init

Recovery ==
  /\ \E h \in Recoveries : StartRecovery(h) \/ RecoverOrder(h)
  /\ UNCHANGED <<paymentVars, deliveryVars>>

Crash == CrashStore /\ P!CrashFlow /\ D!CrashDelivery

Next ==
  \/ P!PaymentStep /\ UNCHANGED deliveryVars
  \/ D!DeliveryStep /\ UNCHANGED paymentVars
  \/ Recovery
  \/ Crash

Spec == Init /\ [][Next]_vars

(* Each side's goroutines are fair as in their own modules.                *)
SpecFair == Spec /\ P!UpdateFairness /\ D!WorkerFairness

(* An operator asks for recovery as long as there is something to recover. *)
RecoveryFairness == SF_vars(Recovery)

-----------------------------------------------------------------------------
(* Amounts: an order keeps the price of its product, a payment the sum of  *)
(* its orders; rows of the balance carry them with their sign.             *)

Amount == [o \in OrderID |-> Price[o[2]]]
PaymentAmount(g) == SumFunctionOnSet(Amount, FindByGroupID(g))

Deposited == [g \in Groups |-> deposits[g] * PaymentAmount(g)]
Charged == [o \in OrderID |-> -(charges[o] * Amount[o])]
Refunded == [o \in OrderID |-> refunds[o] * Amount[o]]

(* GetAmountForUser: the sum over the rows of a user.                       *)
PaymentsOfUser(u) == {g \in Groups : owner[g] = u}
OrdersOfUser(u) == UNION {FindByGroupID(g) : g \in PaymentsOfUser(u)}
Balance(u) ==
  SumFunctionOnSet(Deposited, PaymentsOfUser(u))
    + SumFunctionOnSet(Charged, OrdersOfUser(u))
    + SumFunctionOnSet(Refunded, OrdersOfUser(u))

-----------------------------------------------------------------------------
(* Properties.                                                              *)

(* The balance is what the user has paid and not got, however often events *)
(* are announced, recovered, lost and repeated on the way from the webhook *)
(* to the code: at least the price of every order still to be tried and of *)
(* every refunded one, at most that of the orders not yet handled and of   *)
(* the refunded ones.  It is never negative, and once all is handled it is *)
(* exactly what was refunded, even if a refunded order was then delivered. *)
Held(u) == {o \in OrdersOfUser(u) : orderStatus[o] = "paid" \/ refunds[o] = 1}
Owed(u) == {o \in OrdersOfUser(u) :
              /\ payStatus[o[1]] = "paid"
              /\ orderStatus[o] \in D!Handled => refunds[o] = 1}
BalanceExplained ==
  \A u \in Users : /\ SumFunctionOnSet(Amount, Held(u)) <= Balance(u)
                   /\ Balance(u) <= SumFunctionOnSet(Amount, Owed(u))

(* No worker starts on an order, no request is recorded and no provider is *)
(* asked before the payment has been settled as paid, and its deposit      *)
(* booked, whichever way the order's event came: webhook, repeated webhook *)
(* or recovery.                                                            *)
NothingBeforePayment ==
  \A o \in OrderID :
    \/ \E q \in Queues : worker[q].stage = "find" /\ worker[q].order = o
    \/ issues[o] # <<>>
    \/ \E d \in Stores : \E x \in grants[d] : x.req[1] = o
    => payStatus[o[1]] = "paid" /\ deposits[o[1]] = 1

(* The inductive invariant of the payment side holds while delivery moves  *)
(* the orders on: nothing delivery does puts an order back before its      *)
(* payment, or announces one that is not paid.                             *)
PaymentSideHolds == P!IInv

(* And the other way round: all the payment side does to what delivery     *)
(* works on is what Delivery allows its environment to do.  Seen from      *)
(* delivery a payment and its orders appear when they are paid; so what    *)
(* the runs of Delivery show, with retries and fallbacks this instance     *)
(* leaves out, holds in the whole shop.                                    *)
IfPaid(table, none) ==
  [g \in Groups |-> IF payStatus[g] = "paid" THEN table[g] ELSE none]
SeenOrders ==
  [o \in OrderID |-> IF payStatus[o[1]] = "paid" THEN orderStatus[o] ELSE "absent"]
SeenOwners == IfPaid(owner, NoUser)
SeenPayments == IfPaid(payStatus, "absent")
SeenEvents == IfPaid(payEvent, NoEvent)

DeliverySide == INSTANCE Delivery_proofs WITH
  orderStatus <- SeenOrders,
  owner <- SeenOwners,
  payStatus <- SeenPayments,
  payEvent <- SeenEvents,
  initQueue <- <<>>

ImplementsDelivery == DeliverySide!Spec

(* As long as recovery is asked for, every paid order is handled in the   *)
(* end, whatever a crash or a failure takes away on its way: the event of  *)
(* UpdatePayment, that of ChooseProvider, or an attempt at its delivery.   *)
PaidOrderHandled ==
  RecoveryFairness =>
    \A o \in OrderID : orderStatus[o] = "paid" ~> orderStatus[o] \in D!Handled

(* A payment decided as paid ends with every order of its group handled,   *)
(* whatever is lost in between, as long as webhooks are resent and         *)
(* recovery is asked for.                                                  *)
DecidedOrderHandled ==
  P!ResendFairness /\ RecoveryFairness =>
    \A g \in Groups :
      payStatus[g] = "await" /\ serviceStatus[g] = "paid"
        ~> \A o \in FindByGroupID(g) : orderStatus[o] \in D!Handled

=============================================================================
