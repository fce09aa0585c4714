-------------------------- MODULE PaymentContract --------------------------
(***************************************************************************)
(* What the payment side of the shop promises, with no queues, workers or  *)
(* webhooks: a payment is opened together with its orders; the payments    *)
(* service decides it, possibly more than once when requests race; one of  *)
(* these decisions is taken over, once and for good, and at that very      *)
(* moment every order of the group takes the outcome and the user's        *)
(* deposit is booked.                                                      *)
(***************************************************************************)
EXTENDS Naturals

CONSTANTS Groups, Products

VARIABLES
  phase,      \* of a payment: absent, open, paid, failed
  decisions,  \* what the service has decided about it
  credit,     \* deposits booked for it
  outcome     \* of an order: absent, created, paid, payment_failed

contractVars == <<phase, decisions, credit, outcome>>

OrderID == Groups \X Products

Init ==
  /\ phase = [g \in Groups |-> "absent"]
  /\ decisions = [g \in Groups |-> {}]
  /\ credit = [g \in Groups |-> 0]
  /\ outcome = [o \in OrderID |-> "absent"]

Open(g) ==
  /\ phase[g] = "absent"
  /\ phase' = [phase EXCEPT ![g] = "open"]
  /\ \E ps \in SUBSET Products :
       /\ ps # {}
       /\ outcome' = [o \in OrderID |-> IF o[1] = g /\ o[2] \in ps
                                        THEN "created" ELSE outcome[o]]
  /\ UNCHANGED <<decisions, credit>>

Decide(g, s) ==
  /\ phase[g] # "absent"
  /\ decisions' = [decisions EXCEPT ![g] = @ \cup {s}]
  /\ UNCHANGED <<phase, credit, outcome>>

OutcomeOf(s) == IF s = "paid" THEN "paid" ELSE "payment_failed"

Settle(g, s) ==
  /\ phase[g] = "open"
  /\ s \in decisions[g]
  /\ phase' = [phase EXCEPT ![g] = s]
  /\ credit' = [credit EXCEPT ![g] = IF s = "paid" THEN 1 ELSE 0]
  /\ outcome' = [o \in OrderID |-> IF o[1] = g /\ outcome[o] # "absent"
                                   THEN OutcomeOf(s) ELSE outcome[o]]
  /\ UNCHANGED decisions

Next == \E g \in Groups :
          Open(g) \/ \E s \in {"paid", "failed"} : Decide(g, s) \/ Settle(g, s)

Spec == Init /\ [][Next]_contractVars

=============================================================================
