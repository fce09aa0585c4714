-------------------------- MODULE DeliveryContract --------------------------
(***************************************************************************)
(* What the delivery side promises, without queues, requests, providers    *)
(* and failures: an order that was paid is tried, each attempt ends in one *)
(* step that sets the status, the code and the charge together, and a      *)
(* failed order can be tried again or cancelled against a refund.  An      *)
(* attempt that was announced in time may end after a cancellation: the    *)
(* contract allows what the shop does allow.                               *)
(***************************************************************************)
EXTENDS Naturals

CONSTANTS Orders, Codes, NoCode

VARIABLES status, code, charged, refunded

cvars == <<status, code, charged, refunded>>

Failures == {"delivery_failed", "out_of_stock"}
Tried == Failures \cup {"delivering", "delivered", "cancelled"}

Init ==
  /\ status = [o \in Orders |-> "absent"]
  /\ code = [o \in Orders |-> NoCode]
  /\ charged = [o \in Orders |-> 0]
  /\ refunded = [o \in Orders |-> 0]

Pay(os) ==
  /\ os # {} /\ \A o \in os : status[o] = "absent"
  /\ status' = [o \in Orders |-> IF o \in os THEN "paid" ELSE status[o]]
  /\ UNCHANGED <<code, charged, refunded>>

Try(o) ==
  /\ status[o] \in Failures \cup {"paid"}
  /\ status' = [status EXCEPT ![o] = "delivering"]
  /\ UNCHANGED <<code, charged, refunded>>

Unused(c) == \A o \in Orders : code[o] # c

Deliver(o, c) ==
  /\ status[o] \in Tried
  /\ Unused(c)
  /\ status' = [status EXCEPT ![o] = "delivered"]
  /\ code' = [code EXCEPT ![o] = c]
  /\ charged' = [charged EXCEPT ![o] = 1]
  /\ UNCHANGED refunded

GiveUp(o, failure) ==
  /\ status[o] \in Tried
  /\ status' = [status EXCEPT ![o] = failure]
  /\ charged' = [charged EXCEPT ![o] = 1]
  /\ UNCHANGED <<code, refunded>>

Cancel(o) ==
  /\ status[o] \in Failures /\ charged[o] = 1
  /\ status' = [status EXCEPT ![o] = "cancelled"]
  /\ refunded' = [refunded EXCEPT ![o] = 1]
  /\ UNCHANGED <<code, charged>>

Next ==
  \/ \E os \in SUBSET Orders : Pay(os)
  \/ \E o \in Orders :
       \/ Try(o) \/ Cancel(o)
       \/ \E c \in Codes : Deliver(o, c)
       \/ \E failure \in Failures : GiveUp(o, failure)

Spec == Init /\ [][Next]_cvars

=============================================================================
