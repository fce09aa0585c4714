----------------------------- MODULE MCDelivery -----------------------------
(* Delivery on small instances.  The deployment of the shop's readme: the  *)
(* main and the fallback service are processes on one database file, the   *)
(* gift card service has no fallback and hands out one and the same code.  *)
EXTENDS Delivery_proofs, TLC

CONSTANTS u1, g1, g2, p1, p2, c1, c2, c3

OneUser == {u1}
OneGroup == {g1}
TwoGroups == {g1, g2}
OneProduct == {p1}
TwoProducts == {p1, p2}
OneCode == {c1}
TwoCodes == {c1, c2}
ThreeCodes == {c1, c2, c3}
OneRequest == {"r1"}

AnyQueue == {"any"}
BothQueues == {"any", "giftcard"}
AllAny == [p \in Products |-> "any"]
AllGift == [p \in Products |-> "giftcard"]
GiftAndAny == [p \in Products |-> IF p = p1 THEN "any" ELSE "giftcard"]

AllAddrs == {"main", "fallback", "gift"}
AnyAddrs == {"main", "fallback"}
Main == [q \in Queues |-> IF q = "any" THEN "main" ELSE "gift"]
Fallback == [q \in Queues |-> IF q = "any" THEN "fallback" ELSE NoAddr]
OneStore == {"codes.db"}
SharedStore == [a \in Addrs |-> "codes.db"]
TwoStores == {"main.db", "fallback.db"}
SeparateStores == [a \in Addrs |-> IF a = "fallback" THEN "fallback.db" ELSE "main.db"]
GiftDuplicates == [a \in Addrs |-> IF a = "gift" THEN c1 ELSE NoCode]
NoDuplicates == [a \in Addrs |-> NoCode]
DuplicatesButFallback == [a \in Addrs |-> IF a = "fallback" THEN NoCode ELSE c1]

Symmetry == Permutations(Codes) \cup Permutations(Groups)

=============================================================================
