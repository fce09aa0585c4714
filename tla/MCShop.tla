------------------------------- MODULE MCShop -------------------------------
(* Instances of Shop for TLC: one provider queue with a service of its own *)
(* and no fallback; what retries and fallbacks do is MCDelivery's part.    *)
EXTENDS Shop_proofs, TLC

CONSTANTS g1, g2, p1, p2, r1, r2, u1, u2, c1, c2

OneGroup == {g1}
TwoGroups == {g1, g2}
OneProduct == {p1}
TwoProducts == {p1, p2}
OneRequest == {r1}
OneUser == {u1}
TwoUsers == {u1, u2}
OneCode == {c1}
TwoCodes == {c1, c2}

AnyQueue == {"any"}
AllAny == [p \in Products |-> "any"]
MainOnly == {"main"}
Main == [q \in Queues |-> "main"]
NoFallback == [q \in Queues |-> NoAddr]
OneStore == {"codes.db"}
SharedStore == [a \in Addrs |-> "codes.db"]
NoDuplicates == [a \in Addrs |-> NoCode]
SameCode == [a \in Addrs |-> c1]
Prices == [p \in Products |-> IF p = p1 THEN 1 ELSE 2]

=============================================================================
