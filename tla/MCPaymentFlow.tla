--------------------------- MODULE MCPaymentFlow ---------------------------
(***************************************************************************)
(* Instances of PaymentFlow for TLC.  The identities are model values; the *)
(* order in which SELECT returns rows is any, so groups, products and      *)
(* requests are symmetric where only safety is checked.                    *)
(***************************************************************************)
EXTENDS PaymentFlow_proofs, TLC

CONSTANTS g1, g2, p1, p2, r1, r2, u1, c1

OneGroup == {g1}
TwoGroups == {g1, g2}
OneProduct == {p1}
TwoProducts == {p1, p2}
OneRequest == {r1}
TwoRequests == {r1, r2}
OneUser == {u1}
OneCode == {c1}

Symmetry ==
  Permutations(Groups) \cup Permutations(Products) \cup Permutations(Requests)

=============================================================================
