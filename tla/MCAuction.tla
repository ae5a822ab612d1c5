------------------------------ MODULE MCAuction ------------------------------
(* A seller with an item, and two players who bid. *)
EXTENDS Auction
LOCAL T == INSTANCE TLC

CONSTANTS s, b1, b2, i1

MCHasItems == s :> {i1} @@ b1 :> {} @@ b2 :> {}
Symmetry == T!Permutations({b1, b2})
=============================================================================
