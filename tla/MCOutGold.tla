----------------------------- MODULE MCOutGold -----------------------------
(***************************************************************************)
(* Small instances of OutGold.                                             *)
(***************************************************************************)
EXTENDS OutGold, TLC

CONSTANTS o1, o2, o3, c1, c2, loss

\* Two orders of a B-book customer and one of an A-book customer.
Owners == o1 :> c1 @@ o2 :> c1 @@ o3 :> c2

\* A deal of the B-book customer that ends with a loss.
Loser == loss :> c1

Loss == loss :> -1

\* A form may as well ask for less than nothing, which adds to the account.
Signed == {-1, 2}

\* Reviews are alike, and so are the two orders of the B-book customer.
Symmetry == Permutations(Reviews) \cup Permutations({o1, o2})
=============================================================================
