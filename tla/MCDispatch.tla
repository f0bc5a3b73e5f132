------------------------------ MODULE MCDispatch ------------------------------
(***************************************************************************)
(* Dispatch on small instances: two trucks with a driver each, or one      *)
(* truck, and bookings whose loads fit a truck alone but not together.     *)
(***************************************************************************)
EXTENDS Dispatch, TLC

CONSTANTS b1, b2, t1, t2, d1, d2

OneCrew  == t1 :> d1
TwoCrews == (t1 :> d1) @@ (t2 :> d2)
Loads    == [b \in Bookings |-> 6]
Tons     == [t \in Trucks |-> 10]
LightLoads == [b \in Bookings |-> 5]

Symmetry == Permutations(Workers)
\* Sound where no booking is Brokered and all loads are alike.
SymmetryOfAll == Permutations(Workers) \union Permutations(Bookings)
=============================================================================
