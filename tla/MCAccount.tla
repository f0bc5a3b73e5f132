------------------------------ MODULE MCAccount ------------------------------
(***************************************************************************)
(* Account on a small instance: two bookings of different price, the       *)
(* client's device, and a second device with the driver who delivers.      *)
(***************************************************************************)
EXTENDS Account, TLC

Prices == ("b1" :> 2) @@ ("b2" :> 1)

Plan(first, second, s, r) ==
    [duties |-> ("w1" :> first) @@ ("w2" :> second), switches |-> s, restarts |-> r]

\* The wallet with a restart, the credit limit and the bills, a change of
\* billing_type.
ThreePlans == {
    Plan({"book", "fromWallet", "recharge"}, {"fromWallet", "collect", "deliver"}, 0, 1),
    Plan({"book", "pay", "mark"}, {"cancel", "deliver"}, 0, 0),
    Plan({"book", "mark"}, {"collect", "deliver"}, 1, 0)}
=============================================================================
