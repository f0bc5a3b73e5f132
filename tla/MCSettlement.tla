----------------------------- MODULE MCSettlement -----------------------------
(***************************************************************************)
(* Settlement on a small instance: a trip with one stop of each kind, two  *)
(* workers, charges of 1 and 2 rupees on an estimate of 10.                *)
(***************************************************************************)
EXTENDS Settlement, TLC

Commission == ("driver" :> 10) @@ ("broker" :> 15)

\* Status updates and everything a second person does meanwhile; one person
\* uploads and checks off stops.
TwoDesks == << {"status", "stop", "upload"}, {"status", "review", "pay", "collect"} >>
OneDesk  == << Ops >>
=============================================================================
