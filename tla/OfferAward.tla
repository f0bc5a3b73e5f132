------------------------------ MODULE OfferAward ------------------------------
(***************************************************************************)
(* What a negotiation promises, without handlers, tables, turns or prices: *)
(* competing offers for one booking, each of which needs the consent of    *)
(* both parties, and at most one of which is awarded the booking.  An      *)
(* awarded offer is never lost and a dead one never comes back.            *)
(***************************************************************************)
CONSTANTS Offers, Parties, NoOffer

VARIABLES
    state,     \* "unmade", "open" or "dead"
    consent,   \* the parties that have committed to an open offer
    winner     \* the offer the booking was awarded to

vars == <<state, consent, winner>>

Init ==
    /\ state = [o \in Offers |-> "unmade"]
    /\ consent = [o \in Offers |-> {}]
    /\ winner = NoOffer

Make(o) ==
    /\ state[o] = "unmade"
    /\ state' = [state EXCEPT ![o] = "open"]
    /\ UNCHANGED <<consent, winner>>

\* A commitment is never withdrawn, except by the death of the offer.
Agree(o, p) ==
    /\ state[o] = "open" /\ p \notin consent[o]
    /\ consent' = [consent EXCEPT ![o] = @ \union {p}]
    /\ UNCHANGED <<state, winner>>

Award(o) ==
    /\ winner = NoOffer
    /\ state[o] = "open" /\ consent[o] = Parties
    /\ winner' = o
    /\ UNCHANGED <<state, consent>>

Kill(S) ==
    /\ \A o \in S : state[o] = "open" /\ o # winner
    /\ state' = [o \in Offers |-> IF o \in S THEN "dead" ELSE state[o]]
    /\ consent' = [o \in Offers |-> IF o \in S THEN {} ELSE consent[o]]
    /\ UNCHANGED winner

Next ==
    \/ \E o \in Offers : Make(o) \/ Award(o) \/ \E p \in Parties : Agree(o, p)
    \/ \E S \in SUBSET Offers : Kill(S)

Spec == Init /\ [][Next]_vars
=============================================================================
