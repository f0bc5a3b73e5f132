------------------------------ MODULE Presence ------------------------------
(***************************************************************************)
(* Which drivers show as available: the driver's own switch, the pings of  *)
(* his app, trips that begin and end, a forced logout, and the sweep that  *)
(* every two minutes sets drivers out of contact offline and tells the     *)
(* brokers of those on a trip.  Time is counted in minutes.                *)
(***************************************************************************)
EXTENDS Integers, FiniteSets

CONSTANTS
    Drivers,
    StaleAfter,      \* STALE_LOCATION_MINUTES
    Period           \* of the sweep

VARIABLES
    profile,         \* driver_profiles: status, ages of last_location_at and updated_at, stale_notified_at
    run,             \* the sweep in progress: its phase and the drivers it has selected
    since,           \* minutes since the last run began
    missed           \* history: the last run was interrupted

vars == <<profile, run, since, missed>>

\* Ages are counted up to Never, the age of a location that was never sent.
Never  == StaleAfter + Period + 1
NoRun  == [at |-> "none", left |-> {}]
Busy   == {d \in Drivers : profile[d].status = "on_trip"}

TypeOK ==
    /\ profile \in [Drivers -> [status : {"available", "on_trip", "offline"}, seen : 0..Never,
                                updated : 0..Never, told : BOOLEAN]]
    /\ run \in [at : {"none", "offline", "tell"}, left : SUBSET Drivers]
    /\ since \in 0..Period /\ missed \in BOOLEAN

Init ==
    /\ profile \in [Drivers -> [status : {"available", "offline"}, seen : {Never}, updated : {0}, told : {FALSE}]]
    /\ run = NoRun /\ since = 0 /\ missed = FALSE

-----------------------------------------------------------------------------
\* Each UPDATE of the profile sets updated_at.
Set(d, status) == profile' = [profile EXCEPT ![d].status = status, ![d].updated = 0]
Rest == UNCHANGED <<run, since, missed>>

\* updateLocation: a ping of a driver who is offline makes him available.
Ping(d) ==
    /\ profile' = [profile EXCEPT
          ![d] = [status |-> IF d \in Busy THEN "on_trip" ELSE "available",
                  seen |-> 0, updated |-> 0, told |-> FALSE]]
    /\ Rest

\* updateMyStatus: without an active trip.
Switch(d, status) == d \notin Busy /\ Set(d, status) /\ Rest

\* finalizeDriverRequest, and the handlers that end a trip.
Begin(d) == d \notin Busy /\ Set(d, "on_trip") /\ Rest
End(d)   == d \in Busy /\ Set(d, "available") /\ Rest

\* forceLogoutDriver sets a driver offline unless he is on a trip.
ForceLogout(d) == d \notin Busy /\ Set(d, "offline") /\ Rest

\* updateDriver, of any other field, by his broker.
Edit(d) == Set(d, profile[d].status) /\ Rest

-----------------------------------------------------------------------------
(* The sweep                                                               *)

Late(age) == age >= StaleAfter
\* Bug: a location that was never sent is not late.
StaleAvailableSent == {d \in Drivers : /\ profile[d].status = "available" /\ profile[d].seen # Never
                                       /\ Late(profile[d].seen) /\ Late(profile[d].updated)}
\* findAvailableWithStaleLocation; one who has just been switched on is given time.
StaleAvailable == {d \in Drivers : /\ profile[d].status = "available"
                                   /\ Late(profile[d].seen) /\ Late(profile[d].updated)}
\* findOnTripWithStaleLocation
StaleOnTrip == {d \in Busy : ~profile[d].told /\ Late(profile[d].seen)}

Select ==
    /\ since = Period /\ run = NoRun
    /\ run' = [at |-> "offline", left |-> StaleAvailable] /\ since' = 0
    /\ UNCHANGED <<profile, missed>>

\* setOffline of a driver as he was selected, whatever he has done since.
SetOffline(d) ==
    /\ run.at = "offline" /\ d \in run.left /\ Set(d, "offline")
    /\ run' = [run EXCEPT !.left = @ \ {d}] /\ UNCHANGED <<since, missed>>

SelectOnTrip ==
    /\ run.at = "offline" /\ run.left = {}
    /\ run' = [at |-> "tell", left |-> StaleOnTrip] /\ UNCHANGED <<profile, since, missed>>

\* The broker's notification and markStaleNotified, which leaves updated_at.
Tell(d) ==
    /\ run.at = "tell" /\ d \in run.left
    /\ profile' = [profile EXCEPT ![d].told = TRUE]
    /\ run' = [run EXCEPT !.left = @ \ {d}] /\ UNCHANGED <<since, missed>>

Done ==
    /\ run.at = "tell" /\ run.left = {}
    /\ run' = NoRun /\ missed' = FALSE /\ UNCHANGED <<profile, since>>

\* A restart, or a query that fails, ends the run.
Fail == run # NoRun /\ run' = NoRun /\ missed' = TRUE /\ UNCHANGED <<profile, since>>

Older(age) == IF age < Never THEN age + 1 ELSE age
\* A run is due every Period and is over within its minute.
Tick ==
    /\ run = NoRun /\ since < Period /\ since' = since + 1
    /\ profile' = [d \in Drivers |-> [profile[d] EXCEPT !.seen = Older(@), !.updated = Older(@)]]
    /\ UNCHANGED <<run, missed>>

Next ==
    \/ \E d \in Drivers :
          \/ Ping(d) \/ Begin(d) \/ End(d) \/ ForceLogout(d) \/ Edit(d)
          \/ \E status \in {"available", "offline"} : Switch(d, status)
          \/ SetOffline(d) \/ Tell(d)
    \/ Select \/ SelectOnTrip \/ Done \/ Fail \/ Tick

Spec == Init /\ [][Next]_vars
-----------------------------------------------------------------------------
\* A driver who shows as available has sent a location, or his profile has been touched,
\* within the limit and one period of the sweep, through pings, trips and switches during a
\* run, unless that run was interrupted (staleDriverLocationSweep: "keeps GET /api/vehicles/
\* trucks/nearby honest").
Reachable ==
    \A d \in Drivers : profile[d].status = "available" /\ ~missed
        => profile[d].seen < StaleAfter + Period \/ profile[d].updated < StaleAfter + Period
=============================================================================
