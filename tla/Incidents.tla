------------------------------ MODULE Incidents ------------------------------
(***************************************************************************)
(* What goes wrong on a trip: a driver reports an incident, a breakdown    *)
(* gets a mechanic request of its own row, and the broker and the          *)
(* administrator close the two from either end.  No transaction spans the  *)
(* two rows; every handler works on the pair as one query has read it.     *)
(***************************************************************************)
EXTENDS Integers, FiniteSets

CONSTANTS
    Ids,                     \* incidents, in the order they are reported
    Calls                    \* requests in flight

VARIABLES
    active,        \* the trip is in one of ACTIVE_TRIP_STATUSES
    incident,      \* trip_incidents.status; "none" before the report
    reason,        \* trip_incidents.reason
    mechanic,      \* mechanic_requests.status; "none" where there is no row
    call,          \* what is in flight, with the row it has read
    torn           \* history: incidents a request was cut off at

vars == <<active, incident, reason, mechanic, call, torn>>

Statuses == {"requested", "mechanic_assigned", "in_progress", "resolved"}
NoCall   == [at |-> "none", i |-> 0]

TypeOK ==
    /\ active \in BOOLEAN
    /\ incident \in [Ids -> {"none", "reported", "resolved"}]
    /\ reason \in [Ids -> {"breakdown", "other"}]
    /\ mechanic \in [Ids -> Statuses \union {"none"}]
    /\ call \in [Calls -> [at : {"none", "request", "resolve", "close", "finish"}, i : {0} \union Ids]]
    /\ torn \subseteq Ids

Init ==
    /\ active = TRUE
    /\ incident = [i \in Ids |-> "none"]
    /\ reason \in [Ids -> {"breakdown", "other"}]
    /\ mechanic = [i \in Ids |-> "none"]
    /\ call = [h \in Calls |-> NoCall]
    /\ torn = {}

Go(h, at, i) == call' = [call EXCEPT ![h] = [at |-> at, i |-> i]]
Done(h) == call' = [call EXCEPT ![h] = NoCall]
-----------------------------------------------------------------------------
\* reportIssue: the incident first, the mechanic request of a breakdown after it.
Report(h, i) ==
    /\ call[h] = NoCall /\ active
    /\ incident[i] = "none" /\ \A j \in Ids : j < i => incident[j] # "none"
    /\ incident' = [incident EXCEPT ![i] = "reported"]
    /\ IF reason[i] = "breakdown" THEN Go(h, "request", i) ELSE UNCHANGED call
    /\ UNCHANGED <<active, reason, mechanic, torn>>

RequestMechanic(h) ==
    /\ call[h].at = "request"
    /\ mechanic' = [mechanic EXCEPT ![call[h].i] = "requested"]
    /\ Done(h)
    /\ UNCHANGED <<active, incident, reason, torn>>

\* resolveIncident reads the incident with its mechanic request: whether there is something
\* to close on the other side is decided here.
ResolveRequest(h, i) ==
    /\ call[h] = NoCall /\ incident[i] = "reported"
    /\ Go(h, IF mechanic[i] \in Statuses \ {"resolved"} THEN "close" ELSE "resolve", i)
    /\ UNCHANGED <<active, incident, reason, mechanic, torn>>

\* TripIncidentModel.resolve, then the mechanic request that was read open.
Resolve(h) ==
    /\ call[h].at \in {"resolve", "close"}
    /\ incident' = [incident EXCEPT ![call[h].i] = "resolved"]
    /\ IF call[h].at = "close" THEN Go(h, "finish", call[h].i) ELSE Done(h)
    /\ UNCHANGED <<active, reason, mechanic, torn>>

FinishMechanic(h) ==
    /\ call[h].at = "finish"
    /\ mechanic' = [mechanic EXCEPT ![call[h].i] = "resolved"]
    /\ Done(h)
    /\ UNCHANGED <<active, incident, reason, torn>>

\* Bug: the incident is left to whoever reported it.
ClosesNothing(i, status) == FALSE
\* The request that marks the mechanic's work resolved has the incident to close as well.
ClosesIncident(i, status) == status = "resolved" /\ incident[i] # "resolved"

\* updateMechanicRequest: read and UPDATE with COALESCE, then the incident.  The read and the
\* UPDATE are one step: what the handler keeps of the read, whether the incident is still open,
\* can only have become stale in the direction that changes nothing.
UpdateMechanic(h, i, status) ==
    /\ call[h] = NoCall /\ reason[i] = "breakdown" /\ mechanic[i] # "none"
    /\ mechanic' = [mechanic EXCEPT ![i] = status]
    /\ IF ClosesIncident(i, status) THEN Go(h, "resolve", i) ELSE UNCHANGED call
    /\ UNCHANGED <<active, incident, reason, torn>>

\* The trip is delivered, completed or cancelled; incidents stay open.
EndTrip ==
    /\ active /\ active' = FALSE
    /\ UNCHANGED <<incident, reason, mechanic, call, torn>>

\* The server stops, or a query fails, between two steps of a request.
Crash(h) ==
    /\ call[h] # NoCall
    /\ torn' = torn \union {call[h].i}
    /\ Done(h)
    /\ UNCHANGED <<active, incident, reason, mechanic>>

Next ==
    \/ EndTrip
    \/ \E h \in Calls :
          \/ RequestMechanic(h) \/ Resolve(h) \/ FinishMechanic(h) \/ Crash(h)
          \/ \E i \in Ids : Report(h, i) \/ ResolveRequest(h, i)
                            \/ \E s \in Statuses : UpdateMechanic(h, i, s)

Spec == Init /\ [][Next]_vars
-----------------------------------------------------------------------------
AtRest(i) == i \notin torn /\ \A h \in Calls : call[h] = NoCall \/ call[h].i # i

\* Marking the mechanic's work resolved resolves the incident too, whichever requests overlap
\* (updateMechanicRequest, and the comment above it).
BreakdownsClose == \A i \in Ids : AtRest(i) /\ mechanic[i] = "resolved" => incident[i] = "resolved"
=============================================================================
