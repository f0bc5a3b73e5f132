-------------------------------- MODULE Dispatch --------------------------------
(***************************************************************************)
(* The trucks and drivers that bookings share, from the moment a           *)
(* driver_request has been accepted: the claim of the booking and of its   *)
(* truck and driver (finalizeDriverRequest), the trip, and every handler   *)
(* that gives the truck and the driver back: PATCH /trips/:id/status,      *)
(* cancelBooking, declineTrip and the reassignment branch of assignDriver. *)
(* Which request is accepted, and at which price, is module Negotiation.   *)
(*                                                                         *)
(* A handler is a task of one of the Workers.  Its local variables are the *)
(* fields of the task; each of its `await`s is one phase, in the order of  *)
(* Flow, and tasks interleave between phases.                              *)
(*                                                                         *)
(* A definition marked "Bug:" is no part of the model: it is the one after *)
(* it with a plausible mistake, put in its place to see a property fail.   *)
(***************************************************************************)
EXTENDS Naturals, FiniteSets, FiniteSetsExt, Sequences

CONSTANTS
    Bookings, Trucks, Drivers,
    Brokered,     \* the bookings whose job_request a broker has won
    Crew,         \* trucks.driver_id
    Load,         \* bookings.weight, in tons
    Capacity,     \* trucks.capacity_tons
    NoTruck, NoDriver,
    Handlers,     \* which kinds of handler the instance runs
    AnyOrder,     \* whether PATCH /trips/:id/status also sets a trip back
    Workers,      \* bound: handlers in progress at one time
    MaxOffers,    \* bound: open driver_requests at one time
    MaxTrips      \* bound: trips made for a booking, one after the other

Ops == {"finalize", "status", "cancel", "decline", "reassign", "presence", "sharing"}

ASSUME Fleet == /\ Brokered \subseteq Bookings /\ Crew \in [Trucks -> Drivers]
                /\ Load \in [Bookings -> Nat] /\ Capacity \in [Trucks -> Nat]
                /\ NoTruck \notin Trucks /\ NoDriver \notin Drivers
ASSUME Instance == Handlers \subseteq Ops /\ AnyOrder \in BOOLEAN
ASSUME Limits == MaxOffers \in Nat /\ MaxTrips \in Nat

VARIABLES
    booking,       \* bookings: status, truck_id, driver_id
    trip,          \* trips: status, driver_id; the id tells trips of a booking apart
    truckStatus,   \* trucks.status
    shared,        \* trucks.part_truck_mode and trucks.accepting_loads
    driverStatus,  \* driver_profiles.status
    offers,        \* driver_requests that may still be accepted
    task           \* the handler each worker runs

vars == <<booking, trip, truckStatus, shared, driverStatus, offers, task>>
fleet == <<truckStatus, shared, driverStatus>>

\* en_route_pickup stands for picked_up and in_transit as well, which differ
\* from it only in that the client can no longer cancel.
Moves    == <<"en_route_pickup", "delivered", "completed", "cancelled">>
Statuses == {Moves[i] : i \in DOMAIN Moves} \union {"confirmed"}
Over     == {"completed", "cancelled"}
Carrying == {"assigned", "en_route_pickup"}      \* ACTIVE_CARGO_BOOKING_STATUSES

\* Bug: cancelBooking looks for other trips before it has ended its own.
FlowLooksFirst == [
    finalize |-> <<"gate", "room", "claim", "declineOthers", "takeTruck",
                   "takeDriver", "insertTrip">>,
    status   |-> <<"setTrip", "setBooking", "busy", "freeDriver", "freeTruck">>,
    cancel   |-> <<"cancelBooking", "declineOthers", "findTrip", "busy",
                   "freeDriver", "freeTruck", "cancelTrip">>]
\* The awaits of each handler, in order.
Flow == [
    finalize |-> <<"gate", "room", "claim", "declineOthers", "takeTruck",
                   "takeDriver", "insertTrip">>,
    status   |-> <<"setTrip", "setBooking", "busy", "freeDriver", "freeTruck">>,
    cancel   |-> <<"cancelBooking", "declineOthers", "findTrip", "cancelTrip",
                   "busy", "freeDriver", "freeTruck">>,
    decline  |-> <<"busy", "freeDriver", "freeTruck", "unassign", "removeTrip">>,
    reassign |-> <<"busy", "freeDriver", "freeTruck", "rewrite", "takeTruck",
                   "takeDriver", "swapDriver">>,
    presence |-> <<"setStatus">>]

\* b: the booking; id: the trip that was read; d, t: the driver and truck to
\* release; newD, newT: those to take; to: the status to write.
Idle == [op |-> "none", at |-> 0]
Tasks == [op : DOMAIN Flow, at : 1..7, b : Bookings, id : 0..MaxTrips,
          d : Drivers \union {NoDriver}, t : Trucks \union {NoTruck},
          newD : Drivers \union {NoDriver}, newT : Trucks \union {NoTruck},
          to : Statuses \union {"pending", "assigned", "available", "offline"}]

TypeOK ==
    /\ booking \in [Bookings -> [status : Statuses \union {"pending", "assigned"},
                                 truck  : Trucks \union {NoTruck},
                                 driver : Drivers \union {NoDriver}]]
    /\ trip \in [Bookings -> [status : Statuses \union {"none"},
                              driver : Drivers \union {NoDriver},
                              id     : 0..MaxTrips]]
    /\ truckStatus \in [Trucks -> {"available", "on_trip"}]
    /\ shared \in [Trucks -> BOOLEAN]
    /\ driverStatus \in [Drivers -> {"available", "on_trip", "offline"}]
    /\ offers \subseteq [b : Bookings, t : Trucks, d : Drivers]
    /\ task \in [Workers -> Tasks \union {Idle}]

Init ==
    /\ booking = [b \in Bookings |->
                    [status |-> IF b \in Brokered THEN "confirmed" ELSE "pending",
                     truck |-> NoTruck, driver |-> NoDriver]]
    /\ trip = [b \in Bookings |-> [status |-> "none", driver |-> NoDriver, id |-> 0]]
    /\ truckStatus = [t \in Trucks |-> "available"]
    /\ shared \in [Trucks -> BOOLEAN]
    /\ driverStatus = [d \in Drivers |-> "available"]
    /\ offers = {}
    /\ task = [w \in Workers |-> Idle]

-----------------------------------------------------------------------------
Active(b) == trip[b].status \notin Over \union {"none"}

\* getActiveCargoWeight
Used(t) ==
    LET aboard == {b \in Bookings : booking[b].truck = t /\ booking[b].status \in Carrying}
    IN  MapThenSumSet(LAMBDA b : Load[b], aboard)

\* hasOtherActiveTrips(d, id)
OnOtherTrip(k) == \E b \in Bookings :
    Active(b) /\ trip[b].driver = k.d /\ ~(b = k.b /\ trip[b].id = k.id)

Begin(w, k) ==
    /\ task[w] = Idle /\ k.op \in Handlers
    /\ task' = [task EXCEPT ![w] = k]

New(op, b) == [op |-> op, at |-> 1, b |-> b, id |-> trip[b].id,
               d |-> trip[b].driver, t |-> booking[b].truck,
               newD |-> NoDriver, newT |-> NoTruck, to |-> booking[b].status]

At(w, phase)  == task[w] # Idle /\ Flow[task[w].op][task[w].at] = phase
Ends(w)       == task' = [task EXCEPT ![w] = Idle]
\* Goes on with its n-th next phase, as the task k it has become.
GoesOnAs(w, k, n) ==
    task' = [task EXCEPT ![w] = IF k.at + n > Len(Flow[k.op]) THEN Idle
                                ELSE [k EXCEPT !.at = @ + n]]
GoesOn(w) == GoesOnAs(w, task[w], 1)

-----------------------------------------------------------------------------
(* Offers: driver_requests of the client's truck pick and of the fan-outs, *)
(* or of the broker who has won the booking.                               *)

\* findNearbyForBroadcast and requestTruckForBooking want an available truck,
\* findPartTruckCandidates one that shares its room.
Matches(b, t) ==
    \/ truckStatus[t] = "available"
    \/ shared[t] /\ Capacity[t] >= Used(t) + Load[b]

OfferDirect(b, t) ==
    /\ b \notin Brokered /\ booking[b].status = "pending" /\ Matches(b, t)
    /\ Cardinality(offers) < MaxOffers
    /\ offers' = offers \union {[b |-> b, t |-> t, d |-> Crew[t]]}
    /\ UNCHANGED <<booking, trip, fleet, task>>

\* assignDriver checks the truck and whether a trip exists, nothing else.
OfferByBroker(b, t, d) ==
    /\ b \in Brokered /\ trip[b].status = "none"
    /\ truckStatus[t] = "available" \/ t = booking[b].truck
    /\ Cardinality(offers) < MaxOffers
    /\ offers' = offers \union {[b |-> b, t |-> t, d |-> d]}
    /\ UNCHANGED <<booking, trip, fleet, task>>

-----------------------------------------------------------------------------
(* finalizeDriverRequest *)

Accept(w, o) ==
    /\ o \in offers /\ offers' = offers \ {o}
    /\ trip[o.b].id < MaxTrips
    /\ Begin(w, [New("finalize", o.b) EXCEPT !.newD = o.d, !.newT = o.t])
    /\ UNCHANGED <<booking, trip, fleet>>

\* A truck on a trip takes a second booking only if it shares its room.
Gate(w) ==
    LET t == task[w].newT IN
    /\ At(w, "gate")
    /\ \/ truckStatus[t] # "on_trip" /\ GoesOnAs(w, task[w], 2)
       \/ truckStatus[t] = "on_trip" /\ shared[t] /\ GoesOn(w)
       \/ truckStatus[t] = "on_trip" /\ ~shared[t] /\ Ends(w)
    /\ UNCHANGED <<booking, trip, fleet, offers>>

\* The row of RETURNING * has no weight: normalizeWeightToTons(undefined) is 0.
RequestedTons(k) == 0

Room(w) ==
    LET k == task[w] IN
    /\ At(w, "room")
    /\ IF Capacity[k.newT] >= Used(k.newT) + RequestedTons(k) THEN GoesOn(w) ELSE Ends(w)
    /\ UNCHANGED <<booking, trip, fleet, offers>>

Claim(w) ==
    LET k == task[w] IN
    /\ At(w, "claim")
    /\ IF booking[k.b].status = IF k.b \in Brokered THEN "confirmed" ELSE "pending"
       THEN /\ booking' = [booking EXCEPT ![k.b] =
                             [status |-> "assigned", truck |-> k.newT, driver |-> k.newD]]
            /\ GoesOn(w)
       ELSE Ends(w) /\ UNCHANGED booking
    /\ UNCHANGED <<trip, fleet, offers>>

DeclineOthers(w) ==
    /\ At(w, "declineOthers")
    /\ offers' = {o \in offers : o.b # task[w].b}
    /\ GoesOn(w)
    /\ UNCHANGED <<booking, trip, fleet>>

TakeTruck(w) ==
    /\ At(w, "takeTruck")
    /\ truckStatus' = [truckStatus EXCEPT ![task[w].newT] = "on_trip"]
    /\ GoesOn(w)
    /\ UNCHANGED <<booking, trip, shared, driverStatus, offers>>

TakeDriver(w) ==
    /\ At(w, "takeDriver")
    /\ driverStatus' = [driverStatus EXCEPT ![task[w].newD] = "on_trip"]
    /\ GoesOn(w)
    /\ UNCHANGED <<booking, trip, shared, truckStatus, offers>>

\* A second trip of the booking violates UNIQUE: the handler fails.
InsertTrip(w) ==
    LET k == task[w] IN
    /\ At(w, "insertTrip")
    /\ \/ trip[k.b].status # "none" /\ UNCHANGED trip
       \/ /\ trip[k.b].status = "none" /\ trip[k.b].id < MaxTrips
          /\ trip' = [trip EXCEPT ![k.b] = [status |-> "confirmed", driver |-> k.newD,
                                            id |-> @.id + 1]]
    /\ Ends(w)
    /\ UNCHANGED <<booking, fleet, offers>>

Finalize(w) ==
    \/ Gate(w) \/ Room(w) \/ Claim(w) \/ DeclineOthers(w)
    \/ TakeTruck(w) \/ TakeDriver(w) \/ InsertTrip(w)

-----------------------------------------------------------------------------
(* Giving back: unless the driver is on another trip, first the driver and *)
(* then the truck become available.                                        *)

\* Bug: the driver is freed without a look at the other trips.
BusyNever(w) ==
    /\ At(w, "busy")
    /\ GoesOn(w)
    /\ UNCHANGED <<booking, trip, fleet, offers>>
Busy(w) ==
    /\ At(w, "busy")
    /\ GoesOnAs(w, task[w], IF OnOtherTrip(task[w]) THEN 3 ELSE 1)
    /\ UNCHANGED <<booking, trip, fleet, offers>>

\* A reassignment frees only what it changes.
FreeDriver(w) ==
    LET k == task[w] IN
    /\ At(w, "freeDriver")
    /\ driverStatus' = IF k.d \in {NoDriver, k.newD} THEN driverStatus
                       ELSE [driverStatus EXCEPT ![k.d] = "available"]
    /\ GoesOn(w)
    /\ UNCHANGED <<booking, trip, shared, truckStatus, offers>>

FreeTruck(w) ==
    LET k == task[w] IN
    /\ At(w, "freeTruck")
    /\ truckStatus' = IF k.t \in {NoTruck, k.newT} THEN truckStatus
                      ELSE [truckStatus EXCEPT ![k.t] = "available"]
    /\ GoesOn(w)
    /\ UNCHANGED <<booking, trip, shared, driverStatus, offers>>

Release(w) == Busy(w) \/ FreeDriver(w) \/ FreeTruck(w)

-----------------------------------------------------------------------------
(* PATCH /trips/:id/status (updateTripStatus)                              *)

Rank(s) == CHOOSE i \in 0..Len(Moves) :
    IF s = "confirmed" THEN i = 0 ELSE i > 0 /\ Moves[i] = s

StatusRequest(w, b, s) ==
    /\ trip[b].status # "none"
    /\ AnyOrder \/ (trip[b].status \notin Over /\ Rank(trip[b].status) < Rank(s))
    /\ Begin(w, [New("status", b) EXCEPT !.to = s])
    /\ UNCHANGED <<booking, trip, fleet, offers>>

SameTrip(k) == trip[k.b].status # "none" /\ trip[k.b].id = k.id

\* 'completed' is a compare-and-swap (completeIfNotAlready); any other status
\* is written over whatever the trip has become.
SetTrip(w) ==
    LET k == task[w] IN
    /\ At(w, "setTrip")
    /\ trip' = IF SameTrip(k) THEN [trip EXCEPT ![k.b].status = k.to] ELSE trip
    /\ IF k.to = "completed" /\ (~SameTrip(k) \/ trip[k.b].status = "completed")
       THEN Ends(w) ELSE GoesOn(w)
    /\ UNCHANGED <<booking, fleet, offers>>

SetBooking(w) ==
    LET k == task[w] IN
    /\ At(w, "setBooking")
    /\ booking' = [booking EXCEPT ![k.b].status = k.to]
    /\ IF k.to \in Over THEN GoesOn(w) ELSE Ends(w)
    /\ UNCHANGED <<trip, fleet, offers>>

UpdateTripStatus(w) == SetTrip(w) \/ SetBooking(w)

-----------------------------------------------------------------------------
(* cancelBooking                                                           *)

Cancellable == {"pending", "confirmed", "assigned", "en_route_pickup"}

CancelRequest(w, b) ==
    /\ booking[b].status \in Cancellable
    /\ Begin(w, [New("cancel", b) EXCEPT !.d = booking[b].driver, !.id = 0])
    /\ UNCHANGED <<booking, trip, fleet, offers>>

CancelWrite(w) ==
    /\ At(w, "cancelBooking")
    /\ booking' = [booking EXCEPT ![task[w].b].status = "cancelled"]
    /\ GoesOn(w)
    /\ UNCHANGED <<trip, fleet, offers>>

\* With no trip the driver and truck of the row read at first are released.
FindTrip(w) ==
    LET k == task[w] IN
    /\ At(w, "findTrip")
    /\ IF trip[k.b].status = "none" THEN GoesOnAs(w, k, 2)
       ELSE GoesOnAs(w, [k EXCEPT !.id = trip[k.b].id, !.d = trip[k.b].driver,
                                  !.t = booking[k.b].truck], 1)
    /\ UNCHANGED <<booking, trip, fleet, offers>>

CancelTrip(w) ==
    LET k == task[w] IN
    /\ At(w, "cancelTrip")
    /\ trip' = IF SameTrip(k) THEN [trip EXCEPT ![k.b].status = "cancelled"] ELSE trip
    /\ GoesOn(w)
    /\ UNCHANGED <<booking, fleet, offers>>

CancelBooking(w) == CancelWrite(w) \/ FindTrip(w) \/ CancelTrip(w)

-----------------------------------------------------------------------------
(* declineTrip                                                             *)

DeclineRequest(w, b) ==
    /\ trip[b].status = "confirmed"
    /\ Begin(w, New("decline", b))
    /\ UNCHANGED <<booking, trip, fleet, offers>>

Unassign(w) ==
    /\ At(w, "unassign")
    /\ booking' = [booking EXCEPT ![task[w].b] =
                      [status |-> "confirmed", truck |-> NoTruck, driver |-> NoDriver]]
    /\ GoesOn(w)
    /\ UNCHANGED <<trip, fleet, offers>>

RemoveTrip(w) ==
    LET k == task[w] IN
    /\ At(w, "removeTrip")
    /\ trip' = IF SameTrip(k) THEN [trip EXCEPT ![k.b].status = "none",
                                                ![k.b].driver = NoDriver] ELSE trip
    /\ Ends(w)
    /\ UNCHANGED <<booking, fleet, offers>>

DeclineTrip(w) == Unassign(w) \/ RemoveTrip(w)

-----------------------------------------------------------------------------
(* assignDriver, reassignment: the broker swaps the driver, the truck or   *)
(* both of a trip that is under way.                                       *)

ReassignRequest(w, b, t, d) ==
    /\ b \in Brokered
    /\ truckStatus[t] = "available" \/ t = booking[b].truck
    /\ trip[b].status \in {"confirmed", "en_route_pickup"}
    /\ Begin(w, [New("reassign", b) EXCEPT !.d = booking[b].driver, !.newD = d, !.newT = t])
    /\ UNCHANGED <<booking, trip, fleet, offers>>

\* Bug: a driver swap takes the booking back to 'assigned'.
RewriteAssigned(w) ==
    LET k == task[w] IN
    /\ At(w, "rewrite")
    /\ booking' = [booking EXCEPT ![k.b] =
                      [status |-> "assigned", truck |-> k.newT, driver |-> k.newD]]
    /\ GoesOn(w)
    /\ UNCHANGED <<trip, fleet, offers>>
\* advanceStatus with the status of the row read at first.
Rewrite(w) ==
    LET k == task[w] IN
    /\ At(w, "rewrite")
    /\ booking' = [booking EXCEPT ![k.b] =
                      [status |-> k.to, truck |-> k.newT, driver |-> k.newD]]
    /\ GoesOn(w)
    /\ UNCHANGED <<trip, fleet, offers>>

SwapDriver(w) ==
    LET k == task[w] IN
    /\ At(w, "swapDriver")
    /\ trip' = IF SameTrip(k) THEN [trip EXCEPT ![k.b].driver = k.newD] ELSE trip
    /\ Ends(w)
    /\ UNCHANGED <<booking, fleet, offers>>

Reassign(w) == Rewrite(w) \/ SwapDriver(w)

-----------------------------------------------------------------------------
(* The driver's own presence, and the handlers that end it.                *)

\* updateMyStatus looks for an active trip, then writes.
ToggleRequest(w, d, s) ==
    /\ \A b \in Bookings : ~(Active(b) /\ trip[b].driver = d)
    /\ \E b \in Bookings : Begin(w, [New("presence", b) EXCEPT !.d = d, !.to = s])
    /\ UNCHANGED <<booking, trip, fleet, offers>>

\* The stale-GPS sweep, force-logout and the broker's updateDriver take a
\* driver they have read as available offline.
OfflineRequest(w, d) ==
    /\ driverStatus[d] = "available"
    /\ \E b \in Bookings : Begin(w, [New("presence", b) EXCEPT !.d = d, !.to = "offline"])
    /\ UNCHANGED <<booking, trip, fleet, offers>>

SetStatus(w) ==
    /\ At(w, "setStatus")
    /\ driverStatus' = [driverStatus EXCEPT ![task[w].d] = task[w].to]
    /\ Ends(w)
    /\ UNCHANGED <<booking, trip, truckStatus, shared, offers>>

\* updateLocation, one UPDATE: a GPS ping brings an offline driver back.
Ping(d) ==
    /\ driverStatus[d] = "offline"
    /\ driverStatus' = [driverStatus EXCEPT ![d] = "available"]
    /\ UNCHANGED <<booking, trip, truckStatus, shared, offers, task>>

\* setPartTruckMode and setAcceptingLoads
Share(t) ==
    /\ "sharing" \in Handlers
    /\ shared' = [shared EXCEPT ![t] = ~@]
    /\ UNCHANGED <<booking, trip, truckStatus, driverStatus, offers, task>>

-----------------------------------------------------------------------------
Requests(w) ==
    \/ \E o \in offers : Accept(w, o)
    \/ \E b \in Bookings :
         \/ CancelRequest(w, b) \/ DeclineRequest(w, b)
         \/ \E s \in Statuses : StatusRequest(w, b, s)
         \/ \E t \in Trucks, d \in Drivers : ReassignRequest(w, b, t, d)
    \/ \E d \in Drivers :
         OfflineRequest(w, d) \/ \E s \in {"available", "offline"} : ToggleRequest(w, d, s)

Steps(w) ==
    \/ Finalize(w) \/ Release(w) \/ UpdateTripStatus(w) \/ CancelBooking(w)
    \/ DeclineTrip(w) \/ Reassign(w) \/ SetStatus(w)

Next ==
    \/ \E b \in Bookings, t \in Trucks :
         OfferDirect(b, t) \/ \E d \in Drivers : OfferByBroker(b, t, d)
    \/ \E w \in Workers : Requests(w) \/ Steps(w)
    \/ \E d \in Drivers : Ping(d)
    \/ \E t \in Trucks : Share(t)

Spec == Init /\ [][Next]_vars

-----------------------------------------------------------------------------
AtRest == \A w \in Workers : task[w] = Idle

OnTripFor(d) == {b \in Bookings : Active(b) /\ trip[b].driver = d}

\* Of the handlers that end a driver's trips at the same time, each writes its
\* own end before it looks for others, so the last of them frees the driver and
\* the truck: none is left 'on_trip' for good (updateTripStatus, cancelBooking).
LastOneReleases ==
    AtRest =>
        /\ \A d \in Drivers : driverStatus[d] = "on_trip" => OnTripFor(d) # {}
        /\ \A t \in Trucks : truckStatus[t] = "on_trip" =>
              \E b \in Bookings : Active(b) /\ booking[b].truck = t

\* Run one at a time, the handlers keep driver_profiles.status and trips in
\* step: a driver is on_trip exactly while a trip of his is under way.
DriverMatchesTrips ==
    AtRest => \A d \in Drivers : driverStatus[d] = "on_trip" <=> OnTripFor(d) # {}

\* Run one at a time, they keep the tracker of the client in step with the
\* trip, and the driver of the booking is the driver of the trip.
BookingMatchesTrip ==
    AtRest => \A b \in Bookings :
        IF trip[b].status = "none"
        THEN booking[b].status \in {"pending", "confirmed", "cancelled"}
        ELSE /\ booking[b].driver = trip[b].driver
             /\ \/ booking[b].status = trip[b].status
                \/ booking[b].status = "assigned" /\ trip[b].status = "confirmed"

\* finalizeDriverRequest: a second booking on a truck is only legitimate
\* "with real spare capacity still available".
NotOverloaded ==
    \A t \in Trucks : Cardinality({b \in Bookings : /\ booking[b].truck = t
                                                   /\ booking[b].status \in Carrying}) > 1
                         => Used(t) <= Capacity[t]

\* updateTripStatus: another trip on the same truck keeps it, for "reverting to
\* 'available' here would wrongly re-offer a truck that's still mid-delivery".
TruckKept ==
    AtRest => \A b \in Bookings :
        Active(b) => truckStatus[booking[b].truck] = "on_trip"
=============================================================================
