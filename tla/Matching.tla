------------------------------ MODULE Matching ------------------------------
(***************************************************************************)
(* Whom a booking is offered to: the queries for trucks near the pickup    *)
(* and for trucks with room to share, the fan-out over what they return,   *)
(* and the gate an accept passes.  Weights come in tons, quintals and      *)
(* kilograms; here all are in kilograms, converted where the code converts *)
(* them.  An accept is one step: what interleaves with it is in Dispatch,  *)
(* which request may be accepted in Negotiation, brokers in Broadcast.     *)
(***************************************************************************)
EXTENDS Integers, FiniteSets, FiniteSetsExt

CONSTANTS
    Trucks,          \* each with its driver
    Capacity,        \* trucks.capacity_tons in kilograms, Unset where it is NULL
    Unset,
    Size,            \* trucks.category
    Bookings,        \* numbers, in the order of creation
    Orders,          \* bound: what is ordered: search_mode, weight as [n, unit], size
    MaxChanges       \* bound: how often drivers change their settings

VARIABLES
    truck,           \* trucks: status, part_truck_mode, accepting_loads
    driver,          \* driver_profiles: status, and whether the last location is in range
    booking,         \* bookings: status, the order, truck_id
    offers,          \* driver_requests: booking, truck, and what had boarded the truck by then
    boarded,         \* history: loads each truck has taken
    rushed,          \* history: bookings accepted after another load had boarded
    changes

vars == <<truck, driver, booking, offers, boarded, rushed, changes>>
people == <<truck, driver, changes>>

Active == {"assigned", "in_transit"}       \* ACTIVE_CARGO_BOOKING_STATUSES
NoTruck == "none"

TypeOK ==
    /\ truck \in [Trucks -> [status : {"available", "on_trip"}, part : BOOLEAN, accepting : BOOLEAN]]
    /\ driver \in [Trucks -> [status : {"available", "on_trip", "offline"}, near : BOOLEAN]]
    /\ booking \in [Bookings -> [status : {"none", "pending", "assigned", "in_transit", "delivered", "completed"},
                                 order : Orders, truck : Trucks \union {NoTruck}]]
    /\ offers \subseteq [b : Bookings, t : Trucks, seen : 0..Cardinality(Bookings)]
    /\ boarded \in [Trucks -> 0..Cardinality(Bookings)] /\ rushed \subseteq Bookings
    /\ changes \in 0..MaxChanges

Init ==
    /\ truck \in [Trucks -> [status : {"available"}, part : BOOLEAN, accepting : {TRUE}]]
    /\ driver \in [Trucks -> [status : {"available"}, near : BOOLEAN]]
    /\ booking = [b \in Bookings |-> [status |-> "none", order |-> CHOOSE o \in Orders : TRUE,
                                      truck |-> NoTruck]]
    /\ offers = {}
    /\ boarded = [t \in Trucks |-> 0] /\ rushed = {} /\ changes = 0

-----------------------------------------------------------------------------
\* normalizeWeightToTons, and the CASE of the queries, which agrees with it.
Kilograms(w) == CASE w.unit = "kg" -> w.n
                  [] w.unit = "quintal" -> w.n * 100
                  [] OTHER -> w.n * 1000

Aboard(t) == {b \in Bookings : booking[b].truck = t /\ booking[b].status \in Active}
\* getActiveCargoWeight
Used(t) == MapThenSumSet(LAMBDA b : Kilograms(booking[b].order.load), Aboard(t))

Fits(t, size) == size \in {"any", Size[t]}

\* findNearby and findNearbyForBroadcast; drivers here are verified.
FindNearby(size) ==
    {t \in Trucks : /\ truck[t].status = "available" /\ driver[t].status = "available"
                    /\ driver[t].near /\ Fits(t, size)}

\* Bug: the load is compared with the capacity, not with what is left of it.
FindPartTrucksByCapacity(size, load) ==
    {t \in Trucks : /\ truck[t].part /\ truck[t].accepting /\ driver[t].near /\ Fits(t, size)
                    /\ \/ truck[t].status = "available"
                       \/ Capacity[t] # Unset /\ Capacity[t] >= Kilograms(load)}
\* findPartTruckCandidates: an idle truck whatever the load and whether or not its driver
\* is offline, a truck on a trip with room for the load.
FindPartTrucks(size, load) ==
    {t \in Trucks : /\ truck[t].part /\ truck[t].accepting /\ driver[t].near /\ Fits(t, size)
                    /\ \/ truck[t].status = "available"
                       \/ Capacity[t] # Unset /\ Capacity[t] - Used(t) >= Kilograms(load)}

\* Who is asked, by search_mode.
Candidates(b) == LET order == booking[b].order IN
    IF order.mode = "truck" THEN FindNearby(order.size) ELSE FindPartTrucks(order.size, order.load)

Offers(b, ts) == {[b |-> b, t |-> t, seen |-> boarded[t]] : t \in ts}

-----------------------------------------------------------------------------
\* createBooking takes the next number.
Create(b, order) ==
    /\ {a \in Bookings : booking[a].status = "none"} = {a \in Bookings : a >= b}
    /\ booking' = [booking EXCEPT ![b] = [status |-> "pending", order |-> order, truck |-> NoTruck]]
    /\ UNCHANGED <<people, offers, boarded, rushed>>

\* broadcastBooking when no truck has been asked, also later for a scheduled booking;
\* rebroadcastBooking passes over the trucks with a live request.
Broadcast(b) ==
    /\ booking[b].status = "pending"
    /\ offers' = offers \union Offers(b, Candidates(b) \ {o.t : o \in {o \in offers : o.b = b}})
    /\ UNCHANGED <<people, booking, boarded, rushed>>

\* requestTruckForBooking: the client takes one off the map of findNearby.
Pick(b, t) ==
    /\ booking[b].status = "pending" /\ truck[t].status = "available"
    /\ {o \in offers : o.b = b /\ o.t = t} = {}
    /\ offers' = offers \union Offers(b, {t})
    /\ UNCHANGED <<people, booking, boarded, rushed>>

Decline(o) ==
    /\ o \in offers /\ offers' = offers \ {o}
    /\ UNCHANGED <<people, booking, boarded, rushed>>

\* The gate of finalizeDriverRequest, to which the row it is given has no weight.
Passes(t) == truck[t].status = "on_trip" =>
    truck[t].part /\ truck[t].accepting /\ Capacity[t] # Unset /\ Capacity[t] >= Used(t)

Accept(o) ==
    /\ o \in offers /\ booking[o.b].status = "pending" /\ Passes(o.t)
    /\ booking' = [booking EXCEPT ![o.b].status = "assigned", ![o.b].truck = o.t]
    /\ truck' = [truck EXCEPT ![o.t].status = "on_trip"]
    /\ driver' = [driver EXCEPT ![o.t].status = "on_trip"]
    /\ offers' = {p \in offers : p.b # o.b}
    /\ boarded' = [boarded EXCEPT ![o.t] = @ + 1]
    /\ rushed' = IF o.seen # boarded[o.t] THEN rushed \union {o.b} ELSE rushed
    /\ UNCHANGED changes

\* updateTripStatus: what is delivered takes no room, and the last trip frees the truck.
Proceed(b, from, to) ==
    LET t == booking[b].truck
        last == to = "completed" /\ \A a \in Bookings \ {b} :
                   booking[a].truck = t => booking[a].status \in {"completed", "pending"}
    IN  /\ booking[b].status = from
        /\ booking' = [booking EXCEPT ![b].status = to]
        /\ truck' = IF last THEN [truck EXCEPT ![t].status = "available"] ELSE truck
        /\ driver' = IF last THEN [driver EXCEPT ![t].status = "available"] ELSE driver
        /\ UNCHANGED <<offers, boarded, rushed, changes>>

-----------------------------------------------------------------------------
Change == changes < MaxChanges /\ changes' = changes + 1 /\ UNCHANGED <<booking, offers, boarded, rushed>>

\* updateMyTruckMode, updateMyAcceptingLoads: at any time.
SetMode(t)      == Change /\ truck' = [truck EXCEPT ![t].part = ~@] /\ UNCHANGED driver
SetAccepting(t) == Change /\ truck' = [truck EXCEPT ![t].accepting = ~@] /\ UNCHANGED driver
\* updateDriverLocation; updateMyStatus without an active trip (Presence).
Drive(t)     == Change /\ driver' = [driver EXCEPT ![t].near = ~@] /\ UNCHANGED truck
GoOffline(t) == /\ Change /\ driver[t].status = "available"
                /\ driver' = [driver EXCEPT ![t].status = "offline"] /\ UNCHANGED truck

Next ==
    \/ \E b \in Bookings :
          \/ \E order \in Orders : Create(b, order)
          \/ Broadcast(b) \/ \E t \in Trucks : Pick(b, t)
          \/ Proceed(b, "assigned", "in_transit") \/ Proceed(b, "in_transit", "delivered")
          \/ Proceed(b, "delivered", "completed")
    \/ \E o \in offers : Accept(o) \/ Decline(o)
    \/ \E t \in Trucks : SetMode(t) \/ SetAccepting(t) \/ Drive(t) \/ GoOffline(t)

Spec == Init /\ [][Next]_vars
-----------------------------------------------------------------------------
\* A truck that shares its room is not overloaded by offers that were accepted as they were
\* found: only an offer made before another load boarded puts more on it than it carries,
\* or the first load of an idle truck, which nothing compares (findPartTruckCandidates).
RoomWasSeen ==
    \A t \in Trucks : Cardinality(Aboard(t)) > 1 /\ Aboard(t) \intersect rushed = {}
                      => Capacity[t] # Unset /\ Used(t) <= Capacity[t]
=============================================================================
