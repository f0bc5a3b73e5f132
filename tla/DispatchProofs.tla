--------------------------- MODULE DispatchProofs ---------------------------
(***************************************************************************)
(* What Dispatch guarantees whatever the bookings, trucks, drivers, loads  *)
(* and kinds of handler. For any number of handlers that interleave: the   *)
(* types, and that the last handler to end a trip of a driver gives him    *)
(* and the truck back. For handlers that run one at a time: drivers and    *)
(* bookings agree with the trips whenever no handler is under way.         *)
(***************************************************************************)
EXTENDS Dispatch, TLAPS

-----------------------------------------------------------------------------
(* Types                                                                   *)

\* What a task writes fits the column it is written to.
Fits(k) ==
    /\ k.op = "status" => k.to \in Statuses
    /\ k.op = "reassign" => k.to \in Statuses \union {"pending", "assigned"}
    /\ k.op = "presence" => k.to \in {"available", "offline"} /\ k.d \in Drivers
    /\ k.op \in {"finalize", "reassign"} => k.newD \in Drivers /\ k.newT \in Trucks

TasksOK ==
    /\ task \in [Workers -> Tasks \union {Idle}]
    /\ \A w \in Workers : task[w] # Idle =>
          task[w].at \in DOMAIN Flow[task[w].op] /\ Fits(task[w])

TypeInv == TypeOK /\ TasksOK

\* The columns of the tables.
RowsOK ==
    /\ booking \in [Bookings -> [status : Statuses \union {"pending", "assigned"},
                                 truck  : Trucks \union {NoTruck},
                                 driver : Drivers \union {NoDriver}]]
    /\ trip \in [Bookings -> [status : Statuses \union {"none"},
                              driver : Drivers \union {NoDriver},
                              id     : 0..MaxTrips]]
    /\ truckStatus \in [Trucks -> {"available", "on_trip"}]
    /\ shared \in [Trucks -> BOOLEAN]
    /\ driverStatus \in [Drivers -> {"available", "on_trip", "offline"}]
    /\ offers \subseteq [b : Bookings, t : Trucks, d : Drivers]

\* The type of the rows and the type of the tasks, in this state and the next.
LEMMA Split == (TypeInv <=> RowsOK /\ TasksOK) /\ (TypeInv' <=> RowsOK' /\ TasksOK')
  BY DEF TypeInv, TypeOK, RowsOK, TasksOK

\* The names of the handlers and how many phases each has.
LEMMA Lengths ==
    /\ DOMAIN Flow = {"finalize", "status", "cancel", "decline", "reassign", "presence"}
    /\ Len(Flow["finalize"]) = 7 /\ Len(Flow["status"]) = 5 /\ Len(Flow["cancel"]) = 7
    /\ Len(Flow["decline"]) = 5 /\ Len(Flow["reassign"]) = 7 /\ Len(Flow["presence"]) = 1
    /\ \A op \in DOMAIN Flow : Len(Flow[op]) \in 1..7 /\ DOMAIN Flow[op] = 1..Len(Flow[op])
  BY DEF Flow

\* The statuses by name.
LEMMA StatusNames ==
    /\ Statuses = {"confirmed", "en_route_pickup", "delivered", "completed", "cancelled"}
    /\ Over \subseteq Statuses /\ "none" \notin Statuses
  BY DEF Statuses, Moves, Over

\* A step of a handler says what the handler is and how far it has come.
LEMMA Phases ==
    ASSUME TypeInv, NEW w \in Workers, NEW p, At(w, p)
    PROVE  /\ task[w] \in Tasks /\ task[w] # Idle /\ Fits(task[w])
           /\ \E op \in DOMAIN Flow, at \in 1..7 :
                 /\ task[w].op = op /\ task[w].at = at
                 /\ p \in {"gate", "room", "claim", "insertTrip"} => op = "finalize"
                 /\ p = "gate" => at = 1
                 /\ p = "room" => at = 2
                 /\ p = "claim" => at = 3
                 /\ p = "declineOthers" => \/ op = "finalize" /\ at = 4
                                           \/ op = "cancel" /\ at = 2
                 /\ p = "takeTruck" => op \in {"finalize", "reassign"} /\ at = 5
                 /\ p = "takeDriver" => op \in {"finalize", "reassign"} /\ at = 6
                 /\ p = "insertTrip" => at = 7
                 /\ p \in {"setTrip", "setBooking"} => op = "status"
                 /\ p = "setTrip" => at = 1
                 /\ p = "setBooking" => at = 2
                 /\ p = "busy" => \/ op = "status" /\ at = 3
                                  \/ op = "cancel" /\ at = 5
                                  \/ op \in {"decline", "reassign"} /\ at = 1
                 /\ p = "freeDriver" => \/ op = "status" /\ at = 4
                                        \/ op = "cancel" /\ at = 6
                                        \/ op \in {"decline", "reassign"} /\ at = 2
                 /\ p = "freeTruck" => \/ op = "status" /\ at = 5
                                       \/ op = "cancel" /\ at = 7
                                       \/ op \in {"decline", "reassign"} /\ at = 3
                 /\ p \in {"cancelBooking", "findTrip", "cancelTrip"} => op = "cancel"
                 /\ p = "cancelBooking" => at = 1
                 /\ p = "findTrip" => at = 3
                 /\ p = "cancelTrip" => at = 4
                 /\ p \in {"unassign", "removeTrip"} => op = "decline"
                 /\ p = "unassign" => at = 4
                 /\ p = "removeTrip" => at = 5
                 /\ p \in {"rewrite", "swapDriver"} => op = "reassign"
                 /\ p = "rewrite" => at = 4
                 /\ p = "swapDriver" => at = 7
                 /\ p = "setStatus" => op = "presence" /\ at = 1
<1> DEFINE k == task[w]
<1>1. k \in Tasks /\ k # Idle /\ Fits(k) /\ k.at \in DOMAIN Flow[k.op] /\ Flow[k.op][k.at] = p
  BY DEF TypeInv, TasksOK, At
<1>2. k.op \in {"finalize", "status", "cancel", "decline", "reassign", "presence"}
      /\ k.op \in DOMAIN Flow /\ k.at \in 1..7
  BY <1>1, Lengths DEF Tasks
<1>3. CASE k.op = "finalize"
  BY <1>1, <1>2, <1>3 DEF Flow
<1>4. CASE k.op = "status"
  BY <1>1, <1>2, <1>4 DEF Flow
<1>5. CASE k.op = "cancel"
  BY <1>1, <1>2, <1>5 DEF Flow
<1>6. CASE k.op = "decline"
  BY <1>1, <1>2, <1>6 DEF Flow
<1>7. CASE k.op = "reassign"
  BY <1>1, <1>2, <1>7 DEF Flow
<1>8. CASE k.op = "presence"
  BY <1>1, <1>2, <1>8 DEF Flow
<1> QED BY <1>2, <1>3, <1>4, <1>5, <1>6, <1>7, <1>8

\* The task m is the task k, n phases further.
Onward(k, m, n) ==
    /\ m \in Tasks /\ m # Idle /\ Fits(m)
    /\ m.op = k.op /\ m.at = k.at + n /\ m.b = k.b /\ m.id = k.id /\ m.d = k.d
    /\ m.t = k.t /\ m.newD = k.newD /\ m.newT = k.newT /\ m.to = k.to

\* The other workers stay where they are; w ends or goes on as k.
LEMMA Going ==
    ASSUME TypeInv, NEW w \in Workers, NEW k \in Tasks, Fits(k), NEW n \in 1..3,
           GoesOnAs(w, k, n)
    PROVE  /\ TasksOK'
           /\ \A v \in Workers \ {w} : task'[v] = task[v]
           /\ IF k.at + n > Len(Flow[k.op]) THEN task'[w] = Idle ELSE Onward(k, task'[w], n)
<1> DEFINE next == [k EXCEPT !.at = k.at + n]
           len  == Len(Flow[k.op])
<1>1. k.op \in DOMAIN Flow /\ k.at \in 1..7
  BY DEF Tasks
<1>2. task' = [task EXCEPT ![w] = IF k.at + n > len THEN Idle ELSE next]
  BY DEF GoesOnAs
<1>3. len \in 1..7 /\ DOMAIN Flow[k.op] = 1..len
  BY <1>1, Lengths
<1>4. Idle.at = 0
  BY DEF Idle
<1> HIDE DEF len
<1>5. CASE k.at + n > len
  <2>1. task' = [task EXCEPT ![w] = Idle]
    BY <1>2, <1>5
  <2> QED BY <1>5, <2>1 DEF TypeInv, TasksOK, TypeOK, len
<1>6. CASE ~(k.at + n > len)
  <2>1. task' = [task EXCEPT ![w] = next]
    BY <1>2, <1>6
  <2>2. k.at + n \in 1..len /\ k.at + n \in 1..7
    BY <1>1, <1>3, <1>6
  <2>3. next \in Tasks
    BY <2>2 DEF Tasks
  <2>4. /\ next.op = k.op /\ next.at = k.at + n /\ next.b = k.b /\ next.id = k.id
        /\ next.d = k.d /\ next.t = k.t /\ next.newD = k.newD /\ next.newT = k.newT
        /\ next.to = k.to
    BY DEF Tasks
  <2> HIDE DEF next
  <2>5. Fits(next) /\ next # Idle
    BY <1>4, <2>2, <2>4 DEF Fits
  <2>6. next.at \in DOMAIN Flow[next.op]
    BY <1>3, <2>2, <2>4
  <2>7. Onward(k, next, n)
    BY <2>3, <2>4, <2>5 DEF Onward
  <2> QED BY <1>6, <2>1, <2>3, <2>5, <2>6, <2>7 DEF TypeInv, TasksOK, TypeOK, len
<1> QED BY <1>5, <1>6

\* A handler that ends leaves the others where they are.
LEMMA Ending ==
    ASSUME TypeInv, NEW w \in Workers, Ends(w)
    PROVE  TasksOK' /\ task'[w] = Idle /\ \A v \in Workers \ {w} : task'[v] = task[v]
  BY DEF TypeInv, TasksOK, Ends

\* A handler begins with its first phase.
LEMMA Beginning ==
    ASSUME TypeInv, NEW w \in Workers, NEW k \in Tasks, Fits(k), k.at = 1, Begin(w, k)
    PROVE  /\ TasksOK' /\ task[w] = Idle /\ task'[w] = k /\ k.op \in Handlers
           /\ \A v \in Workers \ {w} : task'[v] = task[v]
<1>1. task' = [task EXCEPT ![w] = k] /\ task[w] = Idle /\ k.op \in Handlers
  BY DEF Begin
<1>2. 1 \in DOMAIN Flow[k.op]
  BY Lengths DEF Tasks
<1> QED BY <1>1, <1>2 DEF TypeInv, TasksOK

\* The task a request makes of the rows it has read.
LEMMA NewTask ==
    ASSUME TypeInv, NEW op \in DOMAIN Flow, NEW b \in Bookings
    PROVE  /\ New(op, b) \in Tasks /\ New(op, b).op = op /\ New(op, b).at = 1
           /\ New(op, b).b = b /\ New(op, b).d = trip[b].driver
           /\ New(op, b).t = booking[b].truck /\ New(op, b).to = booking[b].status
           /\ New(op, b).newD = NoDriver /\ New(op, b).newT = NoTruck
  BY DEF New, Tasks, TypeInv, TypeOK

\* Initially every variable has its type.
LEMMA InitType == Init => TypeInv
<1> SUFFICES ASSUME Init PROVE TypeInv
  OBVIOUS
<1>1. RowsOK
  BY Limits, StatusNames DEF Init, RowsOK
<1>2. TasksOK
  BY DEF Init, TasksOK
<1> QED BY <1>1, <1>2, Split

-----------------------------------------------------------------------------
(* What each request starts                                                *)

\* The task of a request, by the handler it is of.
Started(w, k) ==
    /\ k \in Tasks /\ Fits(k) /\ k.at = 1 /\ Begin(w, k)
    /\ k.op = "finalize" => \E o \in offers : k.b = o.b /\ k.newD = o.d /\ k.newT = o.t
    /\ k.op = "status" => /\ trip[k.b].status # "none"
                          /\ k.d = trip[k.b].driver /\ k.t = booking[k.b].truck
    /\ k.op = "cancel" => k.d = booking[k.b].driver /\ k.t = booking[k.b].truck
    /\ k.op \in {"status", "cancel"} => k.newD = NoDriver /\ k.newT = NoTruck

\* Each request starts a task and touches no row besides its offer.
LEMMA Starting ==
    ASSUME TypeInv, NEW w \in Workers, Requests(w)
    PROVE  /\ \E k : Started(w, k)
           /\ UNCHANGED <<booking, trip, fleet>> /\ offers' \subseteq offers
<1> USE DEF Started
<1>1. ASSUME NEW o \in offers, Accept(w, o)
      PROVE  (\E k : Started(w, k)) /\ UNCHANGED <<booking, trip, fleet>> /\ offers' \subseteq offers
  <2> DEFINE k == [New("finalize", o.b) EXCEPT !.newD = o.d, !.newT = o.t]
  <2>1. o.b \in Bookings /\ o.t \in Trucks /\ o.d \in Drivers
    BY DEF TypeInv, TypeOK
  <2>2. New("finalize", o.b) \in Tasks /\ New("finalize", o.b).op = "finalize"
        /\ New("finalize", o.b).at = 1 /\ New("finalize", o.b).b = o.b
    BY <2>1, Lengths, NewTask
  <2>3. /\ k \in Tasks /\ k.op = "finalize" /\ k.at = 1 /\ k.b = o.b
        /\ k.newD = o.d /\ k.newT = o.t
    BY <2>1, <2>2 DEF Tasks
  <2>4. Begin(w, k)
    BY <1>1 DEF Accept
  <2> HIDE DEF k
  <2>5. Fits(k)
    BY <2>1, <2>3 DEF Fits
  <2>6. Started(w, k)
    BY <2>3, <2>4, <2>5
  <2> QED BY <1>1, <2>6 DEF Accept
<1>2. ASSUME NEW b \in Bookings, CancelRequest(w, b)
      PROVE  (\E k : Started(w, k)) /\ UNCHANGED <<booking, trip, fleet>> /\ offers' \subseteq offers
  <2> DEFINE k == [New("cancel", b) EXCEPT !.d = booking[b].driver, !.id = 0]
  <2>1. /\ New("cancel", b) \in Tasks /\ New("cancel", b).op = "cancel"
        /\ New("cancel", b).at = 1 /\ New("cancel", b).b = b
        /\ New("cancel", b).t = booking[b].truck
        /\ New("cancel", b).newD = NoDriver /\ New("cancel", b).newT = NoTruck
    BY Lengths, NewTask
  <2>2. booking[b].driver \in Drivers \union {NoDriver} /\ 0 \in 0..MaxTrips
    BY Limits DEF TypeInv, TypeOK
  <2>3. /\ k \in Tasks /\ k.op = "cancel" /\ k.at = 1 /\ k.b = b
        /\ k.d = booking[b].driver /\ k.t = booking[b].truck
        /\ k.newD = NoDriver /\ k.newT = NoTruck
    BY <2>1, <2>2 DEF Tasks
  <2>4. Begin(w, k)
    BY <1>2 DEF CancelRequest
  <2> HIDE DEF k
  <2>5. Fits(k)
    BY <2>3 DEF Fits
  <2>6. Started(w, k)
    BY <2>3, <2>4, <2>5
  <2> QED BY <1>2, <2>6 DEF CancelRequest
<1>3. ASSUME NEW b \in Bookings, DeclineRequest(w, b)
      PROVE  (\E k : Started(w, k)) /\ UNCHANGED <<booking, trip, fleet>> /\ offers' \subseteq offers
  <2> DEFINE k == New("decline", b)
  <2>1. k \in Tasks /\ k.op = "decline" /\ k.at = 1
    BY Lengths, NewTask
  <2>2. Begin(w, k)
    BY <1>3 DEF DeclineRequest
  <2> HIDE DEF k
  <2>3. Fits(k)
    BY <2>1 DEF Fits
  <2>4. Started(w, k)
    BY <2>1, <2>2, <2>3
  <2> QED BY <1>3, <2>4 DEF DeclineRequest
<1>4. ASSUME NEW b \in Bookings, NEW s \in Statuses, StatusRequest(w, b, s)
      PROVE  (\E k : Started(w, k)) /\ UNCHANGED <<booking, trip, fleet>> /\ offers' \subseteq offers
  <2> DEFINE k == [New("status", b) EXCEPT !.to = s]
  <2>1. /\ New("status", b) \in Tasks /\ New("status", b).op = "status"
        /\ New("status", b).at = 1 /\ New("status", b).b = b
        /\ New("status", b).d = trip[b].driver /\ New("status", b).t = booking[b].truck
        /\ New("status", b).newD = NoDriver /\ New("status", b).newT = NoTruck
    BY Lengths, NewTask
  <2>2. /\ k \in Tasks /\ k.op = "status" /\ k.at = 1 /\ k.b = b /\ k.to = s
        /\ k.d = trip[b].driver /\ k.t = booking[b].truck
        /\ k.newD = NoDriver /\ k.newT = NoTruck
    BY <2>1 DEF Tasks
  <2>3. Begin(w, k) /\ trip[b].status # "none"
    BY <1>4 DEF StatusRequest
  <2> HIDE DEF k
  <2>4. Fits(k)
    BY <2>2 DEF Fits
  <2>5. Started(w, k)
    BY <2>2, <2>3, <2>4
  <2> QED BY <1>4, <2>5 DEF StatusRequest
<1>5. ASSUME NEW b \in Bookings, NEW t \in Trucks, NEW d \in Drivers, ReassignRequest(w, b, t, d)
      PROVE  (\E k : Started(w, k)) /\ UNCHANGED <<booking, trip, fleet>> /\ offers' \subseteq offers
  <2> DEFINE k == [New("reassign", b) EXCEPT !.d = booking[b].driver, !.newD = d, !.newT = t]
  <2>1. /\ New("reassign", b) \in Tasks /\ New("reassign", b).op = "reassign"
        /\ New("reassign", b).at = 1 /\ New("reassign", b).to = booking[b].status
    BY Lengths, NewTask
  <2>2. /\ booking[b].driver \in Drivers \union {NoDriver}
        /\ booking[b].status \in Statuses \union {"pending", "assigned"}
    BY DEF TypeInv, TypeOK
  <2>3. /\ k \in Tasks /\ k.op = "reassign" /\ k.at = 1 /\ k.newD = d /\ k.newT = t
        /\ k.to = booking[b].status
    BY <2>1, <2>2 DEF Tasks
  <2>4. Begin(w, k)
    BY <1>5 DEF ReassignRequest
  <2> HIDE DEF k
  <2>5. Fits(k)
    BY <2>2, <2>3 DEF Fits
  <2>6. Started(w, k)
    BY <2>3, <2>4, <2>5
  <2> QED BY <1>5, <2>6 DEF ReassignRequest
<1>6. ASSUME NEW d \in Drivers, NEW s \in {"available", "offline"}, NEW b \in Bookings,
             Begin(w, [New("presence", b) EXCEPT !.d = d, !.to = s])
      PROVE  \E k : Started(w, k)
  <2> DEFINE k == [New("presence", b) EXCEPT !.d = d, !.to = s]
  <2>1. /\ New("presence", b) \in Tasks /\ New("presence", b).op = "presence"
        /\ New("presence", b).at = 1
    BY Lengths, NewTask
  <2>2. k \in Tasks /\ k.op = "presence" /\ k.at = 1 /\ k.d = d /\ k.to = s
    BY <2>1 DEF Tasks
  <2>3. Begin(w, k)
    BY <1>6
  <2> HIDE DEF k
  <2>4. Fits(k)
    BY <2>2 DEF Fits
  <2> QED BY <2>2, <2>3, <2>4
<1>7. ASSUME NEW d \in Drivers,
             OfflineRequest(w, d) \/ \E s \in {"available", "offline"} : ToggleRequest(w, d, s)
      PROVE  (\E k : Started(w, k)) /\ UNCHANGED <<booking, trip, fleet>> /\ offers' \subseteq offers
  <2>1. PICK s \in {"available", "offline"}, b \in Bookings :
             Begin(w, [New("presence", b) EXCEPT !.d = d, !.to = s])
    BY <1>7 DEF OfflineRequest, ToggleRequest
  <2>2. UNCHANGED <<booking, trip, fleet, offers>>
    BY <1>7 DEF OfflineRequest, ToggleRequest
  <2> HIDE DEF Started
  <2> QED BY <1>6, <2>1, <2>2
<1> HIDE DEF Started
<1> QED BY <1>1, <1>2, <1>3, <1>4, <1>5, <1>7 DEF Requests

-----------------------------------------------------------------------------
(* What each query does to the task                                        *)

\* A query ends its task or moves it on; only findTrip reads rows again.
LEMMA Moving ==
    ASSUME TypeInv, NEW w \in Workers, Steps(w)
    PROVE  /\ TasksOK'
           /\ task[w] \in Tasks /\ task[w] # Idle
           /\ \A v \in Workers \ {w} : task'[v] = task[v]
           /\ \/ task'[w] = Idle
              \/ /\ ~FindTrip(w)
                 /\ \/ Onward(task[w], task'[w], 1)
                    \/ Gate(w) /\ Onward(task[w], task'[w], 2)
                    \/ Busy(w) /\ Onward(task[w], task'[w], 3)
              \/ /\ FindTrip(w) /\ task'[w].op = "cancel"
                 /\ task'[w].newD = task[w].newD /\ task'[w].newT = task[w].newT
                 /\ \/ task'[w].at = 5 /\ task'[w].d = task[w].d /\ task'[w].t = task[w].t
                    \/ /\ task'[w].at = 4 /\ task'[w].b = task[w].b
                       /\ trip[task[w].b].status # "none"
                       /\ task'[w].d = trip[task[w].b].driver
                       /\ task'[w].t = booking[task[w].b].truck
<1> DEFINE k == task[w]
<1>1. k \in Tasks /\ k # Idle /\ Fits(k)
  BY Phases DEF Steps, Finalize, Gate, Room, Claim, DeclineOthers, TakeTruck, TakeDriver,
     InsertTrip, Release, Busy, FreeDriver, FreeTruck, UpdateTripStatus, SetTrip,
     SetBooking, CancelBooking, CancelWrite, FindTrip, CancelTrip, DeclineTrip, Unassign,
     RemoveTrip, Reassign, Rewrite, SwapDriver, SetStatus
<1>2. CASE FindTrip(w)
  <2>1. At(w, "findTrip")
    BY <1>2 DEF FindTrip
  <2>2. k.op = "cancel" /\ k.at = 3 /\ Len(Flow["cancel"]) = 7
    BY <2>1, Phases, Lengths
  <2>3. CASE trip[k.b].status = "none"
    <3>1. GoesOnAs(w, k, 2)
      BY <1>2, <2>3 DEF FindTrip
    <3>2. /\ TasksOK' /\ \A v \in Workers \ {w} : task'[v] = task[v]
          /\ IF k.at + 2 > Len(Flow[k.op]) THEN task'[w] = Idle ELSE Onward(k, task'[w], 2)
      BY <1>1, <3>1, Going
    <3>3. Onward(k, task'[w], 2)
      BY <2>2, <3>2
    <3> QED BY <1>1, <1>2, <2>2, <3>2, <3>3 DEF Onward
  <2>4. CASE trip[k.b].status # "none"
    <3> DEFINE m == [k EXCEPT !.id = trip[k.b].id, !.d = trip[k.b].driver,
                              !.t = booking[k.b].truck]
    <3>1. GoesOnAs(w, m, 1)
      BY <1>2, <2>4 DEF FindTrip
    <3>2. /\ trip[k.b].id \in 0..MaxTrips /\ trip[k.b].driver \in Drivers \union {NoDriver}
          /\ booking[k.b].truck \in Trucks \union {NoTruck}
      BY <1>1 DEF Tasks, TypeInv, TypeOK
    <3>3. m \in Tasks /\ m.op = "cancel" /\ m.at = 3 /\ m.b = k.b
          /\ m.d = trip[k.b].driver /\ m.t = booking[k.b].truck
          /\ m.newD = k.newD /\ m.newT = k.newT
      BY <1>1, <2>2, <3>2 DEF Tasks
    <3> HIDE DEF m
    <3>4. Fits(m)
      BY <3>3 DEF Fits
    <3>5. /\ TasksOK' /\ \A v \in Workers \ {w} : task'[v] = task[v]
          /\ IF m.at + 1 > Len(Flow[m.op]) THEN task'[w] = Idle ELSE Onward(m, task'[w], 1)
      BY <3>1, <3>3, <3>4, Going
    <3>6. Onward(m, task'[w], 1)
      <4>1. Flow[m.op] = Flow["cancel"] /\ m.at + 1 = 4
        BY <3>3
      <4>3. Len(Flow[m.op]) = 7
        BY <2>2, <4>1
      <4>2. ~(m.at + 1 > Len(Flow[m.op]))
        BY <4>1, <4>3
      <4> QED BY <3>5, <4>2
    <3> QED BY <1>1, <1>2, <2>4, <3>3, <3>5, <3>6 DEF Onward
  <2> QED BY <2>3, <2>4
<1>3. CASE ~FindTrip(w)
  <2>1. Ends(w) \/ GoesOnAs(w, k, 1) \/ (Gate(w) /\ GoesOnAs(w, k, 2))
        \/ (Busy(w) /\ GoesOnAs(w, k, 3))
    BY <1>3 DEF Steps, Finalize, Gate, Room, Claim, DeclineOthers, TakeTruck, TakeDriver,
       InsertTrip, Release, Busy, FreeDriver, FreeTruck, UpdateTripStatus, SetTrip,
       SetBooking, CancelBooking, CancelWrite, CancelTrip, DeclineTrip, Unassign,
       RemoveTrip, Reassign, Rewrite, SwapDriver, SetStatus, GoesOn
  <2>2. CASE Ends(w)
    BY <1>1, <2>2, Ending
  <2>3. ASSUME NEW n \in 1..3, GoesOnAs(w, k, n)
        PROVE  /\ TasksOK' /\ \A v \in Workers \ {w} : task'[v] = task[v]
               /\ task'[w] = Idle \/ Onward(k, task'[w], n)
    BY <1>1, <2>3, Going
  <2>4. 1 \in 1..3 /\ 2 \in 1..3 /\ 3 \in 1..3
    OBVIOUS
  <2> QED BY <1>1, <1>3, <2>1, <2>2, <2>3, <2>4
<1> QED BY <1>2, <1>3

\* What each query writes fits its column.
LEMMA StepRows ==
    ASSUME TypeInv, NEW w \in Workers, Steps(w)
    PROVE  RowsOK'
<1> DEFINE k == task[w]
<1> USE DEF RowsOK, fleet
<1>1. RowsOK /\ k \in Tasks /\ k # Idle /\ Fits(k)
  BY Split, Moving DEF TasksOK
<1>2. k.b \in Bookings
  BY <1>1 DEF Tasks
<1>3. CASE Claim(w)
  <2>1. k.newT \in Trucks /\ k.newD \in Drivers
    BY <1>1, <1>3, Phases DEF Claim, Fits
  <2>2. booking' = booking \/ booking' = [booking EXCEPT ![k.b] =
                       [status |-> "assigned", truck |-> k.newT, driver |-> k.newD]]
    BY <1>3 DEF Claim
  <2>3. UNCHANGED <<trip, fleet, offers>>
    BY <1>3 DEF Claim
  <2> QED BY <1>1, <1>2, <2>1, <2>2, <2>3
<1>4. CASE DeclineOthers(w)
  <2>1. offers' \subseteq offers /\ UNCHANGED <<booking, trip, fleet>>
    BY <1>4 DEF DeclineOthers
  <2> QED BY <1>1, <2>1
<1>5. CASE TakeTruck(w)
  <2>1. /\ truckStatus' = [truckStatus EXCEPT ![k.newT] = "on_trip"]
        /\ UNCHANGED <<booking, trip, shared, driverStatus, offers>>
    BY <1>5 DEF TakeTruck
  <2> QED BY <1>1, <2>1
<1>6. CASE TakeDriver(w) \/ FreeDriver(w) \/ SetStatus(w)
  <2>1. UNCHANGED <<booking, trip, shared, truckStatus, offers>>
    BY <1>6 DEF TakeDriver, FreeDriver, SetStatus
  <2>2. SetStatus(w) => k.to \in {"available", "offline"}
    BY <1>1, Phases DEF SetStatus, Fits
  <2>3. \/ driverStatus' = driverStatus
        \/ \E x \in {"available", "on_trip", "offline"}, d \in Drivers \union {NoDriver} :
              driverStatus' = [driverStatus EXCEPT ![d] = x]
    <3>1. k.d \in Drivers \union {NoDriver} /\ k.newD \in Drivers \union {NoDriver}
      BY <1>1 DEF Tasks
    <3> QED BY <1>6, <2>2, <3>1 DEF TakeDriver, FreeDriver, SetStatus
  <2> QED BY <1>1, <2>1, <2>3
<1>7. CASE InsertTrip(w)
  <2>1. k.newD \in Drivers
    BY <1>1, <1>7, Phases DEF InsertTrip, Fits
  <2>2. trip[k.b].id < MaxTrips => trip[k.b].id + 1 \in 0..MaxTrips
    BY <1>1, <1>2, Limits
  <2>3. \/ trip' = trip
        \/ /\ trip[k.b].id < MaxTrips
           /\ trip' = [trip EXCEPT ![k.b] = [status |-> "confirmed", driver |-> k.newD,
                                             id |-> trip[k.b].id + 1]]
    BY <1>7 DEF InsertTrip
  <2>4. UNCHANGED <<booking, fleet, offers>>
    BY <1>7 DEF InsertTrip
  <2> QED BY <1>1, <1>2, <2>1, <2>2, <2>3, <2>4, StatusNames
<1>8. CASE FreeTruck(w)
  <2>1. \/ truckStatus' = truckStatus
        \/ truckStatus' = [truckStatus EXCEPT ![k.t] = "available"]
    BY <1>8 DEF FreeTruck
  <2>2. UNCHANGED <<booking, trip, shared, driverStatus, offers>>
    BY <1>8 DEF FreeTruck
  <2> QED BY <1>1, <2>1, <2>2
<1>9. CASE SetTrip(w) \/ CancelTrip(w)
  <2>1. k.op = "status" => k.to \in Statuses
    BY <1>1 DEF Fits
  <2>2. SetTrip(w) => k.op = "status"
    BY Phases DEF SetTrip
  <2>3. \/ trip' = trip
        \/ \E s \in Statuses : trip' = [trip EXCEPT ![k.b].status = s]
    BY <1>9, <2>1, <2>2, StatusNames DEF SetTrip, CancelTrip
  <2>4. UNCHANGED <<booking, fleet, offers>>
    BY <1>9 DEF SetTrip, CancelTrip
  <2>5. trip' \in [Bookings -> [status : Statuses \union {"none"},
                                  driver : Drivers \union {NoDriver},
                                  id     : 0..MaxTrips]]
    <3>1. CASE trip' = trip
      BY <1>1, <3>1
    <3>2. ASSUME NEW s \in Statuses, trip' = [trip EXCEPT ![k.b].status = s]
          PROVE  trip' \in [Bookings -> [status : Statuses \union {"none"},
                                         driver : Drivers \union {NoDriver},
                                         id     : 0..MaxTrips]]
      <4>1. [trip[k.b] EXCEPT !.status = s] \in
               [status : Statuses \union {"none"}, driver : Drivers \union {NoDriver},
                id : 0..MaxTrips]
        BY <1>1, <1>2
      <4>2. trip' = [trip EXCEPT ![k.b] = [trip[k.b] EXCEPT !.status = s]]
        BY <3>2
      <4> QED BY <1>1, <4>1, <4>2
    <3> QED BY <2>3, <3>1, <3>2
  <2> QED BY <1>1, <2>4, <2>5
<1>10. CASE SetBooking(w) \/ CancelWrite(w)
  <2>1. k.op = "status" => k.to \in Statuses
    BY <1>1 DEF Fits
  <2>2. SetBooking(w) => k.op = "status"
    BY Phases DEF SetBooking
  <2>3. \E s \in Statuses : booking' = [booking EXCEPT ![k.b].status = s]
    BY <1>10, <2>1, <2>2, StatusNames DEF SetBooking, CancelWrite
  <2>4. UNCHANGED <<trip, fleet, offers>>
    BY <1>10 DEF SetBooking, CancelWrite
  <2> QED BY <1>1, <1>2, <2>3, <2>4
<1>11. CASE Unassign(w) \/ Rewrite(w)
  <2>1. Rewrite(w) => /\ k.to \in Statuses \union {"pending", "assigned"}
                      /\ k.newD \in Drivers /\ k.newT \in Trucks
    BY <1>1, Phases DEF Rewrite, Fits
  <2>2. \E s \in Statuses \union {"pending", "assigned"}, t \in Trucks \union {NoTruck},
           d \in Drivers \union {NoDriver} :
           booking' = [booking EXCEPT ![k.b] = [status |-> s, truck |-> t, driver |-> d]]
    BY <1>11, <2>1, StatusNames DEF Unassign, Rewrite
  <2>3. UNCHANGED <<trip, fleet, offers>>
    BY <1>11 DEF Unassign, Rewrite
  <2> QED BY <1>1, <1>2, <2>2, <2>3
<1>12. CASE RemoveTrip(w)
  <2>1. \/ trip' = trip
        \/ trip' = [trip EXCEPT ![k.b].status = "none", ![k.b].driver = NoDriver]
    BY <1>12 DEF RemoveTrip
  <2>2. UNCHANGED <<booking, fleet, offers>>
    BY <1>12 DEF RemoveTrip
  <2> QED BY <1>1, <2>1, <2>2
<1>13. CASE SwapDriver(w)
  <2>1. k.newD \in Drivers
    BY <1>1, <1>13, Phases DEF SwapDriver, Fits
  <2>2. trip' = trip \/ trip' = [trip EXCEPT ![k.b].driver = k.newD]
    BY <1>13 DEF SwapDriver
  <2>3. UNCHANGED <<booking, fleet, offers>>
    BY <1>13 DEF SwapDriver
  <2>4. trip' \in [Bookings -> [status : Statuses \union {"none"},
                                  driver : Drivers \union {NoDriver},
                                  id     : 0..MaxTrips]]
    BY <1>1, <2>1, <2>2
  <2> QED BY <1>1, <2>3, <2>4
<1>14. CASE Gate(w) \/ Room(w) \/ Busy(w) \/ FindTrip(w)
  <2>1. UNCHANGED <<booking, trip, fleet, offers>>
    BY <1>14 DEF Gate, Room, Busy, FindTrip
  <2> QED BY <1>1, <2>1
<1> QED BY <1>3, <1>4, <1>5, <1>6, <1>7, <1>8, <1>9, <1>10, <1>11, <1>12, <1>13, <1>14
   DEF Steps, Finalize, Release, UpdateTripStatus, CancelBooking, DeclineTrip, Reassign

\* Every step keeps the types.
LEMMA NextType == TypeInv /\ [Next]_vars => TypeInv'
<1> SUFFICES ASSUME TypeInv, [Next]_vars PROVE TypeInv'
  OBVIOUS
<1>1. RowsOK /\ TasksOK
  BY Split
<1>2. ASSUME UNCHANGED task, RowsOK' PROVE TypeInv'
  BY <1>1, <1>2, Split DEF TasksOK
<1>3. ASSUME NEW b \in Bookings, NEW t \in Trucks,
             OfferDirect(b, t) \/ \E d \in Drivers : OfferByBroker(b, t, d)
      PROVE  TypeInv'
  <2>1. \E d \in Drivers : offers' = offers \union {[b |-> b, t |-> t, d |-> d]}
    BY <1>3, Fleet DEF OfferDirect, OfferByBroker
  <2>2. UNCHANGED <<booking, trip, fleet, task>>
    BY <1>3 DEF OfferDirect, OfferByBroker
  <2>3. RowsOK'
    BY <1>1, <2>1, <2>2 DEF RowsOK, fleet
  <2> QED BY <1>2, <2>2, <2>3
<1>4. ASSUME NEW w \in Workers, Requests(w) PROVE TypeInv'
  <2>1. /\ \E k : Started(w, k)
        /\ UNCHANGED <<booking, trip, fleet>> /\ offers' \subseteq offers
    BY <1>4, Starting
  <2>2. TasksOK'
    BY <2>1, Beginning DEF Started
  <2>3. RowsOK'
    BY <1>1, <2>1 DEF RowsOK, fleet
  <2> QED BY <2>2, <2>3, Split
<1>5. ASSUME NEW w \in Workers, Steps(w) PROVE TypeInv'
  BY <1>5, Moving, StepRows, Split
<1>6. ASSUME NEW d \in Drivers, Ping(d) PROVE TypeInv'
  <2>1. RowsOK' /\ UNCHANGED task
    BY <1>1, <1>6 DEF Ping, RowsOK
  <2> QED BY <1>2, <2>1
<1>7. ASSUME NEW t \in Trucks, Share(t) PROVE TypeInv'
  <2>1. RowsOK' /\ UNCHANGED task
    BY <1>1, <1>7 DEF Share, RowsOK
  <2> QED BY <1>2, <2>1
<1>8. CASE UNCHANGED vars
  <2>1. RowsOK' /\ UNCHANGED task
    BY <1>1, <1>8 DEF vars, fleet, RowsOK
  <2> QED BY <1>2, <2>1
<1> QED BY <1>3, <1>4, <1>5, <1>6, <1>7, <1>8 DEF Next

\* Every row and task of the fleet keeps its type.
THEOREM DispatchTyped == Spec => []TypeOK
<1>1. TypeInv => TypeOK
  BY DEF TypeInv
<1> QED BY <1>1, InitType, NextType, PTL DEF Spec

-----------------------------------------------------------------------------
(* Crews                                                                   *)

\* The bookings go to drivers directly, and nobody hands a trip back or on.
DirectOnly == Brokered = {} /\ Handlers \intersect {"decline", "reassign"} = {}

\* A driver has one truck.
OwnTruck == \A s, t \in Trucks : Crew[s] = Crew[t] => s = t

\* A finalize that has won the booking and has not inserted the trip yet.
Claimed(w) == task[w].op = "finalize" /\ task[w].at > 3

\* A handler that is to end the trip it has read, or has ended it.
Reading(w) == task[w].op = "status" \/ (task[w].op = "cancel" /\ task[w].at = 4)

\* Who drives which truck, for a booking, a trip and whoever is about to write
\* one; and that a booking has one trip, of the truck and driver that claimed it.
CrewInv ==
    /\ \A w \in Workers : task[w].op \notin {"decline", "reassign"}
    /\ \A o \in offers : o.d = Crew[o.t]
    /\ \A b \in Bookings :
          /\ booking[b].truck \in Trucks => booking[b].driver = Crew[booking[b].truck]
          /\ trip[b].status # "none" => /\ booking[b].truck \in Trucks
                                        /\ trip[b].driver = Crew[booking[b].truck]
                                        /\ booking[b].status # "pending"
    /\ \A w \in Workers : task[w].op = "finalize" => task[w].newD = Crew[task[w].newT]
    /\ \A w \in Workers : Claimed(w) => /\ trip[task[w].b].status = "none"
                                        /\ booking[task[w].b].status # "pending"
                                        /\ booking[task[w].b].truck = task[w].newT
    /\ \A v, w \in Workers : Claimed(v) /\ Claimed(w) /\ task[v].b = task[w].b => v = w
    /\ \A w \in Workers : Reading(w) => /\ trip[task[w].b].status # "none"
                                        /\ task[w].d = trip[task[w].b].driver
                                        /\ task[w].t = booking[task[w].b].truck
    /\ \A w \in Workers : task[w].op \in {"status", "cancel"} =>
          /\ task[w].t \in Trucks => task[w].d = Crew[task[w].t]
          /\ task[w].newD = NoDriver /\ task[w].newT = NoTruck

\* Only the claim wins a booking, only findTrip reads a trip.
LEMMA Forward ==
    ASSUME TypeInv, NEW w \in Workers, Steps(w), ~FindTrip(w)
    PROVE  /\ Claimed(w)' => Claimed(w) \/ Claim(w)
           /\ Reading(w)' => Reading(w)
<1> DEFINE k == task[w]
           m == task'[w]
<1>1. k \in Tasks /\ k.at \in 1..7
  BY Moving DEF Tasks
<1>2. \/ m = Idle
      \/ Onward(k, m, 1)
      \/ Gate(w) /\ Onward(k, m, 2)
      \/ Busy(w) /\ Onward(k, m, 3)
  BY Moving
<1>3. Idle.op \notin {"finalize", "status", "cancel"}
  BY DEF Idle
<1>4. Gate(w) => k.op = "finalize" /\ k.at = 1
  BY Phases DEF Gate
<1>5. Busy(w) => k.op # "finalize" /\ (k.op = "cancel" => k.at = 5)
  BY Phases DEF Busy
<1>6. k.op = "finalize" /\ k.at = 3 => Claim(w)
  <2>1. k.op = "finalize" /\ k.at = 3 => Flow[k.op][k.at] = "claim"
    BY DEF Flow
  <2> QED BY <2>1 DEF At, Steps, Finalize, Gate, Room, Claim, DeclineOthers, TakeTruck,
       TakeDriver, InsertTrip, Release, Busy, FreeDriver, FreeTruck, UpdateTripStatus,
       SetTrip, SetBooking, CancelBooking, CancelWrite, FindTrip, CancelTrip, DeclineTrip,
       Unassign, RemoveTrip, Reassign, Rewrite, SwapDriver, SetStatus
<1>7. ~(k.op = "cancel" /\ k.at = 3)
  <2>1. k.op = "cancel" /\ k.at = 3 => Flow[k.op][k.at] = "findTrip"
    BY DEF Flow
  <2> QED BY <2>1 DEF At, Steps, Finalize, Gate, Room, Claim, DeclineOthers, TakeTruck,
       TakeDriver, InsertTrip, Release, Busy, FreeDriver, FreeTruck, UpdateTripStatus,
       SetTrip, SetBooking, CancelBooking, CancelWrite, FindTrip, CancelTrip, DeclineTrip,
       Unassign, RemoveTrip, Reassign, Rewrite, SwapDriver, SetStatus
<1> HIDE DEF k, m
<1>8. m.op = "finalize" /\ m.at > 3 => k.op = "finalize" /\ (k.at > 3 \/ k.at = 3)
  BY <1>1, <1>2, <1>3, <1>4, <1>5 DEF Onward
<1>9. m.op = "status" => k.op = "status"
  BY <1>2, <1>3 DEF Onward
<1>10. m.op = "cancel" /\ m.at = 4 => k.op = "cancel" /\ k.at = 4
  BY <1>1, <1>2, <1>3, <1>4, <1>5, <1>7 DEF Onward
<1> QED BY <1>6, <1>8, <1>9, <1>10 DEF Claimed, Reading, k, m

\* A step that changes no crew, trip or claim keeps the invariant.
LEMMA CrewsStay ==
    ASSUME CrewInv, offers' \subseteq offers,
           \A b \in Bookings :
              /\ booking'[b].truck = booking[b].truck
              /\ booking'[b].driver = booking[b].driver
              /\ booking'[b].status = "pending" => booking[b].status = "pending"
              /\ trip'[b].status = "none" <=> trip[b].status = "none"
              /\ trip'[b].driver = trip[b].driver,
           task \in [Workers -> Tasks \union {Idle}],
           \A v \in Workers :
              \/ task'[v] = task[v] \/ task'[v] = Idle
              \/ /\ \E n \in 1..3 : Onward(task[v], task'[v], n)
                 /\ task[v] \in Tasks
                 /\ Claimed(v)' => Claimed(v)
                 /\ Reading(v)' => Reading(v)
    PROVE  CrewInv'
<1>1. Idle.op \notin {"finalize", "status", "cancel", "decline", "reassign"}
  BY DEF Idle
<1>2. \A v \in Workers : Claimed(v)' => Claimed(v)
  BY <1>1 DEF Claimed
<1>3. \A v \in Workers : Reading(v)' => Reading(v)
  BY <1>1 DEF Reading
<1>4. \A v \in Workers : \/ task'[v] = Idle
                         \/ /\ task'[v].op = task[v].op /\ task'[v].b = task[v].b
                            /\ task'[v].d = task[v].d /\ task'[v].t = task[v].t
                            /\ task'[v].newD = task[v].newD /\ task'[v].newT = task[v].newT
  BY DEF Onward
<1>5. \A v \in Workers : task[v].op # "none" => task[v].b \in Bookings
  BY DEF Tasks, Idle
<1>6. \A v \in Workers : Claimed(v)' \/ Reading(v)' =>
         /\ task'[v].b = task[v].b /\ task[v].b \in Bookings
         /\ task'[v].d = task[v].d /\ task'[v].t = task[v].t /\ task'[v].newT = task[v].newT
  BY <1>1, <1>2, <1>3, <1>4, <1>5 DEF Claimed, Reading
<1>7. \A v \in Workers : task'[v].op \notin {"decline", "reassign"}
  BY <1>1, <1>4 DEF CrewInv
<1>8. \A o \in offers' : o.d = Crew[o.t]
  BY DEF CrewInv
<1>9. \A b \in Bookings :
          /\ booking'[b].truck \in Trucks => booking'[b].driver = Crew[booking'[b].truck]
          /\ trip'[b].status # "none" => /\ booking'[b].truck \in Trucks
                                         /\ trip'[b].driver = Crew[booking'[b].truck]
                                         /\ booking'[b].status # "pending"
  BY DEF CrewInv
<1>10. \A v \in Workers : task'[v].op = "finalize" => task'[v].newD = Crew[task'[v].newT]
  BY <1>1, <1>4 DEF CrewInv
<1>11. \A v \in Workers : Claimed(v)' => /\ trip'[task'[v].b].status = "none"
                                         /\ booking'[task'[v].b].status # "pending"
                                         /\ booking'[task'[v].b].truck = task'[v].newT
  BY <1>2, <1>6 DEF CrewInv
<1>12. \A u, v \in Workers : Claimed(u)' /\ Claimed(v)' /\ task'[u].b = task'[v].b => u = v
  BY <1>2, <1>6 DEF CrewInv
<1>13. \A v \in Workers : Reading(v)' => /\ trip'[task'[v].b].status # "none"
                                         /\ task'[v].d = trip'[task'[v].b].driver
                                         /\ task'[v].t = booking'[task'[v].b].truck
  BY <1>3, <1>6 DEF CrewInv
<1>14. \A v \in Workers : task'[v].op \in {"status", "cancel"} =>
          /\ task'[v].t \in Trucks => task'[v].d = Crew[task'[v].t]
          /\ task'[v].newD = NoDriver /\ task'[v].newT = NoTruck
  BY <1>1, <1>4 DEF CrewInv
<1> QED BY <1>7, <1>8, <1>9, <1>10, <1>11, <1>12, <1>13, <1>14 DEF CrewInv

\* A request starts from rows that agree.
LEMMA CrewRequest ==
    ASSUME DirectOnly, TypeInv, CrewInv, NEW w \in Workers, Requests(w)
    PROVE  CrewInv'
<1>1. PICK k : Started(w, k)
  BY Starting
<1>2. UNCHANGED <<booking, trip>> /\ offers' \subseteq offers
  BY Starting
<1>3. /\ task[w] = Idle /\ task'[w] = k /\ k.op \in Handlers /\ k \in Tasks /\ k.at = 1
      /\ \A v \in Workers \ {w} : task'[v] = task[v]
  BY <1>1, Beginning DEF Started
<1>4. ~Claimed(w)' /\ (Reading(w)' => k.op = "status")
  BY <1>3 DEF Claimed, Reading
<1>5. k.op \notin {"decline", "reassign"}
  BY <1>3 DEF DirectOnly
<1>6. k.b \in Bookings
  BY <1>3 DEF Tasks
<1>7. k.op = "finalize" => k.newD = Crew[k.newT]
  BY <1>1 DEF Started, CrewInv
<1>8. k.op = "status" => /\ trip[k.b].status # "none"
                         /\ k.d = trip[k.b].driver /\ k.t = booking[k.b].truck
  BY <1>1 DEF Started
<1>9. k.op \in {"status", "cancel"} => /\ k.t \in Trucks => k.d = Crew[k.t]
                                       /\ k.newD = NoDriver /\ k.newT = NoTruck
  BY <1>1, <1>6, <1>8 DEF Started, CrewInv
<1>10. \A v \in Workers \ {w} : (Claimed(v)' <=> Claimed(v)) /\ (Reading(v)' <=> Reading(v))
  BY <1>3 DEF Claimed, Reading
<1>11. \A v \in Workers : task'[v].op \notin {"decline", "reassign"}
  BY <1>3, <1>5 DEF CrewInv
<1>12. \A v \in Workers : task'[v].op = "finalize" => task'[v].newD = Crew[task'[v].newT]
  BY <1>3, <1>7 DEF CrewInv
<1>13. \A v \in Workers : Claimed(v)' => /\ trip'[task'[v].b].status = "none"
                                         /\ booking'[task'[v].b].status # "pending"
                                         /\ booking'[task'[v].b].truck = task'[v].newT
  BY <1>2, <1>3, <1>4, <1>10 DEF CrewInv
<1>14. \A u, v \in Workers : Claimed(u)' /\ Claimed(v)' /\ task'[u].b = task'[v].b => u = v
  BY <1>3, <1>4, <1>10 DEF CrewInv
<1>15. \A v \in Workers : Reading(v)' => /\ trip'[task'[v].b].status # "none"
                                         /\ task'[v].d = trip'[task'[v].b].driver
                                         /\ task'[v].t = booking'[task'[v].b].truck
  BY <1>2, <1>3, <1>4, <1>8, <1>10 DEF CrewInv
<1>16. \A v \in Workers : task'[v].op \in {"status", "cancel"} =>
          /\ task'[v].t \in Trucks => task'[v].d = Crew[task'[v].t]
          /\ task'[v].newD = NoDriver /\ task'[v].newT = NoTruck
  BY <1>3, <1>9 DEF CrewInv
<1>17. /\ \A o \in offers' : o.d = Crew[o.t]
       /\ \A b \in Bookings :
            /\ booking'[b].truck \in Trucks => booking'[b].driver = Crew[booking'[b].truck]
            /\ trip'[b].status # "none" => /\ booking'[b].truck \in Trucks
                                           /\ trip'[b].driver = Crew[booking'[b].truck]
                                           /\ booking'[b].status # "pending"
  BY <1>2 DEF CrewInv
<1> QED BY <1>11, <1>12, <1>13, <1>14, <1>15, <1>16, <1>17 DEF CrewInv

\* The claim ties the booking to its crew.
LEMMA CrewClaim ==
    ASSUME DirectOnly, TypeInv, CrewInv, NEW w \in Workers, Claim(w),
           booking[task[w].b].status = "pending"
    PROVE  CrewInv'
<1> DEFINE k == task[w]
           m == task'[w]
<1>1. k \in Tasks /\ k # Idle /\ k.op = "finalize" /\ k.at = 3 /\ Fits(k)
      /\ Len(Flow["finalize"]) = 7
  BY Phases, Lengths DEF Claim
<1>2. k.b \in Bookings /\ k.newT \in Trucks /\ k.newD = Crew[k.newT]
  BY <1>1 DEF Tasks, Fits, CrewInv
<1>3. GoesOnAs(w, k, 1) /\ UNCHANGED <<trip, offers>>
      /\ booking' = [booking EXCEPT ![k.b] =
                       [status |-> "assigned", truck |-> k.newT, driver |-> k.newD]]
  BY <1>2 DEF DirectOnly, Claim, GoesOn, fleet
<1>4. /\ \A v \in Workers \ {w} : task'[v] = task[v]
      /\ IF k.at + 1 > Len(Flow[k.op]) THEN m = Idle ELSE Onward(k, m, 1)
  <2>1. 1 \in 1..3 /\ k \in Tasks /\ Fits(k) /\ GoesOnAs(w, k, 1)
    BY <1>1, <1>3
  <2> HIDE DEF k
  <2> QED BY <2>1, Going
<1>5. Onward(k, m, 1)
  BY <1>1, <1>4
<1>6. m.op = "finalize" /\ m.b = k.b /\ m.newT = k.newT /\ m.newD = k.newD
  BY <1>1, <1>5 DEF Onward
<1>7. /\ booking'[k.b].status = "assigned" /\ booking'[k.b].truck = k.newT
      /\ booking'[k.b].driver = k.newD
      /\ \A b \in Bookings \ {k.b} : booking'[b] = booking[b]
  BY <1>2, <1>3 DEF TypeInv, TypeOK
<1>8. trip[k.b].status = "none"
  BY <1>2 DEF CrewInv
<1> HIDE DEF k, m
<1>9. \A v \in Workers \ {w} : /\ Claimed(v)' <=> Claimed(v)
                               /\ Reading(v)' <=> Reading(v)
                               /\ Claimed(v) \/ Reading(v) => task[v].b # k.b /\ task[v].b \in Bookings
  <2> SUFFICES ASSUME NEW v \in Workers \ {w}
               PROVE  /\ Claimed(v)' <=> Claimed(v)
                      /\ Reading(v)' <=> Reading(v)
                      /\ Claimed(v) \/ Reading(v) => task[v].b # k.b /\ task[v].b \in Bookings
    OBVIOUS
  <2>1. task'[v] = task[v]
    BY <1>4
  <2>2. task[v].op \in {"finalize", "status", "cancel"} => task[v].b \in Bookings
    BY DEF TypeInv, TypeOK, Tasks, Idle
  <2>3. Claimed(v) \/ Reading(v) => task[v].b # k.b
    BY <1>8 DEF CrewInv, k
  <2> QED BY <2>1, <2>2, <2>3 DEF Claimed, Reading
<1>10. ~Reading(w)'
  BY <1>6 DEF Reading, m
<1>11. \A v \in Workers : task'[v].op \notin {"decline", "reassign"}
  BY <1>4, <1>6 DEF CrewInv, m
<1>12. \A v \in Workers : task'[v].op = "finalize" => task'[v].newD = Crew[task'[v].newT]
  BY <1>2, <1>4, <1>6 DEF CrewInv, m
<1>13. \A v \in Workers : Claimed(v)' => /\ trip'[task'[v].b].status = "none"
                                         /\ booking'[task'[v].b].status # "pending"
                                         /\ booking'[task'[v].b].truck = task'[v].newT
  BY <1>3, <1>4, <1>6, <1>7, <1>8, <1>9 DEF CrewInv, m
<1>14. \A u, v \in Workers : Claimed(u)' /\ Claimed(v)' /\ task'[u].b = task'[v].b => u = v
  BY <1>4, <1>6, <1>9 DEF CrewInv, m
<1>15. \A v \in Workers : Reading(v)' => /\ trip'[task'[v].b].status # "none"
                                         /\ task'[v].d = trip'[task'[v].b].driver
                                         /\ task'[v].t = booking'[task'[v].b].truck
  BY <1>3, <1>4, <1>7, <1>9, <1>10 DEF CrewInv
<1>16. \A v \in Workers : task'[v].op \in {"status", "cancel"} =>
          /\ task'[v].t \in Trucks => task'[v].d = Crew[task'[v].t]
          /\ task'[v].newD = NoDriver /\ task'[v].newT = NoTruck
  BY <1>4, <1>6 DEF CrewInv, m
<1>17. /\ \A o \in offers' : o.d = Crew[o.t]
       /\ \A b \in Bookings :
            /\ booking'[b].truck \in Trucks => booking'[b].driver = Crew[booking'[b].truck]
            /\ trip'[b].status # "none" => /\ booking'[b].truck \in Trucks
                                           /\ trip'[b].driver = Crew[booking'[b].truck]
                                           /\ booking'[b].status # "pending"
  BY <1>2, <1>3, <1>7, <1>8 DEF CrewInv
<1> QED BY <1>11, <1>12, <1>13, <1>14, <1>15, <1>16, <1>17 DEF CrewInv

\* The trip that is inserted is of the crew that claimed the booking.
LEMMA CrewInsert ==
    ASSUME TypeInv, CrewInv, NEW w \in Workers, InsertTrip(w)
    PROVE  /\ CrewInv' /\ Claimed(w) /\ task'[w] = Idle
           /\ \A v \in Workers \ {w} : task'[v] = task[v]
           /\ \A b \in Bookings \ {task[w].b} : trip'[b] = trip[b]
           /\ task[w].b \in Bookings
           /\ trip'[task[w].b].status = "confirmed"
           /\ trip'[task[w].b].driver = task[w].newD
           /\ booking[task[w].b].truck = task[w].newT
<1> DEFINE k == task[w]
<1>1. k \in Tasks /\ k.op = "finalize" /\ k.at = 7 /\ Fits(k)
  BY Phases DEF InsertTrip
<1>2. k.b \in Bookings /\ k.newT \in Trucks /\ k.newD = Crew[k.newT] /\ Claimed(w)
  BY <1>1 DEF Tasks, Fits, CrewInv, Claimed
<1>3. trip[k.b].status = "none" /\ booking[k.b].status # "pending"
      /\ booking[k.b].truck = k.newT
  BY <1>2 DEF CrewInv
<1>4. /\ trip' = [trip EXCEPT ![k.b] = [status |-> "confirmed", driver |-> k.newD,
                                        id |-> trip[k.b].id + 1]]
      /\ Ends(w) /\ UNCHANGED <<booking, offers>>
  <2>1. \/ trip[k.b].status # "none"
        \/ trip' = [trip EXCEPT ![k.b] = [status |-> "confirmed", driver |-> k.newD,
                                          id |-> trip[k.b].id + 1]]
    BY DEF InsertTrip
  <2>2. Ends(w) /\ UNCHANGED <<booking, offers>>
    BY DEF InsertTrip
  <2> QED BY <1>3, <2>1, <2>2
<1>5. /\ trip'[k.b].status = "confirmed" /\ trip'[k.b].driver = k.newD
      /\ \A b \in Bookings \ {k.b} : trip'[b] = trip[b]
  BY <1>2, <1>4 DEF TypeInv, TypeOK
<1>6. task'[w] = Idle /\ \A v \in Workers \ {w} : task'[v] = task[v]
  BY <1>4, Ending
<1>7. Idle.op \notin {"finalize", "status", "cancel", "decline", "reassign"}
  BY DEF Idle
<1>8. ~Claimed(w)' /\ ~Reading(w)'
  BY <1>6, <1>7 DEF Claimed, Reading
<1> HIDE DEF k
<1>9. \A v \in Workers \ {w} : /\ Claimed(v)' <=> Claimed(v)
                               /\ Reading(v)' <=> Reading(v)
                               /\ Claimed(v) \/ Reading(v) => task[v].b # k.b /\ task[v].b \in Bookings
  <2> SUFFICES ASSUME NEW v \in Workers \ {w}
               PROVE  /\ Claimed(v)' <=> Claimed(v)
                      /\ Reading(v)' <=> Reading(v)
                      /\ Claimed(v) \/ Reading(v) => task[v].b # k.b /\ task[v].b \in Bookings
    OBVIOUS
  <2>1. task'[v] = task[v]
    BY <1>6
  <2>2. task[v].op \in {"finalize", "status", "cancel"} => task[v].b \in Bookings
    BY DEF TypeInv, TypeOK, Tasks, Idle
  <2>3. Claimed(v) \/ Reading(v) => task[v].b # k.b
    BY <1>2, <1>3 DEF CrewInv, k
  <2> QED BY <2>1, <2>2, <2>3 DEF Claimed, Reading
<1>11. \A v \in Workers : task'[v].op \notin {"decline", "reassign"}
  BY <1>6, <1>7 DEF CrewInv
<1>12. \A v \in Workers : task'[v].op = "finalize" => task'[v].newD = Crew[task'[v].newT]
  BY <1>6, <1>7 DEF CrewInv
<1>13. \A v \in Workers : Claimed(v)' => /\ trip'[task'[v].b].status = "none"
                                         /\ booking'[task'[v].b].status # "pending"
                                         /\ booking'[task'[v].b].truck = task'[v].newT
  BY <1>4, <1>5, <1>6, <1>8, <1>9 DEF CrewInv
<1>14. \A u, v \in Workers : Claimed(u)' /\ Claimed(v)' /\ task'[u].b = task'[v].b => u = v
  BY <1>6, <1>8, <1>9 DEF CrewInv
<1>15. \A v \in Workers : Reading(v)' => /\ trip'[task'[v].b].status # "none"
                                         /\ task'[v].d = trip'[task'[v].b].driver
                                         /\ task'[v].t = booking'[task'[v].b].truck
  BY <1>4, <1>5, <1>6, <1>8, <1>9 DEF CrewInv
<1>16. \A v \in Workers : task'[v].op \in {"status", "cancel"} =>
          /\ task'[v].t \in Trucks => task'[v].d = Crew[task'[v].t]
          /\ task'[v].newD = NoDriver /\ task'[v].newT = NoTruck
  BY <1>6, <1>7 DEF CrewInv
<1>17. /\ \A o \in offers' : o.d = Crew[o.t]
       /\ \A b \in Bookings :
            /\ booking'[b].truck \in Trucks => booking'[b].driver = Crew[booking'[b].truck]
            /\ trip'[b].status # "none" => /\ booking'[b].truck \in Trucks
                                           /\ trip'[b].driver = Crew[booking'[b].truck]
                                           /\ booking'[b].status # "pending"
  BY <1>2, <1>3, <1>4, <1>5 DEF CrewInv
<1>18. CrewInv'
  BY <1>11, <1>12, <1>13, <1>14, <1>15, <1>16, <1>17 DEF CrewInv
<1> QED BY <1>2, <1>3, <1>5, <1>6, <1>18 DEF k

\* findTrip reads a crew that agrees.
LEMMA CrewFind ==
    ASSUME TypeInv, CrewInv, NEW w \in Workers, FindTrip(w)
    PROVE  CrewInv'
<1> DEFINE k == task[w]
           m == task'[w]
<1>1. UNCHANGED <<booking, trip, offers>>
  BY DEF FindTrip
<1>2. k \in Tasks /\ k.op = "cancel" /\ k.at = 3
  BY Phases DEF FindTrip
<1>3. Steps(w)
  BY DEF Steps, CancelBooking
<1>4. /\ \A v \in Workers \ {w} : task'[v] = task[v]
      /\ \/ m = Idle
         \/ /\ m.op = "cancel" /\ m.newD = k.newD /\ m.newT = k.newT
            /\ \/ m.at = 5 /\ m.d = k.d /\ m.t = k.t
               \/ /\ m.at = 4 /\ m.b = k.b /\ trip[k.b].status # "none"
                  /\ m.d = trip[k.b].driver /\ m.t = booking[k.b].truck
  BY <1>3, Moving
<1>5. Idle.op \notin {"finalize", "status", "cancel", "decline", "reassign"}
  BY DEF Idle
<1>6. k.b \in Bookings /\ k.newD = NoDriver /\ k.newT = NoTruck /\ (k.t \in Trucks => k.d = Crew[k.t])
  BY <1>2 DEF Tasks, CrewInv
<1> HIDE DEF k, m
<1>7. ~Claimed(w)'
  BY <1>4, <1>5 DEF Claimed, m
<1>8. Reading(w)' => /\ trip'[m.b].status # "none"
                     /\ m.d = trip'[m.b].driver /\ m.t = booking'[m.b].truck
  BY <1>1, <1>4, <1>5 DEF Reading, m
<1>9. m.op \in {"status", "cancel"} => /\ m.t \in Trucks => m.d = Crew[m.t]
                                       /\ m.newD = NoDriver /\ m.newT = NoTruck
  BY <1>4, <1>5, <1>6 DEF CrewInv
<1>10. \A v \in Workers \ {w} : (Claimed(v)' <=> Claimed(v)) /\ (Reading(v)' <=> Reading(v))
  BY <1>4 DEF Claimed, Reading
<1>11. \A v \in Workers : task'[v].op \notin {"decline", "reassign"}
  BY <1>4, <1>5 DEF CrewInv, m
<1>12. \A v \in Workers : task'[v].op = "finalize" => task'[v].newD = Crew[task'[v].newT]
  BY <1>4, <1>5 DEF CrewInv, m
<1>13. \A v \in Workers : Claimed(v)' => /\ trip'[task'[v].b].status = "none"
                                         /\ booking'[task'[v].b].status # "pending"
                                         /\ booking'[task'[v].b].truck = task'[v].newT
  BY <1>1, <1>4, <1>7, <1>10 DEF CrewInv
<1>14. \A u, v \in Workers : Claimed(u)' /\ Claimed(v)' /\ task'[u].b = task'[v].b => u = v
  BY <1>4, <1>7, <1>10 DEF CrewInv
<1>15. \A v \in Workers : Reading(v)' => /\ trip'[task'[v].b].status # "none"
                                         /\ task'[v].d = trip'[task'[v].b].driver
                                         /\ task'[v].t = booking'[task'[v].b].truck
  BY <1>1, <1>4, <1>8, <1>10 DEF CrewInv, m
<1>16. \A v \in Workers : task'[v].op \in {"status", "cancel"} =>
          /\ task'[v].t \in Trucks => task'[v].d = Crew[task'[v].t]
          /\ task'[v].newD = NoDriver /\ task'[v].newT = NoTruck
  BY <1>4, <1>9 DEF CrewInv, m
<1>17. /\ \A o \in offers' : o.d = Crew[o.t]
       /\ \A b \in Bookings :
            /\ booking'[b].truck \in Trucks => booking'[b].driver = Crew[booking'[b].truck]
            /\ trip'[b].status # "none" => /\ booking'[b].truck \in Trucks
                                           /\ trip'[b].driver = Crew[booking'[b].truck]
                                           /\ booking'[b].status # "pending"
  BY <1>1 DEF CrewInv
<1> QED BY <1>11, <1>12, <1>13, <1>14, <1>15, <1>16, <1>17 DEF CrewInv

\* Where nobody declines or reassigns, these are the queries there are.
LEMMA DirectSteps ==
    ASSUME TypeInv, CrewInv, NEW w \in Workers, Steps(w)
    PROVE  /\ task[w].op \notin {"decline", "reassign"}
           /\ \/ Finalize(w) \/ Release(w) \/ UpdateTripStatus(w) \/ CancelBooking(w)
              \/ SetStatus(w)
<1>1. task[w].op \notin {"decline", "reassign"}
  BY DEF CrewInv
<1>2. ~(Unassign(w) \/ RemoveTrip(w) \/ Rewrite(w) \/ SwapDriver(w))
  BY <1>1, Phases DEF Unassign, RemoveTrip, Rewrite, SwapDriver
<1> QED BY <1>1, <1>2 DEF Steps, DeclineTrip, Reassign

\* Every step keeps the crews.
LEMMA CrewStep ==
    ASSUME DirectOnly
    PROVE  TypeInv /\ CrewInv /\ [Next]_vars => CrewInv'
<1> SUFFICES ASSUME TypeInv, CrewInv, [Next]_vars PROVE CrewInv'
  OBVIOUS
<1>0. task \in [Workers -> Tasks \union {Idle}]
  BY DEF TypeInv, TypeOK
<1>1. ASSUME UNCHANGED <<booking, trip, task>>, \A o \in offers' : o.d = Crew[o.t]
      PROVE  CrewInv'
  BY <1>1 DEF CrewInv, Claimed, Reading
<1>2. ASSUME NEW b \in Bookings, NEW t \in Trucks,
             OfferDirect(b, t) \/ \E d \in Drivers : OfferByBroker(b, t, d)
      PROVE  CrewInv'
  <2>1. OfferDirect(b, t)
    BY <1>2 DEF OfferByBroker, DirectOnly
  <2>2. offers' = offers \union {[b |-> b, t |-> t, d |-> Crew[t]]}
        /\ UNCHANGED <<booking, trip, task>>
    BY <2>1 DEF OfferDirect
  <2>3. \A o \in offers' : o.d = Crew[o.t]
    BY <2>2 DEF CrewInv
  <2> QED BY <1>1, <2>2, <2>3
<1>3. ASSUME NEW w \in Workers, Requests(w) PROVE CrewInv'
  BY <1>3, CrewRequest
<1>4. ASSUME NEW w \in Workers, Steps(w), ~FindTrip(w), ~InsertTrip(w),
             ~(Claim(w) /\ booking[task[w].b].status = "pending")
      PROVE  CrewInv'
  <2> DEFINE k == task[w]
  <2>1. /\ k \in Tasks /\ \A v \in Workers \ {w} : task'[v] = task[v]
        /\ task'[w] = Idle \/ \E n \in 1..3 : Onward(k, task'[w], n)
    <3>1. 1 \in 1..3 /\ 2 \in 1..3 /\ 3 \in 1..3
      OBVIOUS
    <3> QED BY <1>4, <3>1, Moving
  <2>2. k.b \in Bookings
    BY <2>1 DEF Tasks
  <2>3. CASE Claim(w)
    <3>1. k.b \notin Brokered
      BY DEF DirectOnly
    <3>2. Ends(w) /\ UNCHANGED <<booking, trip, offers>>
      BY <1>4, <2>3, <3>1 DEF Claim
    <3>3. task'[w] = Idle
      BY <3>2, Ending
    <3>4. \A v \in Workers : task'[v] = task[v] \/ task'[v] = Idle
      BY <2>1, <3>3
    <3> QED BY <1>0, <3>2, <3>4, CrewsStay
  <2>4. CASE ~Claim(w)
    <3>1. (Claimed(w)' => Claimed(w)) /\ (Reading(w)' => Reading(w))
      BY <1>4, <2>4, Forward
    <3>2. \A v \in Workers :
             \/ task'[v] = task[v] \/ task'[v] = Idle
             \/ /\ \E n \in 1..3 : Onward(task[v], task'[v], n)
                /\ task[v] \in Tasks
                /\ Claimed(v)' => Claimed(v)
                /\ Reading(v)' => Reading(v)
      BY <2>1, <3>1
    <3>3. SetTrip(w) \/ SetBooking(w) => k.op = "status" /\ k.to \in Statuses
      BY Phases DEF SetTrip, SetBooking, Fits
    <3>7. \/ UNCHANGED <<booking, trip>>
          \/ SetTrip(w) \/ CancelTrip(w) \/ SetBooking(w) \/ CancelWrite(w)
      BY <1>4, <2>4, DirectSteps DEF Finalize, Release, UpdateTripStatus, CancelBooking,
         Gate, Room, DeclineOthers, TakeTruck, TakeDriver, Busy, FreeDriver, FreeTruck,
         SetStatus
    <3>8. SetTrip(w) \/ CancelTrip(w) =>
             /\ booking' = booking
             /\ \/ trip' = trip
                \/ /\ SameTrip(k)
                   /\ \E s \in Statuses : trip' = [trip EXCEPT ![k.b].status = s]
      BY <3>3, StatusNames DEF SetTrip, CancelTrip
    <3>9. SetBooking(w) \/ CancelWrite(w) =>
             /\ trip' = trip
             /\ \E s \in Statuses : booking' = [booking EXCEPT ![k.b].status = s]
      BY <3>3, StatusNames DEF SetBooking, CancelWrite
    <3>4. \A b \in Bookings :
             /\ booking'[b].truck = booking[b].truck
             /\ booking'[b].driver = booking[b].driver
             /\ booking'[b].status = "pending" => booking[b].status = "pending"
      <4>1. \/ booking' = booking
            \/ \E s \in Statuses : booking' = [booking EXCEPT ![k.b].status = s]
        BY <3>7, <3>8, <3>9
      <4>2. "pending" \notin Statuses
        BY StatusNames
      <4>3. ASSUME NEW s \in Statuses, booking' = [booking EXCEPT ![k.b].status = s]
            PROVE  \A b \in Bookings :
                      /\ booking'[b].truck = booking[b].truck
                      /\ booking'[b].driver = booking[b].driver
                      /\ booking'[b].status \in {booking[b].status, s}
        BY <2>2, <4>3 DEF TypeInv, TypeOK
      <4> QED BY <4>1, <4>2, <4>3
    <3>5. \A b \in Bookings :
             /\ trip'[b].status = "none" <=> trip[b].status = "none"
             /\ trip'[b].driver = trip[b].driver
      <4>1. \/ trip' = trip
            \/ /\ SameTrip(k)
               /\ \E s \in Statuses : trip' = [trip EXCEPT ![k.b].status = s]
        BY <3>7, <3>8, <3>9
      <4>2. "none" \notin Statuses
        BY StatusNames
      <4>3. ASSUME NEW s \in Statuses, trip' = [trip EXCEPT ![k.b].status = s]
            PROVE  /\ trip'[k.b].status = s
                   /\ \A b \in Bookings \ {k.b} : trip'[b].status = trip[b].status
                   /\ \A b \in Bookings : trip'[b].driver = trip[b].driver
        BY <2>2, <4>3 DEF TypeInv, TypeOK
      <4>4. CASE trip' = trip
        BY <4>4
      <4>5. CASE SameTrip(k) /\ \E s \in Statuses : trip' = [trip EXCEPT ![k.b].status = s]
        <5>1. trip[k.b].status # "none"
          BY <4>5 DEF SameTrip
        <5>2. PICK s \in Statuses : trip' = [trip EXCEPT ![k.b].status = s]
          BY <4>5
        <5>3. /\ trip'[k.b].status # "none"
              /\ \A b \in Bookings \ {k.b} : trip'[b].status = trip[b].status
              /\ \A b \in Bookings : trip'[b].driver = trip[b].driver
          BY <4>2, <4>3, <5>2
        <5> QED BY <5>1, <5>3
      <4> QED BY <4>1, <4>4, <4>5
    <3>6. offers' \subseteq offers
      BY <1>4, <2>4, DirectSteps DEF Finalize, Release,
         UpdateTripStatus, CancelBooking, Gate, Room, DeclineOthers, TakeTruck,
         TakeDriver, Busy, FreeDriver, FreeTruck, SetTrip, SetBooking, CancelWrite,
         CancelTrip, SetStatus
    <3> QED BY <1>0, <3>2, <3>4, <3>5, <3>6, CrewsStay
  <2> QED BY <2>3, <2>4
<1>5. ASSUME NEW w \in Workers, Steps(w) PROVE CrewInv'
  BY <1>4, <1>5, CrewFind, CrewInsert, CrewClaim
<1>6. ASSUME NEW d \in Drivers, Ping(d) PROVE CrewInv'
  BY <1>1, <1>6 DEF Ping, CrewInv
<1>7. ASSUME NEW t \in Trucks, Share(t) PROVE CrewInv'
  BY <1>1, <1>7 DEF Share, CrewInv
<1>8. CASE UNCHANGED vars
  BY <1>1, <1>8 DEF vars, CrewInv
<1> QED BY <1>2, <1>3, <1>5, <1>6, <1>7, <1>8 DEF Next

-----------------------------------------------------------------------------
(* Release                                                                 *)

\* A handler that has taken the driver for a trip, or has ended a trip of his
\* and has not freed him or seen another trip yet.
HoldsDriver(w, d) ==
    \/ task[w].op = "finalize" /\ task[w].at = 7 /\ task[w].newD = d
    \/ task[w].op = "status" /\ task[w].to \in Over /\ task[w].at \in 2..4 /\ task[w].d = d
    \/ task[w].op = "cancel" /\ task[w].at \in 5..6 /\ task[w].d = d

\* The same for the truck.
HoldsTruck(w, t) ==
    \/ task[w].op = "finalize" /\ task[w].at \in 6..7 /\ task[w].newT = t
    \/ task[w].op = "status" /\ task[w].to \in Over /\ task[w].at \in 2..5 /\ task[w].t = t
    \/ task[w].op = "cancel" /\ task[w].at \in 5..7 /\ task[w].t = t

DriverHeld(d) == OnTripFor(d) # {} \/ \E w \in Workers : HoldsDriver(w, d)
TruckHeld(t)  == \/ \E b \in Bookings : Active(b) /\ booking[b].truck = t
                 \/ \E w \in Workers : HoldsTruck(w, t)

\* Whoever is on_trip has a trip, or a handler that answers for him.
HoldInv ==
    /\ \A d \in Drivers : driverStatus[d] = "on_trip" => DriverHeld(d)
    /\ \A t \in Trucks : truckStatus[t] = "on_trip" => TruckHeld(t)

\* What a step has to show: who stops being answered for is free.
LEMMA HoldsStay ==
    ASSUME HoldInv,
           \A b \in Bookings : Active(b) =>
              /\ trip'[b].driver = trip[b].driver /\ booking'[b].truck = booking[b].truck
              /\ Active(b)' \/ (DriverHeld(trip[b].driver)' /\ TruckHeld(booking[b].truck)'),
           \A d \in Drivers : driverStatus'[d] = "on_trip" =>
              driverStatus[d] = "on_trip" \/ DriverHeld(d)',
           \A t \in Trucks : truckStatus'[t] = "on_trip" =>
              truckStatus[t] = "on_trip" \/ TruckHeld(t)',
           \A v \in Workers, d \in Drivers : HoldsDriver(v, d) =>
              HoldsDriver(v, d)' \/ DriverHeld(d)' \/ driverStatus'[d] # "on_trip",
           \A v \in Workers, t \in Trucks : HoldsTruck(v, t) =>
              HoldsTruck(v, t)' \/ TruckHeld(t)' \/ truckStatus'[t] # "on_trip"
    PROVE  HoldInv'
<1>1. ASSUME NEW d \in Drivers, driverStatus'[d] = "on_trip" PROVE DriverHeld(d)'
  <2>1. CASE driverStatus[d] = "on_trip"
    <3>1. DriverHeld(d)
      BY <2>1 DEF HoldInv
    <3>2. ASSUME NEW b \in Bookings, Active(b), trip[b].driver = d PROVE DriverHeld(d)'
      <4>1. trip'[b].driver = d
        BY <3>2
      <4>2. CASE Active(b)'
        BY <4>1, <4>2 DEF DriverHeld, OnTripFor
      <4>3. CASE DriverHeld(trip[b].driver)'
        BY <4>1, <4>3
      <4> QED BY <3>2, <4>2, <4>3
    <3>3. ASSUME NEW v \in Workers, HoldsDriver(v, d) PROVE DriverHeld(d)'
      <4>1. HoldsDriver(v, d)' \/ DriverHeld(d)'
        BY <1>1, <3>3
      <4> QED BY <4>1 DEF DriverHeld
    <3> QED BY <3>1, <3>2, <3>3 DEF DriverHeld, OnTripFor
  <2> QED BY <1>1, <2>1
<1>2. ASSUME NEW t \in Trucks, truckStatus'[t] = "on_trip" PROVE TruckHeld(t)'
  <2>1. CASE truckStatus[t] = "on_trip"
    <3>1. TruckHeld(t)
      BY <2>1 DEF HoldInv
    <3>2. ASSUME NEW b \in Bookings, Active(b), booking[b].truck = t PROVE TruckHeld(t)'
      <4>1. booking'[b].truck = t
        BY <3>2
      <4>2. CASE Active(b)'
        BY <4>1, <4>2 DEF TruckHeld
      <4>3. CASE TruckHeld(booking[b].truck)'
        BY <4>1, <4>3
      <4> QED BY <3>2, <4>2, <4>3
    <3>3. ASSUME NEW v \in Workers, HoldsTruck(v, t) PROVE TruckHeld(t)'
      <4>1. HoldsTruck(v, t)' \/ TruckHeld(t)'
        BY <1>2, <3>3
      <4> QED BY <4>1 DEF TruckHeld
    <3> QED BY <3>1, <3>2, <3>3 DEF TruckHeld
  <2> QED BY <1>2, <2>1
<1> QED BY <1>1, <1>2 DEF HoldInv

\* A step of the handler w that ends no trip.
LEMMA HoldsOn ==
    ASSUME HoldInv, NEW w \in Workers,
           \A b \in Bookings : Active(b) =>
              /\ trip'[b].driver = trip[b].driver /\ booking'[b].truck = booking[b].truck
              /\ Active(b)',
           \A d \in Drivers : driverStatus'[d] = "on_trip" =>
              driverStatus[d] = "on_trip" \/ DriverHeld(d)',
           \A t \in Trucks : truckStatus'[t] = "on_trip" =>
              truckStatus[t] = "on_trip" \/ TruckHeld(t)',
           \A v \in Workers \ {w} : task'[v] = task[v],
           \A d \in Drivers : HoldsDriver(w, d) =>
              HoldsDriver(w, d)' \/ DriverHeld(d)' \/ driverStatus'[d] # "on_trip",
           \A t \in Trucks : HoldsTruck(w, t) =>
              HoldsTruck(w, t)' \/ TruckHeld(t)' \/ truckStatus'[t] # "on_trip"
    PROVE  HoldInv'
<1>1. \A v \in Workers \ {w} :
         /\ \A d \in Drivers : HoldsDriver(v, d) => HoldsDriver(v, d)'
         /\ \A t \in Trucks : HoldsTruck(v, t) => HoldsTruck(v, t)'
  BY DEF HoldsDriver, HoldsTruck
<1> QED BY <1>1, HoldsStay

\* Ending a trip leaves the handler answering for its driver and truck.
LEMMA HoldsEnd ==
    ASSUME TypeInv, CrewInv, HoldInv, NEW w \in Workers, SetTrip(w) \/ CancelTrip(w)
    PROVE  HoldInv'
<1> DEFINE k == task[w]
           m == task'[w]
<1>1. k \in Tasks /\ k # Idle /\ Fits(k) /\ k.b \in Bookings
      /\ \/ SetTrip(w) /\ k.op = "status" /\ k.at = 1 /\ k.to \in Statuses
         \/ CancelTrip(w) /\ k.op = "cancel" /\ k.at = 4
  BY Phases DEF SetTrip, CancelTrip, Tasks, Fits
<1>2. \A v \in Workers \ {w} : task'[v] = task[v]
  BY Moving DEF Steps, UpdateTripStatus, CancelBooking
<1>3. GoesOn(w) \/ (Ends(w) /\ SetTrip(w) /\ k.to = "completed"
                    /\ (~SameTrip(k) \/ trip[k.b].status = "completed"))
  BY DEF SetTrip, CancelTrip
<1>4. GoesOn(w) => Onward(k, m, 1)
  <2>1. 1 \in 1..3 /\ Len(Flow["status"]) = 5 /\ Len(Flow["cancel"]) = 7
    BY Lengths
  <2>2. GoesOn(w) =>
          IF k.at + 1 > Len(Flow[k.op]) THEN task'[w] = Idle ELSE Onward(k, task'[w], 1)
    BY <1>1, <2>1, Going DEF GoesOn
  <2>3. (k.op = "status" /\ k.at = 1) \/ (k.op = "cancel" /\ k.at = 4)
    BY <1>1
  <2>4. ~(k.at + 1 > Len(Flow[k.op]))
    <3>1. CASE k.op = "status" /\ k.at = 1
      <4>1. Len(Flow[k.op]) = 5
        BY <2>1, <3>1
      <4> QED BY <3>1, <4>1
    <3>2. CASE k.op = "cancel" /\ k.at = 4
      <4>1. Len(Flow[k.op]) = 7
        BY <2>1, <3>2
      <4> QED BY <3>2, <4>1
    <3> QED BY <2>3, <3>1, <3>2
  <2> QED BY <2>2, <2>4
<1>5. booking' = booking /\ truckStatus' = truckStatus /\ driverStatus' = driverStatus
  BY DEF SetTrip, CancelTrip, fleet
<1>6. k.d = trip[k.b].driver /\ k.t = booking[k.b].truck
  BY <1>1 DEF CrewInv, Reading
<1>7. \/ trip' = trip
      \/ \E s \in Statuses :
            /\ trip' = [trip EXCEPT ![k.b].status = s]
            /\ \/ CancelTrip(w)
               \/ SetTrip(w) /\ s = k.to
  <2>1. "cancelled" \in Statuses
    BY StatusNames
  <2> QED BY <1>1, <2>1 DEF SetTrip, CancelTrip
<1>8. \A d \in Drivers : ~HoldsDriver(w, d)
  BY <1>1 DEF HoldsDriver
<1>9. \A t \in Trucks : ~HoldsTruck(w, t)
  BY <1>1 DEF HoldsTruck
<1> PICK c \in Bookings : c = k.b
  BY <1>1
<1>10. \A b \in Bookings : b # c => trip'[b] = trip[b]
  BY <1>1, <1>7 DEF TypeInv, TypeOK
<1>11. trip'[c].driver = trip[c].driver
  BY <1>1, <1>7 DEF TypeInv, TypeOK
<1>12. Active(c) /\ ~Active(c)' =>
         /\ GoesOn(w) /\ (k.op = "status" => k.to \in Over)
  <2> SUFFICES ASSUME Active(c), ~Active(c)'
               PROVE  GoesOn(w) /\ (k.op = "status" => k.to \in Over)
    OBVIOUS
  <2>1. trip' # trip
    BY DEF Active
  <2>2. PICK s \in Statuses : /\ trip' = [trip EXCEPT ![c].status = s]
                              /\ \/ CancelTrip(w)
                                 \/ SetTrip(w) /\ s = k.to
    BY <1>7, <2>1
  <2>3. trip'[c].status = s
    BY <1>1, <2>2 DEF TypeInv, TypeOK
  <2>4. s \in Over
    BY <2>3, StatusNames DEF Active
  <2>5. k.op = "status" => k.to \in Over
    <3>1. CancelTrip(w) => k.op = "cancel"
      BY Phases DEF CancelTrip
    <3> QED BY <2>2, <2>4, <3>1
  <2>6. trip[c].status # "completed"
    BY DEF Active, Over
  <2>7. SetTrip(w) => SameTrip(k)
    BY <2>1 DEF SetTrip
  <2> QED BY <1>3, <2>5, <2>6, <2>7
<1>13. Active(c) /\ ~Active(c)' =>
         /\ \A d \in Drivers : d = k.d => HoldsDriver(w, d)'
         /\ \A t \in Trucks : t = k.t => HoldsTruck(w, t)'
  <2> SUFFICES ASSUME Active(c), ~Active(c)'
               PROVE  /\ \A d \in Drivers : d = k.d => HoldsDriver(w, d)'
                      /\ \A t \in Trucks : t = k.t => HoldsTruck(w, t)'
    OBVIOUS
  <2>1. Onward(k, m, 1) /\ (k.op = "status" => k.to \in Over)
    BY <1>4, <1>12
  <2>2. m.op = k.op /\ m.at = k.at + 1 /\ m.d = k.d /\ m.t = k.t /\ m.to = k.to
    BY <2>1 DEF Onward
  <2>3. (k.op = "status" /\ k.at = 1) \/ (k.op = "cancel" /\ k.at = 4)
    BY <1>1
  <2>4. (m.op = "status" /\ m.at = 2 /\ m.to \in Over) \/ (m.op = "cancel" /\ m.at = 5)
    BY <2>1, <2>2, <2>3
  <2> HIDE DEF k
  <2> QED BY <2>2, <2>4 DEF HoldsDriver, HoldsTruck
<1>14. Active(c) => trip[c].driver \in Drivers /\ booking[c].truck \in Trucks
  BY <1>1, Fleet DEF CrewInv, Active
<1>15. \A b \in Bookings : Active(b) =>
         /\ trip'[b].driver = trip[b].driver /\ booking'[b].truck = booking[b].truck
         /\ Active(b)' \/ (DriverHeld(trip[b].driver)' /\ TruckHeld(booking[b].truck)')
  <2> SUFFICES ASSUME NEW b \in Bookings, Active(b)
               PROVE  /\ trip'[b].driver = trip[b].driver
                      /\ booking'[b].truck = booking[b].truck
                      /\ \/ Active(b)'
                         \/ DriverHeld(trip[b].driver)' /\ TruckHeld(booking[b].truck)'
    OBVIOUS
  <2>1. CASE b # c
    <3>1. trip'[b] = trip[b]
      BY <1>10, <2>1
    <3> QED BY <1>5, <3>1 DEF Active
  <2>2. CASE b = c
    <3>1. trip'[b].driver = trip[b].driver /\ booking'[b].truck = booking[b].truck
      BY <1>5, <1>11, <2>2
    <3>2. CASE ~Active(b)'
      <4>1. PICK d \in Drivers : d = trip[b].driver
        BY <1>14, <2>2
      <4>2. PICK t \in Trucks : t = booking[b].truck
        BY <1>14, <2>2
      <4>3. HoldsDriver(w, d)' /\ HoldsTruck(w, t)'
        BY <1>6, <1>13, <2>2, <3>2, <4>1, <4>2
      <4>4. DriverHeld(d)' /\ TruckHeld(t)'
        BY <4>3 DEF DriverHeld, TruckHeld
      <4> QED BY <3>1, <4>1, <4>2, <4>4
    <3> QED BY <3>1, <3>2
  <2> QED BY <2>1, <2>2
<1>16. \A v \in Workers : /\ \A d \in Drivers : HoldsDriver(v, d) => HoldsDriver(v, d)'
                          /\ \A t \in Trucks : HoldsTruck(v, t) => HoldsTruck(v, t)'
  BY <1>2, <1>8, <1>9 DEF HoldsDriver, HoldsTruck
<1> QED BY <1>5, <1>15, <1>16, HoldsStay

\* A handler with a phase to come goes on to it.
LEMMA OneOn ==
    ASSUME TypeInv, NEW w \in Workers, GoesOn(w), task[w] \in Tasks, Fits(task[w]),
           task[w].at < Len(Flow[task[w].op])
    PROVE  Onward(task[w], task'[w], 1)
<1> DEFINE k == task[w]
           len == Len(Flow[k.op])
<1>1. 1 \in 1..3 /\ k \in Tasks /\ Fits(k) /\ GoesOnAs(w, k, 1)
  BY DEF GoesOn
<1>2. IF k.at + 1 > len THEN task'[w] = Idle ELSE Onward(k, task'[w], 1)
  <2> HIDE DEF k
  <2> QED BY <1>1, Going
<1>3. k.at \in 1..7 /\ len \in 1..7 /\ k.at < len
  BY Lengths DEF Tasks
<1> HIDE DEF len
<1> QED BY <1>2, <1>3

\* Steps of a handler that answers for nobody yet.
LEMMA HoldsNone ==
    ASSUME DirectOnly, TypeInv, CrewInv, HoldInv, NEW w \in Workers,
           \/ Gate(w) \/ Room(w) \/ Claim(w) \/ DeclineOthers(w) \/ CancelWrite(w)
           \/ FindTrip(w) \/ SetStatus(w)
    PROVE  HoldInv'
<1> PICK k \in Tasks : k = task[w]
  BY Moving DEF Steps, Finalize, CancelBooking
<1>1. k.b \in Bookings
  BY DEF Tasks
<1>2. \A v \in Workers \ {w} : task'[v] = task[v]
  BY Moving DEF Steps, Finalize, CancelBooking
<1>3. \/ k.op = "finalize" /\ k.at \in 1..4
      \/ k.op = "cancel" /\ k.at \in 1..3
      \/ k.op = "presence" /\ k.to \in {"available", "offline"} /\ k.d \in Drivers
  <2>1. Gate(w) => k.op = "finalize" /\ k.at = 1
    BY Phases DEF Gate
  <2>2. Room(w) => k.op = "finalize" /\ k.at = 2
    BY Phases DEF Room
  <2>3. Claim(w) => k.op = "finalize" /\ k.at = 3
    BY Phases DEF Claim
  <2>4. DeclineOthers(w) => (k.op = "finalize" /\ k.at = 4) \/ (k.op = "cancel" /\ k.at = 2)
    BY Phases DEF DeclineOthers
  <2>5. CancelWrite(w) => k.op = "cancel" /\ k.at = 1
    BY Phases DEF CancelWrite
  <2>6. FindTrip(w) => k.op = "cancel" /\ k.at = 3
    BY Phases DEF FindTrip
  <2>7. SetStatus(w) => k.op = "presence" /\ Fits(k)
    BY Phases DEF SetStatus
  <2> QED BY <2>1, <2>2, <2>3, <2>4, <2>5, <2>6, <2>7 DEF Fits
<1>4. trip' = trip /\ truckStatus' = truckStatus
  BY DEF Gate, Room, Claim, DeclineOthers, CancelWrite, FindTrip, SetStatus, fleet
<1>5. \A d \in Drivers : driverStatus'[d] = "on_trip" => driverStatus[d] = "on_trip"
  <2>1. \/ driverStatus' = driverStatus
        \/ SetStatus(w) /\ driverStatus' = [driverStatus EXCEPT ![k.d] = k.to]
    BY DEF Gate, Room, Claim, DeclineOthers, CancelWrite, FindTrip, SetStatus, fleet
  <2>2. SetStatus(w) => Fits(k) /\ k.op = "presence"
    BY Phases DEF SetStatus
  <2>3. SetStatus(w) => k.to \in {"available", "offline"} /\ k.d \in Drivers
    BY <2>2 DEF Fits
  <2> QED BY <2>1, <2>3 DEF TypeInv, TypeOK
<1>6. \A b \in Bookings : Active(b) => booking'[b].truck = booking[b].truck
  <2>1. CASE Claim(w)
    <3>1. booking' = booking
          \/ /\ booking[k.b].status = "pending"
             /\ booking' = [booking EXCEPT ![k.b] =
                              [status |-> "assigned", truck |-> k.newT, driver |-> k.newD]]
      BY <1>1, <2>1 DEF Claim, DirectOnly
    <3>2. booking[k.b].status = "pending" => ~Active(k.b)
      BY <1>1 DEF CrewInv, Active
    <3>3. \A b \in Bookings : b # k.b => booking'[b] = booking[b]
      BY <1>1, <3>1 DEF TypeInv, TypeOK
    <3> QED BY <3>1, <3>2, <3>3
  <2>2. CASE CancelWrite(w)
    <3>1. booking' = [booking EXCEPT ![k.b].status = "cancelled"]
      BY <2>2 DEF CancelWrite
    <3> QED BY <1>1, <3>1 DEF TypeInv, TypeOK
  <2>3. CASE ~Claim(w) /\ ~CancelWrite(w)
    <3>1. booking' = booking
      BY <2>3 DEF Gate, Room, DeclineOthers, FindTrip, SetStatus
    <3> QED BY <3>1
  <2> QED BY <2>1, <2>2, <2>3
<1>7. /\ \A d \in Drivers : ~HoldsDriver(w, d)
      /\ \A t \in Trucks : ~HoldsTruck(w, t)
  BY <1>3 DEF HoldsDriver, HoldsTruck
<1>8. \A b \in Bookings : Active(b) => Active(b)' /\ trip'[b].driver = trip[b].driver
  BY <1>4 DEF Active
<1> QED BY <1>2, <1>4, <1>5, <1>6, <1>7, <1>8, HoldsOn

\* The status reaches the booking: the handler that ended the trip goes on.
LEMMA HoldsBooking ==
    ASSUME TypeInv, CrewInv, HoldInv, NEW w \in Workers, SetBooking(w)
    PROVE  HoldInv'
<1> PICK k \in Tasks : k = task[w]
  BY Moving DEF Steps, UpdateTripStatus
<1>1. k.op = "status" /\ k.at = 2 /\ Fits(k) /\ k.b \in Bookings /\ Len(Flow["status"]) = 5
  BY Phases, Lengths DEF SetBooking, Tasks
<1>2. \A v \in Workers \ {w} : task'[v] = task[v]
  BY Moving DEF Steps, UpdateTripStatus
<1>3. trip' = trip /\ truckStatus' = truckStatus /\ driverStatus' = driverStatus
      /\ booking' = [booking EXCEPT ![k.b].status = k.to]
      /\ (k.to \in Over => GoesOn(w))
  BY DEF SetBooking, fleet
<1>4. k.to \in Over => Onward(k, task'[w], 1)
  <2>1. Flow[k.op] = Flow["status"]
    BY <1>1
  <2>2. k.at < Len(Flow[k.op])
    BY <1>1, <2>1
  <2> QED BY <1>1, <1>3, <2>2, OneOn
<1>5. /\ \A d \in Drivers : HoldsDriver(w, d) => HoldsDriver(w, d)'
      /\ \A t \in Trucks : HoldsTruck(w, t) => HoldsTruck(w, t)'
  <2>1. CASE k.to \in Over
    <3>1. /\ task'[w].op = "status" /\ task'[w].at = 3 /\ task'[w].d = k.d
          /\ task'[w].t = k.t /\ task'[w].to \in Over
      BY <1>1, <1>4, <2>1 DEF Onward
    <3> QED BY <1>1, <3>1 DEF HoldsDriver, HoldsTruck
  <2>2. CASE k.to \notin Over
    BY <1>1, <2>2 DEF HoldsDriver, HoldsTruck
  <2> QED BY <2>1, <2>2
<1>6. \A b \in Bookings : booking'[b].truck = booking[b].truck
  BY <1>1, <1>3 DEF TypeInv, TypeOK
<1>7. \A b \in Bookings : Active(b) => Active(b)' /\ trip'[b].driver = trip[b].driver
  BY <1>3 DEF Active
<1> QED BY <1>2, <1>3, <1>5, <1>6, <1>7, HoldsOn

\* The truck and the driver are taken by a handler that answers for them.
LEMMA HoldsTake ==
    ASSUME TypeInv, CrewInv, HoldInv, NEW w \in Workers, TakeTruck(w) \/ TakeDriver(w)
    PROVE  HoldInv'
<1> PICK k \in Tasks : k = task[w]
  BY Moving DEF Steps, Finalize
<1>1. /\ k.op = "finalize" /\ Fits(k) /\ Len(Flow["finalize"]) = 7
      /\ TakeTruck(w) => k.at = 5
      /\ TakeDriver(w) => k.at = 6
  <2>1. k.op \in {"finalize", "reassign"} /\ Fits(k)
    BY Phases DEF TakeTruck, TakeDriver
  <2>2. TakeTruck(w) => k.at = 5
    BY Phases DEF TakeTruck
  <2>3. TakeDriver(w) => k.at = 6
    BY Phases DEF TakeDriver
  <2> QED BY <2>1, <2>2, <2>3, Lengths DEF CrewInv
<1>2. k.newT \in Trucks /\ k.newD \in Drivers
  BY <1>1 DEF Fits
<1>3. \A v \in Workers \ {w} : task'[v] = task[v]
  BY Moving DEF Steps, Finalize
<1>4. trip' = trip /\ booking' = booking /\ GoesOn(w)
      /\ (TakeTruck(w) => /\ truckStatus' = [truckStatus EXCEPT ![k.newT] = "on_trip"]
                          /\ driverStatus' = driverStatus)
      /\ (TakeDriver(w) => /\ driverStatus' = [driverStatus EXCEPT ![k.newD] = "on_trip"]
                           /\ truckStatus' = truckStatus)
  BY DEF TakeTruck, TakeDriver
<1>5. Onward(k, task'[w], 1)
  <2>1. Flow[k.op] = Flow["finalize"]
    BY <1>1
  <2>2. k.at < Len(Flow[k.op])
    BY <1>1, <2>1
  <2> QED BY <1>1, <1>4, <2>2, OneOn
<1>6. /\ task'[w].op = "finalize" /\ task'[w].newT = k.newT /\ task'[w].newD = k.newD
      /\ TakeTruck(w) => task'[w].at = 6
      /\ TakeDriver(w) => task'[w].at = 7
  BY <1>1, <1>5 DEF Onward
<1>7. HoldsTruck(w, k.newT)' /\ (TakeDriver(w) => HoldsDriver(w, k.newD)')
  <2> PICK t \in Trucks, d \in Drivers : t = k.newT /\ d = k.newD
    BY <1>2
  <2>1. HoldsTruck(w, t)' /\ (TakeDriver(w) => HoldsDriver(w, d)')
    BY <1>6 DEF HoldsTruck, HoldsDriver
  <2> QED BY <2>1
<1>8. \A d \in Drivers : ~HoldsDriver(w, d)
  BY <1>1 DEF HoldsDriver
<1>9. \A t \in Trucks : HoldsTruck(w, t) => t = k.newT
  BY <1>1 DEF HoldsTruck
<1>10. \A d \in Drivers : driverStatus'[d] = "on_trip" =>
          driverStatus[d] = "on_trip" \/ DriverHeld(d)'
  <2> SUFFICES ASSUME NEW d \in Drivers, driverStatus'[d] = "on_trip",
                      driverStatus[d] # "on_trip"
               PROVE  DriverHeld(d)'
    OBVIOUS
  <2>1. d = k.newD /\ TakeDriver(w)
    BY <1>2, <1>4 DEF TypeInv, TypeOK
  <2>2. HoldsDriver(w, d)'
    BY <1>7, <2>1
  <2> QED BY <2>2 DEF DriverHeld
<1>11. \A t \in Trucks : truckStatus'[t] = "on_trip" =>
          truckStatus[t] = "on_trip" \/ TruckHeld(t)'
  <2> SUFFICES ASSUME NEW t \in Trucks, truckStatus'[t] = "on_trip",
                      truckStatus[t] # "on_trip"
               PROVE  TruckHeld(t)'
    OBVIOUS
  <2>1. t = k.newT
    BY <1>2, <1>4 DEF TypeInv, TypeOK
  <2>2. HoldsTruck(w, t)'
    BY <1>7, <2>1
  <2> QED BY <2>2 DEF TruckHeld
<1>12. \A t \in Trucks : HoldsTruck(w, t) => HoldsTruck(w, t)'
  BY <1>7, <1>9
<1>13. \A b \in Bookings : Active(b) => /\ Active(b)' /\ trip'[b].driver = trip[b].driver
                                        /\ booking'[b].truck = booking[b].truck
  BY <1>4 DEF Active
<1> QED BY <1>3, <1>8, <1>10, <1>11, <1>12, <1>13, HoldsOn

\* The trip takes over from the handler that made it.
LEMMA HoldsInsert ==
    ASSUME TypeInv, CrewInv, HoldInv, NEW w \in Workers, InsertTrip(w)
    PROVE  HoldInv'
<1> PICK k \in Tasks : k = task[w]
  BY Moving DEF Steps, Finalize
<1>1. k.op = "finalize" /\ k.at = 7
  BY Phases DEF InsertTrip
<1>2. /\ \A v \in Workers \ {w} : task'[v] = task[v]
      /\ \A b \in Bookings \ {k.b} : trip'[b] = trip[b]
      /\ k.b \in Bookings
      /\ trip'[k.b].status = "confirmed" /\ trip'[k.b].driver = k.newD
      /\ booking[k.b].truck = k.newT /\ Claimed(w)
  BY CrewInsert
<1>3. booking' = booking /\ truckStatus' = truckStatus /\ driverStatus' = driverStatus
  BY DEF InsertTrip, fleet
<1>4. Active(k.b)'
  <2> PICK b \in Bookings : b = k.b
    BY <1>2
  <2>1. Active(b)'
    BY <1>2, StatusNames DEF Active, Over
  <2> QED BY <2>1
<1>5. ~Active(k.b)
  BY <1>2 DEF CrewInv, Active
<1>6. \A d \in Drivers : HoldsDriver(w, d) => DriverHeld(d)'
  BY <1>1, <1>2, <1>4 DEF HoldsDriver, DriverHeld, OnTripFor
<1>7. \A t \in Trucks : HoldsTruck(w, t) => TruckHeld(t)'
  BY <1>1, <1>2, <1>3, <1>4 DEF HoldsTruck, TruckHeld
<1>8. \A b \in Bookings : Active(b) => /\ Active(b)' /\ trip'[b].driver = trip[b].driver
                                       /\ booking'[b].truck = booking[b].truck
  BY <1>2, <1>3, <1>5 DEF Active
<1> QED BY <1>2, <1>3, <1>6, <1>7, <1>8, HoldsOn

\* A handler gives back what no trip needs: where the driver is on another trip,
\* so is his truck.
LEMMA HoldsRelease ==
    ASSUME OwnTruck, TypeInv, CrewInv, HoldInv, NEW w \in Workers, Release(w)
    PROVE  HoldInv'
<1> PICK k \in Tasks : k = task[w]
  BY Moving DEF Steps
<1>1. /\ Fits(k)
      /\ Busy(w) => (k.op = "status" /\ k.at = 3) \/ (k.op = "cancel" /\ k.at = 5)
      /\ FreeDriver(w) => (k.op = "status" /\ k.at = 4) \/ (k.op = "cancel" /\ k.at = 6)
      /\ FreeTruck(w) => (k.op = "status" /\ k.at = 5) \/ (k.op = "cancel" /\ k.at = 7)
  <2>1. k.op \notin {"decline", "reassign"}
    BY DEF CrewInv
  <2>2. Busy(w) => \/ k.op = "status" /\ k.at = 3
                   \/ k.op = "cancel" /\ k.at = 5
                   \/ k.op \in {"decline", "reassign"}
    BY Phases DEF Busy
  <2>3. FreeDriver(w) => \/ k.op = "status" /\ k.at = 4
                         \/ k.op = "cancel" /\ k.at = 6
                         \/ k.op \in {"decline", "reassign"}
    BY Phases DEF FreeDriver
  <2>4. FreeTruck(w) => \/ k.op = "status" /\ k.at = 5
                        \/ k.op = "cancel" /\ k.at = 7
                        \/ k.op \in {"decline", "reassign"}
    BY Phases DEF FreeTruck
  <2>5. Fits(k)
    BY Phases DEF Release, Busy, FreeDriver, FreeTruck
  <2> QED BY <2>1, <2>2, <2>3, <2>4, <2>5
<1>2. k.op \in {"status", "cancel"}
  BY <1>1 DEF Release
<1>3. /\ k.t \in Trucks => k.d = Crew[k.t]
      /\ k.newD = NoDriver /\ k.newT = NoTruck
  BY <1>2 DEF CrewInv
<1>4. \A v \in Workers \ {w} : task'[v] = task[v]
  BY Moving DEF Steps
<1>5. trip' = trip /\ booking' = booking
  BY DEF Release, Busy, FreeDriver, FreeTruck
<1>6. \A b \in Bookings : Active(b) => /\ Active(b)' /\ trip'[b].driver = trip[b].driver
                                       /\ booking'[b].truck = booking[b].truck
  BY <1>5 DEF Active
<1>7. /\ \A d \in Drivers : HoldsDriver(w, d) => d = k.d
      /\ \A t \in Trucks : HoldsTruck(w, t) => t = k.t
      /\ k.op = "status" /\ (\E t \in Trucks : HoldsTruck(w, t)) => k.to \in Over
      /\ k.op = "status" /\ (\E d \in Drivers : HoldsDriver(w, d)) => k.to \in Over
  BY <1>2 DEF HoldsDriver, HoldsTruck
<1>8. ASSUME GoesOn(w), Busy(w) \/ FreeDriver(w)
      PROVE  /\ task'[w].op = k.op /\ task'[w].at = k.at + 1 /\ task'[w].d = k.d
             /\ task'[w].t = k.t /\ task'[w].to = k.to
  <2>1. Len(Flow["status"]) = 5 /\ Len(Flow["cancel"]) = 7
    BY Lengths
  <2>2. k.at < Len(Flow[k.op])
    <3>1. CASE k.op = "status"
      <4>1. Len(Flow[k.op]) = 5
        BY <2>1, <3>1
      <4> QED BY <1>1, <1>8, <3>1, <4>1
    <3>2. CASE k.op = "cancel"
      <4>1. Len(Flow[k.op]) = 7
        BY <2>1, <3>2
      <4> QED BY <1>1, <1>8, <3>2, <4>1
    <3> QED BY <1>2, <3>1, <3>2
  <2>3. Onward(k, task'[w], 1)
    BY <1>1, <1>8, <2>2, OneOn
  <2> QED BY <2>3 DEF Onward
<1>9. CASE Busy(w)
  <2>1. truckStatus' = truckStatus /\ driverStatus' = driverStatus
    BY <1>9 DEF Busy, fleet
  <2>2. CASE OnOtherTrip(k)
    <3>1. PICK b \in Bookings : Active(b) /\ trip[b].driver = k.d
      BY <2>2 DEF OnOtherTrip
    <3>2. /\ booking[b].truck \in Trucks /\ k.d = Crew[booking[b].truck]
      BY <3>1 DEF CrewInv, Active
    <3>3. Active(b)' /\ trip'[b].driver = k.d /\ booking'[b].truck = booking[b].truck
      BY <1>6, <3>1
    <3>4. \A d \in Drivers : HoldsDriver(w, d) => DriverHeld(d)'
      BY <1>7, <3>3 DEF DriverHeld, OnTripFor
    <3>5. \A t \in Trucks : HoldsTruck(w, t) => booking[b].truck = t
      BY <1>3, <1>7, <3>2 DEF OwnTruck
    <3>6. \A t \in Trucks : HoldsTruck(w, t) => TruckHeld(t)'
      BY <3>3, <3>5 DEF TruckHeld
    <3> QED BY <1>4, <1>6, <2>1, <3>4, <3>6, HoldsOn
  <2>3. CASE ~OnOtherTrip(k)
    <3>1. GoesOn(w)
      BY <1>9, <2>3 DEF Busy, GoesOn
    <3>2. /\ task'[w].op = k.op /\ task'[w].at = k.at + 1 /\ task'[w].d = k.d
          /\ task'[w].t = k.t /\ task'[w].to = k.to
      BY <1>8, <1>9, <3>1
    <3>3. \/ k.op = "status" /\ k.at = 3 /\ task'[w].at = 4
          \/ k.op = "cancel" /\ k.at = 5 /\ task'[w].at = 6
      BY <1>1, <1>9, <3>2
    <3>4. \A d \in Drivers : HoldsDriver(w, d) => HoldsDriver(w, d)'
      BY <1>7, <3>2, <3>3 DEF HoldsDriver
    <3>5. \A t \in Trucks : HoldsTruck(w, t) => HoldsTruck(w, t)'
      BY <1>7, <3>2, <3>3 DEF HoldsTruck
    <3> QED BY <1>4, <1>6, <2>1, <3>4, <3>5, HoldsOn
  <2> QED BY <2>2, <2>3
<1>10. CASE FreeDriver(w)
  <2>1. truckStatus' = truckStatus /\ GoesOn(w)
        /\ driverStatus' = IF k.d \in {NoDriver, k.newD} THEN driverStatus
                           ELSE [driverStatus EXCEPT ![k.d] = "available"]
    BY <1>10 DEF FreeDriver
  <2>2. \A d \in Drivers : d = k.d => driverStatus'[d] # "on_trip"
    BY <1>3, <2>1, Fleet DEF TypeInv, TypeOK
  <2>3. \A d \in Drivers : driverStatus'[d] = "on_trip" => driverStatus[d] = "on_trip"
    BY <2>1 DEF TypeInv, TypeOK
  <2>4. /\ task'[w].op = k.op /\ task'[w].at = k.at + 1 /\ task'[w].d = k.d
        /\ task'[w].t = k.t /\ task'[w].to = k.to
    BY <1>8, <1>10, <2>1
  <2>5. \/ k.op = "status" /\ k.at = 4 /\ task'[w].at = 5
        \/ k.op = "cancel" /\ k.at = 6 /\ task'[w].at = 7
    BY <1>1, <1>10, <2>4
  <2>6. \A t \in Trucks : HoldsTruck(w, t) => HoldsTruck(w, t)'
    BY <1>7, <2>4, <2>5 DEF HoldsTruck
  <2> QED BY <1>4, <1>6, <1>7, <2>1, <2>2, <2>3, <2>6, HoldsOn
<1>11. CASE FreeTruck(w)
  <2>1. driverStatus' = driverStatus
        /\ truckStatus' = IF k.t \in {NoTruck, k.newT} THEN truckStatus
                          ELSE [truckStatus EXCEPT ![k.t] = "available"]
    BY <1>11 DEF FreeTruck
  <2>2. \A t \in Trucks : t = k.t => truckStatus'[t] # "on_trip"
    BY <1>3, <2>1, Fleet DEF TypeInv, TypeOK
  <2>3. \A t \in Trucks : truckStatus'[t] = "on_trip" => truckStatus[t] = "on_trip"
    BY <2>1 DEF TypeInv, TypeOK
  <2>4. \A d \in Drivers : ~HoldsDriver(w, d)
    BY <1>1, <1>11 DEF HoldsDriver
  <2> QED BY <1>4, <1>6, <1>7, <2>1, <2>2, <2>3, <2>4, HoldsOn
<1> QED BY <1>9, <1>10, <1>11 DEF Release

\* Every step keeps the drivers and trucks answered for.
LEMMA HoldStep ==
    ASSUME DirectOnly, OwnTruck
    PROVE  TypeInv /\ CrewInv /\ HoldInv /\ [Next]_vars => HoldInv'
<1> SUFFICES ASSUME TypeInv, CrewInv, HoldInv, [Next]_vars PROVE HoldInv'
  OBVIOUS
<1>1. ASSUME UNCHANGED <<booking, trip, truckStatus, task>>,
             \A d \in Drivers : driverStatus'[d] = "on_trip" => driverStatus[d] = "on_trip"
      PROVE  HoldInv'
  <2>1. \A b \in Bookings : Active(b) =>
           /\ trip'[b].driver = trip[b].driver /\ booking'[b].truck = booking[b].truck
           /\ Active(b)'
    BY <1>1 DEF Active
  <2>2. \A v \in Workers : /\ \A d \in Drivers : HoldsDriver(v, d) => HoldsDriver(v, d)'
                           /\ \A t \in Trucks : HoldsTruck(v, t) => HoldsTruck(v, t)'
    BY <1>1 DEF HoldsDriver, HoldsTruck
  <2> QED BY <1>1, <2>1, <2>2, HoldsStay
<1>2. ASSUME NEW w \in Workers, Requests(w) PROVE HoldInv'
  <2>1. PICK k : Started(w, k)
    BY <1>2, Starting
  <2>2. booking' = booking /\ trip' = trip /\ truckStatus' = truckStatus
        /\ driverStatus' = driverStatus
    BY <1>2, Starting DEF fleet
  <2>3. task[w] = Idle /\ \A v \in Workers \ {w} : task'[v] = task[v]
    BY <2>1, Beginning DEF Started
  <2>4. /\ \A d \in Drivers : ~HoldsDriver(w, d)
        /\ \A t \in Trucks : ~HoldsTruck(w, t)
    BY <2>3 DEF HoldsDriver, HoldsTruck, Idle
  <2>5. \A b \in Bookings : Active(b) =>
           /\ trip'[b].driver = trip[b].driver /\ booking'[b].truck = booking[b].truck
           /\ Active(b)'
    BY <2>2 DEF Active
  <2> QED BY <2>2, <2>3, <2>4, <2>5, HoldsOn
<1>3. ASSUME NEW w \in Workers, Steps(w) PROVE HoldInv'
  <2>1. Finalize(w) \/ Release(w) \/ UpdateTripStatus(w) \/ CancelBooking(w) \/ SetStatus(w)
    BY <1>3, DirectSteps
  <2> QED BY <2>1, HoldsNone, HoldsBooking, HoldsEnd, HoldsTake, HoldsInsert, HoldsRelease
          DEF Finalize, UpdateTripStatus, CancelBooking
<1>4. ASSUME NEW b \in Bookings, NEW t \in Trucks,
             OfferDirect(b, t) \/ \E d \in Drivers : OfferByBroker(b, t, d)
      PROVE  HoldInv'
  <2>1. booking' = booking /\ trip' = trip /\ truckStatus' = truckStatus
        /\ driverStatus' = driverStatus /\ task' = task
    BY <1>4 DEF OfferDirect, OfferByBroker, fleet
  <2> QED BY <1>1, <2>1
<1>5. ASSUME NEW d \in Drivers, Ping(d) PROVE HoldInv'
  <2>1. \A e \in Drivers : driverStatus'[e] = "on_trip" => driverStatus[e] = "on_trip"
    BY <1>5 DEF Ping, TypeInv, TypeOK
  <2> QED BY <1>1, <1>5, <2>1 DEF Ping
<1>6. ASSUME NEW t \in Trucks, Share(t) PROVE HoldInv'
  BY <1>1, <1>6 DEF Share
<1>7. CASE UNCHANGED vars
  BY <1>1, <1>7 DEF vars
<1> QED BY <1>2, <1>3, <1>4, <1>5, <1>6, <1>7 DEF Next

\* Before the first request there is no trip, no task and nobody on_trip.
LEMMA HoldInit == Init => CrewInv /\ HoldInv
<1> SUFFICES ASSUME Init PROVE CrewInv /\ HoldInv
  OBVIOUS
<1>1. \A w \in Workers : task[w].op = "none"
  BY DEF Init, Idle
<1>2. \A w \in Workers : ~Claimed(w) /\ ~Reading(w)
  BY <1>1 DEF Claimed, Reading
<1>3. \A b \in Bookings : trip[b].status = "none" /\ booking[b].truck = NoTruck
  BY DEF Init
<1>4. NoTruck \notin Trucks
  BY Fleet
<1>5. offers = {}
  BY DEF Init
<1>6. CrewInv
  BY <1>1, <1>2, <1>3, <1>4, <1>5 DEF CrewInv
<1>7. HoldInv
  BY DEF Init, HoldInv
<1> QED BY <1>6, <1>7

\* With every handler done, a trip is all that can hold a driver or a truck.
LEMMA HeldByTrips == HoldInv => LastOneReleases
<1> SUFFICES ASSUME HoldInv, AtRest
             PROVE  /\ \A d \in Drivers : driverStatus[d] = "on_trip" => OnTripFor(d) # {}
                    /\ \A t \in Trucks : truckStatus[t] = "on_trip" =>
                          \E b \in Bookings : Active(b) /\ booking[b].truck = t
  BY DEF LastOneReleases
<1>1. \A w \in Workers : task[w].op = "none"
  BY DEF AtRest, Idle
<1>2. \A w \in Workers : /\ \A d \in Drivers : ~HoldsDriver(w, d)
                         /\ \A t \in Trucks : ~HoldsTruck(w, t)
  BY <1>1 DEF HoldsDriver, HoldsTruck
<1> QED BY <1>2 DEF HoldInv, DriverHeld, TruckHeld

\* However many handlers accept, complete and cancel at once, and in whatever
\* order their queries interleave, the last of them to end a trip of a driver
\* gives him and the truck back (updateTripStatus, cancelBooking): each ends its
\* own trip before it looks for others.
THEOREM LastReleases ==
    ASSUME DirectOnly, OwnTruck
    PROVE  Spec => []LastOneReleases
<1>1. Init => TypeInv /\ CrewInv /\ HoldInv
  BY InitType, HoldInit
<1>2. TypeInv /\ CrewInv /\ HoldInv /\ [Next]_vars => (TypeInv /\ CrewInv /\ HoldInv)'
  BY NextType, CrewStep, HoldStep
<1>3. TypeInv /\ CrewInv /\ HoldInv => LastOneReleases
  BY HeldByTrips
<1> QED BY <1>1, <1>2, <1>3, PTL DEF Spec

\* Handlers run one at a time, and trips are not set back.
Serial == (\A v, w \in Workers : v = w) /\ AnyOrder = FALSE

-----------------------------------------------------------------------------
(* Drivers and bookings that agree with the trips                          *)

OnTrip(d)   == d \in Drivers /\ driverStatus[d] = "on_trip"
Employed(d) == \E b \in Bookings : Active(b) /\ trip[b].driver = d

\* The driver is on_trip exactly if one of his trips is under way.
Exact(d) == OnTrip(d) <=> Employed(d)

\* The booking is where its trip is.
Expected(s) == IF s = "confirmed" THEN "assigned" ELSE s
Agree(b) ==
    IF trip[b].status = "none"
    THEN booking[b].status \in {"pending", "confirmed", "cancelled"}
    ELSE /\ trip[b].driver \in Drivers /\ booking[b].driver = trip[b].driver
         /\ booking[b].status = Expected(trip[b].status)

ExactBut(D) == \A d \in Drivers \ D : Exact(d)
AgreeBut(B) == \A b \in Bookings \ B : Agree(b)

\* The trip the handler has read, and its driver.
HasTrip(k) == SameTrip(k) /\ trip[k.b].driver = k.d /\ k.d \in Drivers

\* What holds while a handler is under way, by how far it has come: only its own
\* booking and its own drivers may disagree.
Finalizing(k) ==
    /\ IF k.at < 7 THEN ExactBut({}) ELSE ExactBut({k.newD}) /\ OnTrip(k.newD)
    /\ IF k.at < 4 THEN AgreeBut({})
       ELSE /\ AgreeBut({k.b}) /\ trip[k.b].status = "none"
            /\ booking[k.b].status = "assigned" /\ booking[k.b].driver = k.newD

\* The driver of a trip that has just ended may still be on_trip.
Ended(k)   == ExactBut({k.d}) /\ (k.d \in Drivers /\ Employed(k.d) => OnTrip(k.d))
Freeing(k) == ExactBut({k.d}) /\ ~Employed(k.d)

Updating(k) ==
    /\ \/ /\ k.at = 1 /\ ExactBut({}) /\ AgreeBut({}) /\ HasTrip(k)
          /\ Active(k.b) /\ k.to # "confirmed"
       \/ /\ k.at = 2 /\ AgreeBut({k.b}) /\ HasTrip(k)
          /\ trip[k.b].status = k.to /\ k.to # "confirmed"
          /\ booking[k.b].driver = k.d
          /\ IF k.to \in Over THEN Ended(k) ELSE ExactBut({})
       \/ k.at = 3 /\ AgreeBut({}) /\ Ended(k) /\ ~Active(k.b)
       \/ k.at = 4 /\ AgreeBut({}) /\ Freeing(k)
       \/ k.at = 5 /\ AgreeBut({}) /\ ExactBut({})

Cancelling(k) ==
    /\ \/ /\ k.at = 1 /\ AgreeBut({}) /\ ExactBut({})
          /\ trip[k.b].status \in {"none", "confirmed", "en_route_pickup"}
       \/ /\ k.at \in 2..4 /\ AgreeBut({k.b}) /\ ExactBut({})
          /\ booking[k.b].status = "cancelled"
          /\ trip[k.b].status \in {"none", "confirmed", "en_route_pickup"}
          /\ trip[k.b].status # "none" => /\ trip[k.b].driver \in Drivers
                                          /\ booking[k.b].driver = trip[k.b].driver
          /\ k.at = 4 => HasTrip(k)
       \/ k.at = 5 /\ AgreeBut({}) /\ Ended(k) /\ ~Active(k.b)
       \/ k.at = 6 /\ AgreeBut({}) /\ Freeing(k)
       \/ k.at = 7 /\ AgreeBut({}) /\ ExactBut({})

\* The driver is freed for what is left when his trip has gone.
Declining(k) ==
    /\ HasTrip(k) /\ trip[k.b].status = "confirmed"
    /\ IF k.at < 5 THEN AgreeBut({})
       ELSE AgreeBut({k.b}) /\ booking[k.b].status = "confirmed"
    /\ IF k.at < 3 THEN ExactBut({})
       ELSE ExactBut({k.d}) /\ (OnTrip(k.d) <=> OnOtherTrip(k))
    /\ k.at = 2 => ~OnOtherTrip(k)

Reassigning(k) ==
    /\ HasTrip(k) /\ trip[k.b].status \in {"confirmed", "en_route_pickup"}
    /\ k.to = Expected(trip[k.b].status)
    /\ IF k.at < 5 THEN AgreeBut({})
       ELSE /\ AgreeBut({k.b}) /\ booking[k.b].status = k.to
            /\ booking[k.b].driver = k.newD
    /\ k.at = 2 => ~OnOtherTrip(k)
    /\ IF k.at < 3 THEN ExactBut({}) ELSE ExactBut({k.d, k.newD})
    /\ k.at \in 3..7 /\ k.d # k.newD => (OnTrip(k.d) <=> OnOtherTrip(k))
    /\ k.at \in 3..6 => Exact(k.newD) \* also if it is k.d
    /\ k.at = 7 => OnTrip(k.newD)

Toggling(k) == AgreeBut({}) /\ ExactBut({}) /\ ~Employed(k.d)

Known(k) ==
    /\ k.op = "finalize" => Finalizing(k)
    /\ k.op = "status"   => Updating(k)
    /\ k.op = "cancel"   => Cancelling(k)
    /\ k.op = "decline"  => Declining(k)
    /\ k.op = "reassign" => Reassigning(k)
    /\ k.op = "presence" => Toggling(k)
    /\ k.op \in {"status", "cancel", "decline"} => k.newD = NoDriver

SerialInv ==
    /\ AtRest => AgreeBut({}) /\ ExactBut({})
    /\ \A w \in Workers : Known(task[w])

-----------------------------------------------------------------------------
(* What every step needs                                                   *)

\* The one handler says all there is to say.
LEMMA Alone ==
    ASSUME Serial, NEW w \in Workers, NEW m, m = task'[w],
           IF m = Idle THEN AgreeBut({})' /\ ExactBut({})' ELSE Known(m)'
    PROVE  SerialInv'
<1>1. \A v \in Workers : v = w
  BY DEF Serial
<1>2. AtRest' => m = Idle
  BY DEF AtRest
<1>3. m = Idle => Known(m)'
  BY DEF Idle, Known
<1>4. Known(task[w])'
  BY <1>3 DEF Known, Finalizing, Updating, Cancelling, Declining, Reassigning, Toggling,
     Ended, Freeing, HasTrip, SameTrip, OnOtherTrip
<1> QED BY <1>1, <1>2, <1>4 DEF SerialInv

\* As long as bookings and trips stay and no driver goes on or off a trip, what is
\* known of a handler does not change.
LEMMA Steady ==
    ASSUME booking' = booking, trip' = trip,
           \A d \in Drivers : driverStatus'[d] = "on_trip" <=> driverStatus[d] = "on_trip"
    PROVE  /\ \A D : ExactBut(D)' <=> ExactBut(D)
           /\ \A B : AgreeBut(B)' <=> AgreeBut(B)
           /\ \A m : Known(m)' <=> Known(m)
<1>1. /\ \A b \in Bookings : Active(b)' <=> Active(b)
      /\ \A b \in Bookings : Agree(b)' <=> Agree(b)
      /\ \A d : OnTrip(d)' <=> OnTrip(d)
  BY DEF Active, Agree, OnTrip
<1>2. \A d : Employed(d)' <=> Employed(d)
  BY <1>1 DEF Employed
<1>3. \A D : ExactBut(D)' <=> ExactBut(D)
  BY <1>1, <1>2 DEF ExactBut, Exact
<1>4. \A B : AgreeBut(B)' <=> AgreeBut(B)
  BY <1>1 DEF AgreeBut
<1>5. ASSUME NEW m
      PROVE  /\ HasTrip(m)' <=> HasTrip(m)
             /\ OnOtherTrip(m)' <=> OnOtherTrip(m)
             /\ Ended(m)' <=> Ended(m)
             /\ Freeing(m)' <=> Freeing(m)
             /\ Exact(m.newD)' <=> Exact(m.newD)
  BY <1>1, <1>2, <1>3 DEF HasTrip, SameTrip, OnOtherTrip, Ended, Freeing, Exact
<1>6. ASSUME NEW m PROVE Finalizing(m)' <=> Finalizing(m)
  BY <1>1, <1>3, <1>4 DEF Finalizing
<1>7. ASSUME NEW m PROVE Updating(m)' <=> Updating(m)
  BY <1>3, <1>4, <1>5 DEF Updating, Active
<1>8. ASSUME NEW m PROVE Cancelling(m)' <=> Cancelling(m)
  BY <1>3, <1>4, <1>5 DEF Cancelling, Active
<1>9. ASSUME NEW m PROVE Declining(m)' <=> Declining(m)
  BY <1>1, <1>3, <1>4, <1>5 DEF Declining
<1>10. ASSUME NEW m PROVE Reassigning(m)' <=> Reassigning(m)
  BY <1>1, <1>3, <1>4, <1>5 DEF Reassigning
<1>11. ASSUME NEW m PROVE Toggling(m)' <=> Toggling(m)
  BY <1>2, <1>3, <1>4 DEF Toggling
<1> QED BY <1>3, <1>4, <1>6, <1>7, <1>8, <1>9, <1>10, <1>11 DEF Known

\* The task of a handler that makes a step, and what is known of it.
LEMMA Stepping ==
    ASSUME TypeInv, SerialInv, NEW w \in Workers, Steps(w)
    PROVE  \E k \in Tasks : /\ k = task[w] /\ k # Idle /\ Fits(k) /\ Known(k)
                            /\ k.op \in DOMAIN Flow /\ k.at \in 1..7 /\ k.b \in Bookings
<1>1. task[w] \in Tasks /\ task[w] # Idle
  BY Moving
<1>2. Fits(task[w]) /\ Known(task[w])
  BY <1>1 DEF TypeInv, TasksOK, SerialInv
<1>3. \A k \in Tasks : k.op \in DOMAIN Flow /\ k.at \in 1..7 /\ k.b \in Bookings
  BY DEF Tasks
<1> QED BY <1>1, <1>2, <1>3

\* The number of phases of the handler.
Phases7(k) == IF k.op \in {"status", "decline"} THEN 5 ELSE IF k.op = "presence" THEN 1 ELSE 7

\* Where a handler that goes on has got to.
LEMMA Goes ==
    ASSUME TypeInv, NEW w \in Workers, NEW k \in Tasks, Fits(k), NEW n \in 1..3,
           GoesOnAs(w, k, n)
    PROVE  \E m : /\ m = task'[w]
                  /\ IF k.at + n > Phases7(k) THEN m = Idle ELSE Onward(k, m, n)
<1>1. IF k.at + n > Len(Flow[k.op]) THEN task'[w] = Idle ELSE Onward(k, task'[w], n)
  BY Going
<1>2. Len(Flow[k.op]) = Phases7(k)
  <2>1. k.op \in {"finalize", "status", "cancel", "decline", "reassign", "presence"}
    BY Lengths DEF Tasks
  <2>2. \A op \in {"finalize", "cancel", "reassign"} : Len(Flow[op]) = 7
    BY Lengths
  <2>3. \A op \in {"status", "decline"} : Len(Flow[op]) = 5
    BY Lengths
  <2> QED BY <2>1, <2>2, <2>3, Lengths DEF Phases7
<1> QED BY <1>1, <1>2

-----------------------------------------------------------------------------
(* Queries that only read, or write what drivers and bookings do not say   *)

\* finalizeDriverRequest, up to the claim and between its writes.
LEMMA SerialFinalize ==
    ASSUME Serial, TypeInv, SerialInv, NEW w \in Workers,
           Gate(w) \/ Room(w) \/ DeclineOthers(w) \/ TakeTruck(w)
    PROVE  SerialInv'
<1> PICK k \in Tasks : /\ k = task[w] /\ k # Idle /\ Fits(k) /\ Known(k)
                      /\ k.op \in DOMAIN Flow /\ k.at \in 1..7 /\ k.b \in Bookings
  BY Stepping DEF Steps, Finalize
<1>1. /\ booking' = booking /\ trip' = trip /\ driverStatus' = driverStatus
  BY DEF Gate, Room, DeclineOthers, TakeTruck, fleet
<1>2. \/ k.op = "finalize" /\ k.at \in 1..2
      \/ k.op = "finalize" /\ k.at = 4
      \/ k.op = "cancel" /\ k.at = 2
      \/ k.op \in {"finalize", "reassign"} /\ k.at = 5
  <2>1. Gate(w) => k.op = "finalize" /\ k.at = 1
    BY Phases DEF Gate
  <2>2. Room(w) => k.op = "finalize" /\ k.at = 2
    BY Phases DEF Room
  <2>3. DeclineOthers(w) => \/ k.op = "finalize" /\ k.at = 4
                            \/ k.op = "cancel" /\ k.at = 2
    BY Phases DEF DeclineOthers
  <2>4. TakeTruck(w) => k.op \in {"finalize", "reassign"} /\ k.at = 5
    BY Phases DEF TakeTruck
  <2> QED BY <2>1, <2>2, <2>3, <2>4
<1>3. \/ Ends(w) /\ k.op = "finalize" /\ k.at \in 1..2
      \/ GoesOnAs(w, k, 1)
      \/ GoesOnAs(w, k, 2) /\ k.op = "finalize" /\ k.at = 1
  <2>1. Gate(w) => k.op = "finalize" /\ k.at = 1
    BY Phases DEF Gate
  <2>2. Room(w) => k.op = "finalize" /\ k.at = 2
    BY Phases DEF Room
  <2> QED BY <2>1, <2>2 DEF Gate, Room, DeclineOthers, TakeTruck, GoesOn
<1>4. PICK m : /\ m = task'[w]
               /\ \/ m = Idle /\ k.op = "finalize" /\ k.at \in 1..2
                  \/ Onward(k, m, 1)
                  \/ Onward(k, m, 2) /\ k.op = "finalize" /\ k.at = 1
  <2>1. CASE Ends(w) /\ k.op = "finalize" /\ k.at \in 1..2
    BY <2>1, Ending
  <2>2. CASE GoesOnAs(w, k, 1)
    <3>1. 1 \in 1..3
      OBVIOUS
    <3>2. ~(k.at + 1 > Phases7(k))
      BY <1>2 DEF Phases7
    <3> QED BY <2>2, <3>1, <3>2, Goes
  <2>3. CASE GoesOnAs(w, k, 2) /\ k.op = "finalize" /\ k.at = 1
    <3>1. 2 \in 1..3
      OBVIOUS
    <3>2. ~(k.at + 2 > Phases7(k))
      BY <2>3 DEF Phases7
    <3> QED BY <2>3, <3>1, <3>2, Goes
  <2> QED BY <1>3, <2>1, <2>2, <2>3
<1>5. m = Idle => AgreeBut({}) /\ ExactBut({})
  BY <1>4 DEF Known, Finalizing, Onward
<1>6. m # Idle => Known(m)
  <2>1. CASE k.op = "finalize"
    BY <1>2, <1>4, <2>1 DEF Known, Finalizing, Onward
  <2>2. CASE k.op = "cancel"
    BY <1>2, <1>4, <2>2 DEF Known, Cancelling, Onward
  <2>3. CASE k.op = "reassign"
    BY <1>2, <1>4, <2>3 DEF Known, Reassigning, Onward, HasTrip, SameTrip, OnOtherTrip
  <2> QED BY <1>2, <2>1, <2>2, <2>3
<1>7. AgreeBut({})' <=> AgreeBut({})
  BY <1>1, Steady
<1>8. ExactBut({})' <=> ExactBut({})
  BY <1>1, Steady
<1>9. Known(m)' <=> Known(m)
  BY <1>1, Steady
<1> QED BY <1>4, <1>5, <1>6, <1>7, <1>8, <1>9, Alone

\* A driver on no other trip is free once his trip is over.
LEMMA NoOther ==
    ASSUME NEW k, ~Active(k.b), ~OnOtherTrip(k)
    PROVE  ~Employed(k.d)
  BY DEF Employed, OnOtherTrip

\* The look for other trips of the driver.
LEMMA SerialBusy ==
    ASSUME Serial, TypeInv, SerialInv, NEW w \in Workers, Busy(w)
    PROVE  SerialInv'
<1> PICK k \in Tasks : /\ k = task[w] /\ k # Idle /\ Fits(k) /\ Known(k)
                      /\ k.op \in DOMAIN Flow /\ k.at \in 1..7 /\ k.b \in Bookings
  BY Stepping DEF Steps, Release
<1>1. booking' = booking /\ trip' = trip /\ driverStatus' = driverStatus
      /\ GoesOnAs(w, k, IF OnOtherTrip(k) THEN 3 ELSE 1)
  BY DEF Busy, fleet
<1>2. \/ k.op = "status" /\ k.at = 3
      \/ k.op = "cancel" /\ k.at = 5
      \/ k.op \in {"decline", "reassign"} /\ k.at = 1
  BY Phases DEF Busy
<1>3. PICK m : /\ m = task'[w]
               /\ \/ OnOtherTrip(k) /\ k.op \in {"status", "cancel"} /\ m = Idle
                  \/ OnOtherTrip(k) /\ k.op \in {"decline", "reassign"} /\ Onward(k, m, 3)
                  \/ ~OnOtherTrip(k) /\ Onward(k, m, 1)
  <2>1. CASE OnOtherTrip(k)
    <3>1. 3 \in 1..3 /\ GoesOnAs(w, k, 3)
      BY <1>1, <2>1
    <3>2. k.at + 3 > Phases7(k) <=> k.op \in {"status", "cancel"}
      BY <1>2 DEF Phases7
    <3> QED BY <1>2, <2>1, <3>1, <3>2, Goes
  <2>2. CASE ~OnOtherTrip(k)
    <3>1. 1 \in 1..3 /\ GoesOnAs(w, k, 1)
      BY <1>1, <2>2
    <3>2. ~(k.at + 1 > Phases7(k))
      BY <1>2 DEF Phases7
    <3> QED BY <2>2, <3>1, <3>2, Goes
  <2> QED BY <2>1, <2>2
<1>4. OnOtherTrip(k) => Employed(k.d)
  BY DEF OnOtherTrip, Employed
<1>5. k.op \in {"status", "cancel"} =>
         AgreeBut({}) /\ Ended(k) /\ ~Active(k.b) /\ k.newD = NoDriver
  BY <1>2 DEF Known, Updating, Cancelling
<1>6. ASSUME OnOtherTrip(k), k.op \in {"status", "cancel"}
      PROVE  AgreeBut({}) /\ ExactBut({})
  BY <1>4, <1>5, <1>6 DEF Ended, ExactBut, Exact
<1>7. ASSUME ~OnOtherTrip(k), k.op \in {"status", "cancel"}, Onward(k, m, 1)
      PROVE  Known(m)
  <2>1. ~Employed(k.d)
    BY <1>5, <1>7, NoOther
  <2>2. m.op = k.op /\ m.d = k.d /\ m.at = k.at + 1 /\ m.newD = k.newD
    BY <1>7 DEF Onward
  <2> QED BY <1>2, <1>5, <1>7, <2>1, <2>2 DEF Known, Updating, Cancelling, Ended, Freeing
<1>8. ASSUME k.op = "decline",
             IF OnOtherTrip(k) THEN Onward(k, m, 3) ELSE Onward(k, m, 1)
      PROVE  Known(m)
  <2>1. HasTrip(k) /\ trip[k.b].status = "confirmed" /\ AgreeBut({}) /\ ExactBut({})
        /\ k.newD = NoDriver
    BY <1>2, <1>8 DEF Known, Declining
  <2>2. m.op = k.op /\ m.d = k.d /\ m.b = k.b /\ m.id = k.id /\ m.newD = k.newD
        /\ m.at \in {2, 4} /\ (m.at = 2 => ~OnOtherTrip(k)) /\ (m.at = 4 => OnOtherTrip(k))
    BY <1>2, <1>8 DEF Onward
  <2>3. HasTrip(m) /\ (OnOtherTrip(m) <=> OnOtherTrip(k))
    BY <2>1, <2>2 DEF HasTrip, SameTrip, OnOtherTrip
  <2>4. m.at = 4 => OnTrip(k.d)
    BY <1>4, <2>1, <2>2 DEF ExactBut, Exact, HasTrip
  <2> QED BY <1>8, <2>1, <2>2, <2>3, <2>4 DEF Known, Declining, ExactBut
<1>9. ASSUME k.op = "reassign",
             IF OnOtherTrip(k) THEN Onward(k, m, 3) ELSE Onward(k, m, 1)
      PROVE  Known(m)
  <2>1. HasTrip(k) /\ trip[k.b].status \in {"confirmed", "en_route_pickup"}
        /\ AgreeBut({}) /\ ExactBut({}) /\ k.to = Expected(trip[k.b].status)
    BY <1>2, <1>9 DEF Known, Reassigning
  <2>2. m.op = k.op /\ m.d = k.d /\ m.b = k.b /\ m.id = k.id /\ m.newD = k.newD
        /\ m.to = k.to /\ k.newD \in Drivers
        /\ m.at \in {2, 4} /\ (m.at = 2 => ~OnOtherTrip(k)) /\ (m.at = 4 => OnOtherTrip(k))
    BY <1>2, <1>9 DEF Onward, Fits
  <2>3. HasTrip(m) /\ (OnOtherTrip(m) <=> OnOtherTrip(k))
    BY <2>1, <2>2 DEF HasTrip, SameTrip, OnOtherTrip
  <2>4. (m.at = 4 => OnTrip(k.d)) /\ Exact(k.newD)
    BY <1>4, <2>1, <2>2 DEF ExactBut, Exact, HasTrip
  <2> QED BY <1>9, <2>1, <2>2, <2>3, <2>4 DEF Known, Reassigning, ExactBut
<1>10. /\ AgreeBut({})' <=> AgreeBut({})
       /\ ExactBut({})' <=> ExactBut({})
       /\ Known(m)' <=> Known(m)
  BY <1>1, Steady
<1>11. m # Idle => Known(m)
  <2> SUFFICES ASSUME m # Idle PROVE Known(m)
    OBVIOUS
  <2>1. CASE k.op \in {"status", "cancel"}
    BY <1>3, <1>7, <2>1
  <2>2. CASE k.op \in {"decline", "reassign"}
    BY <1>3, <1>8, <1>9, <2>2
  <2> QED BY <1>2, <2>1, <2>2
<1>12. m = Idle => AgreeBut({}) /\ ExactBut({})
  BY <1>3, <1>6 DEF Onward
<1> QED BY <1>3, <1>10, <1>11, <1>12, Alone

\* The truck is no concern of the driver's.
LEMMA SerialFreeTruck ==
    ASSUME Serial, TypeInv, SerialInv, NEW w \in Workers, FreeTruck(w)
    PROVE  SerialInv'
<1> PICK k \in Tasks : /\ k = task[w] /\ k # Idle /\ Fits(k) /\ Known(k)
                      /\ k.op \in DOMAIN Flow /\ k.at \in 1..7 /\ k.b \in Bookings
  BY Stepping DEF Steps, Release
<1>1. booking' = booking /\ trip' = trip /\ driverStatus' = driverStatus
      /\ GoesOnAs(w, k, 1)
  BY DEF FreeTruck, GoesOn
<1>2. \/ k.op = "status" /\ k.at = 5
      \/ k.op = "cancel" /\ k.at = 7
      \/ k.op \in {"decline", "reassign"} /\ k.at = 3
  BY Phases DEF FreeTruck
<1>3. PICK m : /\ m = task'[w]
               /\ IF k.op \in {"status", "cancel"} THEN m = Idle ELSE Onward(k, m, 1)
  <2>1. 1 \in 1..3
    OBVIOUS
  <2>2. k.at + 1 > Phases7(k) <=> k.op \in {"status", "cancel"}
    BY <1>2 DEF Phases7
  <2> QED BY <1>1, <2>1, <2>2, Goes
<1>4. m = Idle => AgreeBut({}) /\ ExactBut({})
  BY <1>2, <1>3 DEF Onward, Known, Updating, Cancelling
<1>5. m # Idle => Known(m)
  <2> SUFFICES ASSUME m # Idle PROVE Known(m)
    OBVIOUS
  <2>1. m.op = k.op /\ m.d = k.d /\ m.b = k.b /\ m.id = k.id /\ m.newD = k.newD
        /\ m.to = k.to /\ m.at = 4 /\ k.op \in {"decline", "reassign"}
    BY <1>2, <1>3 DEF Onward
  <2>2. (HasTrip(m) <=> HasTrip(k)) /\ (OnOtherTrip(m) <=> OnOtherTrip(k))
    BY <2>1 DEF HasTrip, SameTrip, OnOtherTrip
  <2>3. CASE k.op = "decline"
    BY <1>2, <2>1, <2>2, <2>3 DEF Known, Declining
  <2>4. CASE k.op = "reassign"
    BY <1>2, <2>1, <2>2, <2>4 DEF Known, Reassigning
  <2> QED BY <2>1, <2>3, <2>4
<1>6. /\ AgreeBut({})' <=> AgreeBut({})
      /\ ExactBut({})' <=> ExactBut({})
      /\ Known(m)' <=> Known(m)
  BY <1>1, Steady
<1> QED BY <1>3, <1>4, <1>5, <1>6, Alone

\* cancelBooking reads the trip, if there is one.
LEMMA SerialFindTrip ==
    ASSUME Serial, TypeInv, SerialInv, NEW w \in Workers, FindTrip(w)
    PROVE  SerialInv'
<1> PICK k \in Tasks : /\ k = task[w] /\ k # Idle /\ Fits(k) /\ Known(k)
                      /\ k.op \in DOMAIN Flow /\ k.at \in 1..7 /\ k.b \in Bookings
  BY Stepping DEF Steps, CancelBooking
<1>1. booking' = booking /\ trip' = trip /\ driverStatus' = driverStatus
  BY DEF FindTrip, fleet
<1>2. k.op = "cancel" /\ k.at = 3
  BY Phases DEF FindTrip
<1>3. /\ AgreeBut({k.b}) /\ ExactBut({}) /\ booking[k.b].status = "cancelled"
      /\ trip[k.b].status \in {"none", "confirmed", "en_route_pickup"}
      /\ trip[k.b].status # "none" => /\ trip[k.b].driver \in Drivers
                                      /\ booking[k.b].driver = trip[k.b].driver
      /\ k.newD = NoDriver
  BY <1>2 DEF Known, Cancelling
<1>4. \E m : m = task'[w] /\ m # Idle /\ Known(m)
  <2>1. CASE trip[k.b].status = "none"
    <3>1. GoesOnAs(w, k, 2) /\ 2 \in 1..3
      BY <2>1 DEF FindTrip
    <3>2. ~(k.at + 2 > Phases7(k))
      BY <1>2 DEF Phases7
    <3>3. PICK m : m = task'[w] /\ Onward(k, m, 2)
      BY <3>1, <3>2, Goes
    <3>4. m.op = "cancel" /\ m.at = 5 /\ m.d = k.d /\ m.b = k.b /\ m.newD = NoDriver
          /\ m # Idle
      BY <1>2, <1>3, <3>3 DEF Onward
    <3>5. AgreeBut({})
      BY <1>3, <2>1 DEF AgreeBut, Agree
    <3>6. Ended(m)
      BY <1>3 DEF Ended, ExactBut, Exact
    <3>7. ~Active(k.b)
      BY <2>1 DEF Active
    <3> QED BY <3>3, <3>4, <3>5, <3>6, <3>7 DEF Known, Cancelling
  <2>2. CASE trip[k.b].status # "none"
    <3> DEFINE n == [k EXCEPT !.id = trip[k.b].id, !.d = trip[k.b].driver,
                              !.t = booking[k.b].truck]
    <3>1. /\ trip[k.b].id \in 0..MaxTrips /\ trip[k.b].driver \in Drivers \union {NoDriver}
          /\ booking[k.b].truck \in Trucks \union {NoTruck}
      BY DEF TypeInv, TypeOK
    <3>2. GoesOnAs(w, n, 1) /\ 1 \in 1..3
      BY <2>2 DEF FindTrip
    <3>3. n \in Tasks /\ n.op = "cancel" /\ n.at = 3 /\ n.b = k.b /\ n.id = trip[k.b].id
          /\ n.d = trip[k.b].driver /\ n.newD = NoDriver
      BY <1>2, <1>3, <3>1 DEF Tasks
    <3> HIDE DEF n
    <3>4. Fits(n) /\ ~(n.at + 1 > Phases7(n))
      BY <3>3 DEF Fits, Phases7
    <3>5. PICK m : m = task'[w] /\ Onward(n, m, 1)
      BY <3>2, <3>3, <3>4, Goes
    <3>6. m.op = "cancel" /\ m.at = 4 /\ m.b = k.b /\ m.id = trip[k.b].id
          /\ m.d = trip[k.b].driver /\ m.newD = NoDriver /\ m # Idle
      BY <3>3, <3>5 DEF Onward
    <3>7. HasTrip(m)
      BY <1>3, <2>2, <3>6 DEF HasTrip, SameTrip
    <3>8. /\ AgreeBut({m.b}) /\ booking[m.b].status = "cancelled"
          /\ trip[m.b].status \in {"none", "confirmed", "en_route_pickup"}
          /\ trip[m.b].driver \in Drivers /\ booking[m.b].driver = trip[m.b].driver
      BY <1>3, <2>2, <3>6
    <3>9. Cancelling(m)
      BY <1>3, <3>6, <3>7, <3>8 DEF Cancelling
    <3> QED BY <3>5, <3>6, <3>9 DEF Known
  <2> QED BY <2>1, <2>2
<1>5. \A m : Known(m)' <=> Known(m)
  BY <1>1, Steady
<1> QED BY <1>4, <1>5, Alone

-----------------------------------------------------------------------------
(* Queries that write the booking                                          *)

\* A write of the booking c leaves drivers and trips as they are, and the other
\* bookings.
LEMMA BookingWritten ==
    ASSUME trip' = trip, driverStatus' = driverStatus, NEW c \in Bookings,
           \A b \in Bookings \ {c} : booking'[b] = booking[b]
    PROVE  /\ \A D : ExactBut(D)' <=> ExactBut(D)
           /\ \A d : (Exact(d)' <=> Exact(d)) /\ (OnTrip(d)' <=> OnTrip(d))
           /\ \A b \in Bookings : Active(b)' <=> Active(b)
           /\ \A m : /\ HasTrip(m)' <=> HasTrip(m)
                     /\ OnOtherTrip(m)' <=> OnOtherTrip(m)
                     /\ Ended(m)' <=> Ended(m)
           /\ AgreeBut({}) \/ AgreeBut({c}) => AgreeBut({c})'
           /\ AgreeBut({c})' /\ Agree(c)' => AgreeBut({})'
<1>1. /\ \A b \in Bookings : Active(b)' <=> Active(b)
      /\ \A d : OnTrip(d)' <=> OnTrip(d)
  BY DEF Active, OnTrip
<1>2. \A d : Employed(d)' <=> Employed(d)
  BY <1>1 DEF Employed
<1>3. \A d : Exact(d)' <=> Exact(d)
  BY <1>1, <1>2 DEF Exact
<1>4. \A D : ExactBut(D)' <=> ExactBut(D)
  BY <1>3 DEF ExactBut
<1>5. ASSUME NEW m
      PROVE  /\ HasTrip(m)' <=> HasTrip(m)
             /\ OnOtherTrip(m)' <=> OnOtherTrip(m)
             /\ Ended(m)' <=> Ended(m)
  BY <1>1, <1>2, <1>4 DEF HasTrip, SameTrip, OnOtherTrip, Ended
<1>6. AgreeBut({}) \/ AgreeBut({c}) => AgreeBut({c})'
  BY DEF AgreeBut, Agree
<1>7. AgreeBut({c})' /\ Agree(c)' => AgreeBut({})'
  BY DEF AgreeBut
<1> QED BY <1>1, <1>3, <1>4, <1>5, <1>6, <1>7

\* A booking that waits to be claimed has no trip.
LEMMA SerialClaim ==
    ASSUME Serial, TypeInv, SerialInv, NEW w \in Workers, Claim(w)
    PROVE  SerialInv'
<1> PICK k \in Tasks : /\ k = task[w] /\ k # Idle /\ Fits(k) /\ Known(k)
                      /\ k.op \in DOMAIN Flow /\ k.at \in 1..7 /\ k.b \in Bookings
  BY Stepping DEF Steps, Finalize
<1>1. k.op = "finalize" /\ k.at = 3
  BY Phases DEF Claim
<1>2. AgreeBut({}) /\ ExactBut({})
  BY <1>1 DEF Known, Finalizing
<1>3. trip' = trip /\ driverStatus' = driverStatus
  BY DEF Claim, fleet
<1>4. CASE booking' = booking /\ Ends(w)
  <2>1. PICK m : m = task'[w] /\ m = Idle
    BY <1>4, Ending
  <2>2. /\ AgreeBut({})' <=> AgreeBut({})
        /\ ExactBut({})' <=> ExactBut({})
    BY <1>3, <1>4, Steady
  <2> QED BY <1>2, <2>1, <2>2, Alone
<1>5. CASE /\ booking[k.b].status \in {"confirmed", "pending"} /\ GoesOnAs(w, k, 1)
           /\ booking' = [booking EXCEPT ![k.b] =
                             [status |-> "assigned", truck |-> k.newT, driver |-> k.newD]]
  <2>1. trip[k.b].status = "none"
    BY <1>2, <1>5, StatusNames DEF AgreeBut, Agree, Expected, TypeInv, TypeOK
  <2>2. /\ booking'[k.b].status = "assigned" /\ booking'[k.b].driver = k.newD
        /\ \A b \in Bookings \ {k.b} : booking'[b] = booking[b]
    BY <1>5 DEF TypeInv, TypeOK
  <2>3. 1 \in 1..3 /\ ~(k.at + 1 > Phases7(k))
    BY <1>1 DEF Phases7
  <2>4. PICK m : m = task'[w] /\ Onward(k, m, 1)
    BY <1>5, <2>3, Goes
  <2>5. m.op = "finalize" /\ m.at = 4 /\ m.b = k.b /\ m.newD = k.newD /\ m # Idle
    BY <1>1, <2>4 DEF Onward
  <2>6. ExactBut({})' /\ AgreeBut({k.b})'
    BY <1>2, <1>3, <2>2, BookingWritten
  <2>7. Finalizing(m)'
    BY <1>3, <2>1, <2>2, <2>5, <2>6 DEF Finalizing
  <2> QED BY <2>4, <2>5, <2>7, Alone DEF Known
<1> QED BY <1>4, <1>5 DEF Claim, GoesOn

\* The booking follows the trip (updateTripStatus).
LEMMA SerialSetBooking ==
    ASSUME Serial, TypeInv, SerialInv, NEW w \in Workers, SetBooking(w)
    PROVE  SerialInv'
<1> PICK k \in Tasks : /\ k = task[w] /\ k # Idle /\ Fits(k) /\ Known(k)
                      /\ k.op \in DOMAIN Flow /\ k.at \in 1..7 /\ k.b \in Bookings
  BY Stepping DEF Steps, UpdateTripStatus
<1>1. k.op = "status" /\ k.at = 2
  BY Phases DEF SetBooking
<1>2. /\ AgreeBut({k.b}) /\ HasTrip(k) /\ trip[k.b].status = k.to /\ k.to # "confirmed"
      /\ booking[k.b].driver = k.d /\ k.newD = NoDriver
      /\ IF k.to \in Over THEN Ended(k) ELSE ExactBut({})
  BY <1>1 DEF Known, Updating
<1>3. trip' = trip /\ driverStatus' = driverStatus
  BY DEF SetBooking, fleet
<1>4. /\ booking'[k.b].status = k.to /\ booking'[k.b].driver = k.d
      /\ \A b \in Bookings \ {k.b} : booking'[b] = booking[b]
  BY <1>2 DEF SetBooking, TypeInv, TypeOK
<1>5. AgreeBut({})'
  <2>1. PICK b \in Bookings : b = k.b
    OBVIOUS
  <2>2. Agree(b)'
    BY <1>2, <1>3, <1>4, <2>1 DEF Agree, Expected, HasTrip, SameTrip
  <2> QED BY <1>2, <1>3, <1>4, <2>1, <2>2, BookingWritten
<1>6. CASE k.to \in Over
  <2>1. GoesOnAs(w, k, 1) /\ 1 \in 1..3 /\ ~(k.at + 1 > Phases7(k))
    BY <1>1, <1>6 DEF SetBooking, GoesOn, Phases7
  <2>2. PICK m : m = task'[w] /\ Onward(k, m, 1)
    BY <2>1, Goes
  <2>3. m.op = "status" /\ m.at = 3 /\ m.b = k.b /\ m.d = k.d /\ m.newD = NoDriver /\ m # Idle
    BY <1>1, <1>2, <2>2 DEF Onward
  <2>4. Ended(m)
    BY <1>2, <1>6, <2>3 DEF Ended
  <2>5. Ended(m)'
    BY <1>3, <1>4, <2>4, BookingWritten
  <2>6. ~Active(k.b)
    BY <1>2, <1>6 DEF Active
  <2>7. ~Active(m.b)'
    BY <1>3, <2>3, <2>6 DEF Active
  <2> QED BY <1>5, <2>2, <2>3, <2>5, <2>7, Alone DEF Known, Updating
<1>7. CASE k.to \notin Over
  <2>1. PICK m : m = task'[w] /\ m = Idle
    BY <1>7, Ending DEF SetBooking
  <2>2. ExactBut({})'
    BY <1>2, <1>3, <1>4, <1>7, BookingWritten
  <2> QED BY <1>5, <2>1, <2>2, Alone
<1> QED BY <1>6, <1>7

\* cancelBooking cancels the booking before it has looked for the trip.
LEMMA SerialCancelWrite ==
    ASSUME Serial, TypeInv, SerialInv, NEW w \in Workers, CancelWrite(w)
    PROVE  SerialInv'
<1> PICK k \in Tasks : /\ k = task[w] /\ k # Idle /\ Fits(k) /\ Known(k)
                      /\ k.op \in DOMAIN Flow /\ k.at \in 1..7 /\ k.b \in Bookings
  BY Stepping DEF Steps, CancelBooking
<1>1. k.op = "cancel" /\ k.at = 1
  BY Phases DEF CancelWrite
<1>2. /\ AgreeBut({}) /\ ExactBut({}) /\ k.newD = NoDriver
      /\ trip[k.b].status \in {"none", "confirmed", "en_route_pickup"}
  BY <1>1 DEF Known, Cancelling
<1>3. trip' = trip /\ driverStatus' = driverStatus /\ GoesOnAs(w, k, 1)
  BY DEF CancelWrite, fleet, GoesOn
<1>4. /\ booking'[k.b].status = "cancelled" /\ booking'[k.b].driver = booking[k.b].driver
      /\ \A b \in Bookings \ {k.b} : booking'[b] = booking[b]
  BY DEF CancelWrite, TypeInv, TypeOK
<1>5. trip[k.b].status # "none" => /\ trip[k.b].driver \in Drivers
                                   /\ booking[k.b].driver = trip[k.b].driver
  BY <1>2 DEF AgreeBut, Agree
<1>6. ExactBut({})' /\ AgreeBut({k.b})'
  BY <1>2, <1>3, <1>4, BookingWritten
<1>7. 1 \in 1..3 /\ ~(k.at + 1 > Phases7(k))
  BY <1>1 DEF Phases7
<1>8. PICK m : m = task'[w] /\ Onward(k, m, 1)
  BY <1>3, <1>7, Goes
<1>9. m.op = "cancel" /\ m.at = 2 /\ m.b = k.b /\ m.newD = NoDriver /\ m # Idle
  BY <1>1, <1>2, <1>8 DEF Onward
<1>10. Cancelling(m)'
  BY <1>2, <1>3, <1>4, <1>5, <1>6, <1>9 DEF Cancelling
<1> QED BY <1>8, <1>9, <1>10, Alone DEF Known

\* declineTrip hands the booking back before it removes the trip.
LEMMA SerialUnassign ==
    ASSUME Serial, TypeInv, SerialInv, NEW w \in Workers, Unassign(w)
    PROVE  SerialInv'
<1> PICK k \in Tasks : /\ k = task[w] /\ k # Idle /\ Fits(k) /\ Known(k)
                      /\ k.op \in DOMAIN Flow /\ k.at \in 1..7 /\ k.b \in Bookings
  BY Stepping DEF Steps, DeclineTrip
<1>1. k.op = "decline" /\ k.at = 4
  BY Phases DEF Unassign
<1>2. /\ HasTrip(k) /\ trip[k.b].status = "confirmed" /\ AgreeBut({})
      /\ ExactBut({k.d}) /\ (OnTrip(k.d) <=> OnOtherTrip(k)) /\ k.newD = NoDriver
  BY <1>1 DEF Known, Declining
<1>3. trip' = trip /\ driverStatus' = driverStatus /\ GoesOnAs(w, k, 1)
  BY DEF Unassign, fleet, GoesOn
<1>4. /\ booking'[k.b].status = "confirmed"
      /\ \A b \in Bookings \ {k.b} : booking'[b] = booking[b]
  BY DEF Unassign, TypeInv, TypeOK
<1>5. 1 \in 1..3 /\ ~(k.at + 1 > Phases7(k))
  BY <1>1 DEF Phases7
<1>6. PICK m : m = task'[w] /\ Onward(k, m, 1)
  BY <1>3, <1>5, Goes
<1>7. m.op = "decline" /\ m.at = 5 /\ m.b = k.b /\ m.id = k.id /\ m.d = k.d
      /\ m.newD = NoDriver /\ m # Idle
  BY <1>1, <1>2, <1>6 DEF Onward
<1>8. HasTrip(m) /\ (OnTrip(m.d) <=> OnOtherTrip(m))
  BY <1>2, <1>7 DEF HasTrip, SameTrip, OnOtherTrip
<1>9. HasTrip(m)' /\ (OnTrip(m.d)' <=> OnOtherTrip(m)') /\ ExactBut({k.d})' /\ AgreeBut({k.b})'
  BY <1>2, <1>3, <1>4, <1>8, BookingWritten
<1>10. Declining(m)'
  BY <1>2, <1>3, <1>4, <1>7, <1>9 DEF Declining
<1> QED BY <1>6, <1>7, <1>10, Alone DEF Known

\* The reassignment rewrites the booking with the status it has read.
LEMMA SerialRewrite ==
    ASSUME Serial, TypeInv, SerialInv, NEW w \in Workers, Rewrite(w)
    PROVE  SerialInv'
<1> PICK k \in Tasks : /\ k = task[w] /\ k # Idle /\ Fits(k) /\ Known(k)
                      /\ k.op \in DOMAIN Flow /\ k.at \in 1..7 /\ k.b \in Bookings
  BY Stepping DEF Steps, Reassign
<1>1. k.op = "reassign" /\ k.at = 4
  BY Phases DEF Rewrite
<1>2. /\ HasTrip(k) /\ trip[k.b].status \in {"confirmed", "en_route_pickup"}
      /\ k.to = Expected(trip[k.b].status) /\ AgreeBut({})
      /\ ExactBut({k.d, k.newD}) /\ (k.d # k.newD => (OnTrip(k.d) <=> OnOtherTrip(k)))
      /\ Exact(k.newD)
  BY <1>1 DEF Known, Reassigning
<1>3. trip' = trip /\ driverStatus' = driverStatus /\ GoesOnAs(w, k, 1)
  BY DEF Rewrite, fleet, GoesOn
<1>4. /\ booking'[k.b].status = k.to /\ booking'[k.b].driver = k.newD
      /\ \A b \in Bookings \ {k.b} : booking'[b] = booking[b]
  BY DEF Rewrite, TypeInv, TypeOK
<1>5. 1 \in 1..3 /\ ~(k.at + 1 > Phases7(k))
  BY <1>1 DEF Phases7
<1>6. PICK m : m = task'[w] /\ Onward(k, m, 1)
  BY <1>3, <1>5, Goes
<1>7. m.op = "reassign" /\ m.at = 5 /\ m.b = k.b /\ m.id = k.id /\ m.d = k.d
      /\ m.newD = k.newD /\ m.to = k.to /\ m # Idle
  BY <1>1, <1>6 DEF Onward
<1>8. HasTrip(m) /\ (m.d # m.newD => (OnTrip(m.d) <=> OnOtherTrip(m)))
  BY <1>2, <1>7 DEF HasTrip, SameTrip, OnOtherTrip
<1>9. /\ HasTrip(m)' /\ (m.d # m.newD => (OnTrip(m.d)' <=> OnOtherTrip(m)'))
      /\ ExactBut({k.d, k.newD})' /\ Exact(k.newD)' /\ AgreeBut({k.b})'
  BY <1>2, <1>3, <1>4, <1>8, BookingWritten
<1>10. Reassigning(m)'
  BY <1>2, <1>3, <1>4, <1>7, <1>9 DEF Reassigning
<1> QED BY <1>6, <1>7, <1>10, Alone DEF Known

-----------------------------------------------------------------------------
(* Queries that write the driver's status                                  *)

\* A write of the status of driver e leaves bookings and trips as they are, and the
\* other drivers.
LEMMA DriverWritten ==
    ASSUME trip' = trip, booking' = booking, NEW e \in Drivers,
           \A d \in Drivers \ {e} : driverStatus'[d] = driverStatus[d]
    PROVE  /\ \A B : AgreeBut(B)' <=> AgreeBut(B)
           /\ \A d : Employed(d)' <=> Employed(d)
           /\ \A d : d # e => (Exact(d)' <=> Exact(d)) /\ (OnTrip(d)' <=> OnTrip(d))
           /\ \A m : /\ HasTrip(m)' <=> HasTrip(m)
                     /\ OnOtherTrip(m)' <=> OnOtherTrip(m)
           /\ \A D : e \in D => (ExactBut(D)' <=> ExactBut(D))
           /\ ExactBut({}) \/ ExactBut({e}) => ExactBut({e})'
           /\ ExactBut({e})' /\ Exact(e)' => ExactBut({})'
<1>1. /\ \A b \in Bookings : Active(b)' <=> Active(b)
      /\ \A b \in Bookings : Agree(b)' <=> Agree(b)
  BY DEF Active, Agree
<1>2. \A d : Employed(d)' <=> Employed(d)
  BY <1>1 DEF Employed
<1>3. \A d : d # e => (Exact(d)' <=> Exact(d)) /\ (OnTrip(d)' <=> OnTrip(d))
  BY <1>2 DEF Exact, OnTrip
<1>4. \A B : AgreeBut(B)' <=> AgreeBut(B)
  BY <1>1 DEF AgreeBut
<1>5. ASSUME NEW m
      PROVE  /\ HasTrip(m)' <=> HasTrip(m)
             /\ OnOtherTrip(m)' <=> OnOtherTrip(m)
  BY <1>1 DEF HasTrip, SameTrip, OnOtherTrip
<1>6. \A D : e \in D => (ExactBut(D)' <=> ExactBut(D))
  BY <1>3 DEF ExactBut
<1>7. ExactBut({}) => ExactBut({e})
  BY DEF ExactBut
<1>8. ExactBut({e})' /\ Exact(e)' => ExactBut({})'
  BY DEF ExactBut
<1> QED BY <1>2, <1>3, <1>4, <1>5, <1>6, <1>7, <1>8

\* The driver is taken after the truck and before there is a trip for him.
LEMMA SerialTakeDriver ==
    ASSUME Serial, TypeInv, SerialInv, NEW w \in Workers, TakeDriver(w)
    PROVE  SerialInv'
<1> PICK k \in Tasks : /\ k = task[w] /\ k # Idle /\ Fits(k) /\ Known(k)
                      /\ k.op \in DOMAIN Flow /\ k.at \in 1..7 /\ k.b \in Bookings
  BY Stepping DEF Steps, Finalize
<1>1. k.op \in {"finalize", "reassign"} /\ k.at = 6 /\ k.newD \in Drivers
  BY Phases DEF TakeDriver, Fits
<1>2. trip' = trip /\ booking' = booking /\ GoesOnAs(w, k, 1)
  BY DEF TakeDriver, GoesOn
<1>3. driverStatus' = [driverStatus EXCEPT ![k.newD] = "on_trip"]
  BY DEF TakeDriver
<1>4. OnTrip(k.newD)' /\ \A d \in Drivers \ {k.newD} : driverStatus'[d] = driverStatus[d]
  <2>1. driverStatus'[k.newD] = "on_trip"
    BY <1>1, <1>3 DEF TypeInv, TypeOK
  <2> QED BY <1>1, <1>3, <2>1 DEF TypeInv, TypeOK, OnTrip
<1>5. 1 \in 1..3 /\ ~(k.at + 1 > Phases7(k))
  BY <1>1 DEF Phases7
<1>6. PICK m : m = task'[w] /\ Onward(k, m, 1)
  BY <1>2, <1>5, Goes
<1>7. m.op = k.op /\ m.at = 7 /\ m.b = k.b /\ m.id = k.id /\ m.d = k.d
      /\ m.newD = k.newD /\ m.to = k.to /\ m # Idle
  BY <1>1, <1>6 DEF Onward
<1>8. CASE k.op = "finalize"
  <2>1. /\ ExactBut({}) /\ AgreeBut({k.b}) /\ trip[k.b].status = "none"
        /\ booking[k.b].status = "assigned" /\ booking[k.b].driver = k.newD
    BY <1>1, <1>8 DEF Known, Finalizing
  <2>2. ExactBut({k.newD})' /\ AgreeBut({k.b})'
    BY <1>1, <1>2, <1>4, <2>1, DriverWritten
  <2>3. Finalizing(m)'
    BY <1>2, <1>4, <1>7, <2>1, <2>2 DEF Finalizing
  <2> QED BY <1>6, <1>7, <1>8, <2>3, Alone DEF Known
<1>9. CASE k.op = "reassign"
  <2>1. /\ HasTrip(k) /\ trip[k.b].status \in {"confirmed", "en_route_pickup"}
        /\ k.to = Expected(trip[k.b].status) /\ AgreeBut({k.b})
        /\ booking[k.b].status = k.to /\ booking[k.b].driver = k.newD
        /\ ExactBut({k.d, k.newD}) /\ (k.d # k.newD => (OnTrip(k.d) <=> OnOtherTrip(k)))
    BY <1>1, <1>9 DEF Known, Reassigning
  <2>2. HasTrip(m) /\ (m.d # m.newD => (OnTrip(m.d) <=> OnOtherTrip(m)))
    BY <1>7, <2>1 DEF HasTrip, SameTrip, OnOtherTrip
  <2>3. /\ HasTrip(m)' /\ (m.d # m.newD => (OnTrip(m.d)' <=> OnOtherTrip(m)'))
        /\ ExactBut({k.d, k.newD})' /\ AgreeBut({k.b})'
    BY <1>1, <1>2, <1>4, <1>7, <2>1, <2>2, DriverWritten
  <2>4. Reassigning(m)'
    BY <1>2, <1>4, <1>7, <2>1, <2>3 DEF Reassigning
  <2> QED BY <1>6, <1>7, <1>9, <2>4, Alone DEF Known
<1> QED BY <1>1, <1>8, <1>9

\* The driver of no other trip is freed; a reassignment to himself keeps him.
LEMMA SerialFreeDriver ==
    ASSUME Serial, TypeInv, SerialInv, NEW w \in Workers, FreeDriver(w)
    PROVE  SerialInv'
<1> PICK k \in Tasks : /\ k = task[w] /\ k # Idle /\ Fits(k) /\ Known(k)
                      /\ k.op \in DOMAIN Flow /\ k.at \in 1..7 /\ k.b \in Bookings
  BY Stepping DEF Steps, Release
<1>1. \/ k.op = "status" /\ k.at = 4
      \/ k.op = "cancel" /\ k.at = 6
      \/ k.op \in {"decline", "reassign"} /\ k.at = 2
  BY Phases DEF FreeDriver
<1>2. trip' = trip /\ booking' = booking /\ GoesOnAs(w, k, 1)
      /\ driverStatus' = IF k.d \in {NoDriver, k.newD} THEN driverStatus
                         ELSE [driverStatus EXCEPT ![k.d] = "available"]
  BY DEF FreeDriver, GoesOn
<1>3. k.op # "reassign" => k.newD = NoDriver
  BY <1>1 DEF Known
<1>4. k.d \in Drivers \union {NoDriver} /\ NoDriver \notin Drivers
  BY Fleet DEF Tasks
<1>5. 1 \in 1..3 /\ ~(k.at + 1 > Phases7(k))
  BY <1>1 DEF Phases7
<1>6. PICK m : m = task'[w] /\ Onward(k, m, 1)
  BY <1>2, <1>5, Goes
<1>7. m.op = k.op /\ m.at = k.at + 1 /\ m.b = k.b /\ m.id = k.id /\ m.d = k.d
      /\ m.newD = k.newD /\ m.to = k.to /\ m # Idle
  BY <1>1, <1>6 DEF Onward
<1>8. CASE k.d \in {NoDriver, k.newD}
  <2>1. \A n : Known(n)' <=> Known(n)
    BY <1>2, <1>8, Steady
  <2>2. CASE k.op \in {"status", "cancel"}
    <3>1. AgreeBut({}) /\ Freeing(k)
      BY <1>1, <2>2 DEF Known, Updating, Cancelling
    <3>2. k.d = NoDriver
      BY <1>3, <1>8, <2>2
    <3>3. ExactBut({})
      BY <1>4, <3>1, <3>2 DEF Freeing, ExactBut
    <3>4. Known(m)
      BY <1>1, <1>3, <1>7, <2>2, <3>1, <3>3 DEF Known, Updating, Cancelling
    <3> QED BY <1>6, <1>7, <2>1, <3>4, Alone
  <2>3. CASE k.op = "decline"
    <3>1. k.d \in Drivers
      BY <1>1, <2>3 DEF Known, Declining, HasTrip
    <3> QED BY <1>3, <1>4, <1>8, <2>3, <3>1
  <2>4. CASE k.op = "reassign"
    <3>1. /\ HasTrip(k) /\ trip[k.b].status \in {"confirmed", "en_route_pickup"}
          /\ k.to = Expected(trip[k.b].status) /\ AgreeBut({}) /\ ExactBut({})
      BY <1>1, <2>4 DEF Known, Reassigning
    <3>2. k.d = k.newD /\ k.d \in Drivers
      BY <1>4, <1>8, <3>1 DEF HasTrip
    <3>3. HasTrip(m) /\ m.at = 3 /\ Exact(m.newD) /\ ExactBut({m.d, m.newD})
      BY <1>1, <1>7, <2>4, <3>1, <3>2 DEF HasTrip, SameTrip, ExactBut
    <3>4. Reassigning(m)
      BY <1>7, <3>1, <3>2, <3>3 DEF Reassigning
    <3>5. Known(m)
      BY <1>7, <2>4, <3>4 DEF Known
    <3> QED BY <1>6, <1>7, <2>1, <3>5, Alone
  <2> QED BY <1>1, <2>2, <2>3, <2>4
<1>9. CASE k.d \notin {NoDriver, k.newD}
  <2>1. k.d \in Drivers /\ driverStatus' = [driverStatus EXCEPT ![k.d] = "available"]
    BY <1>2, <1>4, <1>9
  <2>2. ~OnTrip(k.d)' /\ \A d \in Drivers \ {k.d} : driverStatus'[d] = driverStatus[d]
    <3>1. driverStatus'[k.d] = "available"
      BY <2>1 DEF TypeInv, TypeOK
    <3> QED BY <2>1, <3>1 DEF TypeInv, TypeOK, OnTrip
  <2>3. CASE k.op \in {"status", "cancel"}
    <3>1. AgreeBut({}) /\ ExactBut({k.d}) /\ ~Employed(k.d)
      BY <1>1, <2>3 DEF Known, Updating, Cancelling, Freeing
    <3>2. AgreeBut({})' /\ ExactBut({k.d})' /\ ~Employed(k.d)'
      BY <1>2, <2>1, <2>2, <3>1, DriverWritten
    <3>3. Exact(k.d)'
      BY <2>2, <3>2 DEF Exact
    <3>4. ExactBut({})'
      BY <1>2, <2>1, <2>2, <3>2, <3>3, DriverWritten
    <3>5. Known(m)'
      BY <1>1, <1>3, <1>7, <2>3, <3>2, <3>4 DEF Known, Updating, Cancelling
    <3> QED BY <1>6, <1>7, <3>5, Alone
  <2>4. CASE k.op = "decline"
    <3>1. /\ HasTrip(k) /\ trip[k.b].status = "confirmed" /\ AgreeBut({})
          /\ ExactBut({}) /\ ~OnOtherTrip(k)
      BY <1>1, <2>4 DEF Known, Declining
    <3>2. HasTrip(m) /\ ~OnOtherTrip(m)
      BY <1>7, <3>1 DEF HasTrip, SameTrip, OnOtherTrip
    <3>3. HasTrip(m)' /\ ~OnOtherTrip(m)' /\ ExactBut({k.d})' /\ AgreeBut({})'
      BY <1>2, <2>1, <2>2, <3>1, <3>2, DriverWritten
    <3>4. Declining(m)'
      BY <1>1, <1>2, <1>7, <2>2, <2>4, <3>1, <3>3 DEF Declining
    <3> QED BY <1>3, <1>6, <1>7, <2>4, <3>4, Alone DEF Known
  <2>5. CASE k.op = "reassign"
    <3>1. /\ HasTrip(k) /\ trip[k.b].status \in {"confirmed", "en_route_pickup"}
          /\ k.to = Expected(trip[k.b].status) /\ AgreeBut({}) /\ ExactBut({})
          /\ ~OnOtherTrip(k) /\ k.newD \in Drivers
      BY <1>1, <2>5 DEF Known, Reassigning, Fits
    <3>2. HasTrip(m) /\ ~OnOtherTrip(m) /\ Exact(k.newD) /\ ExactBut({k.d, k.newD})
      BY <1>7, <3>1 DEF HasTrip, SameTrip, OnOtherTrip, ExactBut
    <3>3. /\ HasTrip(m)' /\ ~OnOtherTrip(m)' /\ Exact(k.newD)'
          /\ ExactBut({k.d, k.newD})' /\ AgreeBut({})'
      BY <1>2, <1>9, <2>1, <2>2, <3>1, <3>2, DriverWritten
    <3>4. Reassigning(m)'
      BY <1>1, <1>2, <1>7, <2>2, <2>5, <3>1, <3>3 DEF Reassigning
    <3> QED BY <1>6, <1>7, <2>5, <3>4, Alone DEF Known
  <2> QED BY <1>1, <2>3, <2>4, <2>5
<1> QED BY <1>8, <1>9

\* A driver on no trip changes his own status.
LEMMA SerialSetStatus ==
    ASSUME Serial, TypeInv, SerialInv, NEW w \in Workers, SetStatus(w)
    PROVE  SerialInv'
<1> PICK k \in Tasks : /\ k = task[w] /\ k # Idle /\ Fits(k) /\ Known(k)
                      /\ k.op \in DOMAIN Flow /\ k.at \in 1..7 /\ k.b \in Bookings
  BY Stepping DEF Steps, Release
<1>1. k.op = "presence" /\ k.d \in Drivers /\ k.to \in {"available", "offline"}
  BY Phases DEF SetStatus, Fits
<1>2. AgreeBut({}) /\ ExactBut({}) /\ ~Employed(k.d)
  BY <1>1 DEF Known, Toggling
<1>3. trip' = trip /\ booking' = booking
      /\ driverStatus' = [driverStatus EXCEPT ![k.d] = k.to]
  BY DEF SetStatus
<1>4. ~OnTrip(k.d)' /\ \A d \in Drivers \ {k.d} : driverStatus'[d] = driverStatus[d]
  <2>1. driverStatus'[k.d] = k.to
    BY <1>1, <1>3 DEF TypeInv, TypeOK
  <2> QED BY <1>1, <1>3, <2>1 DEF TypeInv, TypeOK, OnTrip
<1>5. AgreeBut({})' /\ ExactBut({k.d})' /\ ~Employed(k.d)'
  BY <1>1, <1>2, <1>3, <1>4, DriverWritten
<1>6. Exact(k.d)'
  BY <1>4, <1>5 DEF Exact
<1>7. ExactBut({})'
  BY <1>1, <1>3, <1>4, <1>5, <1>6, DriverWritten
<1>8. PICK m : m = task'[w] /\ m = Idle
  BY Ending DEF SetStatus
<1> QED BY <1>5, <1>7, <1>8, Alone

-----------------------------------------------------------------------------
(* Queries that write the trip                                             *)

\* A write of the trip of booking c concerns the driver it is of and the driver it
\* was of, and no other booking.
LEMMA TripWritten ==
    ASSUME booking' = booking, driverStatus' = driverStatus, NEW c \in Bookings,
           \A b \in Bookings \ {c} : trip'[b] = trip[b]
    PROVE  /\ \A d : OnTrip(d)' <=> OnTrip(d)
           /\ \A d : (Active(c) => trip[c].driver # d) /\ (Active(c)' => trip'[c].driver # d)
                        => (Employed(d)' <=> Employed(d)) /\ (Exact(d)' <=> Exact(d))
           /\ AgreeBut({}) \/ AgreeBut({c}) => AgreeBut({c})'
           /\ AgreeBut({c})' /\ Agree(c)' => AgreeBut({})'
<1>1. /\ \A b \in Bookings \ {c} : Active(b)' <=> Active(b)
      /\ \A d : OnTrip(d)' <=> OnTrip(d)
  BY DEF Active, OnTrip
<1>2. ASSUME NEW d, Active(c) => trip[c].driver # d, Active(c)' => trip'[c].driver # d
      PROVE  Employed(d)' <=> Employed(d)
  BY <1>1, <1>2 DEF Employed
<1>3. AgreeBut({}) \/ AgreeBut({c}) => AgreeBut({c})'
  BY DEF AgreeBut, Agree
<1>4. AgreeBut({c})' /\ Agree(c)' => AgreeBut({})'
  BY DEF AgreeBut
<1> QED BY <1>1, <1>2, <1>3, <1>4 DEF Exact

\* The trip gives the driver who is on_trip his reason.
LEMMA SerialInsertTrip ==
    ASSUME Serial, TypeInv, SerialInv, NEW w \in Workers, InsertTrip(w)
    PROVE  SerialInv'
<1> PICK k \in Tasks : /\ k = task[w] /\ k # Idle /\ Fits(k) /\ Known(k)
                      /\ k.op \in DOMAIN Flow /\ k.at \in 1..7 /\ k.b \in Bookings
  BY Stepping DEF Steps, Finalize
<1>1. k.op = "finalize" /\ k.at = 7 /\ k.newD \in Drivers
  BY Phases DEF InsertTrip, Fits
<1>2. /\ ExactBut({k.newD}) /\ OnTrip(k.newD) /\ AgreeBut({k.b}) /\ trip[k.b].status = "none"
      /\ booking[k.b].status = "assigned" /\ booking[k.b].driver = k.newD
  BY <1>1 DEF Known, Finalizing
<1>3. booking' = booking /\ driverStatus' = driverStatus
  BY DEF InsertTrip, fleet
<1>4. /\ trip'[k.b].status = "confirmed" /\ trip'[k.b].driver = k.newD
      /\ \A b \in Bookings \ {k.b} : trip'[b] = trip[b]
  BY <1>2 DEF InsertTrip, TypeInv, TypeOK
<1>5. Active(k.b)' /\ ~Active(k.b)
  BY <1>2, <1>4 DEF Active, Over
<1>6. AgreeBut({})'
  <2>1. Agree(k.b)'
    BY <1>1, <1>2, <1>3, <1>4 DEF Agree, Expected
  <2> QED BY <1>2, <1>3, <1>4, <2>1, TripWritten
<1>7. ExactBut({})'
  <2>1. Exact(k.newD)'
    <3>1. Employed(k.newD)'
      BY <1>4, <1>5 DEF Employed
    <3>2. OnTrip(k.newD)'
      BY <1>2, <1>3 DEF OnTrip
    <3> QED BY <3>1, <3>2 DEF Exact
  <2>2. ASSUME NEW d \in Drivers, d # k.newD PROVE Exact(d)'
    BY <1>2, <1>3, <1>4, <1>5, <2>2, TripWritten DEF ExactBut
  <2> QED BY <2>1, <2>2 DEF ExactBut
<1>8. PICK m : m = task'[w] /\ m = Idle
  BY Ending DEF InsertTrip
<1> QED BY <1>6, <1>7, <1>8, Alone

\* The trip moves on, or ends before its driver is looked at.
LEMMA SerialSetTrip ==
    ASSUME Serial, TypeInv, SerialInv, NEW w \in Workers, SetTrip(w)
    PROVE  SerialInv'
<1> PICK k \in Tasks : /\ k = task[w] /\ k # Idle /\ Fits(k) /\ Known(k)
                      /\ k.op \in DOMAIN Flow /\ k.at \in 1..7 /\ k.b \in Bookings
  BY Stepping DEF Steps, UpdateTripStatus
<1>1. k.op = "status" /\ k.at = 1 /\ k.to \in Statuses /\ k.newD = NoDriver
  BY Phases DEF SetTrip, Fits, Known
<1>2. /\ ExactBut({}) /\ AgreeBut({}) /\ HasTrip(k) /\ Active(k.b) /\ k.to # "confirmed"
  BY <1>1 DEF Known, Updating
<1>3. booking' = booking /\ driverStatus' = driverStatus /\ SameTrip(k)
      /\ trip' = [trip EXCEPT ![k.b].status = k.to]
  BY <1>2 DEF SetTrip, fleet, HasTrip
<1>4. /\ trip'[k.b].status = k.to /\ trip'[k.b].driver = k.d /\ trip'[k.b].id = k.id
      /\ \A b \in Bookings \ {k.b} : trip'[b] = trip[b]
  BY <1>2, <1>3 DEF HasTrip, SameTrip, TypeInv, TypeOK
<1>5. k.to # "none"
  BY <1>1, StatusNames
<1>6. booking[k.b].driver = k.d /\ trip[k.b].driver = k.d /\ k.d \in Drivers
  BY <1>2, <1>3 DEF AgreeBut, Agree, HasTrip, SameTrip
<1>7. HasTrip(k)'
  BY <1>4, <1>5, <1>6 DEF HasTrip, SameTrip
<1>8. AgreeBut({k.b})'
  BY <1>2, <1>3, <1>4, TripWritten
<1>9. IF k.to \in Over THEN Ended(k)' ELSE ExactBut({})'
  <2>1. ASSUME NEW d \in Drivers, d # k.d PROVE Exact(d)'
    BY <1>2, <1>3, <1>4, <1>6, <2>1, TripWritten DEF ExactBut
  <2>2. Employed(k.d) /\ OnTrip(k.d)
    BY <1>2, <1>6 DEF Employed, ExactBut, Exact
  <2>3. OnTrip(k.d)'
    BY <1>3, <2>2 DEF OnTrip
  <2>4. CASE k.to \in Over
    BY <2>1, <2>3, <2>4 DEF Ended, ExactBut
  <2>5. CASE k.to \notin Over
    <3>1. Active(k.b)'
      BY <1>4, <1>5, <2>5 DEF Active
    <3>2. Employed(k.d)'
      BY <1>4, <3>1 DEF Employed
    <3> QED BY <2>1, <2>3, <2>5, <3>2 DEF ExactBut, Exact
  <2> QED BY <2>4, <2>5
<1>10. GoesOnAs(w, k, 1) /\ 1 \in 1..3 /\ ~(k.at + 1 > Phases7(k))
  <2>1. trip[k.b].status # "completed"
    BY <1>2 DEF Active, Over
  <2> QED BY <1>1, <1>3, <2>1 DEF SetTrip, GoesOn, Phases7
<1>11. PICK m : m = task'[w] /\ Onward(k, m, 1)
  BY <1>10, Goes
<1>12. m.op = "status" /\ m.at = 2 /\ m.b = k.b /\ m.id = k.id /\ m.d = k.d
       /\ m.newD = NoDriver /\ m.to = k.to /\ m # Idle
  BY <1>1, <1>11 DEF Onward
<1>13. HasTrip(m)' /\ AgreeBut({m.b})' /\ (IF m.to \in Over THEN Ended(m)' ELSE ExactBut({})')
  BY <1>7, <1>8, <1>9, <1>12 DEF HasTrip, SameTrip, Ended
<1>14. Updating(m)'
  BY <1>2, <1>3, <1>4, <1>6, <1>12, <1>13 DEF Updating
<1> QED BY <1>11, <1>12, <1>14, Alone DEF Known

\* The trip is cancelled before its driver is looked at.
LEMMA SerialCancelTrip ==
    ASSUME Serial, TypeInv, SerialInv, NEW w \in Workers, CancelTrip(w)
    PROVE  SerialInv'
<1> PICK k \in Tasks : /\ k = task[w] /\ k # Idle /\ Fits(k) /\ Known(k)
                      /\ k.op \in DOMAIN Flow /\ k.at \in 1..7 /\ k.b \in Bookings
  BY Stepping DEF Steps, CancelBooking
<1>1. k.op = "cancel" /\ k.at = 4 /\ k.newD = NoDriver
  BY Phases DEF CancelTrip, Known
<1>2. /\ ExactBut({}) /\ AgreeBut({k.b}) /\ HasTrip(k) /\ booking[k.b].status = "cancelled"
      /\ trip[k.b].status # "none" => booking[k.b].driver = trip[k.b].driver
      /\ trip[k.b].status \in {"none", "confirmed", "en_route_pickup"}
  BY <1>1 DEF Known, Cancelling
<1>3. booking' = booking /\ driverStatus' = driverStatus /\ GoesOnAs(w, k, 1)
      /\ trip' = [trip EXCEPT ![k.b].status = "cancelled"]
  BY <1>2 DEF CancelTrip, fleet, HasTrip, GoesOn
<1>4. /\ trip'[k.b].status = "cancelled" /\ trip'[k.b].driver = k.d
      /\ \A b \in Bookings \ {k.b} : trip'[b] = trip[b]
  BY <1>2, <1>3 DEF HasTrip, SameTrip, TypeInv, TypeOK
<1>5. booking[k.b].driver = k.d /\ trip[k.b].driver = k.d /\ k.d \in Drivers /\ Active(k.b)
  BY <1>2 DEF HasTrip, SameTrip, Active, Over
<1>6. ~Active(k.b)'
  BY <1>4 DEF Active, Over
<1>7. AgreeBut({})'
  <2>1. Agree(k.b)'
    BY <1>2, <1>3, <1>4, <1>5 DEF Agree, Expected
  <2> QED BY <1>2, <1>3, <1>4, <2>1, TripWritten
<1>8. ExactBut({k.d})' /\ OnTrip(k.d)'
  <2>1. ASSUME NEW d \in Drivers, d # k.d PROVE Exact(d)'
    BY <1>2, <1>3, <1>4, <1>5, <2>1, TripWritten DEF ExactBut
  <2>2. Employed(k.d) /\ OnTrip(k.d)
    BY <1>2, <1>5 DEF Employed, ExactBut, Exact
  <2> QED BY <1>3, <2>1, <2>2 DEF ExactBut, OnTrip
<1>9. 1 \in 1..3 /\ ~(k.at + 1 > Phases7(k))
  BY <1>1 DEF Phases7
<1>10. PICK m : m = task'[w] /\ Onward(k, m, 1)
  BY <1>3, <1>9, Goes
<1>11. m.op = "cancel" /\ m.at = 5 /\ m.b = k.b /\ m.d = k.d
       /\ m.newD = NoDriver /\ m # Idle
  BY <1>1, <1>10 DEF Onward
<1>12. Ended(m)' /\ ~Active(m.b)'
  BY <1>6, <1>8, <1>11 DEF Ended, Active
<1>13. Cancelling(m)'
  BY <1>7, <1>11, <1>12 DEF Cancelling
<1> QED BY <1>10, <1>11, <1>13, Alone DEF Known

\* Without the trip the driver is on_trip exactly for what else he carries.
LEMMA SerialRemoveTrip ==
    ASSUME Serial, TypeInv, SerialInv, NEW w \in Workers, RemoveTrip(w)
    PROVE  SerialInv'
<1> PICK k \in Tasks : /\ k = task[w] /\ k # Idle /\ Fits(k) /\ Known(k)
                      /\ k.op \in DOMAIN Flow /\ k.at \in 1..7 /\ k.b \in Bookings
  BY Stepping DEF Steps, DeclineTrip
<1>1. k.op = "decline" /\ k.at = 5
  BY Phases DEF RemoveTrip
<1>2. /\ HasTrip(k) /\ trip[k.b].status = "confirmed" /\ AgreeBut({k.b})
      /\ booking[k.b].status = "confirmed"
      /\ ExactBut({k.d}) /\ (OnTrip(k.d) <=> OnOtherTrip(k))
  BY <1>1 DEF Known, Declining
<1>3. booking' = booking /\ driverStatus' = driverStatus
      /\ trip' = [trip EXCEPT ![k.b].status = "none", ![k.b].driver = NoDriver]
  BY <1>2 DEF RemoveTrip, fleet, HasTrip
<1>4. /\ trip'[k.b].status = "none"
      /\ \A b \in Bookings \ {k.b} : trip'[b] = trip[b]
  BY <1>3 DEF TypeInv, TypeOK
<1>5. ~Active(k.b)' /\ trip[k.b].driver = k.d /\ trip[k.b].id = k.id
  BY <1>2, <1>4 DEF Active, HasTrip, SameTrip
<1>6. AgreeBut({})'
  <2>1. Agree(k.b)'
    BY <1>2, <1>3, <1>4 DEF Agree
  <2> QED BY <1>2, <1>3, <1>4, <2>1, TripWritten
<1>7. ExactBut({})'
  <2>1. Employed(k.d)' <=> OnOtherTrip(k)
    BY <1>4, <1>5 DEF Employed, OnOtherTrip, Active
  <2>2. Exact(k.d)'
    BY <1>2, <1>3, <2>1 DEF Exact, OnTrip
  <2>3. ASSUME NEW d \in Drivers, d # k.d PROVE Exact(d)'
    BY <1>2, <1>3, <1>4, <1>5, <2>3, TripWritten DEF ExactBut
  <2> QED BY <2>2, <2>3 DEF ExactBut
<1>8. PICK m : m = task'[w] /\ m = Idle
  BY Ending DEF RemoveTrip
<1> QED BY <1>6, <1>7, <1>8, Alone

\* The trip changes hands last.
LEMMA SerialSwapDriver ==
    ASSUME Serial, TypeInv, SerialInv, NEW w \in Workers, SwapDriver(w)
    PROVE  SerialInv'
<1> PICK k \in Tasks : /\ k = task[w] /\ k # Idle /\ Fits(k) /\ Known(k)
                      /\ k.op \in DOMAIN Flow /\ k.at \in 1..7 /\ k.b \in Bookings
  BY Stepping DEF Steps, Reassign
<1>1. k.op = "reassign" /\ k.at = 7 /\ k.newD \in Drivers
  BY Phases DEF SwapDriver, Fits
<1>2. /\ HasTrip(k) /\ trip[k.b].status \in {"confirmed", "en_route_pickup"}
      /\ k.to = Expected(trip[k.b].status) /\ AgreeBut({k.b})
      /\ booking[k.b].status = k.to /\ booking[k.b].driver = k.newD
      /\ ExactBut({k.d, k.newD}) /\ OnTrip(k.newD)
      /\ k.d # k.newD => (OnTrip(k.d) <=> OnOtherTrip(k))
  BY <1>1 DEF Known, Reassigning
<1>3. booking' = booking /\ driverStatus' = driverStatus
      /\ trip' = [trip EXCEPT ![k.b].driver = k.newD]
  BY <1>2 DEF SwapDriver, fleet, HasTrip
<1>4. /\ trip'[k.b].status = trip[k.b].status /\ trip'[k.b].driver = k.newD
      /\ \A b \in Bookings \ {k.b} : trip'[b] = trip[b]
  BY <1>3 DEF TypeInv, TypeOK
<1>5. Active(k.b)' /\ trip[k.b].driver = k.d /\ trip[k.b].id = k.id
  BY <1>2, <1>4 DEF Active, Over, HasTrip, SameTrip
<1>6. AgreeBut({})'
  <2>1. Agree(k.b)'
    BY <1>1, <1>2, <1>3, <1>4 DEF Agree, HasTrip, SameTrip
  <2> QED BY <1>2, <1>3, <1>4, <2>1, TripWritten
<1>7. ExactBut({})'
  <2>1. Exact(k.newD)'
    <3>1. Employed(k.newD)'
      BY <1>4, <1>5 DEF Employed
    <3> QED BY <1>2, <1>3, <3>1 DEF Exact, OnTrip
  <2>2. ASSUME k.d # k.newD PROVE Exact(k.d)'
    <3>1. Employed(k.d)' <=> OnOtherTrip(k)
      BY <1>4, <1>5, <2>2 DEF Employed, OnOtherTrip, Active
    <3> QED BY <1>2, <1>3, <2>2, <3>1 DEF Exact, OnTrip
  <2>3. ASSUME NEW d \in Drivers, d \notin {k.d, k.newD} PROVE Exact(d)'
    BY <1>2, <1>3, <1>4, <1>5, <2>3, TripWritten DEF ExactBut
  <2> QED BY <2>1, <2>2, <2>3 DEF ExactBut
<1>8. PICK m : m = task'[w] /\ m = Idle
  BY Ending DEF SwapDriver
<1> QED BY <1>6, <1>7, <1>8, Alone

-----------------------------------------------------------------------------
(* Requests                                                                *)

\* A request finds drivers and bookings in step with the trips.
LEMMA Resting ==
    ASSUME Serial, SerialInv, NEW w \in Workers, task[w] = Idle
    PROVE  AgreeBut({}) /\ ExactBut({})
<1>1. AtRest
  BY DEF Serial, AtRest
<1> QED BY <1>1 DEF SerialInv

\* A request that starts what may be known starts well.
LEMMA SerialBegin ==
    ASSUME Serial, TypeInv, SerialInv, NEW w \in Workers, NEW k, Begin(w, k), k # Idle,
           UNCHANGED <<booking, trip, fleet>>, Known(k)
    PROVE  SerialInv'
<1>1. task'[w] = k
  BY DEF Begin, TypeInv, TypeOK
<1>2. driverStatus' = driverStatus
  BY DEF fleet
<1>3. Known(k)'
  BY <1>2, Steady
<1> QED BY <1>1, <1>3, Alone

\* A status has its place in the order of Moves, and only "confirmed" comes first.
LEMMA Ranks == \A s \in Statuses : Rank(s) \in 0..4 /\ (s = "confirmed" => Rank(s) = 0)
<1>1. Len(Moves) = 4 /\ \A i \in 1..4 : Moves[i] # "confirmed"
  BY DEF Moves
<1>2. ASSUME NEW s \in Statuses
      PROVE  \E i \in 0..4 : IF s = "confirmed" THEN i = 0 ELSE i > 0 /\ Moves[i] = s
  BY <1>1, <1>2 DEF Statuses, Moves
<1>3. ASSUME NEW s \in Statuses PROVE Rank(s) \in 0..4 /\ (s = "confirmed" => Rank(s) = 0)
  <2> DEFINE P(i) == IF s = "confirmed" THEN i = 0 ELSE i > 0 /\ Moves[i] = s
  <2>1. Rank(s) = CHOOSE i \in 0..4 : P(i)
    BY <1>1 DEF Rank
  <2>2. \E i \in 0..4 : P(i)
    BY <1>2
  <2>3. Rank(s) \in 0..4 /\ P(Rank(s))
    <3> HIDE DEF P
    <3> QED BY <2>1, <2>2
  <2> QED BY <2>3
<1> QED BY <1>3

\* Every request starts from drivers and bookings in step, and its checks are those
\* the handler's writes rely on.
LEMMA SerialRequests ==
    ASSUME Serial, TypeInv, SerialInv, NEW w \in Workers, Requests(w)
    PROVE  SerialInv'
<1>1. ASSUME NEW o \in offers, Accept(w, o) PROVE SerialInv'
  <2> DEFINE k == [New("finalize", o.b) EXCEPT !.newD = o.d, !.newT = o.t]
  <2>1. o.b \in Bookings
    BY DEF TypeInv, TypeOK
  <2>2. /\ New("finalize", o.b) \in Tasks /\ New("finalize", o.b).op = "finalize"
        /\ New("finalize", o.b).at = 1
    BY <2>1, Lengths, NewTask
  <2>3. k.op = "finalize" /\ k.at = 1
    BY <2>2 DEF Tasks
  <2>4. Begin(w, k) /\ UNCHANGED <<booking, trip, fleet>>
    BY <1>1 DEF Accept
  <2> HIDE DEF k
  <2>5. AgreeBut({}) /\ ExactBut({})
    BY <2>4, Resting DEF Begin
  <2>6. Known(k) /\ k # Idle
    BY <2>3, <2>5 DEF Known, Finalizing, Idle
  <2> QED BY <2>4, <2>6, SerialBegin
<1>2. ASSUME NEW b \in Bookings, CancelRequest(w, b) PROVE SerialInv'
  <2> DEFINE k == [New("cancel", b) EXCEPT !.d = booking[b].driver, !.id = 0]
  <2>1. /\ New("cancel", b) \in Tasks /\ New("cancel", b).op = "cancel"
        /\ New("cancel", b).at = 1 /\ New("cancel", b).b = b /\ New("cancel", b).newD = NoDriver
    BY Lengths, NewTask
  <2>2. k.op = "cancel" /\ k.at = 1 /\ k.b = b /\ k.newD = NoDriver
    BY <2>1 DEF Tasks
  <2>3. Begin(w, k) /\ UNCHANGED <<booking, trip, fleet>> /\ booking[b].status \in Cancellable
    BY <1>2 DEF CancelRequest
  <2> HIDE DEF k
  <2>4. AgreeBut({}) /\ ExactBut({})
    BY <2>3, Resting DEF Begin
  <2>5. trip[b].status \in {"none", "confirmed", "en_route_pickup"}
    <3>1. trip[b].status # "none" => booking[b].status = Expected(trip[b].status)
      BY <2>4 DEF AgreeBut, Agree
    <3>2. trip[b].status \in Statuses \union {"none"}
      BY DEF TypeInv, TypeOK
    <3> QED BY <2>3, <3>1, <3>2, StatusNames DEF Cancellable, Expected
  <2>6. Known(k) /\ k # Idle
    BY <2>2, <2>4, <2>5 DEF Known, Cancelling, Idle
  <2> QED BY <2>3, <2>6, SerialBegin
<1>3. ASSUME NEW b \in Bookings, DeclineRequest(w, b) PROVE SerialInv'
  <2> DEFINE k == New("decline", b)
  <2>1. /\ k.op = "decline" /\ k.at = 1 /\ k.b = b /\ k.d = trip[b].driver /\ k.newD = NoDriver
    BY Lengths, NewTask
  <2>2. k.id = trip[b].id
    BY DEF New
  <2>3. Begin(w, k) /\ UNCHANGED <<booking, trip, fleet>> /\ trip[b].status = "confirmed"
    BY <1>3 DEF DeclineRequest
  <2> HIDE DEF k
  <2>4. AgreeBut({}) /\ ExactBut({})
    BY <2>3, Resting DEF Begin
  <2>5. HasTrip(k)
    BY <2>1, <2>2, <2>3, <2>4 DEF HasTrip, SameTrip, AgreeBut, Agree
  <2>6. Known(k) /\ k # Idle
    BY <2>1, <2>3, <2>4, <2>5 DEF Known, Declining, Idle
  <2> QED BY <2>3, <2>6, SerialBegin
<1>4. ASSUME NEW b \in Bookings, NEW s \in Statuses, StatusRequest(w, b, s) PROVE SerialInv'
  <2> DEFINE k == [New("status", b) EXCEPT !.to = s]
  <2>1. /\ New("status", b) \in Tasks /\ New("status", b).op = "status"
        /\ New("status", b).at = 1 /\ New("status", b).b = b
        /\ New("status", b).d = trip[b].driver /\ New("status", b).newD = NoDriver
    BY Lengths, NewTask
  <2>2. New("status", b).id = trip[b].id
    BY DEF New
  <2>3. /\ k.op = "status" /\ k.at = 1 /\ k.b = b /\ k.d = trip[b].driver
        /\ k.newD = NoDriver /\ k.to = s /\ k.id = trip[b].id
    BY <2>1, <2>2 DEF Tasks
  <2>4. Begin(w, k) /\ UNCHANGED <<booking, trip, fleet>> /\ trip[b].status # "none"
        /\ trip[b].status \notin Over /\ Rank(trip[b].status) < Rank(s)
    BY <1>4 DEF StatusRequest, Serial
  <2> HIDE DEF k
  <2>5. AgreeBut({}) /\ ExactBut({})
    BY <2>4, Resting DEF Begin
  <2>6. s # "confirmed"
    <3>1. trip[b].status \in Statuses
      BY <2>4 DEF TypeInv, TypeOK
    <3>2. Rank(trip[b].status) \in 0..4 /\ (s = "confirmed" => Rank(s) = 0)
      BY <3>1, Ranks
    <3> QED BY <2>4, <3>2
  <2>7. HasTrip(k) /\ Active(k.b)
    BY <2>3, <2>4, <2>5 DEF HasTrip, SameTrip, Active, AgreeBut, Agree
  <2>8. Known(k) /\ k # Idle
    BY <2>3, <2>5, <2>6, <2>7 DEF Known, Updating, Idle
  <2> QED BY <2>4, <2>8, SerialBegin
<1>5. ASSUME NEW b \in Bookings, NEW t \in Trucks, NEW d \in Drivers, ReassignRequest(w, b, t, d)
      PROVE  SerialInv'
  <2> DEFINE k == [New("reassign", b) EXCEPT !.d = booking[b].driver, !.newD = d, !.newT = t]
  <2>1. /\ New("reassign", b) \in Tasks /\ New("reassign", b).op = "reassign"
        /\ New("reassign", b).at = 1 /\ New("reassign", b).b = b
        /\ New("reassign", b).to = booking[b].status
    BY Lengths, NewTask
  <2>2. New("reassign", b).id = trip[b].id
    BY DEF New
  <2>3. /\ k.op = "reassign" /\ k.at = 1 /\ k.b = b /\ k.d = booking[b].driver
        /\ k.to = booking[b].status /\ k.id = trip[b].id
    BY <2>1, <2>2 DEF Tasks
  <2>4. Begin(w, k) /\ UNCHANGED <<booking, trip, fleet>>
        /\ trip[b].status \in {"confirmed", "en_route_pickup"}
    BY <1>5 DEF ReassignRequest
  <2> HIDE DEF k
  <2>5. AgreeBut({}) /\ ExactBut({})
    BY <2>4, Resting DEF Begin
  <2>6. /\ trip[b].driver \in Drivers /\ booking[b].driver = trip[b].driver
        /\ booking[b].status = Expected(trip[b].status)
    BY <2>4, <2>5 DEF AgreeBut, Agree
  <2>7. HasTrip(k)
    BY <2>3, <2>4, <2>6 DEF HasTrip, SameTrip
  <2>8. Known(k) /\ k # Idle
    BY <2>3, <2>4, <2>5, <2>6, <2>7 DEF Known, Reassigning, Idle
  <2> QED BY <2>4, <2>8, SerialBegin
<1>6. ASSUME NEW d \in Drivers,
             OfflineRequest(w, d) \/ \E s \in {"available", "offline"} : ToggleRequest(w, d, s)
      PROVE  SerialInv'
  <2>1. PICK s \in {"available", "offline"}, b \in Bookings :
             Begin(w, [New("presence", b) EXCEPT !.d = d, !.to = s])
    BY <1>6 DEF OfflineRequest, ToggleRequest
  <2>2. UNCHANGED <<booking, trip, fleet>>
    BY <1>6 DEF OfflineRequest, ToggleRequest
  <2> DEFINE k == [New("presence", b) EXCEPT !.d = d, !.to = s]
  <2>3. New("presence", b) \in Tasks /\ New("presence", b).op = "presence"
    BY Lengths, NewTask
  <2>4. k.op = "presence" /\ k.d = d
    BY <2>3 DEF Tasks
  <2>5. Begin(w, k)
    BY <2>1
  <2> HIDE DEF k
  <2>6. AgreeBut({}) /\ ExactBut({})
    BY <2>5, Resting DEF Begin
  <2>7. ~Employed(d)
    <3>1. CASE OfflineRequest(w, d)
      BY <2>6, <3>1 DEF OfflineRequest, ExactBut, Exact, OnTrip
    <3>2. ASSUME NEW r \in {"available", "offline"}, ToggleRequest(w, d, r) PROVE ~Employed(d)
      BY <3>2 DEF ToggleRequest, Employed
    <3> QED BY <1>6, <3>1, <3>2
  <2>8. Known(k) /\ k # Idle
    BY <2>4, <2>6, <2>7 DEF Known, Toggling, Idle
  <2> QED BY <2>2, <2>5, <2>8, SerialBegin
<1> QED BY <1>1, <1>2, <1>3, <1>4, <1>5, <1>6 DEF Requests

-----------------------------------------------------------------------------
(* The theorems                                                            *)

\* Every step keeps drivers and bookings in step.
LEMMA SerialStep ==
    ASSUME Serial
    PROVE  TypeInv /\ SerialInv /\ [Next]_vars => SerialInv'
<1> SUFFICES ASSUME TypeInv, SerialInv, [Next]_vars PROVE SerialInv'
  OBVIOUS
<1>1. ASSUME task' = task, booking' = booking, trip' = trip,
             \A d \in Drivers : driverStatus'[d] = "on_trip" <=> driverStatus[d] = "on_trip"
      PROVE  SerialInv'
  <2>1. /\ ExactBut({})' <=> ExactBut({})
        /\ AgreeBut({})' <=> AgreeBut({})
        /\ \A m : Known(m)' <=> Known(m)
    BY <1>1, Steady
  <2>2. AtRest' <=> AtRest
    BY <1>1 DEF AtRest
  <2>3. ASSUME NEW v \in Workers PROVE Known(task[v])'
    <3> PICK m : m = task[v] /\ m = task'[v]
      BY <1>1
    <3>1. Known(m)'
      BY <2>1 DEF SerialInv
    <3> QED BY <3>1 DEF Known, Finalizing, Updating, Cancelling, Declining, Reassigning,
          Toggling, Ended, Freeing, HasTrip, SameTrip, OnOtherTrip
  <2> QED BY <2>1, <2>2, <2>3 DEF SerialInv
<1>2. ASSUME NEW w \in Workers, Steps(w) PROVE SerialInv'
  BY <1>2, SerialFinalize, SerialClaim, SerialTakeDriver, SerialInsertTrip, SerialBusy,
     SerialFreeDriver, SerialFreeTruck, SerialSetTrip, SerialSetBooking, SerialCancelWrite,
     SerialFindTrip, SerialCancelTrip, SerialUnassign, SerialRemoveTrip, SerialRewrite,
     SerialSwapDriver, SerialSetStatus
     DEF Steps, Finalize, Release, UpdateTripStatus, CancelBooking, DeclineTrip, Reassign
<1>3. ASSUME NEW b \in Bookings, NEW t \in Trucks,
             OfferDirect(b, t) \/ \E d \in Drivers : OfferByBroker(b, t, d)
      PROVE  SerialInv'
  <2>1. booking' = booking /\ trip' = trip /\ driverStatus' = driverStatus /\ task' = task
    BY <1>3 DEF OfferDirect, OfferByBroker, fleet
  <2> QED BY <1>1, <2>1
<1>4. ASSUME NEW d \in Drivers, Ping(d) PROVE SerialInv'
  <2>1. \A e \in Drivers : driverStatus'[e] = "on_trip" <=> driverStatus[e] = "on_trip"
    BY <1>4 DEF Ping, TypeInv, TypeOK
  <2> QED BY <1>1, <1>4, <2>1 DEF Ping
<1>5. ASSUME NEW t \in Trucks, Share(t) PROVE SerialInv'
  BY <1>1, <1>5 DEF Share
<1>6. CASE UNCHANGED vars
  BY <1>1, <1>6 DEF vars
<1> QED BY <1>2, <1>3, <1>4, <1>5, <1>6, SerialRequests DEF Next

\* Before the first booking is accepted nobody is on a trip.
LEMMA SerialInit == Init => SerialInv
<1> SUFFICES ASSUME Init PROVE SerialInv
  OBVIOUS
<1>1. AgreeBut({}) /\ ExactBut({})
  BY DEF Init, AgreeBut, Agree, ExactBut, Exact, OnTrip, Employed, Active
<1>2. \A w \in Workers : Known(task[w])
  BY DEF Init, Known, Idle
<1> QED BY <1>1, <1>2 DEF SerialInv

\* In step, a driver is on_trip exactly if he has a trip, and a booking is where its
\* trip is.
LEMMA SerialMatches == TypeInv /\ SerialInv => DriverMatchesTrips /\ BookingMatchesTrip
<1> SUFFICES ASSUME TypeInv, AtRest, AgreeBut({}), ExactBut({})
             PROVE  DriverMatchesTrips /\ BookingMatchesTrip
  BY DEF SerialInv, DriverMatchesTrips, BookingMatchesTrip
<1>1. \A d \in Drivers : Employed(d) <=> OnTripFor(d) # {}
  BY DEF Employed, OnTripFor
<1>2. DriverMatchesTrips
  BY <1>1 DEF DriverMatchesTrips, ExactBut, Exact, OnTrip
<1>3. BookingMatchesTrip
  BY DEF BookingMatchesTrip, AgreeBut, Agree, Expected
<1> QED BY <1>2, <1>3

\* In every reachable state of a server that runs one handler at a time.
LEMMA SerialHolds ==
    ASSUME Serial
    PROVE  Spec => [](TypeInv /\ SerialInv)
<1>1. Init => TypeInv /\ SerialInv
  BY InitType, SerialInit
<1>2. TypeInv /\ SerialInv /\ [Next]_vars => (TypeInv /\ SerialInv)'
  BY NextType, SerialStep
<1> QED BY <1>1, <1>2, PTL DEF Spec

\* Run one at a time, and in whatever order, acceptances, cancellations, declined and
\* reassigned trips, trip statuses and presence changes leave a driver on_trip exactly
\* while a trip of his is under way: what a handler reads is what it later overwrites.
THEOREM DriversMatch ==
    ASSUME Serial
    PROVE  Spec => []DriverMatchesTrips
BY SerialHolds, SerialMatches, PTL

\* Under the same condition the client's tracker shows the trip's state and its driver.
THEOREM BookingsMatch ==
    ASSUME Serial
    PROVE  Spec => []BookingMatchesTrip
BY SerialHolds, SerialMatches, PTL

=============================================================================
