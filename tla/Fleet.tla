------------------------------- MODULE Fleet -------------------------------
(***************************************************************************)
(* A broker's fleet: trucks, driver profiles and the link between them,    *)
(* which is stored twice, in trucks.driver_id and driver_profiles.truck_id *)
(* (matching requires both sides to agree).                                *)
(*                                                                         *)
(* The link is written by transactions of three or four UPDATEs at READ    *)
(* COMMITTED.  Each UPDATE is one step: it sees the committed rows and its *)
(* own, skips a row another transaction has only written but not committed *)
(* unless the committed version matches, and then waits for that row.      *)
(***************************************************************************)
EXTENDS Integers, Sequences, FiniteSets

CONSTANTS
    Trucks, Drivers, Brokers,
    Nobody,                  \* NULL, in either column
    Handlers,                \* requests served side by side
    MaxLoose                 \* bound: changes of one side of the link only

VARIABLES
    trucks,        \* trucks: broker_id and driver_id; absent before it is created
    profiles,      \* driver_profiles: broker_id and truck_id
    booked,        \* trucks and drivers a booking refers to
    tx,            \* the transaction a handler is in
    loose,         \* history: rows written on one side only, or by overlapping transactions
    loosened       \* history: how often that happened

vars == <<trucks, profiles, booked, tx, loose, loosened>>

\* The steps of TruckModel.create with a driver and of TruckModel.assignDriver.
Assign == <<"clearProfiles", "clearTrucks", "setTruck", "setProfile", "commit">>
Create == <<"insert", "clearTrucks", "setProfile", "commit">>

NoRows == [r \in {} |-> Nobody]
NoTx   == [do |-> <<>>, t |-> Nobody, d |-> Nobody, b |-> Nobody, alone |-> TRUE,
           trucks |-> NoRows, profiles |-> NoRows]

TypeOK ==
    /\ trucks \in [Trucks -> [broker : Brokers \union {Nobody}, driver : Drivers \union {Nobody}]]
    /\ profiles \in [Drivers -> [broker : Brokers \union {Nobody}, truck : Trucks \union {Nobody}]]
    /\ booked \subseteq Trucks \union Drivers /\ loose \subseteq Trucks \union Drivers
    /\ loosened \in 0..MaxLoose
    /\ \A h \in Handlers :
          /\ tx[h].t \in Trucks \union {Nobody} /\ tx[h].d \in Drivers \union {Nobody}
          /\ DOMAIN tx[h].trucks \subseteq Trucks /\ DOMAIN tx[h].profiles \subseteq Drivers
          /\ \A g \in Handlers \ {h} :
                /\ DOMAIN tx[h].trucks \intersect DOMAIN tx[g].trucks = {}
                /\ DOMAIN tx[h].profiles \intersect DOMAIN tx[g].profiles = {}

Init ==
    /\ trucks = [t \in Trucks |-> [broker |-> Nobody, driver |-> Nobody]]
    /\ profiles = [d \in Drivers |-> [broker |-> Nobody, truck |-> Nobody]]
    /\ booked = {} /\ loose = {} /\ loosened = 0
    /\ tx = [h \in Handlers |-> NoTx]

-----------------------------------------------------------------------------
Truck(t)   == trucks[t].broker # Nobody
Profile(d) == profiles[d].broker # Nobody

\* A transaction is alone until the link is written beside it.
Disturbed == [g \in Handlers |-> IF tx[g].do = <<>> THEN tx[g] ELSE [tx[g] EXCEPT !.alone = FALSE]]

Open(h, steps, t, d, b) ==
    /\ tx[h] = NoTx
    /\ tx' = [Disturbed EXCEPT ![h] =
                  [NoTx EXCEPT !.do = steps, !.t = t, !.d = d, !.b = b,
                               !.alone = \A g \in Handlers : tx[g].do = <<>>]]

On(h, step)      == tx[h].do # <<>> /\ Head(tx[h].do) = step
\* Once the statement has run, its rows are the transaction's own until it ends.
Over(old, new)    == [r \in DOMAIN old \union DOMAIN new |->
                         IF r \in DOMAIN new THEN new[r] ELSE old[r]]
Writes(h, ts, ps) == LET x == tx[h] IN
    tx' = [tx EXCEPT ![h] = [x EXCEPT !.do = Tail(x.do), !.trucks = Over(x.trucks, ts),
                                      !.profiles = Over(x.profiles, ps)]]
Only(row, value)  == [r \in {row} |-> value]
Holds(h, row)    == row \in DOMAIN tx[h].trucks \union DOMAIN tx[h].profiles
\* Bug: a statement does not wait for the rows another transaction has written.
UnlockedAny(h, rows) == TRUE
Unlocked(h, rows) == \A g \in Handlers \ {h}, row \in rows : ~Holds(g, row)

DriverOf(h, t) == IF t \in DOMAIN tx[h].trucks THEN tx[h].trucks[t] ELSE trucks[t].driver
TruckOf(h, d)  == IF d \in DOMAIN tx[h].profiles THEN tx[h].profiles[d] ELSE profiles[d].truck

-----------------------------------------------------------------------------
(* Requests                                                                *)

\* createTruck: the registration is new, the driver is not looked up.
CreateTruck(h, t, b) ==
    /\ ~Truck(t) /\ tx[h] = NoTx
    /\ \/ /\ Unlocked(h, {t})
          /\ trucks' = [trucks EXCEPT ![t].broker = b]
          /\ UNCHANGED <<profiles, booked, tx, loose, loosened>>
       \/ /\ \E d \in Drivers : Open(h, Create, t, d, b)
          /\ UNCHANGED <<trucks, profiles, booked, loose, loosened>>

\* registerDriverWithTruck: user, truck and profile in one transaction, all new.
RegisterWithTruck(t, d, b) ==
    /\ ~Truck(t) /\ ~Profile(d) /\ \A u \in Trucks : trucks[u].driver # d
    /\ \A h \in Handlers : ~Holds(h, t) /\ tx[h].d # d
    /\ trucks' = [trucks EXCEPT ![t] = [broker |-> b, driver |-> d]]
    /\ profiles' = [profiles EXCEPT ![d] = [broker |-> b, truck |-> t]]
    /\ UNCHANGED <<booked, tx, loose, loosened>>

\* createDriver, registerDriver: the profile, then the truck if one is named.
CreateDriver(h, d, b) ==
    /\ ~Profile(d) /\ tx[h] = NoTx
    /\ profiles' = [profiles EXCEPT ![d] = [broker |-> b, truck |-> Nobody]]
    /\ \/ tx' = Disturbed
       \/ \E t \in Trucks : trucks[t].broker = b /\ Open(h, Assign, t, d, b)
    /\ UNCHANGED <<trucks, booked, loose, loosened>>

\* assignDriverToTruck, updateDriver: one fleet, and not linked on both sides already.
AssignRequest(h, t, d) ==
    /\ Truck(t) /\ Profile(d) /\ profiles[d].broker = trucks[t].broker
    /\ ~(profiles[d].truck = t /\ trucks[t].driver = d)
    /\ Open(h, Assign, t, d, trucks[t].broker)
    /\ UNCHANGED <<trucks, profiles, booked, loose, loosened>>

\* updateTruck writes driver_id and nothing else of the link.
UpdateTruck(t, d) ==
    /\ Truck(t) /\ Profile(d) /\ trucks[t].driver # d /\ loosened < MaxLoose
    /\ \A h \in Handlers : ~Holds(h, t)
    /\ trucks' = [trucks EXCEPT ![t].driver = d]
    /\ loose' = loose \union {t, d} \union ({trucks[t].driver} \ {Nobody})
    /\ loosened' = loosened + 1 /\ tx' = Disturbed
    /\ UNCHANGED <<profiles, booked>>

\* deleteTruck: the foreign key clears the driver's side.
DeleteTruck(t) ==
    /\ Truck(t) /\ t \notin booked
    /\ \A h \in Handlers : ~Holds(h, t) /\ \A d \in Drivers : profiles[d].truck = t => ~Holds(h, d)
    /\ trucks' = [trucks EXCEPT ![t] = [broker |-> Nobody, driver |-> Nobody]]
    /\ profiles' = [d \in Drivers |-> IF profiles[d].truck = t
                       THEN [profiles[d] EXCEPT !.truck = Nobody] ELSE profiles[d]]
    /\ tx' = Disturbed
    /\ UNCHANGED <<booked, loose, loosened>>

\* deleteDriver: the row of the profile goes, trucks.driver_id stays.
DeleteDriver(d) ==
    /\ Profile(d) /\ d \notin booked /\ loosened < MaxLoose
    /\ \A h \in Handlers : ~Holds(h, d)
    /\ profiles' = [profiles EXCEPT ![d] = [broker |-> Nobody, truck |-> Nobody]]
    /\ loose' = loose \union {d} \union {t \in Trucks : trucks[t].driver = d}
    /\ loosened' = loosened + 1 /\ tx' = Disturbed
    /\ UNCHANGED <<trucks, booked>>

\* A driver accepts a booking with the truck he is linked to on both sides.
\* Bound: one booking.
Book(t, d) ==
    /\ booked = {} /\ trucks[t].driver = d /\ profiles[d].truck = t
    /\ booked' = booked \union {t, d}
    /\ UNCHANGED <<trucks, profiles, tx, loose, loosened>>

-----------------------------------------------------------------------------
(* The transactions                                                        *)

InsertTruck(h) ==
    /\ On(h, "insert") /\ ~Truck(tx[h].t) /\ Unlocked(h, {tx[h].t})
    /\ Writes(h, Only(tx[h].t, tx[h].d), NoRows)
    /\ UNCHANGED <<trucks, profiles, booked, loose, loosened>>

\* UPDATE driver_profiles SET truck_id = NULL WHERE truck_id = t.
ClearProfiles(h) ==
    LET rows == {d \in Drivers : Profile(d) /\ TruckOf(h, d) = tx[h].t} IN
    /\ On(h, "clearProfiles") /\ Unlocked(h, rows)
    /\ Writes(h, NoRows, [d \in rows |-> Nobody])
    /\ UNCHANGED <<trucks, profiles, booked, loose, loosened>>

\* Bug: the trucks the driver leaves keep naming him.
ClearNoTruck(h) ==
    /\ On(h, "clearTrucks")
    /\ Writes(h, NoRows, NoRows)
    /\ UNCHANGED <<trucks, profiles, booked, loose, loosened>>
\* UPDATE trucks SET driver_id = NULL WHERE driver_id = d (AND id != the new one).
ClearTrucks(h) ==
    LET rows == {t \in Trucks : Truck(t) /\ DriverOf(h, t) = tx[h].d} \ {tx[h].t} IN
    /\ On(h, "clearTrucks") /\ Unlocked(h, rows)
    /\ Writes(h, [t \in rows |-> Nobody], NoRows)
    /\ UNCHANGED <<trucks, profiles, booked, loose, loosened>>

SetTruck(h) ==
    /\ On(h, "setTruck") /\ Unlocked(h, {tx[h].t})
    /\ Writes(h, IF Truck(tx[h].t) THEN Only(tx[h].t, tx[h].d) ELSE NoRows, NoRows)
    /\ UNCHANGED <<trucks, profiles, booked, loose, loosened>>

\* The truck must still exist (foreign key); a driver without a profile is skipped.
SetProfile(h) ==
    /\ On(h, "setProfile") /\ Unlocked(h, {tx[h].d})
    /\ IF Profile(tx[h].d)
       THEN tx[h].t \in DOMAIN tx[h].trucks /\ Writes(h, NoRows, Only(tx[h].d, tx[h].t))
       ELSE Writes(h, NoRows, NoRows)
    /\ UNCHANGED <<trucks, profiles, booked, loose, loosened>>

Commit(h) ==
    LET x == tx[h] IN
    /\ On(h, "commit")
    /\ trucks' = [t \in Trucks |-> IF t \in DOMAIN x.trucks
          THEN [broker |-> IF t = x.t THEN x.b ELSE trucks[t].broker,
                driver |-> x.trucks[t]] ELSE trucks[t]]
    /\ profiles' = [d \in Drivers |-> IF d \in DOMAIN x.profiles
          THEN [profiles[d] EXCEPT !.truck = x.profiles[d]] ELSE profiles[d]]
    /\ tx' = [tx EXCEPT ![h] = NoTx]
    /\ loose' = IF x.alone /\ Profile(x.d) THEN loose
                ELSE loose \union DOMAIN x.trucks \union DOMAIN x.profiles \union {x.d}
    /\ UNCHANGED <<booked, loosened>>

\* Any failure, a deadlock the database resolves among them, rolls back.
Rollback(h) ==
    /\ tx[h].do # <<>>
    /\ tx' = [tx EXCEPT ![h] = NoTx]
    /\ UNCHANGED <<trucks, profiles, booked, loose, loosened>>

Next ==
    \/ \E h \in Handlers :
          \/ InsertTruck(h) \/ ClearProfiles(h) \/ ClearTrucks(h) \/ SetTruck(h)
          \/ SetProfile(h) \/ Commit(h) \/ Rollback(h)
          \/ \E t \in Trucks, b \in Brokers : CreateTruck(h, t, b)
          \/ \E d \in Drivers, b \in Brokers : CreateDriver(h, d, b)
          \/ \E t \in Trucks, d \in Drivers : AssignRequest(h, t, d)
    \/ \E t \in Trucks, d \in Drivers :
          UpdateTruck(t, d) \/ Book(t, d) \/ \E b \in Brokers : RegisterWithTruck(t, d, b)
    \/ \E t \in Trucks : DeleteTruck(t)
    \/ \E d \in Drivers : DeleteDriver(d)

Spec == Init /\ [][Next]_vars
-----------------------------------------------------------------------------
\* The two sides of the link agree, through every assignment and removal, except on rows that
\* updateTruck or deleteDriver wrote on one side, or that overlapping transactions
\* wrote (TruckModel.assignDriver, TruckModel.create).
LinkAgrees ==
    \A t \in Trucks, d \in Drivers : {t, d} \intersect loose = {} =>
        (trucks[t].driver = d <=> profiles[d].truck = t)
=============================================================================
