--------------------------- MODULE OnTheWayProofs ---------------------------
(***************************************************************************)
(* What the fleet and the services used on the way guarantee for any       *)
(* trucks, drivers, messages, incidents, addresses and calls in flight:    *)
(* the link of a truck and its driver, the chat of a booking, the channel  *)
(* of a broker and a driver, breakdowns, saved addresses, the schema the   *)
(* server starts on - and, of all services together, that they are typed.  *)
(***************************************************************************)
EXTENDS PeopleProofs, OrderingProofs

\* A finite set of integers has a greatest element.
LEMMA Greatest ==
    ASSUME NEW X \in SUBSET Int, IsFiniteSet(X), X # {}
    PROVE  \E m \in X : \A s \in X : s <= m
<1> DEFINE HasGreatest(Y) == \E m \in Y : \A s \in Y : s <= m
           none == {Y \in SUBSET X : Y # {} /\ ~HasGreatest(Y)}
<1> SUFFICES ASSUME ~HasGreatest(X) PROVE FALSE
  OBVIOUS
<1>1. X \in none
  OBVIOUS
<1>2. PICK Y \in none : \A x \in Y : Y \ {x} \notin none
  <2>1. none \subseteq SUBSET X /\ none # {}
    BY <1>1
  <2> HIDE DEF none
  <2> QED BY <2>1, SmallestSet
<1>3. PICK x \in Y : x \in Int
  BY <1>2
<1>4. Y \ {x} = {} \/ HasGreatest(Y \ {x})
  BY <1>2
<1>5. CASE Y \ {x} = {}
  BY <1>2, <1>3, <1>5
<1>6. CASE HasGreatest(Y \ {x})
  <2>1. PICK m \in Y \ {x} : \A s \in Y \ {x} : s <= m
    BY <1>6
  <2>2. m \in Int /\ \A s \in Y : s \in Int
    BY <1>2
  <2>3. CASE x <= m
    BY <1>2, <2>1, <2>2, <2>3
  <2>4. CASE m <= x
    BY <1>2, <1>3, <2>1, <2>2, <2>4
  <2> QED BY <1>3, <2>2, <2>3, <2>4
<1> QED BY <1>4, <1>5, <1>6

\* The components count as the library does.
LEMMA CountIs == \A set : A!Cardinality(set) = Cardinality(set)
BY DEF A!Cardinality, Cardinality

-----------------------------------------------------------------------------
(* Fleet: v1 is trucks, v2 is profiles, v3 is booked, v4 is tx, v5 is      *)
(* loose, v6 is loosened.                                                  *)

Partial(X, J) == UNION {[Y -> J] : Y \in SUBSET X}
TruckRows     == Partial(Trucks, Crew \union {Nobody})
ProfileRows   == Partial(Crew, Trucks \union {Nobody})

\* What is left of a transaction.
Inserted == <<"clearTrucks", "setProfile", "commit">>
LeftToDo == {<<>>, F!Assign, <<"clearTrucks", "setTruck", "setProfile", "commit">>,
             <<"setTruck", "setProfile", "commit">>, <<"setProfile", "commit">>, <<"commit">>,
             F!Create, Inserted}
Txs == [do : LeftToDo, t : Trucks \union {Nobody}, d : Crew \union {Nobody}, b : Brokers \union {Nobody},
        alone : BOOLEAN, trucks : TruckRows,
        profiles : ProfileRows]

\* Only rows that there are name another, and a profile names a truck that there is.
RowsExist ==
    /\ \A t \in Trucks : ~F!Truck(t) => v1[t].driver = Nobody
    /\ \A d \in Crew : ~F!Profile(d) => v2[d].truck = Nobody
    /\ \A d \in Crew : v2[d].truck # Nobody => F!Truck(v2[d].truck)

\* A transaction has linked its truck and its driver, or cleared rows that there are.
FitsItsPlan(h) ==
    /\ v4[h].do = <<>> => v4[h] = F!NoTx
    /\ v4[h].do # <<>> => v4[h].t \in Trucks /\ v4[h].d \in Crew /\ v4[h].b \in Brokers
    /\ \A t \in DOMAIN v4[h].trucks :
          \/ t = v4[h].t /\ v4[h].trucks[t] = v4[h].d
          \/ t # v4[h].t /\ v4[h].trucks[t] = Nobody /\ F!Truck(t)
    /\ \A d \in DOMAIN v4[h].profiles :
          /\ F!Profile(d)
          /\ \/ v4[h].profiles[d] = Nobody
             \/ d = v4[h].d /\ v4[h].profiles[d] = v4[h].t /\ v4[h].t \in DOMAIN v4[h].trucks

RowsApart(h, g) ==
    /\ DOMAIN v4[h].trucks \intersect DOMAIN v4[g].trucks = {}
    /\ DOMAIN v4[h].profiles \intersect DOMAIN v4[g].profiles = {}

\* A transaction that is alone has cleared just the rows that name its truck or its driver.
Aware(h) ==
    /\ \A g \in Hands \ {h} : v4[g].do = <<>>
    /\ \A t \in DOMAIN v4[h].trucks \ {v4[h].t} : v1[t].driver = v4[h].d
    /\ \A d \in DOMAIN v4[h].profiles \ {v4[h].d} : v2[d].truck = v4[h].t
    /\ ~F!On(h, "insert") => F!Truck(v4[h].t) \/ v4[h].t \in DOMAIN v4[h].trucks
    /\ ~F!On(h, "insert") /\ ~F!On(h, "clearProfiles") =>
          \A d \in Crew : v2[d].truck = v4[h].t => d \in DOMAIN v4[h].profiles
    /\ F!On(h, "setTruck") \/ F!On(h, "setProfile") \/ F!On(h, "commit") =>
          \A t \in Trucks \ {v4[h].t} : v1[t].driver = v4[h].d => t \in DOMAIN v4[h].trucks
    /\ v4[h].do = Inserted \/ F!On(h, "setProfile") \/ F!On(h, "commit") => v4[h].t \in DOMAIN v4[h].trucks
    /\ F!On(h, "commit") /\ F!Profile(v4[h].d) =>
          v4[h].d \in DOMAIN v4[h].profiles /\ v4[h].profiles[v4[h].d] = v4[h].t
Knows(h) == v4[h].do # <<>> /\ v4[h].alone => Aware(h)

LinkInv ==
    /\ F!TypeOK /\ v4 \in [Hands -> Txs]
    /\ RowsExist
    /\ \A h \in Hands : FitsItsPlan(h) /\ Knows(h)
    /\ F!LinkAgrees

LEMMA PlanIs ==
    \A p \in LeftToDo \ {<<>>} :
        /\ Head(p) = "clearProfiles" => Tail(p) \in LeftToDo \ {<<>>, Inserted} /\ Head(Tail(p)) = "clearTrucks"
        /\ Head(p) = "insert" => Tail(p) = Inserted
        /\ Head(p) = "clearTrucks" =>
              /\ Tail(p) \in LeftToDo \ {<<>>, Inserted}
              /\ \/ Head(Tail(p)) = "setTruck" /\ p # Inserted
                 \/ Head(Tail(p)) = "setProfile" /\ p = Inserted
        /\ Head(p) = "setTruck" => Tail(p) \in LeftToDo \ {<<>>, Inserted} /\ Head(Tail(p)) = "setProfile"
        /\ Head(p) = "setProfile" => Tail(p) \in LeftToDo \ {<<>>, Inserted} /\ Head(Tail(p)) = "commit"
<1> DEFINE P5 == F!Assign
           P4 == <<"clearTrucks", "setTruck", "setProfile", "commit">>
           P3 == <<"setTruck", "setProfile", "commit">>
           P2 == <<"setProfile", "commit">>
           P1 == <<"commit">>
<1>1. /\ Head(P5) = "clearProfiles" /\ Tail(P5) = P4
      /\ Head(P4) = "clearTrucks" /\ Tail(P4) = P3
      /\ Head(P3) = "setTruck" /\ Tail(P3) = P2
      /\ Head(P2) = "setProfile" /\ Tail(P2) = P1
      /\ Head(P1) = "commit"
      /\ Head(F!Create) = "insert" /\ Tail(F!Create) = Inserted
      /\ Head(Inserted) = "clearTrucks" /\ Tail(Inserted) = P2
  BY DEF F!Assign, F!Create, Inserted
<1>2. LeftToDo = {<<>>, P5, P4, P3, P2, P1, F!Create, Inserted}
  BY DEF LeftToDo
<1>3. \A p \in {P5, P4, P3, P2, P1} : p # <<>> /\ p # Inserted
  BY DEF F!Assign, Inserted
<1>4. F!Create # <<>> /\ Inserted # <<>>
  BY DEF F!Create, Inserted
<1> HIDE DEF P1, P2, P3, P4, P5
<1> QED BY <1>1, <1>2, <1>3, <1>4

LEMMA OpenedIs ==
    /\ Inserted \in LeftToDo \ {<<>>} /\ Head(Inserted) = "clearTrucks"
    /\ F!Assign \in LeftToDo \ {<<>>, Inserted} /\ Head(F!Assign) = "clearProfiles"
    /\ F!Create \in LeftToDo \ {<<>>, Inserted} /\ Head(F!Create) = "insert"
    /\ <<>> \in LeftToDo
BY DEF LeftToDo, F!Assign, F!Create, Inserted

LEMMA OverIs ==
    ASSUME NEW X, NEW J, NEW old \in Partial(X, J), NEW new \in Partial(X, J)
    PROVE  F!Over(old, new) \in Partial(X, J)
<1>1. PICK Y \in SUBSET X : old \in [Y -> J]
  BY DEF Partial
<1>2. PICK Z \in SUBSET X : new \in [Z -> J]
  BY DEF Partial
<1>3. F!Over(old, new) \in [Y \union Z -> J] /\ Y \union Z \in SUBSET X
  BY <1>1, <1>2 DEF F!Over
<1> QED BY <1>3 DEF Partial

LEMMA SameRow ==
    ASSUME NEW X, NEW J, NEW Rows \in SUBSET X, NEW v \in J
    PROVE  [r \in Rows |-> v] \in Partial(X, J)
<1>1. [r \in Rows |-> v] \in [Rows -> J]
  OBVIOUS
<1> QED BY <1>1 DEF Partial

LEMMA PartialIs ==
    ASSUME NEW X, NEW J, NEW f \in Partial(X, J)
    PROVE  DOMAIN f \subseteq X /\ \A r \in DOMAIN f : f[r] \in J
BY DEF Partial

LEMMA RowsAre ==
    /\ F!NoRows \in TruckRows /\ F!NoRows \in ProfileRows /\ DOMAIN F!NoRows = {}
    /\ \A t \in Trucks, d \in Crew :
          /\ F!Only(t, d) \in TruckRows /\ DOMAIN F!Only(t, d) = {t} /\ F!Only(t, d)[t] = d
          /\ F!Only(d, t) \in ProfileRows /\ DOMAIN F!Only(d, t) = {d} /\ F!Only(d, t)[d] = t
    /\ \A Rows \in SUBSET Trucks : [t \in Rows |-> Nobody] \in TruckRows
    /\ \A Rows \in SUBSET Crew : [d \in Rows |-> Nobody] \in ProfileRows
    /\ \A f \in TruckRows : DOMAIN f \subseteq Trucks
    /\ \A f \in ProfileRows : DOMAIN f \subseteq Crew
<1>1. F!NoRows \in [{} -> Crew \union {Nobody}] /\ F!NoRows \in [{} -> Trucks \union {Nobody}] /\ DOMAIN F!NoRows = {}
  BY DEF F!NoRows
<1>2. F!NoRows \in TruckRows /\ F!NoRows \in ProfileRows /\ DOMAIN F!NoRows = {}
  BY <1>1 DEF Partial, TruckRows, ProfileRows
<1>3. ASSUME NEW t \in Trucks, NEW d \in Crew
      PROVE  /\ F!Only(t, d) \in TruckRows /\ DOMAIN F!Only(t, d) = {t} /\ F!Only(t, d)[t] = d
             /\ F!Only(d, t) \in ProfileRows /\ DOMAIN F!Only(d, t) = {d} /\ F!Only(d, t)[d] = t
  <2>1. {t} \in SUBSET Trucks /\ {d} \in SUBSET Crew
    OBVIOUS
  <2>2. F!Only(t, d) \in TruckRows
    BY <2>1, SameRow DEF F!Only, TruckRows
  <2>3. F!Only(d, t) \in ProfileRows
    BY <2>1, SameRow DEF F!Only, ProfileRows
  <2> QED BY <2>2, <2>3 DEF F!Only
<1>4. ASSUME NEW Rows \in SUBSET Trucks PROVE [t \in Rows |-> Nobody] \in TruckRows
  BY SameRow DEF TruckRows
<1>5. ASSUME NEW Rows \in SUBSET Crew PROVE [d \in Rows |-> Nobody] \in ProfileRows
  BY SameRow DEF ProfileRows
<1>6. ASSUME NEW f \in TruckRows PROVE DOMAIN f \subseteq Trucks
  BY PartialIs DEF TruckRows
<1>7. ASSUME NEW f \in ProfileRows PROVE DOMAIN f \subseteq Crew
  BY PartialIs DEF ProfileRows
<1> QED BY <1>2, <1>3, <1>4, <1>5, <1>6, <1>7

LEMMA OverRows ==
    /\ \A old, new \in TruckRows : F!Over(old, new) \in TruckRows
    /\ \A old, new \in ProfileRows : F!Over(old, new) \in ProfileRows
<1>1. ASSUME NEW old \in TruckRows, NEW new \in TruckRows PROVE F!Over(old, new) \in TruckRows
  BY OverIs DEF TruckRows
<1>2. ASSUME NEW old \in ProfileRows, NEW new \in ProfileRows PROVE F!Over(old, new) \in ProfileRows
  BY OverIs DEF ProfileRows
<1> QED BY <1>1, <1>2

\* The statement writes rows of its transaction, and nothing else.
RowsWritten(h, ts, ps) ==
    /\ v4' \in [Hands -> Txs]
    /\ \A g \in Hands \ {h} : v4'[g] = v4[g]
    /\ v4'[h].t = v4[h].t /\ v4'[h].d = v4[h].d /\ v4'[h].b = v4[h].b /\ v4'[h].alone = v4[h].alone
    /\ v4'[h].do = Tail(v4[h].do)
    /\ DOMAIN v4'[h].trucks = DOMAIN v4[h].trucks \union DOMAIN ts
    /\ DOMAIN v4'[h].profiles = DOMAIN v4[h].profiles \union DOMAIN ps
    /\ \A r \in DOMAIN ts : v4'[h].trucks[r] = ts[r]
    /\ \A r \in DOMAIN v4[h].trucks \ DOMAIN ts : v4'[h].trucks[r] = v4[h].trucks[r]
    /\ \A r \in DOMAIN ps : v4'[h].profiles[r] = ps[r]
    /\ \A r \in DOMAIN v4[h].profiles \ DOMAIN ps : v4'[h].profiles[r] = v4[h].profiles[r]

LEMMA WritesIs ==
    ASSUME LinkInv, NEW h \in Hands, v4[h].do # <<>>, Tail(v4[h].do) \in LeftToDo,
           NEW ts \in TruckRows, NEW ps \in ProfileRows, F!Writes(h, ts, ps)
    PROVE  RowsWritten(h, ts, ps)
<1> DEFINE x == v4[h]
           y == [x EXCEPT !.do = Tail(x.do), !.trucks = F!Over(x.trucks, ts),
                          !.profiles = F!Over(x.profiles, ps)]
<1>1. x \in Txs /\ v4 \in [Hands -> Txs]
  BY DEF LinkInv
<1>2. x.trucks \in TruckRows /\ x.profiles \in ProfileRows
  BY <1>1 DEF Txs
<1>3. v4' = [v4 EXCEPT ![h] = y]
  BY DEF F!Writes
<1>4. /\ y.t = x.t /\ y.d = x.d /\ y.b = x.b /\ y.alone = x.alone /\ y.do = Tail(x.do)
      /\ y.trucks = F!Over(x.trucks, ts) /\ y.profiles = F!Over(x.profiles, ps)
  BY <1>1 DEF Txs
<1>a. /\ F!Over(x.trucks, ts) \in TruckRows
      /\ DOMAIN F!Over(x.trucks, ts) = DOMAIN x.trucks \union DOMAIN ts
      /\ \A r \in DOMAIN ts : F!Over(x.trucks, ts)[r] = ts[r]
      /\ \A r \in DOMAIN x.trucks \ DOMAIN ts : F!Over(x.trucks, ts)[r] = x.trucks[r]
  <2>1. F!Over(x.trucks, ts) \in TruckRows
    BY <1>2, OverRows
  <2> QED BY <2>1 DEF F!Over
<1>b. /\ F!Over(x.profiles, ps) \in ProfileRows
      /\ DOMAIN F!Over(x.profiles, ps) = DOMAIN x.profiles \union DOMAIN ps
      /\ \A r \in DOMAIN ps : F!Over(x.profiles, ps)[r] = ps[r]
      /\ \A r \in DOMAIN x.profiles \ DOMAIN ps : F!Over(x.profiles, ps)[r] = x.profiles[r]
  <2>1. F!Over(x.profiles, ps) \in ProfileRows
    BY <1>2, OverRows
  <2> QED BY <2>1 DEF F!Over
<1>5. y \in Txs
  BY <1>1, <1>a, <1>b DEF Txs
<1>6. v4'[h] = y /\ v4' \in [Hands -> Txs] /\ \A g \in Hands \ {h} : v4'[g] = v4[g]
  BY <1>1, <1>3, <1>5
<1> HIDE DEF x, y
<1> QED BY <1>4, <1>6, <1>a, <1>b DEF x, RowsWritten

\* What a statement that writes the rows ts and ps has to show.
LEMMA StatementKeeps ==
    ASSUME LinkInv, NEW h \in Hands, v4[h].do # <<>>, Tail(v4[h].do) \in LeftToDo \ {<<>>},
           NEW ts \in TruckRows, NEW ps \in ProfileRows, F!Writes(h, ts, ps),
           UNCHANGED <<v1, v2, v3, v5, v6>>,
           F!Unlocked(h, DOMAIN ts \union DOMAIN ps), FitsItsPlan(h)', Knows(h)'
    PROVE  LinkInv'
<1>1. /\ v4' \in [Hands -> Txs]
      /\ \A g \in Hands \ {h} : v4'[g] = v4[g]
      /\ v4'[h].do = Tail(v4[h].do)
      /\ DOMAIN v4'[h].trucks = DOMAIN v4[h].trucks \union DOMAIN ts
      /\ DOMAIN v4'[h].profiles = DOMAIN v4[h].profiles \union DOMAIN ps
  BY WritesIs DEF RowsWritten
<1>2. \A g \in Hands : v4'[g].t \in Trucks \union {Nobody} /\ v4'[g].d \in Crew \union {Nobody}
                       /\ DOMAIN v4'[g].trucks \subseteq Trucks /\ DOMAIN v4'[g].profiles \subseteq Crew
  <2> SUFFICES ASSUME NEW g \in Hands
               PROVE  v4'[g].t \in Trucks \union {Nobody} /\ v4'[g].d \in Crew \union {Nobody}
                       /\ DOMAIN v4'[g].trucks \subseteq Trucks /\ DOMAIN v4'[g].profiles \subseteq Crew
    OBVIOUS
  <2>1. v4'[g] \in Txs
    BY <1>1
  <2> QED BY <2>1, RowsAre DEF Txs
<1>3. ASSUME NEW g \in Hands \ {h} PROVE RowsApart(h, g)' /\ RowsApart(g, h)'
  <2>1. /\ DOMAIN v4[h].trucks \intersect DOMAIN v4[g].trucks = {}
        /\ DOMAIN v4[h].profiles \intersect DOMAIN v4[g].profiles = {}
    BY DEF LinkInv, F!TypeOK
  <2>2. \A r \in DOMAIN ts \union DOMAIN ps : r \notin DOMAIN v4[g].trucks /\ r \notin DOMAIN v4[g].profiles
    BY DEF F!Unlocked, F!Holds
  <2> QED BY <1>1, <2>1, <2>2 DEF RowsApart
<1>4. ASSUME NEW g \in Hands, NEW k \in Hands \ {g} PROVE RowsApart(g, k)'
  <2>1. CASE g # h /\ k # h
    BY <1>1, <2>1 DEF LinkInv, F!TypeOK, RowsApart
  <2> QED BY <2>1, <1>3
<1>5. F!TypeOK'
  BY <1>2, <1>4 DEF LinkInv, F!TypeOK, RowsApart
<1>6. RowsExist' /\ F!LinkAgrees'
  BY DEF LinkInv, RowsExist, F!LinkAgrees, F!Truck, F!Profile
<1>7. ASSUME NEW g \in Hands PROVE FitsItsPlan(g)' /\ Knows(g)'
  <2>1. CASE g # h
    <3>1. v4'[g] = v4[g] /\ FitsItsPlan(g) /\ Knows(g)
      BY <1>1, <2>1 DEF LinkInv
    <3>2. FitsItsPlan(g)'
      BY <3>1 DEF FitsItsPlan, F!Truck, F!Profile
    <3>3. Knows(g)'
      BY <2>1, <3>1 DEF Knows, Aware
    <3> QED BY <3>2, <3>3
  <2> QED BY <2>1
<1> QED BY <1>1, <1>5, <1>6, <1>7 DEF LinkInv

LEMMA StepInsertTruck == ASSUME LinkInv, NEW h \in Hands, F!InsertTruck(h) PROVE LinkInv'
<1> DEFINE x == v4[h]  ts == F!Only(x.t, x.d)  ps == F!NoRows
<1>1. /\ x.do \in LeftToDo \ {<<>>} /\ Head(x.do) = "insert" /\ x.t \in Trucks /\ x.d \in Crew
      /\ ~F!Truck(x.t) /\ F!Unlocked(h, {x.t}) /\ F!Writes(h, ts, ps)
      /\ UNCHANGED <<v1, v2, v3, v5, v6>>
  BY DEF F!InsertTruck, LinkInv, Txs, F!On, FitsItsPlan
<1>2. Tail(x.do) = Inserted /\ Inserted \in LeftToDo \ {<<>>} /\ Head(Inserted) = "clearTrucks"
  BY <1>1, PlanIs, OpenedIs
<1>3. /\ ts \in TruckRows /\ DOMAIN ts = {x.t} /\ ts[x.t] = x.d
      /\ ps \in ProfileRows /\ DOMAIN ps = {}
  BY <1>1, RowsAre
<1> HIDE DEF ts, ps
<1>c. RowsWritten(h, ts, ps)
  BY <1>1, <1>2, <1>3, WritesIs
<1>4. /\ \A g \in Hands \ {h} : v4'[g] = v4[g]
      /\ v4'[h].t = x.t /\ v4'[h].d = x.d /\ v4'[h].b = x.b /\ v4'[h].alone = x.alone
      /\ v4'[h].do = Inserted
      /\ DOMAIN v4'[h].trucks = DOMAIN x.trucks \union {x.t} /\ DOMAIN v4'[h].profiles = DOMAIN x.profiles
      /\ v4'[h].trucks[x.t] = x.d
      /\ \A r \in DOMAIN x.trucks \ {x.t} : v4'[h].trucks[r] = x.trucks[r]
      /\ \A r \in DOMAIN x.profiles : v4'[h].profiles[r] = x.profiles[r]
  BY <1>1, <1>2, <1>3, <1>c DEF RowsWritten
<1>5. FitsItsPlan(h)'
  BY <1>1, <1>2, <1>4 DEF FitsItsPlan, LinkInv, F!Truck, F!Profile
<1>6. \A d \in Crew : v2[d].truck # x.t
  BY <1>1, FleetAssumption DEF LinkInv, RowsExist
<1>7. Knows(h)'
  <2> SUFFICES ASSUME v4[h]'.do # <<>>, v4[h]'.alone
               PROVE  Aware(h)'
    BY DEF Knows
  <2>1. Aware(h)
    BY <1>1, <1>4 DEF Knows, LinkInv
  <2>2. \A g \in Hands \ {h} : v4[g]'.do = <<>>
    BY <2>1, <1>4 DEF Aware
  <2>3. \A t \in DOMAIN v4[h]'.trucks \ {v4[h]'.t} : v1'[t].driver = v4[h]'.d
    BY <2>1, <1>1, <1>2, <1>4, <1>6 DEF Aware
  <2>4. \A d \in DOMAIN v4[h]'.profiles \ {v4[h]'.d} : v2'[d].truck = v4[h]'.t
    BY <2>1, <1>1, <1>2, <1>4, <1>6 DEF Aware
  <2>5. F!Truck(v4[h].t)' \/ v4[h]'.t \in DOMAIN v4[h]'.trucks
    BY <2>1, <1>1, <1>2, <1>4, <1>6 DEF Aware, F!On, F!Truck
  <2>6. ~F!On(h, "insert")' /\ ~F!On(h, "clearProfiles")' =>
          \A d \in Crew : v2'[d].truck = v4[h]'.t => d \in DOMAIN v4[h]'.profiles
    BY <2>1, <1>1, <1>2, <1>4, <1>6 DEF Aware, F!On
  <2>7. F!On(h, "setTruck")' \/ F!On(h, "setProfile")' \/ F!On(h, "commit")' =>
          \A t \in Trucks \ {v4[h]'.t} : v1'[t].driver = v4[h]'.d => t \in DOMAIN v4[h]'.trucks
    BY <2>1, <1>1, <1>2, <1>4, <1>6 DEF Aware, F!On
  <2>8. v4[h]'.do = Inserted \/ F!On(h, "setProfile")' \/ F!On(h, "commit")'
          => v4[h]'.t \in DOMAIN v4[h]'.trucks
    BY <2>1, <1>1, <1>2, <1>4, <1>6 DEF Aware, F!On, F!Truck
  <2>9. F!On(h, "commit")' /\ F!Profile(v4[h].d)' =>
          v4[h]'.d \in DOMAIN v4[h]'.profiles /\ v4[h]'.profiles[v4[h]'.d] = v4[h]'.t
    BY <2>1, <1>1, <1>2, <1>4, <1>6 DEF Aware, F!On, F!Profile
  <2> QED BY <2>2, <2>3, <2>4, <2>5, <2>6, <2>7, <2>8, <2>9 DEF Aware
<1> QED BY <1>1, <1>2, <1>3, <1>5, <1>7, StatementKeeps

LEMMA StepClearProfiles == ASSUME LinkInv, NEW h \in Hands, F!ClearProfiles(h) PROVE LinkInv'
<1> DEFINE x == v4[h]  rows == {d \in Crew : F!Profile(d) /\ F!TruckOf(h, d) = x.t}
           ts == F!NoRows  ps == [d \in rows |-> Nobody]
<1>1. /\ x.do \in LeftToDo \ {<<>>} /\ Head(x.do) = "clearProfiles" /\ x.t \in Trucks /\ x.d \in Crew
      /\ F!Unlocked(h, rows) /\ F!Writes(h, ts, ps)
      /\ UNCHANGED <<v1, v2, v3, v5, v6>>
  BY DEF F!ClearProfiles, LinkInv, Txs, F!On, FitsItsPlan
<1>2. /\ Tail(x.do) \in LeftToDo \ {<<>>, Inserted} /\ Head(Tail(x.do)) = "clearTrucks"
  BY <1>1, PlanIs
<1>3. /\ ts \in TruckRows /\ DOMAIN ts = {}
      /\ ps \in ProfileRows /\ DOMAIN ps = rows
      /\ \A d \in rows : ps[d] = Nobody
  BY RowsAre
<1>a. \A d \in rows : F!Profile(d) /\ F!TruckOf(h, d) = x.t
  OBVIOUS
<1>b. \A d \in Crew : F!Profile(d) /\ F!TruckOf(h, d) = x.t => d \in rows
  OBVIOUS
<1> HIDE DEF ts, ps, rows
<1>c. RowsWritten(h, ts, ps)
  BY <1>1, <1>2, <1>3, WritesIs
<1>4. /\ \A g \in Hands \ {h} : v4'[g] = v4[g]
      /\ v4'[h].t = x.t /\ v4'[h].d = x.d /\ v4'[h].b = x.b /\ v4'[h].alone = x.alone
      /\ v4'[h].do = Tail(x.do)
      /\ DOMAIN v4'[h].trucks = DOMAIN x.trucks /\ DOMAIN v4'[h].profiles = DOMAIN x.profiles \union rows
      /\ \A r \in DOMAIN x.trucks : v4'[h].trucks[r] = x.trucks[r]
      /\ \A r \in rows : v4'[h].profiles[r] = Nobody
      /\ \A r \in DOMAIN x.profiles \ rows : v4'[h].profiles[r] = x.profiles[r]
  BY <1>1, <1>2, <1>3, <1>c DEF RowsWritten
<1>5. FitsItsPlan(h)'
  BY <1>1, <1>2, <1>4, <1>a DEF FitsItsPlan, LinkInv, F!Truck, F!Profile
<1>6. \A d \in Crew : v2[d].truck = x.t => d \in DOMAIN x.profiles \union rows
  BY <1>1, <1>b, FleetAssumption DEF LinkInv, RowsExist, F!TruckOf
<1>7. \A d \in rows \ {x.d} : v2[d].truck = x.t
  BY <1>1, <1>a, FleetAssumption DEF LinkInv, FitsItsPlan, F!TruckOf
<1>8. Knows(h)'
  <2> SUFFICES ASSUME v4[h]'.do # <<>>, v4[h]'.alone
               PROVE  Aware(h)'
    BY DEF Knows
  <2>1. Aware(h)
    BY <1>1, <1>4 DEF Knows, LinkInv
  <2>2. \A g \in Hands \ {h} : v4[g]'.do = <<>>
    BY <2>1, <1>4 DEF Aware
  <2>3. \A t \in DOMAIN v4[h]'.trucks \ {v4[h]'.t} : v1'[t].driver = v4[h]'.d
    BY <2>1, <1>1, <1>2, <1>4, <1>6, <1>7 DEF Aware
  <2>4. \A d \in DOMAIN v4[h]'.profiles \ {v4[h]'.d} : v2'[d].truck = v4[h]'.t
    BY <2>1, <1>1, <1>2, <1>4, <1>6, <1>7 DEF Aware
  <2>5. F!Truck(v4[h].t)' \/ v4[h]'.t \in DOMAIN v4[h]'.trucks
    BY <2>1, <1>1, <1>2, <1>4, <1>6, <1>7 DEF Aware, F!On, F!Truck
  <2>6. ~F!On(h, "insert")' /\ ~F!On(h, "clearProfiles")' =>
          \A d \in Crew : v2'[d].truck = v4[h]'.t => d \in DOMAIN v4[h]'.profiles
    BY <2>1, <1>1, <1>2, <1>4, <1>6, <1>7 DEF Aware, F!On
  <2>7. F!On(h, "setTruck")' \/ F!On(h, "setProfile")' \/ F!On(h, "commit")' =>
          \A t \in Trucks \ {v4[h]'.t} : v1'[t].driver = v4[h]'.d => t \in DOMAIN v4[h]'.trucks
    BY <2>1, <1>1, <1>2, <1>4, <1>6, <1>7 DEF Aware, F!On
  <2>8. v4[h]'.do = Inserted \/ F!On(h, "setProfile")' \/ F!On(h, "commit")'
          => v4[h]'.t \in DOMAIN v4[h]'.trucks
    BY <2>1, <1>1, <1>2, <1>4, <1>6, <1>7 DEF Aware, F!On, F!Truck
  <2>9. F!On(h, "commit")' /\ F!Profile(v4[h].d)' =>
          v4[h]'.d \in DOMAIN v4[h]'.profiles /\ v4[h]'.profiles[v4[h]'.d] = v4[h]'.t
    BY <2>1, <1>1, <1>2, <1>4, <1>6, <1>7 DEF Aware, F!On, F!Profile
  <2> QED BY <2>2, <2>3, <2>4, <2>5, <2>6, <2>7, <2>8, <2>9 DEF Aware
<1> QED BY <1>1, <1>2, <1>3, <1>5, <1>8, StatementKeeps

LEMMA StepClearTrucks == ASSUME LinkInv, NEW h \in Hands, F!ClearTrucks(h) PROVE LinkInv'
<1> DEFINE x == v4[h]  rows == {t \in Trucks : F!Truck(t) /\ F!DriverOf(h, t) = x.d} \ {x.t}
           ts == [t \in rows |-> Nobody]  ps == F!NoRows
<1>1. /\ x.do \in LeftToDo \ {<<>>} /\ Head(x.do) = "clearTrucks" /\ x.t \in Trucks /\ x.d \in Crew
      /\ F!Unlocked(h, rows) /\ F!Writes(h, ts, ps)
      /\ UNCHANGED <<v1, v2, v3, v5, v6>>
  BY DEF F!ClearTrucks, LinkInv, Txs, F!On, FitsItsPlan
<1>2. /\ Tail(x.do) \in LeftToDo \ {<<>>, Inserted}
      /\ \/ Head(Tail(x.do)) = "setTruck"
         \/ Head(Tail(x.do)) = "setProfile" /\ x.do = Inserted
  BY <1>1, PlanIs
<1>3. /\ ts \in TruckRows /\ DOMAIN ts = rows
      /\ \A t \in rows : ts[t] = Nobody
      /\ ps \in ProfileRows /\ DOMAIN ps = {}
  BY RowsAre
<1>a. \A t \in rows : F!Truck(t) /\ F!DriverOf(h, t) = x.d /\ t # x.t
  OBVIOUS
<1>b. \A t \in Trucks \ {x.t} : F!Truck(t) /\ F!DriverOf(h, t) = x.d => t \in rows
  OBVIOUS
<1> HIDE DEF ts, ps, rows
<1>c. RowsWritten(h, ts, ps)
  BY <1>1, <1>2, <1>3, WritesIs
<1>4. /\ \A g \in Hands \ {h} : v4'[g] = v4[g]
      /\ v4'[h].t = x.t /\ v4'[h].d = x.d /\ v4'[h].b = x.b /\ v4'[h].alone = x.alone
      /\ v4'[h].do = Tail(x.do)
      /\ DOMAIN v4'[h].trucks = DOMAIN x.trucks \union rows /\ DOMAIN v4'[h].profiles = DOMAIN x.profiles
      /\ \A r \in rows : v4'[h].trucks[r] = Nobody
      /\ \A r \in DOMAIN x.trucks \ rows : v4'[h].trucks[r] = x.trucks[r]
      /\ \A r \in DOMAIN x.profiles : v4'[h].profiles[r] = x.profiles[r]
  BY <1>1, <1>2, <1>3, <1>c DEF RowsWritten
<1>5. FitsItsPlan(h)'
  BY <1>1, <1>2, <1>4, <1>a DEF FitsItsPlan, LinkInv, F!Truck, F!Profile
<1>6. \A t \in Trucks \ {x.t} : v1[t].driver = x.d => t \in DOMAIN x.trucks \union rows
  BY <1>1, <1>b, FleetAssumption DEF LinkInv, RowsExist, F!DriverOf
<1>7. \A t \in rows : v1[t].driver = x.d
  BY <1>1, <1>a, FleetAssumption DEF LinkInv, FitsItsPlan, F!DriverOf
<1>8. Knows(h)'
  <2> SUFFICES ASSUME v4[h]'.do # <<>>, v4[h]'.alone
               PROVE  Aware(h)'
    BY DEF Knows
  <2>1. Aware(h)
    BY <1>1, <1>4 DEF Knows, LinkInv
  <2>2. \A g \in Hands \ {h} : v4[g]'.do = <<>>
    BY <2>1, <1>4 DEF Aware
  <2>3. \A t \in DOMAIN v4[h]'.trucks \ {v4[h]'.t} : v1'[t].driver = v4[h]'.d
    BY <2>1, <1>1, <1>2, <1>4, <1>6, <1>7 DEF Aware
  <2>4. \A d \in DOMAIN v4[h]'.profiles \ {v4[h]'.d} : v2'[d].truck = v4[h]'.t
    BY <2>1, <1>1, <1>2, <1>4, <1>6, <1>7 DEF Aware
  <2>5. F!Truck(v4[h].t)' \/ v4[h]'.t \in DOMAIN v4[h]'.trucks
    BY <2>1, <1>1, <1>2, <1>4, <1>6, <1>7 DEF Aware, F!On, F!Truck
  <2>6. ~F!On(h, "insert")' /\ ~F!On(h, "clearProfiles")' =>
          \A d \in Crew : v2'[d].truck = v4[h]'.t => d \in DOMAIN v4[h]'.profiles
    BY <2>1, <1>1, <1>2, <1>4, <1>6, <1>7 DEF Aware, F!On
  <2>7. F!On(h, "setTruck")' \/ F!On(h, "setProfile")' \/ F!On(h, "commit")' =>
          \A t \in Trucks \ {v4[h]'.t} : v1'[t].driver = v4[h]'.d => t \in DOMAIN v4[h]'.trucks
    BY <2>1, <1>1, <1>2, <1>4, <1>6, <1>7 DEF Aware, F!On
  <2>8. v4[h]'.do = Inserted \/ F!On(h, "setProfile")' \/ F!On(h, "commit")'
          => v4[h]'.t \in DOMAIN v4[h]'.trucks
    BY <2>1, <1>1, <1>2, <1>4, <1>6, <1>7 DEF Aware, F!On, F!Truck
  <2>9. F!On(h, "commit")' /\ F!Profile(v4[h].d)' =>
          v4[h]'.d \in DOMAIN v4[h]'.profiles /\ v4[h]'.profiles[v4[h]'.d] = v4[h]'.t
    BY <2>1, <1>1, <1>2, <1>4, <1>6, <1>7 DEF Aware, F!On, F!Profile
  <2> QED BY <2>2, <2>3, <2>4, <2>5, <2>6, <2>7, <2>8, <2>9 DEF Aware
<1> QED BY <1>1, <1>2, <1>3, <1>5, <1>8, StatementKeeps

LEMMA StepSetTruck == ASSUME LinkInv, NEW h \in Hands, F!SetTruck(h) PROVE LinkInv'
<1> DEFINE x == v4[h]  ts == IF F!Truck(x.t) THEN F!Only(x.t, x.d) ELSE F!NoRows  ps == F!NoRows
<1>1. /\ x.do \in LeftToDo \ {<<>>} /\ Head(x.do) = "setTruck" /\ x.t \in Trucks /\ x.d \in Crew
      /\ F!Unlocked(h, {x.t}) /\ F!Writes(h, ts, ps)
      /\ UNCHANGED <<v1, v2, v3, v5, v6>>
  BY DEF F!SetTruck, LinkInv, Txs, F!On, FitsItsPlan
<1>2. Tail(x.do) \in LeftToDo \ {<<>>, Inserted} /\ Head(Tail(x.do)) = "setProfile"
  BY <1>1, PlanIs
<1>3. /\ ts \in TruckRows /\ DOMAIN ts \subseteq {x.t}
      /\ F!Truck(x.t) => x.t \in DOMAIN ts
      /\ \A t \in DOMAIN ts : t = x.t /\ ts[t] = x.d
      /\ ps \in ProfileRows /\ DOMAIN ps = {}
  <2>1. CASE F!Truck(x.t)
    <3>1. ts = F!Only(x.t, x.d) /\ ps = F!NoRows
      BY <2>1
    <3>2. F!Only(x.t, x.d) \in TruckRows /\ DOMAIN F!Only(x.t, x.d) = {x.t} /\ F!Only(x.t, x.d)[x.t] = x.d
      BY <1>1, RowsAre
    <3>3. ps \in ProfileRows /\ DOMAIN ps = {}
      BY <3>1, RowsAre
    <3> HIDE DEF ts, ps
    <3> QED BY <3>1, <3>2, <3>3
  <2>2. CASE ~F!Truck(x.t)
    BY <2>2, RowsAre
  <2> QED BY <2>1, <2>2
<1> HIDE DEF ts, ps
<1>c. RowsWritten(h, ts, ps)
  BY <1>1, <1>2, <1>3, WritesIs
<1>4. /\ \A g \in Hands \ {h} : v4'[g] = v4[g]
      /\ v4'[h].t = x.t /\ v4'[h].d = x.d /\ v4'[h].b = x.b /\ v4'[h].alone = x.alone
      /\ v4'[h].do = Tail(x.do)
      /\ DOMAIN v4'[h].trucks = DOMAIN x.trucks \union DOMAIN ts /\ DOMAIN v4'[h].profiles = DOMAIN x.profiles
      /\ \A r \in DOMAIN ts : v4'[h].trucks[r] = x.d
      /\ \A r \in DOMAIN x.trucks \ DOMAIN ts : v4'[h].trucks[r] = x.trucks[r]
      /\ \A r \in DOMAIN x.profiles : v4'[h].profiles[r] = x.profiles[r]
  BY <1>1, <1>2, <1>3, <1>c DEF RowsWritten
<1>5. FitsItsPlan(h)'
  BY <1>1, <1>2, <1>3, <1>4 DEF FitsItsPlan, LinkInv, F!Truck, F!Profile
<1>6. Knows(h)'
  <2> SUFFICES ASSUME v4[h]'.do # <<>>, v4[h]'.alone
               PROVE  Aware(h)'
    BY DEF Knows
  <2>1. Aware(h)
    BY <1>1, <1>4 DEF Knows, LinkInv
  <2>2. \A g \in Hands \ {h} : v4[g]'.do = <<>>
    BY <2>1, <1>4 DEF Aware
  <2>3. \A t \in DOMAIN v4[h]'.trucks \ {v4[h]'.t} : v1'[t].driver = v4[h]'.d
    BY <2>1, <1>1, <1>2, <1>3, <1>4 DEF Aware
  <2>4. \A d \in DOMAIN v4[h]'.profiles \ {v4[h]'.d} : v2'[d].truck = v4[h]'.t
    BY <2>1, <1>1, <1>2, <1>3, <1>4 DEF Aware
  <2>5. F!Truck(v4[h].t)' \/ v4[h]'.t \in DOMAIN v4[h]'.trucks
    BY <2>1, <1>1, <1>2, <1>3, <1>4 DEF Aware, F!On, F!Truck
  <2>6. ~F!On(h, "insert")' /\ ~F!On(h, "clearProfiles")' =>
          \A d \in Crew : v2'[d].truck = v4[h]'.t => d \in DOMAIN v4[h]'.profiles
    BY <2>1, <1>1, <1>2, <1>3, <1>4 DEF Aware, F!On
  <2>7. F!On(h, "setTruck")' \/ F!On(h, "setProfile")' \/ F!On(h, "commit")' =>
          \A t \in Trucks \ {v4[h]'.t} : v1'[t].driver = v4[h]'.d => t \in DOMAIN v4[h]'.trucks
    BY <2>1, <1>1, <1>2, <1>3, <1>4 DEF Aware, F!On
  <2>8. v4[h]'.do = Inserted \/ F!On(h, "setProfile")' \/ F!On(h, "commit")'
          => v4[h]'.t \in DOMAIN v4[h]'.trucks
    BY <2>1, <1>1, <1>2, <1>3, <1>4 DEF Aware, F!On, F!Truck
  <2>9. F!On(h, "commit")' /\ F!Profile(v4[h].d)' =>
          v4[h]'.d \in DOMAIN v4[h]'.profiles /\ v4[h]'.profiles[v4[h]'.d] = v4[h]'.t
    BY <2>1, <1>1, <1>2, <1>3, <1>4 DEF Aware, F!On, F!Profile
  <2> QED BY <2>2, <2>3, <2>4, <2>5, <2>6, <2>7, <2>8, <2>9 DEF Aware
<1>7. F!Unlocked(h, DOMAIN ts \union DOMAIN ps)
  BY <1>1, <1>3 DEF F!Unlocked
<1> QED BY <1>1, <1>2, <1>3, <1>5, <1>6, <1>7, StatementKeeps

LEMMA StepSetProfile == ASSUME LinkInv, NEW h \in Hands, F!SetProfile(h) PROVE LinkInv'
<1> DEFINE x == v4[h]  ts == F!NoRows  ps == IF F!Profile(x.d) THEN F!Only(x.d, x.t) ELSE F!NoRows
<1>1. /\ x.do \in LeftToDo \ {<<>>} /\ Head(x.do) = "setProfile" /\ x.t \in Trucks /\ x.d \in Crew
      /\ F!Unlocked(h, {x.d}) /\ F!Writes(h, ts, ps) /\ (F!Profile(x.d) => x.t \in DOMAIN x.trucks)
      /\ UNCHANGED <<v1, v2, v3, v5, v6>>
  BY DEF F!SetProfile, LinkInv, Txs, F!On, FitsItsPlan
<1>2. Tail(x.do) \in LeftToDo \ {<<>>, Inserted} /\ Head(Tail(x.do)) = "commit"
  BY <1>1, PlanIs
<1>3. /\ ts \in TruckRows /\ DOMAIN ts = {}
      /\ ps \in ProfileRows /\ DOMAIN ps \subseteq {x.d}
      /\ F!Profile(x.d) <=> x.d \in DOMAIN ps
      /\ \A d \in DOMAIN ps : d = x.d /\ ps[d] = x.t
  <2>1. CASE F!Profile(x.d)
    <3>1. ps = F!Only(x.d, x.t) /\ ts = F!NoRows
      BY <2>1
    <3>a. x.t \in Trucks /\ x.d \in Crew
      BY <1>1
    <3> HIDE DEF ts, ps, x
    <3>2. F!Only(x.d, x.t) \in ProfileRows /\ DOMAIN F!Only(x.d, x.t) = {x.d} /\ F!Only(x.d, x.t)[x.d] = x.t
      BY <3>a, RowsAre
    <3>3. ts \in TruckRows /\ DOMAIN ts = {}
      BY <3>1, RowsAre
    <3> QED BY <2>1, <3>1, <3>2, <3>3
  <2>2. CASE ~F!Profile(x.d)
    BY <2>2, RowsAre
  <2> QED BY <2>1, <2>2
<1> HIDE DEF ts, ps
<1>c. RowsWritten(h, ts, ps)
  BY <1>1, <1>2, <1>3, WritesIs
<1>4. /\ \A g \in Hands \ {h} : v4'[g] = v4[g]
      /\ v4'[h].t = x.t /\ v4'[h].d = x.d /\ v4'[h].b = x.b /\ v4'[h].alone = x.alone
      /\ v4'[h].do = Tail(x.do)
      /\ DOMAIN v4'[h].trucks = DOMAIN x.trucks /\ DOMAIN v4'[h].profiles = DOMAIN x.profiles \union DOMAIN ps
      /\ \A r \in DOMAIN x.trucks : v4'[h].trucks[r] = x.trucks[r]
      /\ \A r \in DOMAIN ps : v4'[h].profiles[r] = x.t
      /\ \A r \in DOMAIN x.profiles \ DOMAIN ps : v4'[h].profiles[r] = x.profiles[r]
  BY <1>1, <1>2, <1>3, <1>c DEF RowsWritten
<1>5. FitsItsPlan(h)'
  BY <1>1, <1>2, <1>3, <1>4 DEF FitsItsPlan, LinkInv, F!Truck, F!Profile
<1>6. Knows(h)'
  <2> SUFFICES ASSUME v4[h]'.do # <<>>, v4[h]'.alone
               PROVE  Aware(h)'
    BY DEF Knows
  <2>1. Aware(h)
    BY <1>1, <1>4 DEF Knows, LinkInv
  <2>2. \A g \in Hands \ {h} : v4[g]'.do = <<>>
    BY <2>1, <1>4 DEF Aware
  <2>3. \A t \in DOMAIN v4[h]'.trucks \ {v4[h]'.t} : v1'[t].driver = v4[h]'.d
    BY <2>1, <1>1, <1>2, <1>3, <1>4 DEF Aware
  <2>4. \A d \in DOMAIN v4[h]'.profiles \ {v4[h]'.d} : v2'[d].truck = v4[h]'.t
    BY <2>1, <1>1, <1>2, <1>3, <1>4 DEF Aware
  <2>5. F!Truck(v4[h].t)' \/ v4[h]'.t \in DOMAIN v4[h]'.trucks
    BY <2>1, <1>1, <1>2, <1>3, <1>4 DEF Aware, F!On, F!Truck
  <2>6. ~F!On(h, "insert")' /\ ~F!On(h, "clearProfiles")' =>
          \A d \in Crew : v2'[d].truck = v4[h]'.t => d \in DOMAIN v4[h]'.profiles
    BY <2>1, <1>1, <1>2, <1>3, <1>4 DEF Aware, F!On
  <2>7. F!On(h, "setTruck")' \/ F!On(h, "setProfile")' \/ F!On(h, "commit")' =>
          \A t \in Trucks \ {v4[h]'.t} : v1'[t].driver = v4[h]'.d => t \in DOMAIN v4[h]'.trucks
    BY <2>1, <1>1, <1>2, <1>3, <1>4 DEF Aware, F!On
  <2>8. v4[h]'.do = Inserted \/ F!On(h, "setProfile")' \/ F!On(h, "commit")'
          => v4[h]'.t \in DOMAIN v4[h]'.trucks
    BY <2>1, <1>1, <1>2, <1>3, <1>4 DEF Aware, F!On, F!Truck
  <2>9. F!On(h, "commit")' /\ F!Profile(v4[h].d)' =>
          v4[h]'.d \in DOMAIN v4[h]'.profiles /\ v4[h]'.profiles[v4[h]'.d] = v4[h]'.t
    BY <2>1, <1>1, <1>2, <1>3, <1>4 DEF Aware, F!On, F!Profile
  <2> QED BY <2>2, <2>3, <2>4, <2>5, <2>6, <2>7, <2>8, <2>9 DEF Aware
<1>7. F!Unlocked(h, DOMAIN ts \union DOMAIN ps)
  BY <1>1, <1>3 DEF F!Unlocked
<1> QED BY <1>1, <1>2, <1>3, <1>5, <1>6, <1>7, StatementKeeps

LEMMA StepCommit == ASSUME LinkInv, NEW h \in Hands, F!Commit(h) PROVE LinkInv'
<1> DEFINE x == v4[h]
<1>1. /\ x \in Txs /\ x.do # <<>> /\ F!On(h, "commit") /\ x.t \in Trucks /\ x.d \in Crew /\ x.b \in Brokers
      /\ DOMAIN x.trucks \subseteq Trucks /\ DOMAIN x.profiles \subseteq Crew
  BY DEF F!Commit, LinkInv, F!On, FitsItsPlan, F!TypeOK
<1>2. /\ \A t \in DOMAIN x.trucks : x.trucks[t] \in Crew \union {Nobody}
      /\ \A d \in DOMAIN x.profiles : x.profiles[d] \in Trucks \union {Nobody}
  BY <1>1 DEF LinkInv, FitsItsPlan
<1>3. /\ \A t \in DOMAIN x.trucks : v1'[t].driver = x.trucks[t]
            /\ v1'[t].broker = (IF t = x.t THEN x.b ELSE v1[t].broker)
      /\ \A t \in Trucks \ DOMAIN x.trucks : v1'[t] = v1[t]
      /\ v1' \in [Trucks -> [broker : Brokers \union {Nobody}, driver : Crew \union {Nobody}]]
  BY <1>1, <1>2 DEF F!Commit, LinkInv, F!TypeOK
<1>4. /\ \A d \in DOMAIN x.profiles : v2'[d].truck = x.profiles[d]
            /\ v2'[d].broker = v2[d].broker
      /\ \A d \in Crew \ DOMAIN x.profiles : v2'[d] = v2[d]
      /\ v2' \in [Crew -> [broker : Brokers \union {Nobody}, truck : Trucks \union {Nobody}]]
  BY <1>1, <1>2 DEF F!Commit, LinkInv, F!TypeOK
<1>5. /\ F!NoTx \in Txs /\ F!NoTx.do = <<>> /\ DOMAIN F!NoTx.trucks = {} /\ DOMAIN F!NoTx.profiles = {}
      /\ F!NoTx.t = Nobody /\ F!NoTx.d = Nobody
  BY RowsAre, OpenedIs DEF F!NoTx, Txs
<1>6. /\ v4' \in [Hands -> Txs] /\ v4'[h] = F!NoTx
      /\ \A g \in Hands \ {h} : v4'[g] = v4[g]
  BY <1>1, <1>5 DEF F!Commit, LinkInv
<1>7. F!TypeOK'
  <2>1. v3' = v3 /\ v6' = v6 /\ v5' \subseteq Trucks \union Crew
    BY <1>1 DEF F!Commit, LinkInv, F!TypeOK
  <2>2. \A g \in Hands : /\ v4'[g].t \in Trucks \union {Nobody} /\ v4'[g].d \in Crew \union {Nobody}
                         /\ DOMAIN v4'[g].trucks \subseteq Trucks /\ DOMAIN v4'[g].profiles \subseteq Crew
    BY <1>5, <1>6 DEF LinkInv, F!TypeOK
  <2>3. \A g \in Hands : \A k \in Hands \ {g} :
            /\ DOMAIN v4'[g].trucks \intersect DOMAIN v4'[k].trucks = {}
            /\ DOMAIN v4'[g].profiles \intersect DOMAIN v4'[k].profiles = {}
    BY <1>5, <1>6 DEF LinkInv, F!TypeOK
  <2> QED BY <1>3, <1>4, <2>1, <2>2, <2>3 DEF LinkInv, F!TypeOK
<1>8. /\ \A t \in Trucks : F!Truck(t) => F!Truck(t)'
      /\ \A d \in Crew : F!Profile(d)' <=> F!Profile(d)
      /\ \A t \in DOMAIN x.trucks : F!Truck(t)'
      /\ \A d \in DOMAIN x.profiles : F!Profile(d)
  <2>1. x.b # Nobody
    BY <1>1, FleetAssumption
  <2>2. \A t \in Trucks : F!Truck(t) => F!Truck(t)'
    BY <1>3, <2>1 DEF F!Truck
  <2>3. \A d \in Crew : F!Profile(d)' <=> F!Profile(d)
    BY <1>4 DEF F!Profile
  <2>4. ASSUME NEW t \in DOMAIN x.trucks PROVE F!Truck(t)'
    <3>1. CASE t = x.t
      BY <1>3, <2>1, <3>1 DEF F!Truck
    <3>2. CASE t # x.t
      BY <1>1, <2>2, <3>2 DEF LinkInv, FitsItsPlan
    <3> QED BY <3>1, <3>2
  <2>5. \A d \in DOMAIN x.profiles : F!Profile(d)
    BY DEF LinkInv, FitsItsPlan
  <2> QED BY <2>2, <2>3, <2>4, <2>5
<1>9. RowsExist'
  <2>1. \A t \in Trucks : ~F!Truck(t)' => v1'[t].driver = Nobody
    BY <1>3, <1>8 DEF RowsExist, LinkInv, F!Truck
  <2>2. \A d \in Crew : ~F!Profile(d)' => v2'[d].truck = Nobody
    BY <1>4, <1>8 DEF RowsExist, LinkInv, F!Profile
  <2>3. ASSUME NEW d \in Crew, v2'[d].truck # Nobody PROVE F!Truck(v2[d].truck)'
    <3>1. CASE d \in DOMAIN x.profiles
      <4>1. v2'[d].truck = x.t /\ x.t \in DOMAIN x.trucks
        BY <1>4, <2>3, <3>1 DEF LinkInv, FitsItsPlan
      <4> QED BY <1>8, <4>1 DEF F!Truck
    <3>2. CASE d \notin DOMAIN x.profiles
      <4>1. v2'[d] = v2[d] /\ v2[d].truck \in Trucks /\ F!Truck(v2[d].truck)
        BY <1>4, <2>3, <3>2 DEF LinkInv, F!TypeOK, RowsExist
      <4> QED BY <1>8, <4>1 DEF F!Truck
    <3> QED BY <3>1, <3>2
  <2> QED BY <2>1, <2>2, <2>3 DEF RowsExist
<1>10. ASSUME NEW g \in Hands PROVE FitsItsPlan(g)' /\ Knows(g)'
  <2>1. CASE g = h
    BY <1>5, <1>6, <2>1 DEF FitsItsPlan, Knows
  <2>2. CASE g # h
    <3>1. v4'[g] = v4[g] /\ FitsItsPlan(g)
      BY <1>6, <2>2 DEF LinkInv
    <3>2. DOMAIN v4[g].trucks \subseteq Trucks /\ DOMAIN v4[g].profiles \subseteq Crew
      BY DEF LinkInv, F!TypeOK
    <3>3. FitsItsPlan(g)'
      BY <1>8, <3>1, <3>2 DEF FitsItsPlan
    <3>4. ~(v4[g].do # <<>> /\ v4[g].alone)
      BY <1>1, <2>2 DEF LinkInv, Knows, Aware
    <3>5. Knows(g)'
      BY <3>1, <3>4 DEF Knows
    <3> QED BY <3>3, <3>5
  <2> QED BY <2>1, <2>2
<1>11. F!LinkAgrees'
  <2> SUFFICES ASSUME NEW t \in Trucks, NEW d \in Crew, {t, d} \intersect v5' = {}
               PROVE  v1'[t].driver = d <=> v2'[d].truck = t
    BY DEF F!LinkAgrees
  <2>1. {t, d} \intersect v5 = {} /\ (v1[t].driver = d <=> v2[d].truck = t)
    BY DEF F!Commit, LinkInv, F!LinkAgrees
  <2>2. CASE ~(x.alone /\ F!Profile(x.d))
    <3>1. t \notin DOMAIN x.trucks /\ d \notin DOMAIN x.profiles
      BY <2>2 DEF F!Commit
    <3> QED BY <1>3, <1>4, <2>1, <3>1
  <2>3. CASE x.alone /\ F!Profile(x.d)
    <3>1. Aware(h)
      BY <1>1, <2>3 DEF LinkInv, Knows
    <3>2. /\ x.t \in DOMAIN x.trucks /\ x.trucks[x.t] = x.d
          /\ x.d \in DOMAIN x.profiles /\ x.profiles[x.d] = x.t
      BY <1>1, <2>3, <3>1 DEF Aware, F!On, LinkInv, FitsItsPlan
    <3>3. \A u \in Trucks \ {x.t} :
             IF u \in DOMAIN x.trucks THEN v1[u].driver = x.d /\ v1'[u].driver = Nobody
                                      ELSE v1[u].driver # x.d /\ v1'[u] = v1[u]
      BY <1>1, <1>3, <3>1 DEF Aware, F!On, LinkInv, FitsItsPlan
    <3>4. \A e \in Crew \ {x.d} :
             IF e \in DOMAIN x.profiles THEN v2[e].truck = x.t /\ v2'[e].truck = Nobody
                                        ELSE v2[e].truck # x.t /\ v2'[e] = v2[e]
      BY <1>1, <1>4, <3>1 DEF Aware, F!On, LinkInv, FitsItsPlan
    <3>5. v1'[x.t].driver = x.d /\ v2'[x.d].truck = x.t
      BY <1>3, <1>4, <3>2
    <3> QED BY <2>1, <3>3, <3>4, <3>5, FleetAssumption
  <2> QED BY <2>2, <2>3
<1> QED BY <1>6, <1>7, <1>9, <1>10, <1>11 DEF LinkInv

LEMMA StepRollback == ASSUME LinkInv, NEW h \in Hands, F!Rollback(h) PROVE LinkInv'
<1>1. UNCHANGED <<v1, v2, v3, v5, v6>> /\ v4[h].do # <<>>
  BY DEF F!Rollback
<1>2. /\ F!NoTx \in Txs /\ F!NoTx.do = <<>> /\ DOMAIN F!NoTx.trucks = {} /\ DOMAIN F!NoTx.profiles = {}
      /\ F!NoTx.t = Nobody /\ F!NoTx.d = Nobody
  BY RowsAre, OpenedIs DEF F!NoTx, Txs
<1>3. /\ v4' \in [Hands -> Txs] /\ v4'[h] = F!NoTx
      /\ \A g \in Hands \ {h} : v4'[g] = v4[g]
  BY <1>2 DEF F!Rollback, LinkInv
<1>4. F!TypeOK'
  <2>1. \A g \in Hands : /\ v4'[g].t \in Trucks \union {Nobody} /\ v4'[g].d \in Crew \union {Nobody}
                         /\ DOMAIN v4'[g].trucks \subseteq Trucks /\ DOMAIN v4'[g].profiles \subseteq Crew
    BY <1>2, <1>3 DEF LinkInv, F!TypeOK
  <2>2. \A g \in Hands : \A k \in Hands \ {g} :
            /\ DOMAIN v4'[g].trucks \intersect DOMAIN v4'[k].trucks = {}
            /\ DOMAIN v4'[g].profiles \intersect DOMAIN v4'[k].profiles = {}
    BY <1>2, <1>3 DEF LinkInv, F!TypeOK
  <2> QED BY <1>1, <2>1, <2>2 DEF LinkInv, F!TypeOK
<1>5. RowsExist' /\ F!LinkAgrees'
  BY <1>1 DEF LinkInv, RowsExist, F!LinkAgrees, F!Truck, F!Profile
<1>6. ASSUME NEW g \in Hands PROVE FitsItsPlan(g)' /\ Knows(g)'
  <2>1. CASE g = h
    BY <1>2, <1>3, <2>1 DEF FitsItsPlan, Knows
  <2>2. CASE g # h
    <3>1. v4'[g] = v4[g] /\ FitsItsPlan(g) /\ Knows(g)
      BY <1>3, <2>2 DEF LinkInv
    <3>2. FitsItsPlan(g)'
      BY <1>1, <3>1 DEF FitsItsPlan, F!Truck, F!Profile
    <3>3. Knows(g)'
      BY <1>1, <2>2, <3>1 DEF Knows, Aware
    <3> QED BY <3>2, <3>3
  <2> QED BY <2>1, <2>2
<1> QED BY <1>1, <1>3, <1>4, <1>5, <1>6 DEF LinkInv

\* Whoever writes the link from outside leaves no transaction alone.
LEMMA DisturbedIs ==
    ASSUME LinkInv
    PROVE  /\ F!Disturbed \in [Hands -> Txs]
           /\ \A g \in Hands :
                 /\ F!Disturbed[g].do = v4[g].do /\ F!Disturbed[g].t = v4[g].t /\ F!Disturbed[g].d = v4[g].d
                 /\ F!Disturbed[g].b = v4[g].b /\ F!Disturbed[g].trucks = v4[g].trucks
                 /\ F!Disturbed[g].profiles = v4[g].profiles
                 /\ F!Disturbed[g].do # <<>> => ~F!Disturbed[g].alone
                 /\ F!Disturbed[g].do = <<>> => F!Disturbed[g] = v4[g]
<1> SUFFICES ASSUME NEW g \in Hands
             PROVE  /\ F!Disturbed[g] \in Txs
                    /\ F!Disturbed[g].do = v4[g].do /\ F!Disturbed[g].t = v4[g].t /\ F!Disturbed[g].d = v4[g].d
                    /\ F!Disturbed[g].b = v4[g].b /\ F!Disturbed[g].trucks = v4[g].trucks
                    /\ F!Disturbed[g].profiles = v4[g].profiles
                    /\ F!Disturbed[g].do # <<>> => ~F!Disturbed[g].alone
                    /\ F!Disturbed[g].do = <<>> => F!Disturbed[g] = v4[g]
  BY DEF F!Disturbed
<1>1. v4[g] \in Txs
  BY DEF LinkInv
<1>2. CASE v4[g].do = <<>>
  BY <1>1, <1>2 DEF F!Disturbed
<1>3. CASE v4[g].do # <<>>
  <2>1. F!Disturbed[g] = [v4[g] EXCEPT !.alone = FALSE]
    BY <1>3 DEF F!Disturbed
  <2> QED BY <1>1, <1>3, <2>1 DEF Txs
<1> QED BY <1>2, <1>3

\* A transaction that is opened has written nothing, and is alone if no other is under way.
LEMMA OpenIs ==
    ASSUME LinkInv, NEW h \in Hands, NEW steps \in LeftToDo, NEW t \in Trucks, NEW d \in Crew,
           NEW b \in Brokers, F!Open(h, steps, t, d, b)
    PROVE  /\ v4' \in [Hands -> Txs] /\ v4[h] = F!NoTx
           /\ \A g \in Hands \ {h} : v4'[g] = F!Disturbed[g]
           /\ v4'[h].do = steps /\ v4'[h].t = t /\ v4'[h].d = d /\ v4'[h].b = b
           /\ v4'[h].alone => \A g \in Hands : v4[g].do = <<>>
           /\ DOMAIN v4'[h].trucks = {} /\ DOMAIN v4'[h].profiles = {}
<1> DEFINE x == [F!NoTx EXCEPT !.do = steps, !.t = t, !.d = d, !.b = b,
                                 !.alone = \A g \in Hands : v4[g].do = <<>>]
<1>1. v4' = [F!Disturbed EXCEPT ![h] = x] /\ v4[h] = F!NoTx
  BY DEF F!Open
<1>2. /\ x.do = steps /\ x.t = t /\ x.d = d /\ x.b = b /\ x.alone = (\A g \in Hands : v4[g].do = <<>>)
      /\ x.trucks = F!NoRows /\ x.profiles = F!NoRows
  BY DEF F!NoTx
<1>3. x \in Txs
  BY RowsAre DEF F!NoTx, Txs
<1> HIDE DEF x
<1>4. v4'[h] = x /\ v4' \in [Hands -> Txs] /\ \A g \in Hands \ {h} : v4'[g] = F!Disturbed[g]
  BY <1>1, <1>3, DisturbedIs
<1> QED BY <1>1, <1>2, <1>4, RowsAre

\* What a request that opens a transaction has to show.
LEMMA OpenKeeps ==
    ASSUME LinkInv, NEW h \in Hands, NEW steps \in {F!Assign, F!Create}, NEW t \in Trucks, NEW d \in Crew,
           NEW b \in Brokers, F!Open(h, steps, t, d, b), steps = F!Assign => F!Truck(t)',
           UNCHANGED <<v3, v5, v6>>, v1' = v1,
           v2' \in [Crew -> [broker : Brokers \union {Nobody}, truck : Trucks \union {Nobody}]],
           \A e \in Crew : v2'[e].truck = v2[e].truck /\ (F!Profile(e) => F!Profile(e)')
    PROVE  LinkInv'
<1>1. /\ v4' \in [Hands -> Txs] /\ v4[h] = F!NoTx
      /\ \A g \in Hands \ {h} : v4'[g] = F!Disturbed[g]
      /\ v4'[h].do = steps /\ v4'[h].t = t /\ v4'[h].d = d /\ v4'[h].b = b
      /\ v4'[h].alone => \A g \in Hands : v4[g].do = <<>>
      /\ DOMAIN v4'[h].trucks = {} /\ DOMAIN v4'[h].profiles = {}
  BY OpenIs, OpenedIs
<1>2. steps # <<>> /\ steps # Inserted /\ Head(steps) \in {"clearProfiles", "insert"}
      /\ (Head(steps) = "clearProfiles" => F!Truck(t)')
  BY OpenedIs
<1>3. F!TypeOK'
  <2>a. \A g \in Hands \ {h} :
           /\ v4'[g].t = v4[g].t /\ v4'[g].d = v4[g].d
           /\ v4'[g].trucks = v4[g].trucks /\ v4'[g].profiles = v4[g].profiles
    BY <1>1, DisturbedIs
  <2>1. \A g \in Hands : /\ v4'[g].t \in Trucks \union {Nobody} /\ v4'[g].d \in Crew \union {Nobody}
                         /\ DOMAIN v4'[g].trucks \subseteq Trucks /\ DOMAIN v4'[g].profiles \subseteq Crew
    BY <1>1, <2>a DEF LinkInv, F!TypeOK
  <2>2. \A g \in Hands : \A k \in Hands \ {g} :
            /\ DOMAIN v4'[g].trucks \intersect DOMAIN v4'[k].trucks = {}
            /\ DOMAIN v4'[g].profiles \intersect DOMAIN v4'[k].profiles = {}
    BY <1>1, <2>a DEF LinkInv, F!TypeOK
  <2> QED BY <2>1, <2>2 DEF LinkInv, F!TypeOK
<1>4. RowsExist' /\ F!LinkAgrees'
  <2>1. \A e \in Crew : v2[e].truck \in Trucks \union {Nobody}
    BY DEF LinkInv, F!TypeOK
  <2> QED BY <2>1 DEF LinkInv, RowsExist, F!LinkAgrees, F!Truck, F!Profile
<1>5. FitsItsPlan(h)' /\ Knows(h)'
  <2>1. FitsItsPlan(h)'
    BY <1>1, <1>2 DEF FitsItsPlan
  <2>2. v4[h]'.alone => Aware(h)'
    BY <1>1, <1>2, DisturbedIs DEF Aware, F!On, F!Truck
  <2> QED BY <2>1, <2>2 DEF Knows
<1>6. ASSUME NEW g \in Hands \ {h} PROVE FitsItsPlan(g)' /\ Knows(g)'
  <2>1. /\ v4'[g].do = v4[g].do /\ v4'[g].t = v4[g].t /\ v4'[g].d = v4[g].d
        /\ v4'[g].b = v4[g].b /\ v4'[g].trucks = v4[g].trucks /\ v4'[g].profiles = v4[g].profiles
        /\ v4'[g].do # <<>> => ~v4'[g].alone
        /\ v4'[g].do = <<>> => v4'[g] = v4[g]
    BY <1>1, DisturbedIs
  <2>2. FitsItsPlan(g) /\ DOMAIN v4[g].profiles \subseteq Crew
    BY DEF LinkInv, F!TypeOK
  <2>3. FitsItsPlan(g)'
    BY <2>1, <2>2 DEF FitsItsPlan, F!Truck
  <2>4. Knows(g)'
    BY <2>1 DEF Knows
  <2> QED BY <2>3, <2>4
<1> QED BY <1>1, <1>3, <1>4, <1>5, <1>6 DEF LinkInv

LEMMA StepCreateTruck ==
    ASSUME LinkInv, NEW h \in Hands, NEW t \in Trucks, NEW b \in Brokers, F!CreateTruck(h, t, b)
    PROVE  LinkInv'
<1>1. CASE /\ F!Unlocked(h, {t}) /\ v1' = [v1 EXCEPT ![t].broker = b]
           /\ UNCHANGED <<v2, v3, v4, v5, v6>>
  <2>1. /\ v1' \in [Trucks -> [broker : Brokers \union {Nobody}, driver : Crew \union {Nobody}]]
        /\ \A u \in Trucks : v1'[u].driver = v1[u].driver
        /\ \A u \in Trucks : F!Truck(u) => F!Truck(u)'
        /\ ~F!Truck(t) /\ \A u \in Trucks \ {t} : F!Truck(u)' => F!Truck(u)
    BY <1>1, FleetAssumption DEF F!CreateTruck, LinkInv, F!TypeOK, F!Truck
  <2>2. F!TypeOK'
    BY <1>1, <2>1 DEF LinkInv, F!TypeOK
  <2>3. RowsExist' /\ F!LinkAgrees'
    <3>1. \A e \in Crew : v2[e].truck \in Trucks \union {Nobody}
      BY DEF LinkInv, F!TypeOK
    <3>2. \A e \in Crew : v2[e].truck # Nobody => F!Truck(v2[e].truck)'
      BY <1>1, <2>1, <3>1 DEF LinkInv, RowsExist, F!Truck
    <3>3. \A u \in Trucks : ~F!Truck(u)' => v1'[u].driver = Nobody
      BY <2>1 DEF LinkInv, RowsExist
    <3> QED BY <1>1, <2>1, <3>2, <3>3 DEF LinkInv, RowsExist, F!LinkAgrees, F!Profile, F!Truck
  <2>4. ASSUME NEW g \in Hands PROVE FitsItsPlan(g)' /\ Knows(g)'
    <3>1. DOMAIN v4[g].trucks \subseteq Trucks /\ FitsItsPlan(g) /\ Knows(g)
      BY DEF LinkInv, F!TypeOK
    <3>2. FitsItsPlan(g)'
      BY <1>1, <2>1, <3>1 DEF FitsItsPlan, F!Profile
    <3>3. ASSUME v4[g].do # <<>>, v4[g].alone PROVE Aware(g)'
      <4>1. Aware(g) /\ v4[g].t \in Trucks
        BY <3>1, <3>3 DEF Knows, FitsItsPlan
      <4>2. F!Truck(v4[g].t) => F!Truck(v4[g].t)'
        BY <1>1, <2>1, <4>1 DEF F!Truck
      <4> QED BY <1>1, <2>1, <3>1, <4>1, <4>2 DEF Aware, F!On, F!Profile
    <3> QED BY <1>1, <3>2, <3>3 DEF Knows
  <2> QED BY <1>1, <2>2, <2>3, <2>4 DEF LinkInv
<1>2. ASSUME NEW d \in Crew, F!Open(h, F!Create, t, d, b), UNCHANGED <<v1, v2, v3, v5, v6>>
      PROVE  LinkInv'
  <2>1. F!Create # F!Assign
    BY OpenedIs
  <2>2. /\ v2' \in [Crew -> [broker : Brokers \union {Nobody}, truck : Trucks \union {Nobody}]]
        /\ \A e \in Crew : v2'[e].truck = v2[e].truck /\ (F!Profile(e) => F!Profile(e)')
    BY <1>2 DEF LinkInv, F!TypeOK, F!Profile
  <2> QED BY <1>2, <2>1, <2>2, OpenKeeps
<1> QED BY <1>1, <1>2 DEF F!CreateTruck

LEMMA StepCreateDriver ==
    ASSUME LinkInv, NEW h \in Hands, NEW d \in Crew, NEW b \in Brokers, F!CreateDriver(h, d, b)
    PROVE  LinkInv'
<1>1. /\ v2' \in [Crew -> [broker : Brokers \union {Nobody}, truck : Trucks \union {Nobody}]]
      /\ \A e \in Crew : v2'[e].truck = v2[e].truck /\ (F!Profile(e) => F!Profile(e)')
      /\ UNCHANGED <<v1, v3, v5, v6>>
  BY FleetAssumption DEF F!CreateDriver, LinkInv, F!TypeOK, RowsExist, F!Profile
<1>2. CASE v4' = F!Disturbed
  <2>1. F!TypeOK'
    <3>1. \A g \in Hands :
             /\ v4'[g].t = v4[g].t /\ v4'[g].d = v4[g].d
             /\ v4'[g].trucks = v4[g].trucks /\ v4'[g].profiles = v4[g].profiles
      BY <1>2, DisturbedIs
    <3> QED BY <1>1, <3>1 DEF LinkInv, F!TypeOK
  <2>2. RowsExist' /\ F!LinkAgrees'
    <3>1. \A e \in Crew : v2[e].truck \in Trucks \union {Nobody}
      BY DEF LinkInv, F!TypeOK
    <3> QED BY <1>1, <3>1 DEF LinkInv, RowsExist, F!LinkAgrees, F!Truck, F!Profile
  <2>3. ASSUME NEW g \in Hands PROVE FitsItsPlan(g)' /\ Knows(g)'
    <3>1. /\ v4'[g].do = v4[g].do /\ v4'[g].t = v4[g].t /\ v4'[g].d = v4[g].d
          /\ v4'[g].b = v4[g].b /\ v4'[g].trucks = v4[g].trucks /\ v4'[g].profiles = v4[g].profiles
          /\ v4'[g].do # <<>> => ~v4'[g].alone
          /\ v4'[g].do = <<>> => v4'[g] = v4[g]
      BY <1>2, DisturbedIs
    <3>2. FitsItsPlan(g) /\ DOMAIN v4[g].profiles \subseteq Crew
      BY DEF LinkInv, F!TypeOK
    <3>3. FitsItsPlan(g)'
      BY <1>1, <3>1, <3>2 DEF FitsItsPlan, F!Truck
    <3> QED BY <3>1, <3>3 DEF Knows
  <2> QED BY <1>2, <2>1, <2>2, <2>3, DisturbedIs DEF LinkInv
<1>3. ASSUME NEW t \in Trucks, v1[t].broker = b, F!Open(h, F!Assign, t, d, b) PROVE LinkInv'
  <2>1. F!Truck(t)'
    BY <1>1, <1>3, FleetAssumption DEF F!Truck
  <2> QED BY <1>1, <1>3, <2>1, OpenKeeps
<1> QED BY <1>2, <1>3 DEF F!CreateDriver

LEMMA StepAssignRequest ==
    ASSUME LinkInv, NEW h \in Hands, NEW t \in Trucks, NEW d \in Crew, F!AssignRequest(h, t, d)
    PROVE  LinkInv'
<1>1. /\ F!Open(h, F!Assign, t, d, v1[t].broker) /\ UNCHANGED <<v1, v2, v3, v5, v6>>
      /\ v1[t].broker \in Brokers /\ F!Truck(t)'
  BY DEF F!AssignRequest, LinkInv, F!TypeOK, F!Truck
<1>2. /\ v2' \in [Crew -> [broker : Brokers \union {Nobody}, truck : Trucks \union {Nobody}]]
      /\ \A e \in Crew : v2'[e].truck = v2[e].truck /\ (F!Profile(e) => F!Profile(e)')
  BY <1>1 DEF LinkInv, F!TypeOK, F!Profile
<1> QED BY <1>1, <1>2, OpenKeeps

LEMMA StepRegister ==
    ASSUME LinkInv, NEW t \in Trucks, NEW d \in Crew, NEW b \in Brokers, F!RegisterWithTruck(t, d, b)
    PROVE  LinkInv'
<1>1. /\ ~F!Truck(t) /\ ~F!Profile(d) /\ \A u \in Trucks : v1[u].driver # d
      /\ \A h \in Hands : t \notin DOMAIN v4[h].trucks /\ v4[h].d # d
      /\ UNCHANGED <<v3, v4, v5, v6>>
  BY DEF F!RegisterWithTruck, F!Holds
<1>2. /\ v1' \in [Trucks -> [broker : Brokers \union {Nobody}, driver : Crew \union {Nobody}]]
      /\ v2' \in [Crew -> [broker : Brokers \union {Nobody}, truck : Trucks \union {Nobody}]]
      /\ v1'[t].driver = d /\ v2'[d].truck = t /\ F!Truck(t)' /\ F!Profile(d)'
      /\ \A u \in Trucks \ {t} : v1'[u] = v1[u]
      /\ \A e \in Crew \ {d} : v2'[e] = v2[e]
  BY FleetAssumption DEF F!RegisterWithTruck, LinkInv, F!TypeOK, F!Truck, F!Profile
<1>3. /\ \A e \in Crew : v2[e].truck # t
      /\ v1[t].driver = Nobody /\ v2[d].truck = Nobody
      /\ \A u \in Trucks : F!Truck(u) => F!Truck(u)'
      /\ \A e \in Crew : F!Profile(e) => F!Profile(e)'
  BY <1>1, <1>2, FleetAssumption DEF LinkInv, RowsExist, F!Truck, F!Profile
<1>4. F!TypeOK'
  BY <1>1, <1>2 DEF LinkInv, F!TypeOK
<1>5. RowsExist'
  <2>1. \A u \in Trucks : ~F!Truck(u)' => v1'[u].driver = Nobody
    BY <1>2 DEF LinkInv, RowsExist, F!Truck
  <2>2. \A e \in Crew : ~F!Profile(e)' => v2'[e].truck = Nobody
    BY <1>2 DEF LinkInv, RowsExist, F!Profile
  <2>3. ASSUME NEW e \in Crew, v2'[e].truck # Nobody PROVE F!Truck(v2[e].truck)'
    <3>1. CASE e = d
      BY <1>2, <3>1 DEF F!Truck
    <3>2. CASE e # d
      <4>1. v2'[e] = v2[e] /\ v2[e].truck \in Trucks /\ F!Truck(v2[e].truck)
        BY <1>2, <2>3, <3>2 DEF LinkInv, F!TypeOK, RowsExist
      <4> QED BY <1>3, <4>1 DEF F!Truck
    <3> QED BY <3>1, <3>2
  <2> QED BY <2>1, <2>2, <2>3 DEF RowsExist
<1>6. F!LinkAgrees'
  BY <1>1, <1>2, <1>3, FleetAssumption DEF LinkInv, F!LinkAgrees
<1>7. ASSUME NEW g \in Hands PROVE FitsItsPlan(g)' /\ Knows(g)'
  <2>1. /\ DOMAIN v4[g].trucks \subseteq Trucks /\ DOMAIN v4[g].profiles \subseteq Crew
        /\ FitsItsPlan(g) /\ Knows(g) /\ v4[g].d # d
    BY <1>1 DEF LinkInv, F!TypeOK
  <2>2. FitsItsPlan(g)'
    BY <1>1, <1>3, <2>1 DEF FitsItsPlan
  <2>3. ASSUME v4[g].do # <<>>, v4[g].alone PROVE Aware(g)'
    <3>1. Aware(g) /\ v4[g].t \in Trucks /\ v4[g].d \in Crew
      BY <2>1, <2>3 DEF Knows, FitsItsPlan
    <3>2. F!Truck(v4[g].t) => F!Truck(v4[g].t)'
      BY <1>1, <1>3, <3>1 DEF F!Truck
    <3>3. /\ \A u \in DOMAIN v4[g].trucks : v1'[u] = v1[u]
          /\ \A e \in DOMAIN v4[g].profiles : v2'[e] = v2[e]
      BY <1>1, <1>2, <2>1 DEF FitsItsPlan
    <3>4. ~F!On(g, "insert") => \A e \in Crew : v2'[e].truck = v4[g].t => v2[e].truck = v4[g].t
      BY <1>1, <1>2, <3>1 DEF Aware
    <3>5. \A u \in Trucks : v1'[u].driver = v4[g].d => v1[u].driver = v4[g].d
      BY <1>2, <2>1
    <3>6. F!Profile(v4[g].d)' => F!Profile(v4[g].d)
      BY <1>1, <1>2, <2>1, <3>1 DEF F!Profile
    <3>7. UNCHANGED v4
      BY <1>1
    <3>8. \A u \in DOMAIN v4[g].trucks \ {v4[g].t} : v1'[u].driver = v4[g].d
      BY <3>1, <3>3 DEF Aware
    <3>9. \A e \in DOMAIN v4[g].profiles \ {v4[g].d} : v2'[e].truck = v4[g].t
      BY <3>1, <3>3 DEF Aware
    <3> QED BY <3>1, <3>2, <3>4, <3>5, <3>6, <3>7, <3>8, <3>9 DEF Aware, F!On
  <2> QED BY <1>1, <2>2, <2>3 DEF Knows
<1> QED BY <1>1, <1>4, <1>5, <1>6, <1>7 DEF LinkInv

\* What whoever writes the link from outside has to show.
LEMMA OutsideKeeps ==
    ASSUME LinkInv, v4' = F!Disturbed, F!TypeOK', RowsExist', F!LinkAgrees',
           \A h \in Hands : \A t \in DOMAIN v4[h].trucks : F!Truck(t) => F!Truck(t)',
           \A h \in Hands : \A d \in DOMAIN v4[h].profiles : F!Profile(d) => F!Profile(d)'
    PROVE  LinkInv'
<1>1. ASSUME NEW g \in Hands PROVE FitsItsPlan(g)' /\ Knows(g)'
  <2>1. /\ v4'[g].do = v4[g].do /\ v4'[g].t = v4[g].t /\ v4'[g].d = v4[g].d
        /\ v4'[g].b = v4[g].b /\ v4'[g].trucks = v4[g].trucks /\ v4'[g].profiles = v4[g].profiles
        /\ v4'[g].do # <<>> => ~v4'[g].alone
        /\ v4'[g].do = <<>> => v4'[g] = v4[g]
    BY DisturbedIs
  <2>2. FitsItsPlan(g)
    BY DEF LinkInv
  <2>3. FitsItsPlan(g)'
    BY <2>1, <2>2 DEF FitsItsPlan
  <2> QED BY <2>1, <2>3 DEF Knows
<1> QED BY <1>1, DisturbedIs DEF LinkInv

LEMMA DisturbedTyped ==
    ASSUME LinkInv, v4' = F!Disturbed,
           v1' \in [Trucks -> [broker : Brokers \union {Nobody}, driver : Crew \union {Nobody}]],
           v2' \in [Crew -> [broker : Brokers \union {Nobody}, truck : Trucks \union {Nobody}]],
           v3' = v3, v5' \subseteq Trucks \union Crew, v6' \in 0..MaxLoose
    PROVE  F!TypeOK'
<1>1. \A g \in Hands :
         /\ v4'[g].t = v4[g].t /\ v4'[g].d = v4[g].d
         /\ v4'[g].trucks = v4[g].trucks /\ v4'[g].profiles = v4[g].profiles
  BY DisturbedIs
<1> QED BY <1>1 DEF LinkInv, F!TypeOK

LEMMA StepUpdateTruck ==
    ASSUME LinkInv, NEW t \in Trucks, NEW d \in Crew, F!UpdateTruck(t, d) PROVE LinkInv'
<1>1. /\ v1' \in [Trucks -> [broker : Brokers \union {Nobody}, driver : Crew \union {Nobody}]]
      /\ \A u \in Trucks : F!Truck(u)' <=> F!Truck(u)
      /\ \A u \in Trucks \ {t} : v1'[u] = v1[u]
      /\ F!Truck(t) /\ v2' = v2 /\ v4' = F!Disturbed /\ v3' = v3
  BY DEF F!UpdateTruck, LinkInv, F!TypeOK, F!Truck
<1>2. v5' \subseteq Trucks \union Crew /\ v6' \in 0..MaxLoose /\ t \in v5' /\ v5 \subseteq v5'
  BY FleetAssumption DEF F!UpdateTruck, LinkInv, F!TypeOK
<1>3. F!TypeOK'
  BY <1>1, <1>2, DisturbedTyped DEF LinkInv, F!TypeOK
<1>4. RowsExist'
  <2>1. \A e \in Crew : v2[e].truck \in Trucks \union {Nobody}
    BY DEF LinkInv, F!TypeOK
  <2> QED BY <1>1, <2>1 DEF LinkInv, RowsExist, F!Profile, F!Truck
<1>5. F!LinkAgrees'
  BY <1>1, <1>2 DEF LinkInv, F!LinkAgrees
<1>6. /\ \A h \in Hands : \A u \in DOMAIN v4[h].trucks : F!Truck(u) => F!Truck(u)'
      /\ \A h \in Hands : \A e \in DOMAIN v4[h].profiles : F!Profile(e) => F!Profile(e)'
  BY <1>1 DEF LinkInv, F!TypeOK, F!Profile
<1> QED BY <1>1, <1>3, <1>4, <1>5, <1>6, OutsideKeeps

LEMMA StepDeleteTruck == ASSUME LinkInv, NEW t \in Trucks, F!DeleteTruck(t) PROVE LinkInv'
<1>1. /\ v1' \in [Trucks -> [broker : Brokers \union {Nobody}, driver : Crew \union {Nobody}]]
      /\ \A u \in Trucks \ {t} : v1'[u] = v1[u]
      /\ v1'[t].broker = Nobody /\ v1'[t].driver = Nobody
      /\ v2' \in [Crew -> [broker : Brokers \union {Nobody}, truck : Trucks \union {Nobody}]]
      /\ \A e \in Crew : v2[e].truck = t => v2'[e].truck = Nobody
      /\ \A e \in Crew : v2[e].truck # t => v2'[e] = v2[e]
      /\ \A e \in Crew : F!Profile(e)' <=> F!Profile(e)
      /\ UNCHANGED <<v3, v5, v6>> /\ v4' = F!Disturbed
      /\ \A h \in Hands : t \notin DOMAIN v4[h].trucks
  BY DEF F!DeleteTruck, LinkInv, F!TypeOK, F!Profile, F!Holds
<1>2. F!TypeOK'
  BY <1>1, DisturbedTyped DEF LinkInv, F!TypeOK
<1>3. RowsExist'
  <2>1. \A u \in Trucks : ~F!Truck(u)' => v1'[u].driver = Nobody
    BY <1>1 DEF LinkInv, RowsExist, F!Truck
  <2>2. \A e \in Crew : ~F!Profile(e)' => v2'[e].truck = Nobody
    BY <1>1 DEF LinkInv, RowsExist
  <2>3. ASSUME NEW e \in Crew, v2'[e].truck # Nobody PROVE F!Truck(v2[e].truck)'
    <3>1. v2'[e] = v2[e] /\ v2[e].truck \in Trucks \ {t} /\ F!Truck(v2[e].truck)
      BY <1>1, <2>3 DEF LinkInv, F!TypeOK, RowsExist
    <3> QED BY <1>1, <3>1 DEF F!Truck
  <2> QED BY <2>1, <2>2, <2>3 DEF RowsExist
<1>4. F!LinkAgrees'
  BY <1>1, FleetAssumption DEF LinkInv, F!LinkAgrees
<1>5. /\ \A h \in Hands : \A u \in DOMAIN v4[h].trucks : F!Truck(u) => F!Truck(u)'
      /\ \A h \in Hands : \A e \in DOMAIN v4[h].profiles : F!Profile(e) => F!Profile(e)'
  BY <1>1 DEF LinkInv, F!TypeOK, F!Truck
<1> QED BY <1>1, <1>2, <1>3, <1>4, <1>5, OutsideKeeps

LEMMA StepDeleteDriver == ASSUME LinkInv, NEW d \in Crew, F!DeleteDriver(d) PROVE LinkInv'
<1>1. /\ v2' \in [Crew -> [broker : Brokers \union {Nobody}, truck : Trucks \union {Nobody}]]
      /\ v2'[d].truck = Nobody
      /\ \A e \in Crew \ {d} : v2'[e] = v2[e]
      /\ UNCHANGED <<v1, v3>> /\ v4' = F!Disturbed
      /\ \A h \in Hands : d \notin DOMAIN v4[h].profiles
  BY DEF F!DeleteDriver, LinkInv, F!TypeOK, F!Profile, F!Holds
<1>2. v5' \subseteq Trucks \union Crew /\ v6' \in 0..MaxLoose /\ d \in v5' /\ v5 \subseteq v5'
  BY FleetAssumption DEF F!DeleteDriver, LinkInv, F!TypeOK
<1>3. F!TypeOK'
  BY <1>1, <1>2, DisturbedTyped DEF LinkInv, F!TypeOK
<1>4. RowsExist'
  <2>1. ASSUME NEW e \in Crew, v2'[e].truck # Nobody PROVE F!Truck(v2[e].truck)'
    <3>1. v2'[e] = v2[e] /\ F!Truck(v2[e].truck)
      BY <1>1, <2>1 DEF LinkInv, RowsExist
    <3> QED BY <1>1, <3>1 DEF F!Truck
  <2> QED BY <1>1, <2>1 DEF LinkInv, RowsExist, F!Profile, F!Truck
<1>5. F!LinkAgrees'
  BY <1>1, <1>2 DEF LinkInv, F!LinkAgrees
<1>6. /\ \A h \in Hands : \A u \in DOMAIN v4[h].trucks : F!Truck(u) => F!Truck(u)'
      /\ \A h \in Hands : \A e \in DOMAIN v4[h].profiles : F!Profile(e) => F!Profile(e)'
  BY <1>1 DEF LinkInv, F!TypeOK, F!Profile, F!Truck
<1> QED BY <1>1, <1>3, <1>4, <1>5, <1>6, OutsideKeeps

LEMMA StepBook == ASSUME LinkInv, NEW t \in Trucks, NEW d \in Crew, F!Book(t, d) PROVE LinkInv'
<1>1. UNCHANGED <<v1, v2, v4, v5, v6>> /\ v3' \subseteq Trucks \union Crew
  BY DEF F!Book, LinkInv, F!TypeOK
<1>2. F!TypeOK'
  BY <1>1 DEF LinkInv, F!TypeOK
<1>3. RowsExist' /\ F!LinkAgrees'
  BY <1>1 DEF LinkInv, RowsExist, F!LinkAgrees, F!Truck, F!Profile
<1>4. ASSUME NEW g \in Hands PROVE FitsItsPlan(g)' /\ Knows(g)'
  BY <1>1 DEF LinkInv, FitsItsPlan, Knows, Aware, F!On, F!Truck, F!Profile
<1> QED BY <1>1, <1>2, <1>3, <1>4 DEF LinkInv

LEMMA LinkInit == F!Init => LinkInv
<1> SUFFICES ASSUME F!Init PROVE LinkInv
  OBVIOUS
<1>1. /\ F!NoTx \in Txs /\ F!NoTx.do = <<>> /\ DOMAIN F!NoTx.trucks = {} /\ DOMAIN F!NoTx.profiles = {}
      /\ F!NoTx.t = Nobody /\ F!NoTx.d = Nobody
  BY RowsAre, OpenedIs DEF F!NoTx, Txs
<1>2. F!TypeOK /\ v4 \in [Hands -> Txs]
  BY <1>1, FleetAssumption DEF F!Init, F!TypeOK
<1>3. RowsExist
  BY DEF F!Init, RowsExist
<1>4. \A h \in Hands : FitsItsPlan(h) /\ Knows(h)
  BY <1>1 DEF F!Init, FitsItsPlan, Knows
<1>5. F!LinkAgrees
  BY FleetAssumption DEF F!Init, F!LinkAgrees
<1> QED BY <1>2, <1>3, <1>4, <1>5 DEF LinkInv

LEMMA LinkStep == LinkInv /\ [F!Next]_(F!vars) => LinkInv'
<1> SUFFICES ASSUME LinkInv, [F!Next]_(F!vars) PROVE LinkInv'
  OBVIOUS
<1>1. ASSUME NEW h \in Hands,
             \/ F!InsertTruck(h) \/ F!ClearProfiles(h) \/ F!ClearTrucks(h) \/ F!SetTruck(h)
             \/ F!SetProfile(h) \/ F!Commit(h) \/ F!Rollback(h)
      PROVE  LinkInv'
  BY <1>1, StepInsertTruck, StepClearProfiles, StepClearTrucks, StepSetTruck, StepSetProfile,
     StepCommit, StepRollback
<1>2. ASSUME NEW h \in Hands,
             \/ \E t \in Trucks, b \in Brokers : F!CreateTruck(h, t, b)
             \/ \E d \in Crew, b \in Brokers : F!CreateDriver(h, d, b)
             \/ \E t \in Trucks, d \in Crew : F!AssignRequest(h, t, d)
      PROVE  LinkInv'
  BY <1>2, StepCreateTruck, StepCreateDriver, StepAssignRequest
<1>3. ASSUME NEW t \in Trucks, NEW d \in Crew,
             F!UpdateTruck(t, d) \/ F!Book(t, d) \/ \E b \in Brokers : F!RegisterWithTruck(t, d, b)
      PROVE  LinkInv'
  BY <1>3, StepUpdateTruck, StepBook, StepRegister
<1>4. ASSUME (\E t \in Trucks : F!DeleteTruck(t)) \/ (\E d \in Crew : F!DeleteDriver(d)) PROVE LinkInv'
  BY <1>4, StepDeleteTruck, StepDeleteDriver
<1>5. CASE UNCHANGED F!vars
  BY <1>5 DEF F!vars, LinkInv, F!TypeOK, RowsExist, F!Truck, F!Profile, F!LinkAgrees, FitsItsPlan, Knows, Aware, F!On
<1> QED BY <1>1, <1>2, <1>3, <1>4, <1>5 DEF F!Next

LEMMA LinkHolds == LinkInv => F!LinkAgrees
BY DEF LinkInv

-----------------------------------------------------------------------------
\* What is known while fleet is at work.
FleetAtWork == part = "fleet" => LinkInv

LEMMA FleetAtWorkStep == FleetAtWork /\ [Next]_vars => FleetAtWork'
<1> SUFFICES ASSUME LinkInv, part = "fleet", [Next]_vars PROVE LinkInv'
  BY DEF FleetAtWork, Next, vars
<1>1. [F!Next]_(F!vars)
  BY DEF Next, vars, F!vars
<1> QED BY <1>1, LinkStep

\* A truck and a driver name each other or nobody does, unless one side was written alone or two
\* transactions on the link overlapped (TruckModel.create, assignDriver, update and the deletions).
THEOREM LinkedOnBothSides == Spec => []LinkAgrees
<1>1. Init => FleetAtWork
  BY LinkInit DEF Init, FleetAtWork
<1>2. FleetAtWork => LinkAgrees
  BY LinkHolds DEF FleetAtWork, LinkAgrees
<1> QED BY <1>1, <1>2, FleetAtWorkStep, PTL DEF Spec

-----------------------------------------------------------------------------
(* Chat: v1 is stage, v2 is greeted, v3 is assigned, v4 is locked, v5 is   *)
(* messages, v6 is changes, v7 is call.                                    *)

NoteRow == [by : C!People, owed : SUBSET C!People, told : SUBSET C!People, settled : BOOLEAN]
PostRow == [at : C!Phases, by : C!People, want : {"text", "person", "menu"},
            stage : {"none", "bot", "human"}, others : SUBSET C!People, n : 0..MaxMessages]

\* Whoever a message is owed to has been told of it or is still to be called.
CallersKnow ==
    \A h \in Hands : v7[h].at \in {"notify", "escalate", "wake"} =>
        /\ v7[h].n \in DOMAIN v5
        /\ v5[v7[h].n].owed \subseteq v5[v7[h].n].told \union v7[h].others

\* One request greets, the one that has made the thread.
GreetsOnce ==
    /\ v2 <= 1
    /\ v1 = "none" => v2 = 0
    /\ \A h \in Hands : C!At(h, "greet") => v1 # "none" /\ v2 = 0
    /\ \A h, g \in Hands : C!At(h, "greet") /\ C!At(g, "greet") => h = g

Reached == \A i \in DOMAIN v5 : v5[i].settled => v5[i].owed \subseteq v5[i].told

ChatInv == C!TypeOK /\ CallersKnow /\ GreetsOnce /\ Reached

LEMMA ChatInit == C!Init => ChatInv
<1> SUFFICES ASSUME C!Init PROVE ChatInv
  OBVIOUS
<1>1. v5 \in Seq(NoteRow) /\ Len(v5) = 0 /\ DOMAIN v5 = {}
  BY EmptySeq DEF C!Init
<1>2. C!NoCall \in PostRow
  BY ChatAssumption DEF C!NoCall, PostRow, C!Phases, C!People
<1>3. C!TypeOK
  <2>1. Len(v5) <= MaxMessages /\ 0 \in 0..MaxChanges /\ 0 \in Nat
    BY <1>1, ChatAssumption
  <2>2. v7 \in [Hands -> PostRow]
    BY <1>2 DEF C!Init
  <2> QED BY <1>1, <2>1, <2>2 DEF C!Init, C!TypeOK, NoteRow, PostRow
<1> QED BY <1>1, <1>3 DEF C!Init, ChatInv, CallersKnow, GreetsOnce, Reached, C!NoCall, C!At

\* Messages and calls as they are.
LEMMA ChatTyped ==
    ASSUME ChatInv
    PROVE  /\ v5 \in Seq(NoteRow) /\ Len(v5) \in Nat /\ Len(v5) <= MaxMessages
           /\ DOMAIN v5 = 1..Len(v5) /\ DOMAIN v5 \subseteq 0..MaxMessages
           /\ \A i \in DOMAIN v5 : v5[i] \in NoteRow
           /\ v7 \in [Hands -> PostRow] /\ \A h \in Hands : v7[h] \in PostRow
           /\ C!NoCall \in PostRow
<1>1. v5 \in Seq(NoteRow) /\ Len(v5) <= MaxMessages
  BY DEF ChatInv, C!TypeOK, NoteRow
<1>2. Len(v5) \in Nat /\ DOMAIN v5 = 1..Len(v5) /\ \A i \in DOMAIN v5 : v5[i] \in NoteRow
  BY <1>1
<1>3. C!NoCall \in PostRow
  BY ChatAssumption DEF C!NoCall, PostRow, C!Phases, C!People
<1>4. DOMAIN v5 \subseteq 0..MaxMessages
  BY <1>1, <1>2, ChatAssumption
<1> QED BY <1>1, <1>2, <1>3, <1>4 DEF ChatInv, C!TypeOK, PostRow

\* One call goes on, ends or begins with a message that is there, and messages are told of.
LEMMA ChatMoves ==
    ASSUME ChatInv, NEW h \in Hands, NEW c \in PostRow, v7' = [v7 EXCEPT ![h] = c],
           DOMAIN v5' = DOMAIN v5, v5' \in Seq(NoteRow), Len(v5') = Len(v5),
           \A i \in DOMAIN v5 : v5'[i].owed = v5[i].owed /\ v5[i].told \subseteq v5'[i].told,
           \A i \in DOMAIN v5 : v5'[i].settled => v5'[i].owed \subseteq v5'[i].told,
           c.at \in {"notify", "escalate", "wake"} =>
               /\ c.n \in DOMAIN v5
               /\ v5[c.n].owed \subseteq v5'[c.n].told \union c.others,
           v1' \in {"none", "bot", "human"}, v2' \in Nat, UNCHANGED <<v3, v4, v6>>,
           GreetsOnce'
    PROVE  ChatInv'
<1>1. v7' \in [Hands -> PostRow] /\ v7'[h] = c /\ \A g \in Hands \ {h} : v7'[g] = v7[g]
  BY ChatTyped
<1>2. C!TypeOK'
  BY <1>1 DEF ChatInv, C!TypeOK, NoteRow, PostRow
<1>3. CallersKnow'
  <2> SUFFICES ASSUME NEW g \in Hands, v7'[g].at \in {"notify", "escalate", "wake"}
               PROVE  /\ v7'[g].n \in DOMAIN v5
                      /\ v5'[v7'[g].n].owed \subseteq v5'[v7'[g].n].told \union v7'[g].others
    BY DEF CallersKnow
  <2>1. CASE g = h
    BY <1>1, <2>1
  <2>2. CASE g # h
    BY <1>1, <2>2 DEF ChatInv, CallersKnow
  <2> QED BY <2>1, <2>2
<1>4. Reached'
  BY DEF Reached
<1> QED BY <1>2, <1>3, <1>4 DEF ChatInv

LEMMA ChatGreets ==
    ASSUME ChatInv, NEW h \in Hands, NEW c \in PostRow, v7' = [v7 EXCEPT ![h] = c],
           c.at # "greet", UNCHANGED v2, v1 # "none" => v1' # "none", v1' = "none" => v1 = "none"
    PROVE  GreetsOnce'
<1>1. v7'[h] = c /\ \A g \in Hands \ {h} : v7'[g] = v7[g]
  BY ChatTyped
<1> QED BY <1>1 DEF ChatInv, GreetsOnce, C!At

LEMMA ChatOpen ==
    ASSUME ChatInv, NEW h \in Hands, NEW u \in C!People, C!Open(h, u) \/ C!Greet(h)
    PROVE  ChatInv'
<1>1. PICK c \in PostRow : /\ v7' = [v7 EXCEPT ![h] = c] /\ c.at \in {"greet", "none"}
                           /\ c.at = "greet" => v1 = "none" /\ v1' = "bot" /\ v2' = v2
                           /\ c.at = "none" => C!At(h, "greet") /\ v1' = v1 /\ v2' = v2 + 1
  <2>1. CASE C!Open(h, u)
    <3>1. [v7[h] EXCEPT !.at = "greet"] \in PostRow
      BY ChatTyped DEF PostRow, C!Phases
    <3> QED BY <2>1, <3>1 DEF C!Open, C!Goes, PostRow
  <2>2. CASE C!Greet(h)
    BY <2>2, ChatTyped DEF C!Greet, C!Ends, C!NoCall
  <2> QED BY <2>1, <2>2
<1>2. UNCHANGED <<v3, v4, v5, v6>>
  BY DEF C!Open, C!Greet
<1>3. v2 \in Nat /\ v2' \in Nat /\ v1' \in {"none", "bot", "human"}
  BY <1>1 DEF ChatInv, C!TypeOK
<1>4. v7'[h] = c /\ \A g \in Hands \ {h} : v7'[g] = v7[g]
  BY <1>1, ChatTyped
<1>5. GreetsOnce'
  BY <1>1, <1>3, <1>4 DEF ChatInv, GreetsOnce, C!At
<1> QED BY <1>1, <1>2, <1>3, <1>5, ChatTyped, ChatMoves DEF ChatInv, Reached

LEMMA ChatSend ==
    ASSUME ChatInv, NEW h \in Hands, NEW u \in C!People, NEW want \in {"text", "person", "menu"},
           C!Send(h, u, want)
    PROVE  ChatInv'
<1> DEFINE c == [at |-> "post", by |-> u, want |-> want, stage |-> v1, others |-> C!recipientIds(u), n |-> 0]
<1>1. C!recipientIds(u) \in SUBSET C!People /\ v1 \in {"none", "bot", "human"} /\ v2 \in Nat
  BY DEF ChatInv, C!TypeOK, C!recipientIds, C!People
<1>2. c \in PostRow /\ c.at = "post"
  BY <1>1, ChatAssumption DEF PostRow, C!Phases
<1>3. v7' = [v7 EXCEPT ![h] = c] /\ UNCHANGED <<v1, v2, v3, v4, v5, v6>>
  BY DEF C!Send
<1> HIDE DEF c
<1>4. GreetsOnce'
  BY <1>2, <1>3, ChatGreets
<1> QED BY <1>1, <1>2, <1>3, <1>4, ChatTyped, ChatMoves DEF ChatInv, Reached

LEMMA ChatFails ==
    ASSUME ChatInv, NEW h \in Hands, C!Fail(h)
    PROVE  ChatInv'
<1>1. v7' = [v7 EXCEPT ![h] = C!NoCall] /\ UNCHANGED <<v1, v2, v3, v4, v5, v6>>
  BY DEF C!Fail, C!Ends
<1>2. C!NoCall \in PostRow /\ C!NoCall.at = "none" /\ v1 \in {"none", "bot", "human"} /\ v2 \in Nat
  BY ChatTyped DEF C!NoCall, ChatInv, C!TypeOK
<1>3. GreetsOnce'
  BY <1>1, <1>2, ChatGreets
<1> QED BY <1>1, <1>2, <1>3, ChatTyped, ChatMoves DEF ChatInv, Reached

LEMMA ChatPost ==
    ASSUME ChatInv, NEW h \in Hands, C!Post(h)
    PROVE  ChatInv'
<1>1. PICK quiet \in BOOLEAN :
         /\ v5' = Append(v5, [by |-> v7[h].by, owed |-> IF quiet THEN {} ELSE v7[h].others,
                              told |-> {}, settled |-> quiet])
         /\ v7' = [v7 EXCEPT ![h] = IF quiet THEN C!NoCall
                      ELSE [v7[h] EXCEPT !.at = IF v7[h].stage = "bot" THEN "escalate" ELSE "notify",
                                         !.n = Len(v5) + 1]]
  BY DEF C!Post
<1> DEFINE m == [by |-> v7[h].by, owed |-> IF quiet THEN {} ELSE v7[h].others, told |-> {}, settled |-> quiet]
           c == IF quiet THEN C!NoCall
                ELSE [v7[h] EXCEPT !.at = IF v7[h].stage = "bot" THEN "escalate" ELSE "notify",
                                   !.n = Len(v5) + 1]
<1>2. /\ m \in NoteRow /\ (m.settled => m.owed = {})
      /\ m.owed \subseteq v7[h].others /\ m.told = {}
  BY ChatTyped DEF NoteRow, PostRow
<1>3. /\ Len(v5) < MaxMessages /\ Len(v5) + 1 \in 0..MaxMessages
      /\ UNCHANGED <<v1, v2, v3, v4, v6>>
  BY ChatAssumption, ChatTyped DEF C!Post
<1>4. /\ c \in PostRow /\ c.at # "greet"
      /\ c.at \in {"notify", "escalate", "wake"} => c.n = Len(v5) + 1 /\ c.others = v7[h].others
  BY <1>3, ChatTyped DEF PostRow, C!Phases, C!NoCall
<1>5. v5' = Append(v5, m) /\ v7' = [v7 EXCEPT ![h] = c]
  BY <1>1
<1> HIDE DEF m, c
<1>6. /\ v5' \in Seq(NoteRow) /\ Len(v5') = Len(v5) + 1
      /\ DOMAIN v5' = DOMAIN v5 \union {Len(v5) + 1}
      /\ \A i \in DOMAIN v5 : v5'[i] = v5[i]
      /\ v5'[Len(v5) + 1] = m
  BY <1>2, <1>5, ChatTyped, Appended
<1>7. v7' \in [Hands -> PostRow] /\ v7'[h] = c /\ \A g \in Hands \ {h} : v7'[g] = v7[g]
  BY <1>4, <1>5, ChatTyped
<1>8. C!TypeOK'
  <2>1. Len(v5') <= MaxMessages
    BY <1>3, <1>6, ChatAssumption, ChatTyped
  <2> QED BY <1>3, <1>6, <1>7, <2>1 DEF ChatInv, C!TypeOK, NoteRow, PostRow
<1>9. CallersKnow'
  <2> SUFFICES ASSUME NEW g \in Hands, v7'[g].at \in {"notify", "escalate", "wake"}
               PROVE  /\ v7'[g].n \in DOMAIN v5'
                      /\ v5'[v7'[g].n].owed \subseteq v5'[v7'[g].n].told \union v7'[g].others
    BY DEF CallersKnow
  <2>1. CASE g = h
    BY <1>2, <1>4, <1>6, <1>7, <2>1
  <2>2. CASE g # h
    BY <1>6, <1>7, <2>2 DEF ChatInv, CallersKnow
  <2> QED BY <2>1, <2>2
<1>10. Reached'
  BY <1>2, <1>6 DEF ChatInv, Reached
<1>11. GreetsOnce'
  BY <1>3, <1>4, <1>5, ChatGreets
<1> QED BY <1>8, <1>9, <1>10, <1>11 DEF ChatInv

\* Telling somebody of some messages.
LEMMA ChatTells ==
    ASSUME ChatInv, NEW is, NEW u \in C!People, C!Tells(is, u)
    PROVE  /\ v5' \in Seq(NoteRow) /\ Len(v5') = Len(v5) /\ DOMAIN v5' = DOMAIN v5
           /\ \A i \in DOMAIN v5 :
                 /\ v5'[i].owed = v5[i].owed /\ v5[i].told \subseteq v5'[i].told
                 /\ v5'[i].settled = v5[i].settled
                 /\ i \in is => u \in v5'[i].told
<1>1. v5' = [i \in DOMAIN v5 |-> v5'[i]]
  BY DEF C!Tells
<1>2. \A i \in DOMAIN v5 :
         /\ v5'[i] \in NoteRow
         /\ v5'[i].owed = v5[i].owed /\ v5[i].told \subseteq v5'[i].told
         /\ v5'[i].settled = v5[i].settled
         /\ i \in is => u \in v5'[i].told
  BY ChatTyped DEF C!Tells, NoteRow
<1>3. v5' \in Seq(NoteRow) /\ Len(v5') = Len(v5) /\ DOMAIN v5' = DOMAIN v5
  BY <1>1, <1>2, ChatTyped, Rewritten
<1> QED BY <1>2, <1>3

LEMMA ChatSettles ==
    ASSUME ChatInv, NEW n \in DOMAIN v5, C!Settles(n), v5[n].owed \subseteq v5[n].told
    PROVE  /\ v5' \in Seq(NoteRow) /\ Len(v5') = Len(v5) /\ DOMAIN v5' = DOMAIN v5
           /\ \A i \in DOMAIN v5 :
                 /\ v5'[i].owed = v5[i].owed /\ v5'[i].told = v5[i].told
                 /\ v5'[i].settled => v5'[i].owed \subseteq v5'[i].told
<1>1. v5' = [i \in DOMAIN v5 |-> v5'[i]]
  BY DEF C!Settles
<1>2. \A i \in DOMAIN v5 :
         /\ v5'[i] \in NoteRow
         /\ v5'[i].owed = v5[i].owed /\ v5'[i].told = v5[i].told
         /\ v5'[i].settled => v5'[i].owed \subseteq v5'[i].told
  BY ChatTyped DEF C!Settles, NoteRow, ChatInv, Reached
<1>3. v5' \in Seq(NoteRow) /\ Len(v5') = Len(v5) /\ DOMAIN v5' = DOMAIN v5
  BY <1>1, <1>2, ChatTyped, Rewritten
<1> QED BY <1>2, <1>3

LEMMA ChatNotify ==
    ASSUME ChatInv, NEW h \in Hands, C!Notify(h) \/ C!Wake(h)
    PROVE  ChatInv'
<1> DEFINE n == v7[h].n
<1>1. /\ v7[h].at \in {"notify", "wake"} /\ n \in DOMAIN v5
      /\ v5[n].owed \subseteq v5[n].told \union v7[h].others
      /\ UNCHANGED <<v1, v2, v3, v4, v6>>
  BY DEF ChatInv, CallersKnow, C!Notify, C!Wake, C!At
<1>2. v1 \in {"none", "bot", "human"} /\ v2 \in Nat
  BY DEF ChatInv, C!TypeOK
<1>3. CASE v7[h].others = {}
  <2>1. C!Settles(n) /\ v7' = [v7 EXCEPT ![h] = C!NoCall]
    BY <1>3 DEF C!Notify, C!Wake, C!Ends
  <2>2. C!NoCall \in PostRow /\ C!NoCall.at = "none"
    BY ChatTyped DEF C!NoCall
  <2>3. GreetsOnce'
    BY <1>1, <2>1, <2>2, ChatGreets
  <2>4. v5[n].owed \subseteq v5[n].told
    BY <1>1, <1>3
  <2>5. /\ v5' \in Seq(NoteRow) /\ Len(v5') = Len(v5) /\ DOMAIN v5' = DOMAIN v5
        /\ \A i \in DOMAIN v5 :
              /\ v5'[i].owed = v5[i].owed /\ v5[i].told \subseteq v5'[i].told
              /\ v5'[i].settled => v5'[i].owed \subseteq v5'[i].told
    BY <1>1, <2>1, <2>4, ChatSettles
  <2> QED BY <1>1, <1>2, <2>1, <2>2, <2>3, <2>5, ChatMoves
<1>4. CASE v7[h].others # {}
  <2>1. PICK u \in v7[h].others : \E is : n \in is /\ C!Tells(is, u) /\ v7' = [v7 EXCEPT ![h].others = @ \ {u}]
    BY <1>1, <1>4 DEF C!Notify, C!Wake
  <2>2. PICK is : n \in is /\ C!Tells(is, u)
    BY <2>1
  <2> DEFINE c == [v7[h] EXCEPT !.others = v7[h].others \ {u}]
  <2>3. /\ u \in C!People /\ c \in PostRow /\ c.at = v7[h].at /\ c.n = n /\ c.others = v7[h].others \ {u}
        /\ v7' = [v7 EXCEPT ![h] = c]
    BY <2>1, ChatTyped DEF PostRow
  <2> HIDE DEF c
  <2>4. /\ v5' \in Seq(NoteRow) /\ Len(v5') = Len(v5) /\ DOMAIN v5' = DOMAIN v5
        /\ \A i \in DOMAIN v5 :
              /\ v5'[i].owed = v5[i].owed /\ v5[i].told \subseteq v5'[i].told
              /\ v5'[i].settled = v5[i].settled
              /\ i \in is => u \in v5'[i].told
    BY <2>2, <2>3, ChatTells
  <2>5. \A i \in DOMAIN v5 : v5'[i].settled => v5'[i].owed \subseteq v5'[i].told
    BY <2>4 DEF ChatInv, Reached
  <2>6. v5[c.n].owed \subseteq v5'[c.n].told \union c.others
    BY <1>1, <2>2, <2>3, <2>4
  <2>7. GreetsOnce'
    BY <1>1, <2>3, ChatGreets
  <2> QED BY <1>1, <1>2, <2>3, <2>4, <2>5, <2>6, <2>7, ChatMoves
<1> QED BY <1>3, <1>4

LEMMA ChatEscalate ==
    ASSUME ChatInv, NEW h \in Hands, C!Escalate(h)
    PROVE  ChatInv'
<1>1. /\ v7[h].n \in DOMAIN v5
      /\ v5[v7[h].n].owed \subseteq v5[v7[h].n].told \union v7[h].others
      /\ UNCHANGED <<v2, v3, v4, v5, v6>> /\ v1' = "human"
  BY DEF ChatInv, CallersKnow, C!Escalate, C!At
<1>2. PICK c \in PostRow :
         /\ v7' = [v7 EXCEPT ![h] = c] /\ c.at \in {"wake", "none"}
         /\ c.at = "wake" => c.n = v7[h].n /\ c.others = v7[h].others
  <2>1. CASE C!Goes(h, "wake")
    <3>1. [v7[h] EXCEPT !.at = "wake"] \in PostRow
      BY ChatTyped DEF PostRow, C!Phases
    <3> QED BY <2>1, <3>1, ChatTyped DEF C!Goes, PostRow
  <2>2. CASE C!Ends(h)
    BY <2>2, ChatTyped DEF C!Ends, C!NoCall
  <2> QED BY <2>1, <2>2 DEF C!Escalate
<1>3. GreetsOnce'
  BY <1>1, <1>2, ChatGreets
<1>4. v2 \in Nat
  BY DEF ChatInv, C!TypeOK
<1> QED BY <1>1, <1>2, <1>3, <1>4, ChatTyped, ChatMoves DEF ChatInv, Reached

LEMMA ChatOutside ==
    ASSUME ChatInv, C!Deliver \/ \E u \in Staff : C!Reassign(u)
    PROVE  ChatInv'
<1>1. UNCHANGED <<v1, v2, v5, v7>>
  BY DEF C!Deliver, C!Reassign
<1>2. v3' \subseteq Staff /\ v4' \in BOOLEAN /\ v6' \in 0..MaxChanges
  <2>1. CASE C!Deliver
    BY <2>1 DEF ChatInv, C!TypeOK, C!Deliver
  <2>2. CASE \E u \in Staff : C!Reassign(u)
    <3>1. v6' \in 0..MaxChanges
      BY <2>2, ChatAssumption DEF ChatInv, C!TypeOK, C!Reassign
    <3> QED BY <2>2, <3>1 DEF ChatInv, C!TypeOK, C!Reassign
  <2> QED BY <2>1, <2>2
<1>3. C!TypeOK'
  BY <1>1, <1>2 DEF ChatInv, C!TypeOK
<1> QED BY <1>1, <1>3 DEF ChatInv, CallersKnow, GreetsOnce, Reached, C!At

LEMMA ChatStep == ChatInv /\ [C!Next]_(C!vars) => ChatInv'
<1> SUFFICES ASSUME ChatInv, [C!Next]_(C!vars) PROVE ChatInv'
  OBVIOUS
<1>1. CASE C!Next
  <2>1. Client \in C!People
    BY DEF C!People
  <2> QED BY <1>1, <2>1, ChatOpen, ChatSend, ChatFails, ChatPost, ChatNotify, ChatEscalate, ChatOutside DEF C!Next
<1>2. CASE UNCHANGED C!vars
  BY <1>2 DEF C!vars, ChatInv, C!TypeOK, CallersKnow, GreetsOnce, Reached, C!At
<1> QED BY <1>1, <1>2

LEMMA ChatHolds == ChatInv => C!MessagesReach
BY DEF ChatInv, Reached, GreetsOnce, C!MessagesReach

-----------------------------------------------------------------------------
\* What is known while chat is at work.
ChatAtWork == part = "chat" => ChatInv

LEMMA ChatAtWorkStep == ChatAtWork /\ [Next]_vars => ChatAtWork'
<1> SUFFICES ASSUME ChatInv, part = "chat", [Next]_vars PROVE ChatInv'
  BY DEF ChatAtWork, Next, vars
<1>1. [C!Next]_(C!vars)
  BY DEF Next, vars, C!vars
<1> QED BY <1>1, ChatStep

\* A message for a person that has been dealt with has been shown to everybody who was on the booking,
\* however assignments and messages overlap (postMessage, escalateAndNotify).
THEOREM MessagesReachPeople == Spec => []MessagesReach
<1>1. Init => ChatAtWork
  BY ChatInit DEF Init, ChatAtWork
<1>2. ChatAtWork => MessagesReach
  BY ChatHolds DEF ChatAtWork, MessagesReach
<1> QED BY <1>1, <1>2, ChatAtWorkStep, PTL DEF Spec

-----------------------------------------------------------------------------
(* Direct: v1 is thread, v2 is messages, v3 is window, v4 is call, v5 is   *)
(* hasty.                                                                  *)

MessageRow == [by : R!Ends, read : {"no", "reader", "other"}, shown : BOOLEAN, sent : BOOLEAN]

\* Who has marked and not left has the channel open.
MarksOpen == \A h \in Hands : v4[h].at = "mark" => v3[v4[h].by] = "open" \/ v4[h].by \in v5

\* Whoever has the history has been shown all that has been sent to him.
HistoryShown ==
    \A i \in DOMAIN v2 : LET m == v2[i] IN
        v3[R!Other(m.by)] = "open" /\ m.sent => m.shown

\* What its reader marks before it has been shown is still to be sent, into a room he is in.
MarkedEarly ==
    \A i \in DOMAIN v2 : LET m == v2[i]  u == R!Other(m.by) IN
        m.read = "reader" /\ ~m.shown /\ u \notin v5 =>
            /\ ~m.sent
            /\ \A h \in Hands : v4[h].at = "emit" /\ v4[h].n = i => v3[u] # "shut"

\* A message on its way is there, of the one who sends it.
EmitsKnow ==
    \A h \in Hands : v4[h].at = "emit" =>
        v4[h].n \in DOMAIN v2 /\ v2[v4[h].n].by = v4[h].by

BadgeInv == R!TypeOK /\ MarksOpen /\ HistoryShown /\ MarkedEarly /\ EmitsKnow

LEMMA OtherEnd == \A u \in R!Ends : R!Other(u) \in R!Ends /\ R!Other(u) # u /\ R!Other(R!Other(u)) = u
BY DirectAssumption DEF R!Ends, R!Other

LEMMA BadgeInit == R!Init => BadgeInv
<1> SUFFICES ASSUME R!Init PROVE BadgeInv
  OBVIOUS
<1>1. v2 \in Seq(MessageRow) /\ Len(v2) = 0 /\ DOMAIN v2 = {}
  BY EmptySeq DEF R!Init
<1>2. R!TypeOK
  <2>1. Broker \in R!Ends /\ 0 \in 0..MaxMessages /\ Len(v2) <= MaxMessages
    BY <1>1, DirectAssumption DEF R!Ends
  <2>2. R!NoCall \in [at : {"none", "emit", "mark"}, by : R!Ends, n : 0..MaxMessages]
    BY <2>1 DEF R!NoCall
  <2> QED BY <1>1, <2>1, <2>2 DEF R!Init, R!TypeOK, MessageRow
<1> QED BY <1>1, <1>2 DEF R!Init, BadgeInv, MarksOpen, HistoryShown, MarkedEarly, EmitsKnow, R!NoCall

\* The messages as they are.
LEMMA ThreadIs ==
    ASSUME BadgeInv
    PROVE  /\ v2 \in Seq(MessageRow) /\ Len(v2) \in Nat /\ Len(v2) <= MaxMessages
           /\ DOMAIN v2 = 1..Len(v2)
           /\ \A i \in DOMAIN v2 : v2[i] \in MessageRow
           /\ \A h \in Hands : v4[h] \in [at : {"none", "emit", "mark"}, by : R!Ends, n : 0..MaxMessages]
<1>1. v2 \in Seq(MessageRow) /\ Len(v2) <= MaxMessages
  BY DEF BadgeInv, R!TypeOK, MessageRow
<1>2. Len(v2) \in Nat /\ DOMAIN v2 = 1..Len(v2) /\ \A i \in DOMAIN v2 : v2[i] \in MessageRow
  BY <1>1
<1> QED BY <1>1, <1>2 DEF BadgeInv, R!TypeOK

\* Steps that rewrite messages in place keep their type.
LEMMA ThreadKept ==
    ASSUME BadgeInv, v2' = [i \in DOMAIN v2 |-> v2'[i]],
           \A i \in DOMAIN v2 : v2'[i] \in MessageRow
    PROVE  /\ v2' \in Seq([by : R!Ends, read : {"no", "reader", "other"},
                          shown : BOOLEAN, sent : BOOLEAN])
           /\ Len(v2') <= MaxMessages /\ DOMAIN v2' = DOMAIN v2
BY ThreadIs, Rewritten DEF MessageRow

LEMMA BadgeOpens ==
    ASSUME BadgeInv, R!OpenThread \/ \E u \in R!Ends : R!Join(u)
    PROVE  BadgeInv'
<1>1. UNCHANGED <<v2, v4, v5>> /\ v3 \in [R!Ends -> {"shut", "joined", "open"}]
  BY DEF BadgeInv, R!TypeOK, R!OpenThread, R!Join
<1>2. /\ v3' \in [R!Ends -> {"shut", "joined", "open"}]
      /\ \A u \in R!Ends : (v3'[u] = "open" <=> v3[u] = "open") /\ (v3[u] # "shut" => v3'[u] # "shut")
  BY <1>1 DEF R!OpenThread, R!Join
<1>3. R!TypeOK'
  BY <1>1, <1>2 DEF BadgeInv, R!TypeOK, R!OpenThread, R!Join
<1>4. \A i \in DOMAIN v2 : R!Other(v2[i].by) \in R!Ends
  BY ThreadIs, OtherEnd DEF MessageRow
<1>5. MarksOpen'
  BY <1>1, <1>2, ThreadIs DEF BadgeInv, MarksOpen
<1>6. HistoryShown' /\ MarkedEarly'
  BY <1>1, <1>2, <1>4 DEF BadgeInv, HistoryShown, MarkedEarly
<1> QED BY <1>1, <1>3, <1>5, <1>6 DEF BadgeInv, EmitsKnow

LEMMA BadgeFetch ==
    ASSUME BadgeInv, NEW u \in R!Ends, R!Fetch(u)
    PROVE  BadgeInv'
<1>1. /\ v2' = [i \in DOMAIN v2 |-> IF v2[i].by # u THEN [v2[i] EXCEPT !.shown = TRUE] ELSE v2[i]]
      /\ UNCHANGED <<v1, v4, v5>>
  BY DEF R!Fetch, R!Each
<1>2. /\ v3' \in [R!Ends -> {"shut", "joined", "open"}] /\ v3'[u] = "open"
      /\ \A v \in R!Ends : (v # u => v3'[v] = v3[v]) /\ (v3[v] # "shut" => v3'[v] # "shut")
      /\ \A v \in R!Ends : v3[v] = "open" => v3'[v] = "open"
  BY DEF BadgeInv, R!TypeOK, R!Fetch
<1>3. \A i \in DOMAIN v2 :
         /\ v2'[i] \in MessageRow /\ v2'[i].by = v2[i].by
         /\ v2'[i].read = v2[i].read /\ v2'[i].sent = v2[i].sent
         /\ v2'[i].shown = (v2[i].shown \/ v2[i].by # u)
  BY <1>1, ThreadIs DEF MessageRow
<1>4. DOMAIN v2' = DOMAIN v2 /\ R!TypeOK'
  BY <1>1, <1>2, <1>3, ThreadKept DEF BadgeInv, R!TypeOK
<1>5. \A i \in DOMAIN v2 : R!Other(v2[i].by) \in R!Ends /\ (R!Other(v2[i].by) = u => v2[i].by # u)
  BY ThreadIs, OtherEnd DEF MessageRow
<1>6. MarksOpen'
  BY <1>1, <1>2, ThreadIs DEF BadgeInv, MarksOpen
<1>7. HistoryShown'
  <2> SUFFICES ASSUME NEW i \in DOMAIN v2, v3'[R!Other(v2[i].by)] = "open", v2[i].sent
               PROVE  v2'[i].shown
    BY <1>3, <1>4 DEF HistoryShown
  <2>1. CASE R!Other(v2[i].by) = u
    BY <1>3, <1>5, <2>1
  <2>2. CASE R!Other(v2[i].by) # u
    BY <1>2, <1>3, <1>5, <2>2 DEF BadgeInv, HistoryShown
  <2> QED BY <2>1, <2>2
<1>8. MarkedEarly'
  BY <1>1, <1>2, <1>3, <1>4, <1>5 DEF BadgeInv, MarkedEarly
<1>9. EmitsKnow'
  BY <1>1, <1>3, <1>4 DEF BadgeInv, EmitsKnow
<1> QED BY <1>4, <1>6, <1>7, <1>8, <1>9 DEF BadgeInv

LEMMA BadgeLeave ==
    ASSUME BadgeInv, NEW u \in R!Ends, R!Leave(u)
    PROVE  BadgeInv'
<1>1. /\ UNCHANGED <<v1, v2, v4>> /\ v5 \subseteq v5'
      /\ R!OnItsWay(u) => u \in v5'
      /\ R!TypeOK'
  BY DEF BadgeInv, R!TypeOK, R!Leave
<1>2. v3'[u] = "shut" /\ \A v \in R!Ends : v # u => v3'[v] = v3[v]
  BY DEF BadgeInv, R!TypeOK, R!Leave
<1>3. \A i \in DOMAIN v2 : /\ v2[i].by \in R!Ends /\ R!Other(v2[i].by) \in R!Ends
                           /\ R!Other(R!Other(v2[i].by)) = v2[i].by
  BY ThreadIs, OtherEnd DEF MessageRow
<1>4. MarksOpen'
  BY <1>1, <1>2, ThreadIs DEF BadgeInv, MarksOpen, R!OnItsWay
<1>5. HistoryShown'
  BY <1>1, <1>2, <1>3 DEF BadgeInv, HistoryShown
<1>6. MarkedEarly'
  <2> SUFFICES ASSUME NEW i \in DOMAIN v2, v2[i].read = "reader", ~v2[i].shown,
                      R!Other(v2[i].by) \notin v5'
               PROVE  /\ ~v2[i].sent
                      /\ \A h \in Hands : v4[h].at = "emit" /\ v4[h].n = i =>
                             v3'[R!Other(v2[i].by)] # "shut"
    BY <1>1 DEF MarkedEarly
  <2>1. /\ ~v2[i].sent
        /\ \A h \in Hands : v4[h].at = "emit" /\ v4[h].n = i => v3[R!Other(v2[i].by)] # "shut"
    BY <1>1 DEF BadgeInv, MarkedEarly
  <2>2. CASE R!Other(v2[i].by) # u
    BY <1>2, <1>3, <2>1, <2>2
  <2>3. CASE R!Other(v2[i].by) = u
    <3>1. ~R!OnItsWay(u)
      BY <1>1, <2>3
    <3>2. \A h \in Hands : ~(v4[h].at = "emit" /\ v4[h].n = i)
      BY <1>3, <2>3, <3>1 DEF R!OnItsWay, BadgeInv, EmitsKnow
    <3> QED BY <2>1, <3>2
  <2> QED BY <2>2, <2>3
<1> QED BY <1>1, <1>4, <1>5, <1>6 DEF BadgeInv, EmitsKnow

LEMMA BadgePost ==
    ASSUME BadgeInv, NEW h \in Hands, NEW u \in R!Ends, R!Post(h, u)
    PROVE  BadgeInv'
<1> DEFINE m == [by |-> u, read |-> "no", shown |-> FALSE, sent |-> FALSE]
<1>1. m \in MessageRow /\ v2 \in Seq(MessageRow)
  BY ThreadIs DEF MessageRow
<1>2. /\ v2' \in Seq(MessageRow) /\ Len(v2) \in Nat
      /\ Len(v2') = Len(v2) + 1
      /\ DOMAIN v2' = DOMAIN v2 \union {Len(v2) + 1} /\ Len(v2) + 1 \notin DOMAIN v2
      /\ \A i \in DOMAIN v2 : v2'[i] = v2[i]
      /\ v2'[Len(v2) + 1] = m
  BY <1>1, Appended DEF R!Post
<1>3. /\ UNCHANGED <<v1, v3, v5>> /\ Len(v2) + 1 \in 0..MaxMessages
      /\ v4' = [v4 EXCEPT ![h] = [at |-> "emit", by |-> u, n |-> Len(v2) + 1]]
  BY <1>2, DirectAssumption DEF R!Post, R!Go
<1>4. R!TypeOK'
  BY <1>2, <1>3 DEF BadgeInv, R!TypeOK, MessageRow
<1>5. /\ v4'[h] = [at |-> "emit", by |-> u, n |-> Len(v2) + 1]
      /\ \A g \in Hands \ {h} : v4'[g] = v4[g]
  BY <1>3 DEF BadgeInv, R!TypeOK
<1>6. MarksOpen'
  BY <1>3, <1>5 DEF BadgeInv, MarksOpen
<1>7. HistoryShown'
  BY <1>2, <1>3 DEF BadgeInv, HistoryShown
<1>8. MarkedEarly'
  BY <1>2, <1>3, <1>5 DEF BadgeInv, MarkedEarly
<1>9. EmitsKnow'
  BY <1>2, <1>5 DEF BadgeInv, EmitsKnow
<1> QED BY <1>4, <1>6, <1>7, <1>8, <1>9 DEF BadgeInv

LEMMA BadgeEmit ==
    ASSUME BadgeInv, NEW h \in Hands, R!Emit(h)
    PROVE  BadgeInv'
<1> DEFINE n == v4[h].n
           u == R!Other(v4[h].by)
<1>1. n \in DOMAIN v2 /\ v2[n].by = v4[h].by
  BY DEF BadgeInv, EmitsKnow, R!Emit
<1>2. /\ v2' = [i \in DOMAIN v2 |-> v2'[i]]
      /\ \A i \in DOMAIN v2 : i # n => v2'[i] = v2[i]
      /\ v2'[n] = [v2[n] EXCEPT !.sent = TRUE, !.shown = @ \/ v3[u] # "shut"]
  BY <1>1, ThreadIs DEF R!Emit
<1>3. \A i \in DOMAIN v2 :
         /\ v2'[i] \in MessageRow /\ v2'[i].by = v2[i].by
         /\ v2'[i].read = v2[i].read
         /\ v2[i].shown => v2'[i].shown
         /\ i # n => v2'[i] = v2[i]
  <2>1. v2[n] \in MessageRow /\ \A i \in DOMAIN v2 : v2[i] \in MessageRow
    BY <1>1, ThreadIs
  <2>2. v2'[n] = [by |-> v2[n].by, read |-> v2[n].read,
                  shown |-> v2[n].shown \/ v3[u] # "shut", sent |-> TRUE]
    BY <1>2, <2>1 DEF MessageRow
  <2>3. /\ v2[n].by \in R!Ends /\ v2[n].read \in {"no", "reader", "other"}
        /\ (v2[n].shown \/ v3[u] # "shut") \in BOOLEAN
    BY <2>1 DEF MessageRow
  <2>4. v2'[n] \in MessageRow
    BY <2>2, <2>3 DEF MessageRow
  <2>5. v2'[n].by = v2[n].by /\ v2'[n].read = v2[n].read
    BY <2>2
  <2>6. v2'[n].shown = (v2[n].shown \/ v3[u] # "shut")
    BY <2>2
  <2> QED BY <1>2, <2>1, <2>4, <2>5, <2>6
<1>4. /\ UNCHANGED <<v1, v3, v5>> /\ v4'[h] = R!NoCall
      /\ v4' \in [Hands -> [at : {"none", "emit", "mark"}, by : R!Ends, n : 0..MaxMessages]]
      /\ \A g \in Hands \ {h} : v4'[g] = v4[g]
  BY DirectAssumption DEF BadgeInv, R!TypeOK, R!Emit, R!Done, R!NoCall, R!Ends
<1>5. DOMAIN v2' = DOMAIN v2 /\ R!TypeOK'
  BY <1>2, <1>3, <1>4, ThreadKept DEF BadgeInv, R!TypeOK
<1>6. MarksOpen'
  BY <1>4 DEF BadgeInv, MarksOpen, R!NoCall
<1>7. HistoryShown'
  <2> SUFFICES ASSUME NEW i \in DOMAIN v2, v3[R!Other(v2[i].by)] = "open", v2'[i].sent
               PROVE  v2'[i].shown
    BY <1>3, <1>4, <1>5 DEF HistoryShown
  <2>1. CASE i = n
    BY <1>1, <1>2, <2>1, ThreadIs DEF MessageRow
  <2>2. CASE i # n
    BY <1>3, <2>2 DEF BadgeInv, HistoryShown
  <2> QED BY <2>1, <2>2
<1>8. MarkedEarly'
  <2> SUFFICES ASSUME NEW i \in DOMAIN v2, v2'[i].read = "reader", ~v2'[i].shown,
                      R!Other(v2[i].by) \notin v5
               PROVE  /\ ~v2'[i].sent
                      /\ \A g \in Hands : v4'[g].at = "emit" /\ v4'[g].n = i =>
                             v3[R!Other(v2[i].by)] # "shut"
    BY <1>3, <1>4, <1>5 DEF MarkedEarly
  <2>1. /\ ~v2[i].sent
        /\ \A g \in Hands : v4[g].at = "emit" /\ v4[g].n = i => v3[R!Other(v2[i].by)] # "shut"
    BY <1>3 DEF BadgeInv, MarkedEarly
  <2>2. i # n
    <3> SUFFICES ASSUME i = n PROVE FALSE
      OBVIOUS
    <3>1. v3[u] # "shut"
      BY <1>1, <2>1 DEF R!Emit
    <3>2. v2'[n].shown = (v2[n].shown \/ v3[u] # "shut")
      BY <1>1, <1>2, ThreadIs DEF MessageRow
    <3> QED BY <3>1, <3>2
  <2> QED BY <1>3, <1>4, <2>1, <2>2 DEF R!NoCall
<1>9. EmitsKnow'
  BY <1>3, <1>4, <1>5 DEF BadgeInv, EmitsKnow, R!NoCall
<1> QED BY <1>5, <1>6, <1>7, <1>8, <1>9 DEF BadgeInv

LEMMA BadgeMark ==
    ASSUME BadgeInv, NEW h \in Hands, R!Mark(h)
    PROVE  BadgeInv'
<1> DEFINE u == v4[h].by
<1>1. v2' = [i \in DOMAIN v2 |-> IF v2[i].by # u /\ v2[i].read = "no"
                                 THEN [v2[i] EXCEPT !.read = "reader"] ELSE v2[i]]
  BY DEF R!Mark, R!Each, R!SetRead
<1>2. \A i \in DOMAIN v2 :
         /\ v2'[i] \in MessageRow /\ v2'[i].by = v2[i].by
         /\ v2'[i].shown = v2[i].shown /\ v2'[i].sent = v2[i].sent
         /\ v2'[i].read = "reader" => v2[i].read = "reader" \/ v2[i].by # u
  BY <1>1, ThreadIs DEF MessageRow
<1>3. /\ UNCHANGED <<v1, v3, v5>> /\ v4'[h] = R!NoCall
      /\ v4' \in [Hands -> [at : {"none", "emit", "mark"}, by : R!Ends, n : 0..MaxMessages]]
      /\ \A g \in Hands \ {h} : v4'[g] = v4[g]
  BY DirectAssumption DEF BadgeInv, R!TypeOK, R!Mark, R!Done, R!NoCall, R!Ends
<1>4. DOMAIN v2' = DOMAIN v2 /\ R!TypeOK'
  BY <1>1, <1>2, <1>3, ThreadKept DEF BadgeInv, R!TypeOK
<1>5. v3[u] = "open" \/ u \in v5
  BY DEF BadgeInv, MarksOpen, R!Mark
<1>6. \A i \in DOMAIN v2 : v2[i].by # u => R!Other(v2[i].by) = u
  BY ThreadIs DEF MessageRow, R!Ends, R!Other
<1>7. MarksOpen'
  BY <1>3 DEF BadgeInv, MarksOpen, R!NoCall
<1>8. HistoryShown'
  BY <1>2, <1>3, <1>4 DEF BadgeInv, HistoryShown
<1>9. MarkedEarly'
  BY <1>2, <1>3, <1>4, <1>5, <1>6 DEF BadgeInv, MarkedEarly, HistoryShown, R!NoCall
<1>10. EmitsKnow'
  BY <1>2, <1>3, <1>4 DEF BadgeInv, EmitsKnow, R!NoCall
<1> QED BY <1>4, <1>7, <1>8, <1>9, <1>10 DEF BadgeInv

\* A mark of an administrator, or from outside the room, is none of the reader's.
LEMMA BadgeVisit ==
    ASSUME BadgeInv, NEW u \in R!Ends \union {Visitor}, R!Visit(u)
    PROVE  BadgeInv'
<1>1. v2' = [i \in DOMAIN v2 |-> IF v2[i].by # u /\ v2[i].read = "no"
                                 THEN [v2[i] EXCEPT !.read = "other"] ELSE v2[i]]
  BY DEF R!Visit, R!Each, R!SetRead
<1>2. UNCHANGED <<v1, v3, v4, v5>>
  BY DEF R!Visit
<1>3. \A i \in DOMAIN v2 :
         /\ v2'[i] \in MessageRow /\ v2'[i].by = v2[i].by
         /\ v2'[i].shown = v2[i].shown /\ v2'[i].sent = v2[i].sent
         /\ v2'[i].read = "reader" => v2[i].read = "reader"
  BY <1>1, ThreadIs DEF MessageRow
<1>4. DOMAIN v2' = DOMAIN v2 /\ R!TypeOK'
  BY <1>1, <1>2, <1>3, ThreadKept DEF BadgeInv, R!TypeOK
<1>5. MarksOpen' /\ HistoryShown'
  BY <1>2, <1>3, <1>4 DEF BadgeInv, MarksOpen, HistoryShown
<1>6. MarkedEarly'
  BY <1>2, <1>3, <1>4 DEF BadgeInv, MarkedEarly
<1>7. EmitsKnow'
  BY <1>2, <1>3, <1>4 DEF BadgeInv, EmitsKnow
<1> QED BY <1>4, <1>5, <1>6, <1>7 DEF BadgeInv

LEMMA BadgeRest ==
    ASSUME BadgeInv, NEW h \in Hands, R!Fail(h) \/ \E u \in R!Ends : R!MarkRequest(h, u)
    PROVE  BadgeInv'
<1>1. UNCHANGED <<v1, v2, v3, v5>> /\ \A g \in Hands \ {h} : v4'[g] = v4[g]
  BY DEF BadgeInv, R!TypeOK, R!Fail, R!MarkRequest, R!Go, R!Done
<1>2. /\ v4' \in [Hands -> [at : {"none", "emit", "mark"}, by : R!Ends, n : 0..MaxMessages]]
      /\ v4'[h].at # "emit" /\ (v4'[h].at = "mark" => v3[v4'[h].by] = "open")
  <2>1. CASE R!Fail(h)
    BY <2>1, DirectAssumption DEF BadgeInv, R!TypeOK, R!Fail, R!Done, R!NoCall, R!Ends
  <2>2. CASE \E u \in R!Ends : R!MarkRequest(h, u)
    BY <2>2, DirectAssumption DEF BadgeInv, R!TypeOK, R!MarkRequest, R!Go
  <2> QED BY <2>1, <2>2
<1>3. R!TypeOK'
  BY <1>1, <1>2 DEF BadgeInv, R!TypeOK
<1>4. MarksOpen'
  BY <1>1, <1>2 DEF BadgeInv, MarksOpen
<1>5. MarkedEarly'
  BY <1>1, <1>2 DEF BadgeInv, MarkedEarly
<1>6. EmitsKnow' /\ HistoryShown'
  BY <1>1, <1>2 DEF BadgeInv, EmitsKnow, HistoryShown
<1> QED BY <1>3, <1>4, <1>5, <1>6 DEF BadgeInv

LEMMA BadgeStep == BadgeInv /\ [R!Next]_(R!vars) => BadgeInv'
<1> SUFFICES ASSUME BadgeInv, [R!Next]_(R!vars) PROVE BadgeInv'
  OBVIOUS
<1>1. CASE R!Next
  BY <1>1, BadgeOpens, BadgeFetch, BadgeLeave, BadgePost, BadgeEmit, BadgeMark, BadgeVisit,
     BadgeRest DEF R!Next
<1>2. CASE UNCHANGED R!vars
  BY <1>2 DEF R!vars, BadgeInv, R!TypeOK, MarksOpen, HistoryShown, MarkedEarly, EmitsKnow
<1> QED BY <1>1, <1>2

LEMMA BadgeHolds == BadgeInv => R!BadgeHonest
<1> SUFFICES ASSUME BadgeInv, NEW i \in DOMAIN v2, v2[i].sent, ~v2[i].shown
             PROVE  \/ i \in R!Unread(R!Other(v2[i].by)) \/ R!Other(v2[i].by) \in v5
                    \/ v2[i].read = "other"
  BY DEF R!BadgeHonest, R!Unseen
<1>1. v2[i].by # R!Other(v2[i].by) /\ v2[i].read \in {"no", "reader", "other"}
  BY ThreadIs, OtherEnd DEF MessageRow
<1> QED BY <1>1 DEF BadgeInv, MarkedEarly, R!Unread

-----------------------------------------------------------------------------
\* What is known while direct is at work.
DirectAtWork == part = "direct" => BadgeInv

LEMMA DirectAtWorkStep == DirectAtWork /\ [Next]_vars => DirectAtWork'
<1> SUFFICES ASSUME BadgeInv, part = "direct", [Next]_vars PROVE BadgeInv'
  BY DEF DirectAtWork, Next, vars
<1>1. [R!Next]_(R!vars)
  BY DEF Next, vars, R!vars
<1> QED BY <1>1, BadgeStep

\* A message that has gone out to somebody who has not seen it counts in his badge, unless he left with
\* a mark or a message on its way, or it was marked by an administrator who viewed the channel or by a
\* socket outside the room (markThreadRead, sendMessage, the event read).
THEOREM BadgesAreHonest == Spec => []BadgeHonest
<1>1. Init => DirectAtWork
  BY BadgeInit DEF Init, DirectAtWork
<1>2. DirectAtWork => BadgeHonest
  BY BadgeHolds DEF DirectAtWork, BadgeHonest
<1> QED BY <1>1, <1>2, DirectAtWorkStep, PTL DEF Spec

-----------------------------------------------------------------------------
(* Incidents: v1 is active, v2 is incident, v3 is reason, v4 is mechanic,  *)
(* v5 is call, v6 is torn.                                                 *)

\* A request in flight is about an incident that has been reported; the one that is left with
\* the mechanic's row has resolved the incident.
CallsKnow ==
    \A h \in Hands : v5[h].at # "none" =>
        /\ v5[h].i \in Ids /\ v2[v5[h].i] # "none"
        /\ v5[h].at = "finish" => v2[v5[h].i] = "resolved"

\* A mechanic is asked for after the report.
MechanicsFollow == \A i \in Ids : v2[i] = "none" => v4[i] = "none"

ClosingInv == I!TypeOK /\ CallsKnow /\ MechanicsFollow /\ I!BreakdownsClose

LEMMA ClosingInit == I!Init => ClosingInv
BY DEF I!Init, ClosingInv, I!TypeOK, CallsKnow, MechanicsFollow, I!BreakdownsClose, I!NoCall, I!Statuses

\* The steps with one row or one call to write, each with all that the invariant says.
LEMMA ClosingReport ==
    ASSUME ClosingInv, NEW h \in Hands, NEW i \in Ids, I!Report(h, i)
    PROVE  ClosingInv'
<1> USE DEF I!Report, I!Go, I!NoCall
<1>1. I!TypeOK'
  BY DEF ClosingInv, I!TypeOK
<1>2. CallsKnow'
  BY DEF ClosingInv, I!TypeOK, CallsKnow
<1>3. MechanicsFollow'
  BY DEF ClosingInv, I!TypeOK, MechanicsFollow
<1>4. I!BreakdownsClose'
  BY DEF ClosingInv, I!TypeOK, MechanicsFollow, I!BreakdownsClose, I!AtRest
<1> QED BY <1>1, <1>2, <1>3, <1>4 DEF ClosingInv

LEMMA ClosingResolve ==
    ASSUME ClosingInv, NEW h \in Hands, I!Resolve(h) \/ \E i \in Ids : I!ResolveRequest(h, i)
    PROVE  ClosingInv'
<1> USE DEF I!Resolve, I!ResolveRequest, I!Go, I!Done, I!NoCall
<1>1. I!TypeOK'
  BY DEF ClosingInv, I!TypeOK, CallsKnow
<1>2. CallsKnow'
  BY DEF ClosingInv, I!TypeOK, CallsKnow
<1>3. MechanicsFollow'
  BY DEF ClosingInv, I!TypeOK, MechanicsFollow
<1>4. I!BreakdownsClose'
  BY DEF ClosingInv, I!TypeOK, CallsKnow, I!BreakdownsClose, I!AtRest
<1> QED BY <1>1, <1>2, <1>3, <1>4 DEF ClosingInv

LEMMA ClosingMechanic ==
    ASSUME ClosingInv, NEW h \in Hands, I!RequestMechanic(h) \/ I!FinishMechanic(h)
    PROVE  ClosingInv'
<1> USE DEF I!RequestMechanic, I!FinishMechanic, I!Done, I!NoCall
<1>1. I!TypeOK'
  BY DEF ClosingInv, I!TypeOK, I!Statuses
<1>2. CallsKnow'
  BY DEF ClosingInv, I!TypeOK, CallsKnow
<1>3. MechanicsFollow'
  BY DEF ClosingInv, I!TypeOK, CallsKnow, MechanicsFollow
<1>4. I!BreakdownsClose'
  BY DEF ClosingInv, I!TypeOK, CallsKnow, I!BreakdownsClose, I!AtRest
<1> QED BY <1>1, <1>2, <1>3, <1>4 DEF ClosingInv

LEMMA ClosingUpdate ==
    ASSUME ClosingInv, NEW h \in Hands, NEW i \in Ids, NEW s \in I!Statuses, I!UpdateMechanic(h, i, s)
    PROVE  ClosingInv'
<1> USE DEF I!UpdateMechanic, I!ClosesIncident, I!Go, I!NoCall
<1>1. I!TypeOK'
  BY DEF ClosingInv, I!TypeOK
<1>2. CallsKnow'
  BY DEF ClosingInv, I!TypeOK, CallsKnow, MechanicsFollow
<1>3. MechanicsFollow'
  BY DEF ClosingInv, I!TypeOK, MechanicsFollow
<1>4. I!BreakdownsClose'
  BY DEF ClosingInv, I!TypeOK, I!BreakdownsClose, I!AtRest
<1> QED BY <1>1, <1>2, <1>3, <1>4 DEF ClosingInv

LEMMA ClosingEnds ==
    ASSUME ClosingInv, I!EndTrip \/ \E h \in Hands : I!Crash(h)
    PROVE  ClosingInv'
<1> USE DEF I!EndTrip, I!Crash, I!Done, I!NoCall
<1>1. I!TypeOK'
  <2>1. CASE I!EndTrip
    BY <2>1 DEF ClosingInv, I!TypeOK
  <2>2. CASE \E h \in Hands : I!Crash(h)
    BY <2>2 DEF ClosingInv, I!TypeOK, CallsKnow
  <2> QED BY <2>1, <2>2
<1>2. CallsKnow'
  BY DEF ClosingInv, I!TypeOK, CallsKnow
<1>3. MechanicsFollow'
  BY DEF ClosingInv, MechanicsFollow
<1>4. I!BreakdownsClose'
  BY DEF ClosingInv, I!TypeOK, I!BreakdownsClose, I!AtRest
<1> QED BY <1>1, <1>2, <1>3, <1>4 DEF ClosingInv

LEMMA ClosingStep == ClosingInv /\ [I!Next]_(I!vars) => ClosingInv'
<1> SUFFICES ASSUME ClosingInv, [I!Next]_(I!vars) PROVE ClosingInv'
  OBVIOUS
<1>1. CASE I!Next
  BY <1>1, ClosingReport, ClosingResolve, ClosingMechanic, ClosingUpdate, ClosingEnds DEF I!Next
<1>2. CASE UNCHANGED I!vars
  BY <1>2 DEF I!vars, ClosingInv, I!TypeOK, CallsKnow, MechanicsFollow, I!BreakdownsClose, I!AtRest
<1> QED BY <1>1, <1>2

LEMMA ClosingHolds == ClosingInv => I!BreakdownsClose
BY DEF ClosingInv

-----------------------------------------------------------------------------
\* What is known while incidents is at work.
IncidentsAtWork == part = "incidents" => ClosingInv

LEMMA IncidentsAtWorkStep == IncidentsAtWork /\ [Next]_vars => IncidentsAtWork'
<1> SUFFICES ASSUME ClosingInv, part = "incidents", [Next]_vars PROVE ClosingInv'
  BY DEF IncidentsAtWork, Next, vars
<1>1. [I!Next]_(I!vars)
  BY DEF Next, vars, I!vars
<1> QED BY <1>1, ClosingStep

\* Where the mechanic is done and nobody is at work on the pair, the incident is resolved, however
\* requests to resolve either row overlap (resolveIncident, updateMechanicRequest).
THEOREM PairsClose == Spec => []BreakdownsClose
<1>1. Init => IncidentsAtWork
  BY ClosingInit DEF Init, IncidentsAtWork
<1>2. IncidentsAtWork => BreakdownsClose
  BY ClosingHolds DEF IncidentsAtWork, BreakdownsClose
<1> QED BY <1>1, <1>2, IncidentsAtWorkStep, PTL DEF Spec

-----------------------------------------------------------------------------
(* Preferences: v1 is default, v2 is call, v3 is unsure.                   *)

AddressCall(h, at) == v2[h].at = at

\* One saved row is the default.
OneChosen == \E r \in A!Saved : v1[r] = "yes" /\ \A s \in A!Saved : v1[s] = "yes" => s = r

\* While nothing overlaps: an insert knows whether its row is the first, a removed default is
\* being replaced by the one request that removed it, and otherwise one row is the default.
Settled ==
    /\ \A h \in Hands : AddressCall(h, "insert") => (v2[h].first <=> A!Saved = {})
    /\ \A h, g \in Hands : AddressCall(h, "promote") /\ AddressCall(g, "promote") => h = g
    /\ (\E h \in Hands : AddressCall(h, "promote")) => \A r \in A!Saved : v1[r] # "yes"
    /\ (\A h \in Hands : ~AddressCall(h, "promote")) => A!Saved = {} \/ OneChosen

DefaultInv == A!TypeOK /\ (~v3 => Settled)

LEMMA DefaultInit == A!Init => DefaultInv
<1> SUFFICES ASSUME A!Init PROVE DefaultInv
  OBVIOUS
<1>1. A!TypeOK
  BY DEF A!Init, A!TypeOK, A!NoCall
<1>2. A!Saved = {}
  BY DEF A!Init, A!Saved
<1> QED BY <1>1, <1>2 DEF A!Init, DefaultInv, Settled, AddressCall, A!NoCall

\* Of the rows there are, one is the latest.
LEMMA LatestIsOne ==
    ASSUME A!Saved # {}
    PROVE  \E m \in A!Saved : A!Latest = {m}
<1>1. A!Saved \subseteq Addresses /\ A!Saved \in SUBSET Int /\ IsFiniteSet(A!Saved)
  <2>1. A!Saved \subseteq Addresses
    BY DEF A!Saved
  <2> QED BY <2>1, PreferencesAssumption, FS_Subset
<1>2. PICK m \in A!Saved : \A s \in A!Saved : s <= m
  BY <1>1, Greatest
<1>3. \A r \in A!Latest : r = m
  BY <1>1, <1>2 DEF A!Latest
<1> QED BY <1>2, <1>3 DEF A!Latest

\* While a request is alone, the others have nothing in flight.
LEMMA AloneSettled ==
    ASSUME DefaultInv, ~v3, NEW h \in Hands, A!Alone(h), v2[h].at # "promote"
    PROVE  A!Saved = {} \/ OneChosen
BY DEF DefaultInv, Settled, A!Alone, A!NoCall, AddressCall

LEMMA DefaultCreate ==
    ASSUME DefaultInv, NEW h \in Hands, A!CreateRequest(h)
    PROVE  DefaultInv'
<1>1. /\ UNCHANGED <<v1, v3>>
      /\ v2'[h] = [at |-> "insert", first |-> A!Saved = {}] /\ v2[h] = A!NoCall
      /\ \A g \in Hands \ {h} : v2'[g] = v2[g]
      /\ A!TypeOK'
  BY DEF DefaultInv, A!TypeOK, A!CreateRequest
<1>2. A!Saved' = A!Saved /\ (OneChosen <=> OneChosen')
  BY <1>1 DEF A!Saved, OneChosen
<1>3. \A g \in Hands : AddressCall(g, "promote") <=> AddressCall(g, "promote")'
  BY <1>1 DEF AddressCall, A!NoCall
<1>4. \A g \in Hands : AddressCall(g, "insert")' => g = h \/ (AddressCall(g, "insert") /\ v2'[g] = v2[g])
  BY <1>1 DEF AddressCall
<1>5. ASSUME Settled PROVE Settled'
  <2>1. (\A g \in Hands : AddressCall(g, "insert") => (v2[g].first <=> A!Saved = {}))'
    <3> SUFFICES ASSUME NEW g \in Hands, AddressCall(g, "insert")' PROVE v2'[g].first <=> A!Saved = {}
      BY <1>2
    <3>1. CASE g = h
      <4>1. v2'[h].first = (A!Saved = {})
        BY <1>1
      <4>2. v2'[h].first <=> A!Saved = {}
        BY <4>1, Zenon
      <4> QED BY <3>1, <4>2
    <3>2. CASE g # h
      BY <1>4, <1>5, <3>2 DEF Settled
    <3> QED BY <3>1, <3>2
  <2>2. (\E g \in Hands : AddressCall(g, "promote"))' => \A r \in A!Saved : v1[r] # "yes"
    BY <1>3, <1>5 DEF Settled
  <2> QED BY <1>1, <1>2, <1>3, <1>5, <2>1, <2>2 DEF Settled
<1> QED BY <1>1, <1>5 DEF DefaultInv

LEMMA DefaultInsert ==
    ASSUME DefaultInv, NEW h \in Hands, NEW r \in Addresses, A!Insert(h, r)
    PROVE  DefaultInv'
<1>1. /\ v1' = [v1 EXCEPT ![r] = IF v2[h].first THEN "yes" ELSE "no"]
      /\ v1[r] = "none" /\ v1 \in [Addresses -> {"none", "yes", "no", "gone"}]
      /\ v2[h].at = "insert" /\ v2'[h] = A!NoCall /\ \A g \in Hands \ {h} : v2'[g] = v2[g]
      /\ v3' = (v3 \/ ~A!Alone(h))
      /\ A!TypeOK'
  BY DEF DefaultInv, A!TypeOK, A!Insert, A!Done, A!Note, A!NoCall
<1>2. ASSUME ~v3' PROVE Settled'
  <2>1. ~v3 /\ A!Alone(h) /\ Settled
    BY <1>1, <1>2 DEF DefaultInv
  <2>2. \A g \in Hands : v2'[g] = A!NoCall
    BY <1>1, <2>1 DEF A!Alone
  <2>3. (v2[h].first <=> A!Saved = {}) /\ (A!Saved = {} \/ OneChosen)
    BY <1>1, <2>1, AloneSettled DEF Settled, AddressCall
  <2>4. A!Saved' = A!Saved \union {r} /\ r \notin A!Saved
    BY <1>1 DEF A!Saved
  <2>5. \A s \in A!Saved : v1'[s] = v1[s]
    BY <1>1, <2>4 DEF A!Saved
  <2>6. OneChosen'
    BY <1>1, <2>3, <2>4, <2>5 DEF OneChosen
  <2> QED BY <2>2, <2>6 DEF Settled, AddressCall, A!NoCall
<1> QED BY <1>1, <1>2 DEF DefaultInv

LEMMA DefaultSet ==
    ASSUME DefaultInv, NEW h \in Hands, NEW r \in Addresses, A!SetDefault(h, r)
    PROVE  DefaultInv'
<1>1. /\ \A s \in Addresses : v1'[s] = IF s \notin A!Saved THEN v1[s] ELSE IF s = r THEN "yes" ELSE "no"
      /\ UNCHANGED v2 /\ v2[h] = A!NoCall
      /\ v3' = (v3 \/ (r \notin A!Saved \/ ~A!Alone(h)))
      /\ A!TypeOK'
  BY DEF DefaultInv, A!TypeOK, A!SetDefault, A!Marked, A!Note
<1>2. ASSUME ~v3' PROVE Settled'
  <2>1. r \in A!Saved /\ \A g \in Hands : v2'[g] = A!NoCall
    BY <1>1, <1>2 DEF A!Alone
  <2>2. A!Saved' = A!Saved /\ A!Saved \subseteq Addresses
    BY <1>1 DEF A!Saved
  <2>3. OneChosen'
    BY <1>1, <2>1, <2>2 DEF OneChosen
  <2> QED BY <2>1, <2>3 DEF Settled, AddressCall, A!NoCall
<1> QED BY <1>1, <1>2 DEF DefaultInv

LEMMA DefaultRemove ==
    ASSUME DefaultInv, NEW h \in Hands, NEW r \in Addresses, A!Remove(h, r)
    PROVE  DefaultInv'
<1>1. /\ v1' = [v1 EXCEPT ![r] = "gone"] /\ r \in A!Saved
      /\ v1 \in [Addresses -> {"none", "yes", "no", "gone"}]
      /\ v2[h] = A!NoCall /\ \A g \in Hands \ {h} : v2'[g] = v2[g]
      /\ v2'[h].at = IF v1[r] = "yes" THEN "promote" ELSE "none"
      /\ v3' = (v3 \/ ~A!Alone(h))
      /\ A!TypeOK'
  <2>1. v2' \in [Hands -> [at : {"none", "insert", "promote"}, first : BOOLEAN]]
    <3>1. CASE v1[r] = "yes"
      BY <3>1 DEF DefaultInv, A!TypeOK, A!Remove
    <3>2. CASE v1[r] # "yes"
      BY <3>2 DEF DefaultInv, A!TypeOK, A!Remove
    <3> QED BY <3>1, <3>2
  <2>2. v1' \in [Addresses -> {"none", "yes", "no", "gone"}] /\ v3' \in BOOLEAN
    BY DEF DefaultInv, A!TypeOK, A!Remove, A!Note
  <2> QED BY <2>1, <2>2 DEF DefaultInv, A!TypeOK, A!Remove, A!Note, A!NoCall
<1>2. ASSUME ~v3' PROVE Settled'
  <2>1. ~v3 /\ A!Alone(h) /\ \A g \in Hands \ {h} : v2'[g] = A!NoCall
    BY <1>1, <1>2 DEF A!Alone
  <2>2. OneChosen
    BY <1>1, <2>1, AloneSettled DEF A!NoCall
  <2>3. A!Saved' = A!Saved \ {r} /\ \A s \in A!Saved \ {r} : v1'[s] = v1[s]
    BY <1>1 DEF A!Saved
  <2>4. CASE v1[r] = "yes"
    <3>1. \A s \in A!Saved' : v1'[s] # "yes"
      BY <1>1, <2>2, <2>3, <2>4 DEF OneChosen
    <3> QED BY <1>1, <2>1, <2>4, <3>1 DEF Settled, AddressCall, A!NoCall
  <2>5. CASE v1[r] # "yes"
    <3>1. OneChosen'
      BY <2>2, <2>3, <2>5 DEF OneChosen
    <3> QED BY <1>1, <2>1, <2>5, <3>1 DEF Settled, AddressCall, A!NoCall
  <2> QED BY <2>4, <2>5
<1> QED BY <1>1, <1>2 DEF DefaultInv

LEMMA DefaultPromote ==
    ASSUME DefaultInv, NEW h \in Hands, A!Promote(h)
    PROVE  DefaultInv'
<1>1. /\ \A s \in Addresses : v1'[s] = IF s \in A!Latest THEN "yes" ELSE v1[s]
      /\ v2[h].at = "promote" /\ v2'[h] = A!NoCall /\ \A g \in Hands \ {h} : v2'[g] = v2[g]
      /\ v3' = (v3 \/ ~A!Alone(h))
      /\ A!TypeOK'
  BY DEF DefaultInv, A!TypeOK, A!Promote, A!Done, A!Note, A!NoCall
<1>2. ASSUME ~v3' PROVE Settled'
  <2>1. ~v3 /\ Settled /\ \A g \in Hands : v2'[g] = A!NoCall
    BY <1>1, <1>2 DEF DefaultInv, A!Alone
  <2>2. \A s \in A!Saved : v1[s] # "yes"
    BY <1>1, <2>1 DEF Settled, AddressCall
  <2>3. A!Saved' = A!Saved /\ A!Saved \subseteq Addresses
    BY <1>1 DEF A!Saved, A!Latest
  <2>4. A!Saved = {} \/ OneChosen'
    BY <1>1, <2>2, <2>3, LatestIsOne DEF OneChosen
  <2> QED BY <2>1, <2>3, <2>4 DEF Settled, AddressCall, A!NoCall
<1> QED BY <1>1, <1>2 DEF DefaultInv

LEMMA DefaultCrash ==
    ASSUME DefaultInv, NEW h \in Hands, A!Crash(h)
    PROVE  DefaultInv'
<1>1. /\ UNCHANGED v1 /\ v2'[h] = A!NoCall /\ \A g \in Hands \ {h} : v2'[g] = v2[g]
      /\ v3' = (v3 \/ v2[h].at = "promote")
      /\ A!TypeOK'
  BY DEF DefaultInv, A!TypeOK, A!Crash, A!Done, A!Note, A!NoCall
<1>2. ASSUME ~v3' PROVE Settled'
  <2>1. Settled /\ ~AddressCall(h, "promote")
    BY <1>1, <1>2 DEF DefaultInv, AddressCall
  <2>2. A!Saved' = A!Saved /\ (OneChosen <=> OneChosen')
    BY <1>1 DEF A!Saved, OneChosen
  <2>3. \A g \in Hands : AddressCall(g, "promote") <=> AddressCall(g, "promote")'
    BY <1>1, <2>1 DEF AddressCall, A!NoCall
  <2>4. \A g \in Hands : AddressCall(g, "insert")' => AddressCall(g, "insert") /\ v2'[g] = v2[g]
    BY <1>1 DEF AddressCall, A!NoCall
  <2> QED BY <1>1, <2>1, <2>2, <2>3, <2>4 DEF Settled
<1> QED BY <1>1, <1>2 DEF DefaultInv

LEMMA DefaultStep == DefaultInv /\ [A!Next]_(A!vars) => DefaultInv'
<1> SUFFICES ASSUME DefaultInv, [A!Next]_(A!vars) PROVE DefaultInv'
  OBVIOUS
<1>1. CASE A!Next
  BY <1>1, DefaultCreate, DefaultInsert, DefaultSet, DefaultRemove, DefaultPromote, DefaultCrash DEF A!Next
<1>2. CASE UNCHANGED A!vars
  BY <1>2 DEF A!vars, DefaultInv, A!TypeOK, Settled, OneChosen, A!Saved, AddressCall
<1> QED BY <1>1, <1>2

LEMMA DefaultHolds == DefaultInv => A!OneDefault
<1> SUFFICES ASSUME DefaultInv, A!AtRest, ~v3, A!Saved # {}
             PROVE  Cardinality({r \in A!Saved : v1[r] = "yes"}) = 1
  BY CountIs DEF A!OneDefault
<1>1. OneChosen
  BY DEF A!AtRest, DefaultInv, Settled, AddressCall, A!NoCall
<1>2. PICK r \in A!Saved : {s \in A!Saved : v1[s] = "yes"} = {r}
  BY <1>1 DEF OneChosen
<1> QED BY <1>2, FS_Singleton

-----------------------------------------------------------------------------
\* What is known while preferences is at work.
PreferencesAtWork == part = "preferences" => DefaultInv

LEMMA PreferencesAtWorkStep == PreferencesAtWork /\ [Next]_vars => PreferencesAtWork'
<1> SUFFICES ASSUME DefaultInv, part = "preferences", [Next]_vars PROVE DefaultInv'
  BY DEF PreferencesAtWork, Next, vars
<1>1. [A!Next]_(A!vars)
  BY DEF Next, vars, A!vars
<1> QED BY <1>1, DefaultStep

\* A client with saved addresses has exactly one default whenever no call is at work and none has
\* been torn off or has overlapped another (savedAddress.model).
THEOREM OneAddressIsDefault == Spec => []OneDefault
<1>1. Init => PreferencesAtWork
  BY DefaultInit DEF Init, PreferencesAtWork
<1>2. PreferencesAtWork => OneDefault
  BY DefaultHolds DEF PreferencesAtWork, OneDefault
<1> QED BY <1>1, <1>2, PreferencesAtWorkStep, PTL DEF Spec

-----------------------------------------------------------------------------
(* Schema: v1 is db, v2 is rows, v3 is release, v4 is at.                  *)

BatchRow == [needs : SUBSET G!Objects, makes : SUBSET G!Objects, drops : SUBSET G!Objects,
             bars : SUBSET G!Kinds, unless : G!Objects \union {"-"}]
Last == Len(G!Batches)

\* What batch i has made is there, and what it has taken away is not.
Done(i) == G!Batches[i].makes \subseteq v1 \union G!Replaced /\ G!Batches[i].drops \intersect v1 = {}

\* An object is there with all that its batch has found, a batch that does nothing any more has
\* been done, and so have those the start has got past.
SchemaClosed == \A i \in 1..Last : G!Batches[i].makes \intersect v1 # {} => G!Batches[i].needs \subseteq v1
SchemaWhole  == \A i \in 1..Last : G!Batches[i].unless \in v1 => Done(i)
SchemaPassed ==
    /\ v4 \in 1..Last => \A i \in 1..(v4 - 1) : Done(i)
    /\ v4 = G!Serving => \A i \in 1..v3 : Done(i)
    /\ v4 # G!Failed
Admitted == "part load" \in v2 => "part loads too" \in v1

SchemaInv == G!TypeOK /\ SchemaClosed /\ SchemaWhole /\ SchemaPassed /\ Admitted

\* What the table of batches is.
LEMMA TableIs ==
    /\ Last \in Nat /\ Last < G!Serving /\ DOMAIN G!Batches = 1..Last /\ "-" \notin G!Objects
    /\ \A i \in 1..Last : G!Batches[i] \in BatchRow
    /\ G!Releases \subseteq 1..Last
<1>1. G!Batches \in Seq(BatchRow)
  BY SchemaAssumption DEF G!InOrder, BatchRow
<1> HIDE DEF BatchRow
<1>2. Last \in Nat /\ DOMAIN G!Batches = 1..Last /\ \A i \in 1..Last : G!Batches[i] \in BatchRow
  BY <1>1 DEF Last
<1>3. \A n \in Behind : n \in 0..Last - 1
  BY SchemaAssumption DEF Last
<1>4. G!Releases \subseteq 1..Last
  BY <1>2, <1>3 DEF G!Releases, Last
<1> QED BY <1>2, <1>4, SchemaAssumption DEF G!InOrder, Last

LEMMA TableInOrder ==
    ASSUME NEW i \in 1..Last, NEW j \in 1..Last
    PROVE  /\ i # j => G!Batches[i].makes \intersect G!Batches[j].makes = {}
           /\ G!Batches[i].makes \intersect G!Batches[j].drops # {} => i < j
           /\ G!Batches[i].needs \intersect G!Replaced = {}
           /\ \A o \in G!Batches[i].needs : \E k \in 1..i-1 : o \in G!Batches[k].makes
           /\ G!Batches[i].drops \subseteq G!Replaced
<1>1. i \in DOMAIN G!Batches /\ j \in DOMAIN G!Batches
  BY TableIs
<1>2. G!MadeInOrder(G!Batches, G!Replaced)
  BY SchemaAssumption DEF G!InOrder
<1>3. G!Batches[i].drops \subseteq G!Replaced
  BY <1>1 DEF G!Replaced, G!Range
<1> QED BY <1>1, <1>2, <1>3 DEF G!MadeInOrder

LEMMA SchemaInit == G!Init => SchemaInv
<1> SUFFICES ASSUME G!Init PROVE SchemaInv
  OBVIOUS
<1>1. v1 = {} /\ v2 = {} /\ v3 \in 1..Last /\ v4 = 1 /\ v3 \in G!Releases
  BY TableIs DEF G!Init
<1>2. v4 # G!Serving /\ v4 # G!Failed
  BY <1>1 DEF G!Serving, G!Failed
<1>3. 1 \in 1..Last /\ 1..0 = {}
  BY <1>1, TableIs
<1>4. G!TypeOK
  BY <1>1, <1>3 DEF G!TypeOK, Last
<1> QED BY <1>1, <1>2, <1>3, <1>4 DEF SchemaInv, SchemaClosed, SchemaWhole, SchemaPassed, Admitted

\* An object is kept by every batch, unless it is one that is replaced.
LEMMA SchemaRuns ==
    ASSUME SchemaInv, v4 \in 1..v3, NEW b, b = G!Batches[v4]
    PROVE  b.needs \subseteq v1 /\ (b.unless \in v1 \/ b.bars \intersect v2 = {})
<1>1. v3 \in 1..Last /\ v4 \in 1..Last
  BY TableIs DEF SchemaInv, G!TypeOK
<1>2. ASSUME NEW o \in b.needs PROVE o \in v1
  <2>1. PICK k \in 1..v4 - 1 : o \in G!Batches[k].makes
    BY <1>1, TableInOrder
  <2>2. Done(k) /\ o \notin G!Replaced
    BY <1>1, <1>2, TableInOrder DEF SchemaInv, SchemaPassed
  <2> QED BY <2>1, <2>2 DEF Done
<1>3. ASSUME b.bars \intersect v2 # {} PROVE b.unless \in v1
  <2>0. G!AdmittedLater(G!Batches) /\ v4 \in DOMAIN G!Batches /\ b.bars # {}
    BY <1>1, <1>3, TableIs, SchemaAssumption DEF G!InOrder
  <2>1. b.bars = {"part load"} /\ "part load" \in v2 /\ "part loads too" \in v1
    <3>1. b.bars = {"part load"}
      BY <2>0 DEF G!AdmittedLater
    <3> QED BY <1>3, <3>1 DEF SchemaInv, Admitted
  <2>2. PICK j \in 1..Last : "part loads too" \in G!Batches[j].makes
    BY TableIs, SchemaAssumption DEF G!InOrder, G!AdmittedLater, G!Objects, G!Range
  <2>3. b.unless \in G!Batches[j].needs
    BY <1>1, <2>1, <2>2, TableIs, SchemaAssumption DEF G!InOrder, G!AdmittedLater
  <2>4. G!Batches[j].needs \subseteq v1
    BY <2>1, <2>2 DEF SchemaInv, SchemaClosed
  <2> QED BY <2>3, <2>4
<1> QED BY <1>2, <1>3

LEMMA SchemaStep ==
    ASSUME SchemaInv, G!Step
    PROVE  SchemaInv'
<1>1. v4 \in 1..v3 /\ v3 \in 1..Last /\ v4 \in 1..Last /\ v2' = v2 /\ v3' = v3 /\ Last \in Nat
  BY TableIs DEF G!Step, SchemaInv, G!TypeOK
<1> PICK k \in 1..Last : k = v4
  BY <1>1
<1> PICK b : b = G!Batches[k]
  OBVIOUS
<1>2. b.needs \subseteq v1 /\ (b.unless \in v1 \/ b.bars \intersect v2 = {})
  BY <1>1, SchemaRuns
<1>3. v1' = (IF b.unless \in v1 THEN v1 ELSE (v1 \ b.drops) \union b.makes)
      /\ v4' = (IF k = v3 THEN G!Serving ELSE k + 1)
  BY <1>2 DEF G!Step, G!Runs
<1>4. v1 \ G!Replaced \subseteq v1' /\ b \in BatchRow
  BY <1>3, TableInOrder, TableIs
<1>5. ASSUME NEW i \in 1..Last, i # k, G!Batches[i].makes \intersect v1' # {}
      PROVE  G!Batches[i].makes \intersect v1 # {}
  BY <1>3, <1>5, TableInOrder
<1>6. SchemaClosed'
  <2> SUFFICES ASSUME NEW i \in 1..Last, G!Batches[i].makes \intersect v1' # {}
               PROVE  G!Batches[i].needs \subseteq v1'
    BY DEF SchemaClosed
  <2>1. G!Batches[i].needs \subseteq v1
    BY <1>2, <1>5 DEF SchemaInv, SchemaClosed
  <2> QED BY <1>4, <2>1, TableInOrder
<1>7. ASSUME NEW i \in 1..Last, Done(i), i <= k \/ G!Batches[i].unless \in v1 PROVE Done(i)'
  <2>1. G!Batches[i].makes \subseteq v1' \union G!Replaced
    BY <1>4, <1>7 DEF Done
  <2>2. ASSUME NEW o \in G!Batches[i].drops, o \in v1' PROVE FALSE
    <3>1. b.unless \notin v1 /\ o \in b.makes
      BY <1>3, <1>7, <2>2 DEF Done
    <3>2. k < i
      BY <2>2, <3>1, TableInOrder
    <3>3. G!Batches[i].unless \in v1 /\ G!Batches[i].unless # "-"
      BY <1>7, <3>2, TableIs DEF SchemaInv, G!TypeOK
    <3>4. b.unless \in G!Batches[i].needs /\ G!Batches[i].unless \in G!Batches[i].makes
      BY <2>2, <3>1, <3>3, TableIs, SchemaAssumption DEF G!InOrder, G!LooksAtItsOwn
    <3>5. G!Batches[i].needs \subseteq v1
      BY <3>3, <3>4 DEF SchemaInv, SchemaClosed
    <3> QED BY <3>1, <3>4, <3>5
  <2> QED BY <2>1, <2>2 DEF Done
<1>8. Done(k)'
  <2>1. CASE b.unless \in v1
    <3>1. Done(k)
      BY <2>1 DEF SchemaInv, SchemaWhole
    <3> QED BY <1>7, <3>1
  <2>2. CASE b.unless \notin v1
    <3>1. v1' = (v1 \ b.drops) \union b.makes
      BY <1>3, <2>2
    <3>2. b.makes \intersect b.drops = {}
      BY TableInOrder
    <3> QED BY <3>1, <3>2 DEF Done
  <2> QED BY <2>1, <2>2
<1>9. SchemaWhole'
  <2> SUFFICES ASSUME NEW i \in 1..Last, G!Batches[i].unless \in v1' PROVE Done(i)'
    BY DEF SchemaWhole
  <2>1. G!Batches[i].unless \in v1 \/ i = k
    <3>1. G!Batches[i].unless # "-"
      BY <1>3, <1>4, TableIs DEF SchemaInv, G!TypeOK, BatchRow
    <3>2. G!Batches[i].unless \in G!Batches[i].makes
      BY <3>1, TableIs, SchemaAssumption DEF G!InOrder, G!LooksAtItsOwn
    <3> QED BY <1>3, <3>2, TableInOrder
  <2>2. G!Batches[i].unless \in v1 => Done(i)
    BY DEF SchemaInv, SchemaWhole
  <2> QED BY <1>7, <1>8, <2>1, <2>2
<1>10. \A i \in 1..k : Done(i)'
  <2> SUFFICES ASSUME NEW i \in 1..k PROVE Done(i)'
    OBVIOUS
  <2>1. i = k \/ i \in 1..k - 1
    OBVIOUS
  <2>2. ASSUME i \in 1..k - 1 PROVE Done(i) /\ i \in 1..Last
    BY <1>1, <2>2 DEF SchemaInv, SchemaPassed
  <2> QED BY <1>7, <1>8, <2>1, <2>2
<1>11. SchemaPassed'
  <2>1. CASE k = v3
    <3>1. v4' = G!Serving /\ G!Serving \notin 1..Last /\ G!Serving # G!Failed
      BY <1>3, <2>1, TableIs DEF G!Serving, G!Failed
    <3> QED BY <1>1, <1>10, <2>1, <3>1 DEF SchemaPassed
  <2>2. CASE k # v3
    <3>1. v4' = k + 1 /\ k + 1 \in 1..Last /\ v4' # G!Serving /\ v4' # G!Failed
      BY <1>1, <1>3, <2>2, TableIs DEF G!Serving, G!Failed
    <3> QED BY <1>1, <1>10, <3>1 DEF SchemaPassed
  <2> QED BY <2>1, <2>2
<1>12. G!TypeOK'
  <2>1. v1' \subseteq G!Objects
    BY <1>3, <1>4 DEF SchemaInv, G!TypeOK, BatchRow
  <2>2. v4' \in 1..Last \union {G!Serving, G!Failed}
    BY <1>1, <1>3
  <2> QED BY <1>1, <2>1, <2>2 DEF SchemaInv, G!TypeOK, Last
<1>13. Admitted'
  BY <1>1, <1>4, SchemaAssumption DEF G!InOrder, G!AdmittedLater, SchemaInv, Admitted
<1> QED BY <1>6, <1>9, <1>11, <1>12, <1>13 DEF SchemaInv

LEMMA SchemaNext == SchemaInv /\ (G!Next \/ UNCHANGED <<v1, v2, v3, v4>>) => SchemaInv'
<1> SUFFICES ASSUME SchemaInv, G!Next \/ UNCHANGED <<v1, v2, v3, v4>> PROVE SchemaInv'
  OBVIOUS
<1>1. ASSUME v1' = v1, v2' \subseteq G!Kinds, v3' \in G!Releases, Admitted',
             v4' = 1 \/ (v4' = v4 /\ v3' = v3)
      PROVE  SchemaInv'
  <2>1. \A i \in 1..Last : Done(i) => Done(i)'
    BY <1>1 DEF Done
  <2>2. SchemaClosed' /\ SchemaWhole'
    BY <1>1, <2>1 DEF SchemaInv, SchemaClosed, SchemaWhole
  <2>3. v3 \in 1..Last /\ 1 \in 1..Last /\ 1 # G!Serving /\ 1 # G!Failed /\ 1..(1 - 1) = {}
    BY TableIs DEF SchemaInv, G!TypeOK, G!Serving, G!Failed
  <2>4. SchemaPassed'
    <3>1. CASE v4' = 1
      BY <2>3, <3>1 DEF SchemaPassed
    <3>2. CASE v4' = v4 /\ v3' = v3
      <4>1. v4 \in 1..Last => \A i \in 1..(v4 - 1) : i \in 1..Last
        BY TableIs
      <4>2. \A i \in 1..v3 : i \in 1..Last
        BY <2>3, TableIs
      <4> QED BY <2>1, <3>2, <4>1, <4>2 DEF SchemaInv, SchemaPassed
    <3> QED BY <1>1, <3>1, <3>2
  <2>5. G!TypeOK'
    BY <1>1, <2>3 DEF SchemaInv, G!TypeOK, Last
  <2> QED BY <1>1, <2>2, <2>4, <2>5 DEF SchemaInv
<1>2. CASE G!Step
  BY <1>2, SchemaStep
<1>3. ASSUME NEW r \in G!Releases, G!Restart(r) PROVE SchemaInv'
  BY <1>1, <1>3 DEF G!Restart, SchemaInv, G!TypeOK, Admitted
<1>4. ASSUME NEW kind \in G!Kinds, G!Serve(kind) PROVE SchemaInv'
  <2>1. Admitted'
    BY <1>4 DEF G!Serve, G!Admits, SchemaInv, Admitted
  <2> QED BY <1>1, <1>4, <2>1 DEF G!Serve, SchemaInv, G!TypeOK
<1>5. CASE UNCHANGED <<v1, v2, v3, v4>>
  BY <1>1, <1>5 DEF SchemaInv, G!TypeOK, Admitted
<1> QED BY <1>2, <1>3, <1>4, <1>5 DEF G!Next

LEMMA SchemaHolds == SchemaInv => G!StartsComplete
<1> SUFFICES ASSUME SchemaInv, v4 = G!Serving, NEW b \in G!Range(SubSeq(G!Batches, 1, v3))
             PROVE  b.makes \subseteq v1 \union G!Replaced /\ b.drops \intersect v1 = {}
  BY DEF SchemaInv, SchemaPassed, G!StartsComplete
<1>1. v3 \in 1..Last /\ Last \in Nat
  BY TableIs DEF SchemaInv, G!TypeOK
<1>2. G!Batches \in Seq(BatchRow)
  BY SchemaAssumption DEF G!InOrder, BatchRow
<1> HIDE DEF BatchRow
<1>3. DOMAIN SubSeq(G!Batches, 1, v3) = 1..v3 /\ \A i \in 1..v3 : SubSeq(G!Batches, 1, v3)[i] = G!Batches[i]
  BY <1>1, <1>2 DEF Last
<1>4. PICK i \in 1..v3 : b = G!Batches[i]
  BY <1>3 DEF G!Range
<1>5. Done(i)
  BY DEF SchemaInv, SchemaPassed
<1> QED BY <1>4, <1>5 DEF Done

SchemaAtWork == part = "schema" => SchemaInv

LEMMA SchemaAtWorkStep == SchemaAtWork /\ [Next]_vars => SchemaAtWork'
<1> SUFFICES ASSUME SchemaInv, part = "schema", [Next]_vars PROVE SchemaInv'
  BY DEF SchemaAtWork, Next, vars
<1>1. G!Next \/ UNCHANGED <<v1, v2, v3, v4>>
  BY DEF Next, vars
<1> QED BY <1>1, SchemaNext

\* No start of the server fails on what an earlier one, cut off anywhere, or an earlier release and
\* its rows have left, and one that ends has made everything (runMigrations, runStartupMigrations).
THEOREM StartsAlwaysComplete == Spec => []StartsComplete
<1>1. Init => SchemaAtWork
  BY SchemaInit DEF Init, SchemaAtWork
<1>2. SchemaAtWork => StartsComplete
  BY SchemaHolds DEF SchemaAtWork, StartsComplete
<1> QED BY <1>1, <1>2, SchemaAtWorkStep, PTL DEF Spec

-----------------------------------------------------------------------------
\* What is known of each service while it is at work.
ServicesKnow ==
    /\ SessionsAtWork /\ UsersAtWork /\ FleetAtWork /\ PresenceAtWork /\ KycAtWork /\ BroadcastAtWork
    /\ MatchingAtWork /\ BoardingAtWork /\ PricingAtWork /\ ChatAtWork /\ IncidentsAtWork
    /\ PreferencesAtWork /\ DocumentsAtWork /\ GatewayAtWork /\ GateBoundAtWork /\ DirectAtWork
    /\ GeofenceAtWork /\ SchemaAtWork

LEMMA ServicesKnowInit == Init => ServicesKnow
<1> SUFFICES ASSUME Init PROVE ServicesKnow
  OBVIOUS
<1>1. SessionsAtWork /\ UsersAtWork /\ PresenceAtWork /\ KycAtWork
  BY SessionInit, UsersInit, PresenceInit, KycInit
     DEF Init, SessionsAtWork, UsersAtWork, PresenceAtWork, KycAtWork
<1>2. BroadcastAtWork /\ MatchingAtWork /\ BoardingAtWork /\ PricingAtWork
  BY SearchInit, MatchInit, BoardingInit, PriceInit
     DEF Init, BroadcastAtWork, MatchingAtWork, BoardingAtWork, PricingAtWork
<1>3. DocumentsAtWork /\ GatewayAtWork /\ GateBoundAtWork /\ GeofenceAtWork
  BY DocInit, GateInit, GateBoundInit, FenceInit
     DEF Init, DocumentsAtWork, GatewayAtWork, GateBoundAtWork, GeofenceAtWork
<1>4. FleetAtWork /\ ChatAtWork /\ DirectAtWork
  BY LinkInit, ChatInit, BadgeInit DEF Init, FleetAtWork, ChatAtWork, DirectAtWork
<1>5. IncidentsAtWork /\ PreferencesAtWork /\ SchemaAtWork
  BY ClosingInit, DefaultInit, SchemaInit DEF Init, IncidentsAtWork, PreferencesAtWork, SchemaAtWork
<1> QED BY <1>1, <1>2, <1>3, <1>4, <1>5 DEF ServicesKnow

LEMMA ServicesKnowStep == ServicesKnow /\ [Next]_vars => ServicesKnow'
<1> SUFFICES ASSUME ServicesKnow, [Next]_vars PROVE ServicesKnow'
  OBVIOUS
<1>1. (SessionsAtWork /\ UsersAtWork /\ PresenceAtWork /\ KycAtWork)'
  BY SessionsAtWorkStep, UsersAtWorkStep, PresenceAtWorkStep, KycAtWorkStep DEF ServicesKnow
<1>2. (BroadcastAtWork /\ MatchingAtWork /\ BoardingAtWork /\ PricingAtWork)'
  BY BroadcastAtWorkStep, MatchingAtWorkStep, BoardingAtWorkStep, PricingAtWorkStep DEF ServicesKnow
<1>3. (DocumentsAtWork /\ GatewayAtWork /\ GateBoundAtWork /\ GeofenceAtWork)'
  BY DocumentsAtWorkStep, GatewayAtWorkStep, GateBoundAtWorkStep, GeofenceAtWorkStep DEF ServicesKnow
<1>4. (FleetAtWork /\ ChatAtWork /\ DirectAtWork)'
  BY FleetAtWorkStep, ChatAtWorkStep, DirectAtWorkStep DEF ServicesKnow
<1>5. (IncidentsAtWork /\ PreferencesAtWork /\ SchemaAtWork)'
  BY IncidentsAtWorkStep, PreferencesAtWorkStep, SchemaAtWorkStep DEF ServicesKnow
<1> QED BY <1>1, <1>2, <1>3, <1>4, <1>5 DEF ServicesKnow

LEMMA ServicesTypes == ServicesKnow => TypesOK
<1> SUFFICES ASSUME ServicesKnow PROVE TypesOK
  OBVIOUS
<1>1. /\ part = "sessions" => S!TypeOK
      /\ part = "users" => U!TypeOK
      /\ part = "presence" => P!TypeOK
      /\ part = "kyc" => K!TypeOK
  BY DEF ServicesKnow, SessionsAtWork, SessionInv, UsersAtWork, UsersInv, Shape, PresenceAtWork, PresenceInv, KycAtWork, KycInv
<1>2. /\ part = "broadcast" => B!TypeOK
      /\ part = "geofence" => E!TypeOK
      /\ part = "documents" => D!TypeOK
  BY DEF ServicesKnow, BroadcastAtWork, SearchInv, GeofenceAtWork, FenceInv, DocumentsAtWork, DocInv
<1>3. /\ part = "fleet" => F!TypeOK
      /\ part = "chat" => C!TypeOK
      /\ part = "direct" => R!TypeOK
  BY DEF ServicesKnow, FleetAtWork, LinkInv, ChatAtWork, ChatInv, DirectAtWork, BadgeInv
<1>4. /\ part = "incidents" => I!TypeOK
      /\ part = "preferences" => A!TypeOK
      /\ part = "schema" => G!TypeOK
  BY DEF ServicesKnow, IncidentsAtWork, ClosingInv, PreferencesAtWork, DefaultInv, SchemaAtWork, SchemaInv
<1>5. /\ part = "matching" => M!TypeOK
      /\ part = "gateway" => W!TypeOK
      /\ part = "pricing" => Q!TypeOK
  BY BoardingTyped, GateTyped, PriceTypesHold
     DEF ServicesKnow, MatchingAtWork, BoardingAtWork, GatewayAtWork, GateBoundAtWork, PricingAtWork
<1> QED BY <1>1, <1>2, <1>3, <1>4, <1>5 DEF TypesOK

\* Every row, call and history of every service is of its type, whatever the requests in flight.
THEOREM ServicesTyped == Spec => []TypesOK
BY ServicesKnowInit, ServicesKnowStep, ServicesTypes, PTL DEF Spec
=============================================================================
