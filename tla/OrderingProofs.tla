--------------------------- MODULE OrderingProofs ---------------------------
(***************************************************************************)
(* What the services about ordering guarantee for any bookings, drivers,   *)
(* loads, payments and calls in flight: the broadcast of a booking and its *)
(* repetition, the room on a truck that is shared, the fence around the    *)
(* places served, the numbers a booking is quoted by, the payments at the  *)
(* gateway, the price from the quote to the trip.                          *)
(***************************************************************************)
EXTENDS Services, SumLemmas

\* The components count as the library does.
LEMMA CardinalityIs == \A set : B!Cardinality(set) = Cardinality(set) /\ D!Cardinality(set) = Cardinality(set) /\ M!Cardinality(set) = Cardinality(set)
BY DEF B!Cardinality, D!Cardinality, M!Cardinality, Cardinality

-----------------------------------------------------------------------------
(* Broadcast: v1 is mix, v2 is booking, v3 is live, v4 is answers, v5 is   *)
(* call, v6 is sent, v7 is torn, v8 is retried, v9 is asked, v10 is early. *)

SearchRow == [status : {"none", "pending", "closed"}, scheduled : BOOLEAN, due : BOOLEAN, marked : BOOLEAN,
              mode : SearchModes, key : Keys \union {NoKey}]
SweepRow  == [at : B!Phases, key : Keys \union {NoKey}, b : SUBSET Bookings, left : SUBSET Crew,
              todo : SUBSET Bookings, asks : SUBSET (Bookings \X Crew), threw : BOOLEAN]

\* What a call holds, by its phase and by who makes it.
CallsShaped ==
    \A h \in B!Calls :
        /\ v5[h].b \intersect v5[h].todo = {}
        /\ v5[h].at \in {"fan", "again", "mark"} => \E b \in Bookings : v5[h].b = {b}
        /\ v5[h].at \in {"none", "insert", "save", "next", "ask"} => v5[h].b = {}
        /\ v5[h].at \in {"none", "insert", "save", "again", "ask"} => v5[h].todo = {}
        /\ v5[h].at \in {"none", "again", "ask"} => v5[h].key = NoKey
        /\ h \in Clients => v5[h].todo = {} /\ v5[h].at # "next"
        /\ h \in Sweeps  => v5[h].key = NoKey /\ v5[h].at \in {"none", "fan", "mark", "next"}
        /\ v5[h].at = "mark" => v5[h].b \subseteq v6

\* A booking nobody has made yet is known to nobody, and only a broadcast that has ended is marked.
NotYetMade ==
    \A b \in Bookings :
        /\ v2[b].status = "none" =>
              /\ ~v2[b].scheduled /\ ~v2[b].marked /\ b \notin v6 /\ v2[b].key = NoKey
              /\ \A h \in B!Calls : b \notin B!Held(h)
              /\ \A d \in Crew : v3[b][d] = 0
        /\ v2[b].marked => b \in v6

\* What a broadcast or a search that asks a driver leaves him with, then, is within bounds: he has
\* nothing, or what a search before the broadcast has left him.
Spare(b, d) == v3[b][d] = 0 \/ (b \in v10 /\ v3[b][d] = 1)

\* A booking none of whose broadcasts was interrupted is with one call at a time, which asks
\* drivers without a live request, or with the one of an early search.
OneFanOut ==
    /\ \A g, h \in B!Calls : g # h => B!Held(g) \intersect B!Held(h) \subseteq v7
    /\ \A h \in B!Calls : v5[h].at \in {"fan", "again"} =>
          \A b \in v5[h].b \ v7, d \in v5[h].left : Spare(b, d) /\ (v5[h].at = "again" => v3[b][d] = 0)
    /\ \A h \in B!Calls : B!At(h, "again") => v5[h].b \subseteq v6 \union v7 \union v10
    /\ \A h \in B!Calls : \A b \in v5[h].todo \ v7 : b \notin v6 /\ \A d \in Crew : Spare(b, d)
    /\ \A b \in v6 \ v7 : ~v2[b].marked => \E h \in B!Calls : B!At(h, "mark") /\ b \in v5[h].b
    /\ \A b \in Bookings \ (v6 \union v7) :
          (\A h \in B!Calls : B!At(h, "fan") => b \notin v5[h].b) => \A d \in Crew : Spare(b, d)
    /\ B!OneLiveRequest

\* A key in use is with one call, or has made its booking and is answered.
KeysKnown ==
    \A key \in Keys \ v8 :
        /\ \A g, h \in B!Calls : v5[g].key = key /\ v5[h].key = key => g = h
        /\ \A h \in B!Calls : v5[h].key = key =>
              /\ key \notin v4
              /\ B!At(h, "insert") => \A b \in Bookings : v2[b].key # key
        /\ key \notin v4 /\ (\A h \in B!Calls : v5[h].key # key) => \A b \in Bookings : v2[b].key # key
        /\ \A a, b \in Bookings : v2[a].key = key /\ v2[b].key = key => a = b

SearchInv == B!TypeOK /\ CallsShaped /\ NotYetMade /\ OneFanOut /\ KeysKnown

LEMMA SearchTyped ==
    ASSUME SearchInv
    PROVE  /\ v2 \in [Bookings -> SearchRow] /\ \A b \in Bookings : v2[b] \in SearchRow
           /\ v5 \in [B!Calls -> SweepRow] /\ \A h \in B!Calls : v5[h] \in SweepRow
           /\ v9 \in [Bookings -> [Crew -> 0..MaxAsked]] /\ v10 \subseteq Bookings
           /\ v3 \in [Bookings -> [Crew -> 0..MaxLive]]
           /\ \A b \in Bookings : v3[b] \in [Crew -> 0..MaxLive]
           /\ \A b \in Bookings, d \in Crew : v3[b][d] \in 0..MaxLive
           /\ v6 \subseteq Bookings /\ v7 \subseteq Bookings /\ v4 \subseteq Keys /\ v8 \subseteq Keys
           /\ v1 \in SearchMixes
<1>1. B!TypeOK
  BY DEF SearchInv
<1> QED BY <1>1 DEF B!TypeOK, SearchRow, SweepRow

LEMMA SearchInit == B!Init => SearchInv
<1> SUFFICES ASSUME B!Init PROVE SearchInv
  OBVIOUS
<1>1. \A h \in B!Calls : v5[h] = B!NoCall
  BY DEF B!Init
<1>2. B!NoCall \in SweepRow
  BY DEF B!NoCall, SweepRow, B!Phases
<1>3. B!TypeOK
  <2>1. v3 \in [Bookings -> [Crew -> 0..MaxLive]] /\ v9 \in [Bookings -> [Crew -> 0..MaxAsked]]
    BY BroadcastAssumption DEF B!Init
  <2>2. v5 \in [B!Calls -> SweepRow]
    BY <1>2 DEF B!Init
  <2>3. v2 \in [Bookings -> SearchRow]
    BY DEF B!Init, SearchRow
  <2> QED BY <2>1, <2>2, <2>3 DEF B!Init, B!TypeOK, SweepRow, SearchRow
<1>4. CallsShaped
  BY <1>1 DEF CallsShaped, B!NoCall
<1>5. NotYetMade
  BY <1>1 DEF NotYetMade, B!NoCall, B!Held, B!Init
<1>6. OneFanOut
  BY <1>1 DEF OneFanOut, Spare, B!NoCall, B!Held, B!Init, B!At, B!OneLiveRequest
<1>7. KeysKnown
  BY <1>1, BroadcastAssumption DEF KeysKnown, B!NoCall, B!Init, B!At
<1> QED BY <1>3, <1>4, <1>5, <1>6, <1>7 DEF SearchInv

LEMMA SearchCreate ==
    ASSUME SearchInv, NEW h \in Clients, NEW key \in Keys \union {NoKey}, B!CreateRequest(h, key)
    PROVE  SearchInv'
<1> DEFINE c == [B!NoCall EXCEPT !.at = "insert", !.key = key]
<1>1. /\ h \in B!Calls /\ v5' = [v5 EXCEPT ![h] = c] /\ v5[h] = B!NoCall /\ key \notin v4
      /\ UNCHANGED <<v1, v2, v3, v4, v6, v7, v9, v10>>
      /\ v8' = IF \E g \in B!Calls : v5[g].key = key THEN v8 \union ({key} \ {NoKey}) ELSE v8
  BY DEF B!CreateRequest, B!Goes, B!Free, B!Calls
<1>2. c \in SweepRow /\ c.at = "insert" /\ c.key = key /\ c.b = {} /\ c.todo = {} /\ c.left = {}
  BY DEF B!NoCall, SweepRow, B!Phases
<1> HIDE DEF c
<1>3. v5'[h] = c /\ (\A g \in B!Calls \ {h} : v5'[g] = v5[g]) /\ v5' \in [B!Calls -> SweepRow]
  BY <1>1, <1>2, SearchTyped
<1>4. v8' \subseteq Keys /\ v8 \subseteq v8'
  BY <1>1, SearchTyped
<1>5. B!TypeOK'
  BY <1>1, <1>3, <1>4 DEF SearchInv, B!TypeOK, SweepRow, B!Calls
<1>6. v5[h].b = {} /\ v5[h].todo = {} /\ v5[h].key = NoKey /\ v5[h].at = "none"
  BY <1>1 DEF B!NoCall
<1>7. CallsShaped'
  BY <1>1, <1>2, <1>3, BroadcastAssumption DEF SearchInv, CallsShaped
<1>8. \A g \in B!Calls : /\ B!Held(g)' = B!Held(g)
                         /\ \A p \in {"fan", "again", "mark"} : B!At(g, p)' <=> B!At(g, p)
                         /\ v5'[g].b = v5[g].b /\ v5'[g].todo = v5[g].todo /\ v5'[g].left \subseteq Crew
                         /\ B!At(g, "fan") \/ B!At(g, "again") => v5'[g].left = v5[g].left
  BY <1>2, <1>3, <1>6, SearchTyped DEF B!Held, B!At, SweepRow
<1>9. NotYetMade'
  BY <1>1, <1>8 DEF SearchInv, NotYetMade
<1>10. OneFanOut'
  BY <1>1, <1>8 DEF SearchInv, OneFanOut, Spare, B!OneLiveRequest, B!At
<1>11. KeysKnown'
  BY <1>1, <1>2, <1>3, <1>4, <1>6, BroadcastAssumption DEF SearchInv, KeysKnown, B!At
<1> QED BY <1>5, <1>7, <1>9, <1>10, <1>11 DEF SearchInv

\* One call goes on.
LEMMA OneGoes ==
    ASSUME SearchInv, NEW h \in B!Calls, NEW c \in SweepRow, B!Goes(h, c)
    PROVE  /\ v5'[h] = c /\ \A g \in B!Calls \ {h} : v5'[g] = v5[g]
           /\ v5' \in [B!Calls -> SweepRow] /\ \A g \in B!Calls : v5'[g] \in SweepRow
           /\ \A g \in B!Calls \ {h} : B!Held(g)' = B!Held(g) /\ \A p \in B!Phases : B!At(g, p)' <=> B!At(g, p)
           /\ B!Held(h)' = c.b \union c.todo
<1>1. v5' = [v5 EXCEPT ![h] = c] /\ v5 \in [B!Calls -> SweepRow]
  BY SearchTyped DEF B!Goes
<1>2. v5'[h] = c /\ \A g \in B!Calls \ {h} : v5'[g] = v5[g]
  BY <1>1
<1>3. v5' \in [B!Calls -> SweepRow]
  BY <1>1
<1> QED BY <1>2, <1>3 DEF B!Held, B!At

LEMMA SearchInsert ==
    ASSUME SearchInv, NEW h \in Clients, NEW b \in Bookings, NEW scheduled \in BOOLEAN,
           B!InsertBooking(h, b, scheduled)
    PROVE  SearchInv'
<1>1. /\ h \in B!Calls /\ v5[h].at = "insert" /\ v2[b].status = "none"
      /\ UNCHANGED <<v1, v3, v4, v6, v7, v8, v9, v10>>
      /\ v2' = [v2 EXCEPT ![b].status = "pending", ![b].scheduled = scheduled, ![b].key = v5[h].key]
  <2>1. b \in {a \in Bookings : a >= b}
    BY BroadcastAssumption
  <2> QED BY <2>1 DEF B!InsertBooking, B!At, B!Calls
<1>2. PICK c \in SweepRow : /\ B!Goes(h, c) /\ c.key = v5[h].key /\ c.todo = v5[h].todo
                            /\ \/ c.at = "save" /\ c.b = v5[h].b
                               \/ c.at = "fan" /\ c.b = {b}
  <2>1. v5[h] \in SweepRow
    BY <1>1, SearchTyped
  <2>2. CASE scheduled
    <3> DEFINE c == [v5[h] EXCEPT !.at = "save"]
    <3>1. c \in SweepRow /\ c.key = v5[h].key /\ c.todo = v5[h].todo /\ c.at = "save" /\ c.b = v5[h].b
      BY <2>1 DEF SweepRow, B!Phases
    <3>2. B!Goes(h, c)
      BY <2>2 DEF B!InsertBooking
    <3> QED BY <3>1, <3>2
  <2>3. CASE ~scheduled
    <3>1. PICK ds \in SUBSET Crew : B!Goes(h, [v5[h] EXCEPT !.at = "fan", !.b = {b}, !.left = ds])
      BY <2>3 DEF B!InsertBooking
    <3> DEFINE c == [v5[h] EXCEPT !.at = "fan", !.b = {b}, !.left = ds]
    <3>2. c \in SweepRow /\ c.key = v5[h].key /\ c.todo = v5[h].todo /\ c.at = "fan" /\ c.b = {b}
      BY <2>1 DEF SweepRow, B!Phases
    <3> QED BY <3>1, <3>2
  <2> QED BY <2>2, <2>3
<1>3. /\ v2' \in [Bookings -> SearchRow] /\ \A a \in Bookings \ {b} : v2'[a] = v2[a]
      /\ v2'[b].status = "pending" /\ v2'[b].scheduled = scheduled /\ v2'[b].key = v5[h].key
      /\ v2'[b].marked = v2[b].marked
  <2>1. v2[b] \in SearchRow /\ v5[h].key \in Keys \union {NoKey}
    BY <1>1, SearchTyped DEF SweepRow
  <2> QED BY <1>1, <2>1, SearchTyped DEF SearchRow
<1>4. /\ v5'[h] = c /\ \A g \in B!Calls \ {h} : v5'[g] = v5[g]
      /\ v5' \in [B!Calls -> SweepRow] /\ \A g \in B!Calls : v5'[g] \in SweepRow
      /\ \A g \in B!Calls \ {h} : B!Held(g)' = B!Held(g) /\ \A p \in B!Phases : B!At(g, p)' <=> B!At(g, p)
      /\ B!Held(h)' = c.b \union c.todo
  BY <1>1, <1>2, OneGoes
<1>5. B!TypeOK'
  BY <1>1, <1>3, <1>4 DEF SearchInv, B!TypeOK, SweepRow, SearchRow, B!Calls
<1>6. /\ v5[h].b = {} /\ v5[h].todo = {} /\ ~v2[b].marked /\ b \notin v6 /\ v2[b].key = NoKey
      /\ (\A g \in B!Calls : b \notin B!Held(g)) /\ \A d \in Crew : v3[b][d] = 0
  BY <1>1 DEF SearchInv, CallsShaped, NotYetMade
<1>7. CallsShaped'
  BY <1>1, <1>2, <1>4, <1>6 DEF SearchInv, CallsShaped
<1>8. B!Held(h)' \subseteq {b} /\ B!Held(h) = {} /\ c.todo = {}
  BY <1>2, <1>4, <1>6 DEF B!Held
<1>9. NotYetMade'
  BY <1>1, <1>3, <1>4, <1>6, <1>8 DEF SearchInv, NotYetMade
<1>10. OneFanOut'
  <2>1. \A f, g \in B!Calls : f # g => (B!Held(f) \intersect B!Held(g) \subseteq v7)'
    BY <1>1, <1>4, <1>6, <1>8 DEF SearchInv, OneFanOut, Spare
  <2>2. \A g \in B!Calls : (v5[g].at \in {"fan", "again"} =>
            \A a \in v5[g].b \ v7, d \in v5[g].left :
                Spare(a, d) /\ (v5[g].at = "again" => v3[a][d] = 0))'
    <3>1. v5'[h].left \subseteq Crew
      BY <1>2, <1>4 DEF SweepRow
    <3> QED BY <1>1, <1>2, <1>4, <1>6, <3>1 DEF SearchInv, OneFanOut, Spare
  <2>3. \A g \in B!Calls : (B!At(g, "again") => v5[g].b \subseteq v6 \union v7 \union v10)'
    BY <1>1, <1>2, <1>4 DEF SearchInv, OneFanOut, Spare, B!At
  <2>4. \A g \in B!Calls : (\A a \in v5[g].todo \ v7 : a \notin v6 /\ \A d \in Crew : Spare(a, d))'
    BY <1>1, <1>4, <1>8 DEF SearchInv, OneFanOut, Spare
  <2>5. \A a \in v6' \ v7' : ~v2'[a].marked => \E g \in B!Calls : B!At(g, "mark")' /\ a \in v5'[g].b
    <3> SUFFICES ASSUME NEW a \in v6 \ v7, ~v2'[a].marked
                 PROVE  \E g \in B!Calls : v5'[g].at = "mark" /\ a \in v5'[g].b
      BY <1>1 DEF B!At
    <3>1. a # b /\ ~v2[a].marked
      BY <1>3, <1>6, SearchTyped
    <3>2. PICK g \in B!Calls : v5[g].at = "mark" /\ a \in v5[g].b
      BY <3>1 DEF SearchInv, OneFanOut, Spare, B!At
    <3> QED BY <1>1, <1>4, <3>2
  <2>6. (\A a \in Bookings \ (v6 \union v7) :
            (\A g \in B!Calls : B!At(g, "fan") => a \notin v5[g].b) => \A d \in Crew : Spare(a, d))'
    <3> SUFFICES ASSUME NEW a \in Bookings \ (v6 \union v7), NEW d \in Crew,
                        \A g \in B!Calls : v5'[g].at = "fan" => a \notin v5'[g].b
                 PROVE  Spare(a, d)
      BY <1>1 DEF B!At, Spare
    <3>1. \A g \in B!Calls : v5[g].at = "fan" => a \notin v5[g].b
      BY <1>1, <1>4
    <3> QED BY <3>1 DEF SearchInv, OneFanOut, Spare, B!At
  <2>7. B!OneLiveRequest'
    BY <1>1 DEF SearchInv, OneFanOut, Spare, B!OneLiveRequest
  <2> QED BY <2>1, <2>2, <2>3, <2>4, <2>5, <2>6, <2>7 DEF OneFanOut, Spare
<1>11. KeysKnown'
  <2> SUFFICES ASSUME NEW key \in Keys \ v8
               PROVE  /\ \A f, g \in B!Calls : v5'[f].key = key /\ v5'[g].key = key => f = g
                      /\ \A g \in B!Calls : v5'[g].key = key =>
                            /\ key \notin v4
                            /\ v5'[g].at = "insert" => \A a \in Bookings : v2'[a].key # key
                      /\ key \notin v4 /\ (\A g \in B!Calls : v5'[g].key # key)
                            => \A a \in Bookings : v2'[a].key # key
                      /\ \A a1, a2 \in Bookings : v2'[a1].key = key /\ v2'[a2].key = key => a1 = a2
    BY <1>1 DEF KeysKnown, B!At
  <2>1. /\ \A f, g \in B!Calls : v5[f].key = key /\ v5[g].key = key => f = g
        /\ \A g \in B!Calls : v5[g].key = key =>
              /\ key \notin v4
              /\ v5[g].at = "insert" => \A a \in Bookings : v2[a].key # key
        /\ key \notin v4 /\ (\A g \in B!Calls : v5[g].key # key) => \A a \in Bookings : v2[a].key # key
        /\ \A a1, a2 \in Bookings : v2[a1].key = key /\ v2[a2].key = key => a1 = a2
    BY DEF SearchInv, KeysKnown, B!At
  <2>2. \A g \in B!Calls : v5'[g].key = v5[g].key /\ (v5'[g].at = "insert" => g # h /\ v5[g].at = "insert")
    BY <1>1, <1>2, <1>4
  <2>3. CASE v5[h].key = key
    BY <1>1, <1>3, <2>1, <2>2, <2>3
  <2>4. CASE v5[h].key # key
    BY <1>1, <1>3, <2>1, <2>2, <2>4
  <2> QED BY <2>3, <2>4
<1> QED BY <1>5, <1>7, <1>9, <1>10, <1>11 DEF SearchInv

\* Steps that neither make a booking nor answer: the keys not given up are with the same calls.
LEMMA KeysStay ==
    ASSUME SearchInv, UNCHANGED v4, v8 \subseteq v8',
           \A b \in Bookings : v2'[b].key = v2[b].key,
           \A key \in Keys \ v8', g \in B!Calls :
              /\ v5'[g].key = key <=> v5[g].key = key
              /\ v5'[g].key = key /\ v5'[g].at = "insert" => v5[g].at = "insert"
    PROVE  KeysKnown'
BY DEF SearchInv, KeysKnown, B!At

\* What a call at work has of bookings, and what it says of them.
LEMMA CallHolds ==
    ASSUME SearchInv, NEW h \in B!Calls
    PROVE  /\ v5[h].b \subseteq B!Held(h) /\ v5[h].todo \subseteq B!Held(h) /\ B!Held(h) \subseteq Bookings
           /\ \A b \in B!Held(h) : v2[b].status # "none"
           /\ v5[h] \in SweepRow
<1>1. v5[h] \in SweepRow
  BY SearchTyped
<1>2. v5[h].b \subseteq B!Held(h) /\ v5[h].todo \subseteq B!Held(h) /\ B!Held(h) \subseteq Bookings
  BY <1>1 DEF B!Held, SweepRow
<1> QED BY <1>1, <1>2 DEF SearchInv, NotYetMade

LEMMA SearchSave ==
    ASSUME SearchInv, NEW h \in Clients, B!Save(h)
    PROVE  SearchInv'
<1>1. /\ h \in B!Calls /\ v5[h].at = "save" /\ B!Goes(h, B!NoCall)
      /\ UNCHANGED <<v1, v2, v3, v6, v7, v8, v9, v10>>
      /\ v4' = v4 \union ({v5[h].key} \ {NoKey})
  BY DEF B!Save, B!At, B!Calls
<1>2. B!NoCall \in SweepRow /\ B!NoCall.at = "none" /\ B!NoCall.key = NoKey /\ B!NoCall.b = {} /\ B!NoCall.todo = {}
  BY DEF B!NoCall, SweepRow, B!Phases
<1>3. /\ v5'[h] = B!NoCall /\ \A g \in B!Calls \ {h} : v5'[g] = v5[g]
      /\ v5' \in [B!Calls -> SweepRow]
      /\ \A g \in B!Calls \ {h} : B!Held(g)' = B!Held(g)
      /\ B!Held(h)' = B!NoCall.b \union B!NoCall.todo
  BY <1>1, <1>2, OneGoes
<1>4. v4' \subseteq Keys
  <2>1. v5[h] \in SweepRow
    BY <1>1, SearchTyped
  <2> QED BY <2>1, <1>1, SearchTyped DEF SweepRow
<1>5. B!TypeOK'
  BY <1>1, <1>3, <1>4 DEF SearchInv, B!TypeOK, SweepRow, B!Calls
<1>6. CallsShaped'
  BY <1>1, <1>2, <1>3 DEF SearchInv, CallsShaped
<1>7. \A g \in B!Calls : B!Held(g)' \subseteq B!Held(g)
  BY <1>2, <1>3
<1>8. NotYetMade'
  BY <1>1, <1>7 DEF SearchInv, NotYetMade
<1>9. \A g \in B!Calls, p \in {"fan", "again", "mark"} : B!At(g, p)' <=> B!At(g, p)
  BY <1>1, <1>2, <1>3 DEF B!At
<1>10. OneFanOut'
  <2>1. \A g \in B!Calls : /\ v5'[g].at \in {"fan", "again", "mark"} \/ v5'[g].todo # {} => v5'[g] = v5[g]
                           /\ v5[g].at \in {"fan", "again", "mark"} => v5'[g] = v5[g]
    BY <1>1, <1>2, <1>3
  <2>2. OneFanOut
    BY DEF SearchInv
  <2> QED BY <1>1, <1>7, <1>9, <2>1, <2>2 DEF OneFanOut, Spare, B!OneLiveRequest, B!At
<1>11. KeysKnown'
  <2> SUFFICES ASSUME NEW key \in Keys \ v8
               PROVE  /\ \A f, g \in B!Calls : v5'[f].key = key /\ v5'[g].key = key => f = g
                      /\ \A g \in B!Calls : v5'[g].key = key =>
                            /\ key \notin v4'
                            /\ v5'[g].at = "insert" => \A a \in Bookings : v2[a].key # key
                      /\ key \notin v4' /\ (\A g \in B!Calls : v5'[g].key # key)
                            => \A a \in Bookings : v2[a].key # key
                      /\ \A a1, a2 \in Bookings : v2[a1].key = key /\ v2[a2].key = key => a1 = a2
    BY <1>1 DEF KeysKnown, B!At
  <2>1. /\ \A f, g \in B!Calls : v5[f].key = key /\ v5[g].key = key => f = g
        /\ \A g \in B!Calls : v5[g].key = key =>
              /\ key \notin v4
              /\ v5[g].at = "insert" => \A a \in Bookings : v2[a].key # key
        /\ key \notin v4 /\ (\A g \in B!Calls : v5[g].key # key) => \A a \in Bookings : v2[a].key # key
        /\ \A a1, a2 \in Bookings : v2[a1].key = key /\ v2[a2].key = key => a1 = a2
    BY DEF SearchInv, KeysKnown, B!At
  <2>2. key # NoKey /\ v5'[h].key # key
    BY <1>2, <1>3, BroadcastAssumption
  <2>3. CASE v5[h].key = key
    BY <1>1, <1>3, <2>1, <2>2, <2>3
  <2>4. CASE v5[h].key # key
    BY <1>1, <1>3, <2>1, <2>2, <2>4
  <2> QED BY <2>3, <2>4
<1> QED BY <1>5, <1>6, <1>8, <1>10, <1>11 DEF SearchInv

LEMMA SearchAsk ==
    ASSUME SearchInv, NEW h \in B!Calls, NEW d \in Crew, B!InsertRequest(h, d) \/ B!FailRequest(h, d)
    PROVE  SearchInv'
<1>1. PICK c \in SweepRow : /\ B!Goes(h, c) /\ c.at = v5[h].at /\ c.key = v5[h].key /\ c.b = v5[h].b
                            /\ c.left = v5[h].left \ {d} /\ c.todo = v5[h].todo
  <2>1. v5[h] \in SweepRow
    BY SearchTyped
  <2>2. CASE B!InsertRequest(h, d)
    <3> DEFINE c == [v5[h] EXCEPT !.left = @ \ {d}]
    <3>1. /\ c \in SweepRow /\ c.at = v5[h].at /\ c.key = v5[h].key /\ c.b = v5[h].b
          /\ c.left = v5[h].left \ {d} /\ c.todo = v5[h].todo
      BY <2>1 DEF SweepRow
    <3>2. B!Goes(h, c)
      BY <2>2 DEF B!InsertRequest
    <3> QED BY <3>1, <3>2
  <2>3. CASE B!FailRequest(h, d)
    <3> DEFINE t == v5[h].threw \/ \E b \in v5[h].b : v2[b].mode = "brokers"
               c == [v5[h] EXCEPT !.left = @ \ {d}, !.threw = t]
    <3>1. t \in BOOLEAN
      OBVIOUS
    <3>2. B!Goes(h, c)
      BY <2>3 DEF B!FailRequest
    <3> HIDE DEF t
    <3>3. /\ c \in SweepRow /\ c.at = v5[h].at /\ c.key = v5[h].key /\ c.b = v5[h].b
          /\ c.left = v5[h].left \ {d} /\ c.todo = v5[h].todo
      BY <2>1, <3>1 DEF SweepRow
    <3> QED BY <3>2, <3>3
  <2> QED BY <2>2, <2>3
<1>2. /\ v5'[h] = c /\ \A g \in B!Calls \ {h} : v5'[g] = v5[g]
      /\ v5' \in [B!Calls -> SweepRow]
      /\ \A g \in B!Calls \ {h} : B!Held(g)' = B!Held(g)
      /\ B!Held(h)' = c.b \union c.todo
  BY <1>1, OneGoes
<1>3. UNCHANGED <<v1, v2, v4, v6, v7, v8, v9, v10>> /\ v5[h].at \in {"fan", "again"} /\ d \in v5[h].left
  BY DEF B!InsertRequest, B!FailRequest
<1>4. PICK b \in Bookings : v5[h].b = {b}
  BY <1>3 DEF SearchInv, CallsShaped
<1>5. /\ v3' \in [Bookings -> [Crew -> 0..MaxLive]]
      /\ \A a \in Bookings, e \in Crew : v3'[a][e] = v3[a][e]
                                         \/ (a = b /\ e = d /\ v3'[a][e] = v3[a][e] + 1)
  <2>1. CASE B!InsertRequest(h, d)
    <3>1. v3[b][d] < MaxLive /\ v3' = [v3 EXCEPT ![b][d] = @ + 1]
      BY <1>4, <2>1 DEF B!InsertRequest
    <3>2. v3[b][d] \in 0..MaxLive /\ v3[b] \in [Crew -> 0..MaxLive]
      BY SearchTyped
    <3>3. v3[b][d] + 1 \in 0..MaxLive
      BY <3>1, <3>2, BroadcastAssumption
    <3> QED BY <3>1, <3>2, <3>3, SearchTyped
  <2>2. CASE B!FailRequest(h, d)
    BY <2>2, SearchTyped DEF B!FailRequest
  <2> QED BY <2>1, <2>2
<1>6. \A g \in B!Calls : /\ B!Held(g)' = B!Held(g) /\ v5'[g].at = v5[g].at /\ v5'[g].key = v5[g].key
                         /\ v5'[g].b = v5[g].b /\ v5'[g].todo = v5[g].todo /\ v5'[g].left \subseteq v5[g].left
  BY <1>1, <1>2 DEF B!Held
<1>7. B!TypeOK'
  BY <1>2, <1>3, <1>5 DEF SearchInv, B!TypeOK, SweepRow, B!Calls
<1>8. CallsShaped'
  BY <1>3, <1>6 DEF SearchInv, CallsShaped
<1>9. b \in B!Held(h) /\ v2[b].status # "none" /\ v5[h].b = {b} /\ b \notin v5[h].todo
  BY <1>4, CallHolds DEF SearchInv, CallsShaped
<1>10. NotYetMade'
  BY <1>3, <1>5, <1>6, <1>9 DEF SearchInv, NotYetMade
<1>11. OneFanOut'
  <2>1. OneFanOut
    BY DEF SearchInv
  <2>2. b \notin v7 => \A g \in B!Calls \ {h} : b \notin B!Held(g)
    BY <1>9, <2>1 DEF OneFanOut, Spare
  <2>3. b \notin v7 => Spare(b, d) /\ (v5[h].at = "again" => v3[b][d] = 0 /\ (b \in v6 \/ b \in v10))
    BY <1>3, <1>4, <2>1 DEF OneFanOut, B!At
  <2>4. \A f, g \in B!Calls : f # g => (B!Held(f) \intersect B!Held(g) \subseteq v7)'
    BY <1>3, <1>6, <2>1 DEF OneFanOut, Spare
  <2>5. \A g \in B!Calls : v5'[g].at \in {"fan", "again"} =>
            \A a \in v5'[g].b \ v7', e \in v5'[g].left :
                Spare(a, e)' /\ (v5'[g].at = "again" => v3'[a][e] = 0)
    <3> SUFFICES ASSUME NEW g \in B!Calls, v5[g].at \in {"fan", "again"}, NEW a \in v5[g].b \ v7,
                        NEW e \in v5'[g].left
                 PROVE  Spare(a, e)' /\ (v5[g].at = "again" => v3'[a][e] = 0)
      BY <1>3, <1>6
    <3>1. a \in Bookings /\ a \in B!Held(g) /\ e \in v5[g].left /\ e \in Crew
      BY <1>6, CallHolds DEF SweepRow
    <3>2. Spare(a, e) /\ (v5[g].at = "again" => v3[a][e] = 0)
      BY <2>1, <3>1 DEF OneFanOut
    <3>3. a = b => g = h
      BY <2>2, <3>1
    <3>4. g = h => e # d
      BY <1>1, <1>2
    <3> QED BY <1>3, <1>5, <3>1, <3>2, <3>3, <3>4 DEF Spare
  <2>6. \A g \in B!Calls : (B!At(g, "again") => v5[g].b \subseteq v6 \union v7 \union v10)'
    BY <1>3, <1>6, <2>1 DEF OneFanOut, Spare, B!At
  <2>7. \A g \in B!Calls : \A a \in v5'[g].todo \ v7' : a \notin v6' /\ \A e \in Crew : Spare(a, e)'
    <3> SUFFICES ASSUME NEW g \in B!Calls, NEW a \in v5[g].todo \ v7, NEW e \in Crew
                 PROVE  a \notin v6 /\ Spare(a, e)'
      BY <1>3, <1>6
    <3>1. a \in Bookings /\ a \in B!Held(g) /\ a \notin v6 /\ Spare(a, e)
      BY <2>1, CallHolds DEF OneFanOut
    <3>2. a # b
      BY <1>9, <2>2, <3>1
    <3> QED BY <1>3, <1>5, <3>1, <3>2 DEF Spare
  <2>8. \A a \in v6' \ v7' : ~v2'[a].marked => \E g \in B!Calls : B!At(g, "mark")' /\ a \in v5'[g].b
    BY <1>3, <1>6, <2>1 DEF OneFanOut, Spare, B!At
  <2>9. \A a \in Bookings \ (v6' \union v7') :
            (\A g \in B!Calls : B!At(g, "fan")' => a \notin v5'[g].b) => \A e \in Crew : Spare(a, e)'
    <3> SUFFICES ASSUME NEW a \in Bookings \ (v6 \union v7), NEW e \in Crew,
                        \A g \in B!Calls : B!At(g, "fan") => a \notin v5[g].b
                 PROVE  Spare(a, e)'
      BY <1>3, <1>6 DEF B!At
    <3>1. Spare(a, e)
      BY <2>1 DEF OneFanOut
    <3>2. a = b => v5[h].at = "again"
      BY <1>3, <1>4 DEF B!At
    <3>3. CASE a = b /\ e = d
      <4>1. v3[b][d] = 0 /\ b \in v10
        BY <2>3, <3>2, <3>3
      <4>2. v3'[b][d] = 0 \/ v3'[b][d] = 1
        BY <1>5, <4>1
      <4> QED BY <1>3, <3>3, <4>1, <4>2 DEF Spare
    <3>4. CASE ~(a = b /\ e = d)
      BY <1>3, <1>5, <3>1, <3>4 DEF Spare
    <3> QED BY <3>3, <3>4
  <2>10. B!OneLiveRequest'
    <3> SUFFICES ASSUME NEW a \in Bookings \ v7, NEW e \in Crew
                 PROVE  v3'[a][e] <= IF a \in v10 THEN 2 ELSE 1
      BY <1>3 DEF B!OneLiveRequest
    <3>1. v3[a][e] <= IF a \in v10 THEN 2 ELSE 1
      BY <2>1 DEF OneFanOut, B!OneLiveRequest
    <3> QED BY <1>5, <2>3, <3>1 DEF Spare
  <2> QED BY <2>4, <2>5, <2>6, <2>7, <2>8, <2>9, <2>10 DEF OneFanOut, Spare
<1>12. KeysKnown'
  BY <1>3, <1>6, KeysStay
<1> QED BY <1>7, <1>8, <1>10, <1>11, <1>12 DEF SearchInv

LEMMA SearchFanEnds ==
    ASSUME SearchInv, NEW h \in B!Calls, B!FanEnds(h)
    PROVE  SearchInv'
<1>1. /\ v5[h].at \in {"fan", "again"} /\ UNCHANGED <<v1, v2, v3, v4, v9, v10>>
      /\ v5[h] \in SweepRow /\ (v5[h].at = "again" => v5[h].key = NoKey /\ v5[h].todo = {})
      /\ v5[h].b \subseteq Bookings
  BY SearchTyped DEF B!FanEnds, SearchInv, CallsShaped, SweepRow
<1>2. PICK c \in SweepRow :
         /\ B!Goes(h, c)
         /\ \/ c = B!NoCall /\ (v5[h].at = "fan" => v5[h].b \subseteq v7')
               /\ v7' \subseteq v7 \union v5[h].b /\ UNCHANGED v6
               /\ \A key \in Keys \ v8' : v5[h].key # key
            \/ /\ c.at = "mark" /\ c.b = v5[h].b /\ c.todo = v5[h].todo /\ c.key = v5[h].key
               /\ v5[h].at = "fan" /\ v6' = v6 \union v5[h].b /\ UNCHANGED v7
         /\ v7 \subseteq v7' /\ v8 \subseteq v8' /\ v7' \subseteq Bookings /\ v8' \subseteq Keys
  <2>1. B!NoCall \in SweepRow
    BY DEF B!NoCall, SweepRow, B!Phases
  <2>2. CASE v5[h].threw
    <3>1. B!Goes(h, B!NoCall) /\ v7' = v7 \union v5[h].b /\ v8' = v8 \union B!Unanswered(h) /\ v6' = v6
      BY <2>2 DEF B!FanEnds
    <3>2. B!Unanswered(h) \subseteq Keys /\ \A key \in Keys : v5[h].key = key => key \in B!Unanswered(h)
      BY <1>1, BroadcastAssumption DEF B!Unanswered, SweepRow
    <3>3. v7' \subseteq Bookings /\ v8' \subseteq Keys
      BY <1>1, <3>1, <3>2, SearchTyped
    <3> QED BY <2>1, <3>1, <3>2, <3>3
  <2>3. CASE ~v5[h].threw /\ v5[h].at = "again"
    <3>1. B!Goes(h, B!NoCall) /\ v6' = v6 /\ v7' = v7 /\ v8' = v8
      BY <2>3 DEF B!FanEnds, B!At
    <3>3. \A key \in Keys : v5[h].key # key
      BY <1>1, <2>3, BroadcastAssumption
    <3> QED BY <2>1, <2>3, <3>1, <3>3, SearchTyped
  <2>4. CASE ~v5[h].threw /\ v5[h].at # "again"
    <3> DEFINE c == [v5[h] EXCEPT !.at = "mark"]
    <3>1. B!Goes(h, c) /\ v6' = v6 \union v5[h].b /\ v7' = v7 /\ v8' = v8 /\ v5[h].at = "fan"
      BY <1>1, <2>4 DEF B!FanEnds, B!At
    <3>2. c \in SweepRow /\ c.at = "mark" /\ c.b = v5[h].b /\ c.todo = v5[h].todo /\ c.key = v5[h].key
      BY <1>1 DEF SweepRow, B!Phases
    <3> HIDE DEF c
    <3> QED BY <3>1, <3>2, SearchTyped
  <2> QED BY <2>2, <2>3, <2>4
<1>3. /\ v5'[h] = c /\ \A g \in B!Calls \ {h} : v5'[g] = v5[g]
      /\ v5' \in [B!Calls -> SweepRow]
      /\ \A g \in B!Calls \ {h} : B!Held(g)' = B!Held(g)
      /\ B!Held(h)' = c.b \union c.todo
  BY <1>2, OneGoes
<1>4. B!NoCall.at = "none" /\ B!NoCall.key = NoKey /\ B!NoCall.b = {} /\ B!NoCall.todo = {}
  BY DEF B!NoCall
<1>5. v6 \subseteq v6' /\ v6' \subseteq v6 \union v5[h].b /\ v6' \subseteq Bookings
  BY <1>1, <1>2, SearchTyped
<1>6. B!TypeOK'
  BY <1>1, <1>2, <1>3, <1>5 DEF SearchInv, B!TypeOK, SweepRow, B!Calls
<1>7. CallsShaped'
  <2>1. CallsShaped
    BY DEF SearchInv
  <2> QED BY <1>1, <1>2, <1>3, <1>4, <1>5, <2>1 DEF CallsShaped
<1>8. \A g \in B!Calls : B!Held(g)' \subseteq B!Held(g)
  BY <1>2, <1>3, <1>4 DEF B!Held
<1>9. \A b \in v5[h].b : v2[b].status # "none" /\ b \in B!Held(h)
  BY CallHolds
<1>10. NotYetMade'
  BY <1>1, <1>5, <1>8, <1>9 DEF SearchInv, NotYetMade
<1>11. OneFanOut'
  <2>1. OneFanOut
    BY DEF SearchInv
  <2>2. \A g \in B!Calls \ {h} : v5'[g] = v5[g]
    BY <1>3
  <2>3. v5'[h].at \notin {"fan", "again"} /\ v5'[h].todo \subseteq v5[h].todo
        /\ (v5[h].at = "fan" => v5[h].b \subseteq v6' \union v7')
        /\ (v5'[h].at = "mark" => v5'[h].b = v5[h].b)
    BY <1>2, <1>3, <1>4
  <2>4. \A f, g \in B!Calls : f # g => (B!Held(f) \intersect B!Held(g) \subseteq v7)'
    BY <1>2, <1>8, <2>1 DEF OneFanOut, Spare
  <2>5. \A g \in B!Calls : v5'[g].at \in {"fan", "again"} =>
            \A a \in v5'[g].b \ v7', e \in v5'[g].left :
                Spare(a, e)' /\ (v5'[g].at = "again" => v3'[a][e] = 0)
    <3> SUFFICES ASSUME NEW g \in B!Calls, v5'[g].at \in {"fan", "again"},
                        NEW a \in v5'[g].b \ v7', NEW e \in v5'[g].left
                 PROVE  Spare(a, e) /\ (v5'[g].at = "again" => v3[a][e] = 0)
      BY <1>1 DEF Spare
    <3>1. g # h /\ v5'[g] = v5[g]
      BY <2>2, <2>3
    <3>2. a \in v5[g].b \ v7
      BY <1>2, <3>1
    <3> QED BY <2>1, <3>1, <3>2 DEF OneFanOut
  <2>6. \A g \in B!Calls : (B!At(g, "again") => v5[g].b \subseteq v6 \union v7 \union v10)'
    <3>1. \A g \in B!Calls : v5[g].at = "again" => v5[g].b \subseteq v6 \union v7 \union v10
      BY <2>1 DEF OneFanOut, B!At
    <3> QED BY <1>1, <1>2, <1>5, <2>2, <2>3, <3>1 DEF B!At
  <2>7. \A g \in B!Calls : \A a \in v5'[g].todo \ v7' : a \notin v6' /\ \A e \in Crew : Spare(a, e)'
    <3> SUFFICES ASSUME NEW g \in B!Calls, NEW a \in v5'[g].todo \ v7'
                 PROVE  a \notin v6' /\ \A e \in Crew : Spare(a, e)'
      OBVIOUS
    <3>1. a \in v5[g].todo \ v7 /\ a \in B!Held(g)
      BY <1>2, <2>2, <2>3, CallHolds
    <3>2. a \notin v6 /\ \A e \in Crew : Spare(a, e)
      BY <2>1, <3>1 DEF OneFanOut
    <3>3. a \notin v5[h].b
      <4>1. CASE g = h
        BY <3>1, <4>1 DEF SearchInv, CallsShaped
      <4>2. CASE g # h
        BY <1>9, <2>1, <3>1, <4>2 DEF OneFanOut, Spare
      <4> QED BY <4>1, <4>2
    <3> QED BY <1>1, <1>5, <3>2, <3>3 DEF Spare
  <2>8. \A a \in v6' \ v7' : ~v2'[a].marked => \E g \in B!Calls : B!At(g, "mark")' /\ a \in v5'[g].b
    <3> SUFFICES ASSUME NEW a \in v6' \ v7', ~v2[a].marked
                 PROVE  \E g \in B!Calls : v5'[g].at = "mark" /\ a \in v5'[g].b
      BY <1>1 DEF B!At
    <3>1. CASE a \in v6
      <4>1. PICK g \in B!Calls : v5[g].at = "mark" /\ a \in v5[g].b
        BY <1>2, <2>1, <3>1 DEF OneFanOut, Spare, B!At
      <4> QED BY <1>1, <2>2, <4>1
    <3>2. CASE a \notin v6
      BY <1>2, <1>3, <3>2
    <3> QED BY <3>1, <3>2
  <2>9. \A a \in Bookings \ (v6' \union v7') :
            (\A g \in B!Calls : B!At(g, "fan")' => a \notin v5'[g].b) => \A e \in Crew : Spare(a, e)'
    <3> SUFFICES ASSUME NEW a \in Bookings \ (v6' \union v7'), NEW e \in Crew,
                        \A g \in B!Calls : v5'[g].at = "fan" => a \notin v5'[g].b
                 PROVE  Spare(a, e)
      BY <1>1 DEF B!At, Spare
    <3>1. v5[h].at = "fan" => a \notin v5[h].b
      BY <2>3
    <3>2. \A g \in B!Calls : v5[g].at = "fan" => a \notin v5[g].b
      BY <2>2, <3>1
    <3> QED BY <1>2, <1>5, <2>1, <3>2 DEF OneFanOut, Spare, B!At
  <2>10. B!OneLiveRequest'
    BY <1>1, <1>2, <2>1 DEF OneFanOut, Spare, B!OneLiveRequest
  <2> QED BY <2>4, <2>5, <2>6, <2>7, <2>8, <2>9, <2>10 DEF OneFanOut, Spare
<1>12. KeysKnown'
  <2>1. \A key \in Keys \ v8', g \in B!Calls :
              /\ v5'[g].key = key <=> v5[g].key = key
              /\ v5'[g].key = key /\ v5'[g].at = "insert" => v5[g].at = "insert"
    BY <1>1, <1>2, <1>3, <1>4, BroadcastAssumption
  <2> QED BY <1>1, <1>2, <2>1, KeysStay
<1> QED BY <1>6, <1>7, <1>10, <1>11, <1>12 DEF SearchInv

LEMMA SearchMark ==
    ASSUME SearchInv, NEW h \in B!Calls, B!Mark(h)
    PROVE  SearchInv'
<1>1. /\ v5[h].at = "mark" /\ UNCHANGED <<v1, v3, v4, v6, v7, v8, v9, v10>>
      /\ v5[h] \in SweepRow /\ v5[h].b \subseteq v6
      /\ v2' = [b \in Bookings |-> IF b \in v5[h].b THEN [v2[b] EXCEPT !.marked = TRUE] ELSE v2[b]]
  BY SearchTyped DEF B!Mark, SearchInv, CallsShaped, B!At
<1>2. PICK c \in SweepRow :
         /\ B!Goes(h, c) /\ c.b = {} /\ c.key = v5[h].key /\ c.todo = v5[h].todo
         /\ \/ h \in Clients /\ c.at = "save"
            \/ h \in Sweeps /\ c.at = "next"
            \/ h \in Sweeps /\ c.at = "none" /\ c.todo = {}
  <2>1. B!NoCall \in SweepRow /\ B!NoCall.at = "none" /\ B!NoCall.key = NoKey /\ B!NoCall.b = {} /\ B!NoCall.todo = {}
    BY DEF B!NoCall, SweepRow, B!Phases
  <2>2. CASE h \in Clients
    <3> DEFINE c == [v5[h] EXCEPT !.at = "save", !.b = {}]
    <3>1. c \in SweepRow /\ c.b = {} /\ c.key = v5[h].key /\ c.todo = v5[h].todo /\ c.at = "save"
      BY <1>1 DEF SweepRow, B!Phases
    <3>2. B!Goes(h, c)
      BY <2>2 DEF B!Mark
    <3> QED BY <2>2, <3>1, <3>2
  <2>3. CASE h \notin Clients /\ v5[h].todo # {}
    <3> DEFINE c == [v5[h] EXCEPT !.at = "next", !.b = {}]
    <3>1. c \in SweepRow /\ c.b = {} /\ c.key = v5[h].key /\ c.todo = v5[h].todo /\ c.at = "next"
      BY <1>1 DEF SweepRow, B!Phases
    <3>2. B!Goes(h, c)
      BY <2>3 DEF B!Mark
    <3> QED BY <2>3, <3>1, <3>2 DEF B!Calls
  <2>4. CASE h \notin Clients /\ v5[h].todo = {}
    <3>1. B!Goes(h, B!NoCall)
      BY <2>4 DEF B!Mark
    <3>2. h \in Sweeps /\ v5[h].key = NoKey
      BY <2>4 DEF B!Calls, SearchInv, CallsShaped
    <3> QED BY <2>1, <2>4, <3>1, <3>2
  <2> QED BY <2>2, <2>3, <2>4
<1>3. /\ v5'[h] = c /\ \A g \in B!Calls \ {h} : v5'[g] = v5[g]
      /\ v5' \in [B!Calls -> SweepRow]
      /\ \A g \in B!Calls \ {h} : B!Held(g)' = B!Held(g)
      /\ B!Held(h)' = c.b \union c.todo
  BY <1>2, OneGoes
<1>4. \A b \in Bookings : /\ v2'[b] \in SearchRow /\ v2'[b].status = v2[b].status
                          /\ v2'[b].scheduled = v2[b].scheduled /\ v2'[b].key = v2[b].key
                          /\ v2'[b].marked <=> v2[b].marked \/ b \in v5[h].b
  <2> SUFFICES ASSUME NEW b \in Bookings
               PROVE  /\ v2'[b] \in SearchRow /\ v2'[b].status = v2[b].status
                      /\ v2'[b].scheduled = v2[b].scheduled /\ v2'[b].key = v2[b].key
                      /\ v2'[b].marked <=> v2[b].marked \/ b \in v5[h].b
    OBVIOUS
  <2>1. v2[b] \in SearchRow
    BY SearchTyped
  <2>2. CASE b \in v5[h].b
    BY <1>1, <2>1, <2>2 DEF SearchRow
  <2>3. CASE b \notin v5[h].b
    BY <1>1, <2>1, <2>3
  <2> QED BY <2>2, <2>3
<1>5. v2' \in [Bookings -> SearchRow]
  BY <1>1, <1>4
<1>6. B!TypeOK'
  BY <1>1, <1>3, <1>5 DEF SearchInv, B!TypeOK, SweepRow, SearchRow, B!Calls
<1>7. CallsShaped'
  <2>1. CallsShaped
    BY DEF SearchInv
  <2>2. h \in Sweeps => v5[h].key = NoKey
    BY <2>1 DEF CallsShaped
  <2>3. h \in Clients => v5[h].todo = {}
    BY <2>1 DEF CallsShaped
  <2>4. c.at = "none" => c.todo = {} /\ c.key = NoKey
    BY <1>2, <2>2
  <2> QED BY <1>1, <1>2, <1>3, <2>1, <2>2, <2>3, <2>4, BroadcastAssumption DEF CallsShaped
<1>8. \A g \in B!Calls : B!Held(g)' \subseteq B!Held(g)
  BY <1>2, <1>3 DEF B!Held
<1>9. NotYetMade'
  <2>1. \A b \in v5[h].b : v2[b].status # "none"
    BY CallHolds
  <2> QED BY <1>1, <1>4, <1>8, <2>1 DEF SearchInv, NotYetMade
<1>10. OneFanOut'
  <2>1. OneFanOut
    BY DEF SearchInv
  <2>2. \A g \in B!Calls : v5'[g].at \in {"fan", "again", "mark"} => g # h /\ v5'[g] = v5[g]
    BY <1>2, <1>3
  <2>3. \A g \in B!Calls : v5[g].at \in {"fan", "again", "mark"} => g = h \/ v5'[g] = v5[g]
    BY <1>3
  <2>4. \A g \in B!Calls : v5'[g].todo = v5[g].todo
    BY <1>2, <1>3
  <2>5. \A f, g \in B!Calls : f # g => (B!Held(f) \intersect B!Held(g) \subseteq v7)'
    BY <1>1, <1>8, <2>1 DEF OneFanOut, Spare
  <2>6. \A a \in v6' \ v7' : ~v2'[a].marked => \E g \in B!Calls : B!At(g, "mark")' /\ a \in v5'[g].b
    <3> SUFFICES ASSUME NEW a \in v6 \ v7, ~v2'[a].marked
                 PROVE  \E g \in B!Calls : v5'[g].at = "mark" /\ a \in v5'[g].b
      BY <1>1 DEF B!At
    <3>1. ~v2[a].marked /\ a \notin v5[h].b
      BY <1>4, SearchTyped
    <3>2. PICK g \in B!Calls : v5[g].at = "mark" /\ a \in v5[g].b
      BY <2>1, <3>1 DEF OneFanOut, Spare, B!At
    <3> QED BY <2>3, <3>1, <3>2
  <2>7. \A a \in Bookings \ (v6' \union v7') :
            (\A g \in B!Calls : B!At(g, "fan")' => a \notin v5'[g].b) => \A e \in Crew : Spare(a, e)'
    <3> SUFFICES ASSUME NEW a \in Bookings \ (v6 \union v7), NEW e \in Crew,
                        \A g \in B!Calls : v5'[g].at = "fan" => a \notin v5'[g].b
                 PROVE  Spare(a, e)
      BY <1>1 DEF B!At, Spare
    <3>1. \A g \in B!Calls : v5[g].at = "fan" => a \notin v5[g].b
      BY <1>1, <2>3
    <3> QED BY <2>1, <3>1 DEF OneFanOut, Spare, B!At
  <2>8. \A g \in B!Calls : v5'[g].at \in {"fan", "again"} =>
            \A a \in v5'[g].b \ v7', e \in v5'[g].left :
                Spare(a, e)' /\ (v5'[g].at = "again" => v3'[a][e] = 0)
    BY <1>1, <2>1, <2>2 DEF OneFanOut, Spare
  <2>9. \A g \in B!Calls : (B!At(g, "again") => v5[g].b \subseteq v6 \union v7 \union v10)'
    BY <1>1, <2>1, <2>2 DEF OneFanOut, Spare, B!At
  <2>10. \A g \in B!Calls : \A a \in v5'[g].todo \ v7' : a \notin v6' /\ \A e \in Crew : Spare(a, e)'
    BY <1>1, <2>1, <2>4 DEF OneFanOut, Spare
  <2>11. B!OneLiveRequest'
    BY <1>1, <2>1 DEF OneFanOut, Spare, B!OneLiveRequest
  <2> QED BY <2>5, <2>6, <2>7, <2>8, <2>9, <2>10, <2>11 DEF OneFanOut, Spare
<1>11. KeysKnown'
  BY <1>1, <1>2, <1>3, <1>4, KeysStay
<1> QED BY <1>6, <1>7, <1>9, <1>10, <1>11 DEF SearchInv

\* What a call that has just been taken up, or taken on to its next booking, must show.
LEMMA TakenUp ==
    ASSUME SearchInv, NEW h \in B!Calls, NEW c \in SweepRow, B!Goes(h, c),
           UNCHANGED <<v1, v2, v3, v4, v6, v8, v9>>,
           v7 \subseteq v7', v7' \subseteq Bookings, v10 \subseteq v10', v10' \subseteq Bookings,
           c.key = NoKey, v5[h].key = NoKey, v5[h].b = {}, c.b \intersect c.todo = {},
           \/ h \in Sweeps /\ c.at = "fan" /\ \E b \in Bookings : c.b = {b}
           \/ h \in Sweeps /\ c.at = "next" /\ c.b = {}
           \/ h \in Clients /\ c.at = "again" /\ c.todo = {} /\ \E b \in Bookings : c.b = {b}
           \/ h \in Clients /\ c.at = "ask" /\ c.todo = {} /\ c.b = {},
           \A b \in c.b \union c.todo : v2[b].status # "none",
           \A b \in (c.b \union c.todo) \ v7' : \A g \in B!Calls \ {h} : b \notin B!Held(g),
           \A b \in c.b \ v7', d \in c.left : Spare(b, d) /\ (c.at = "again" => v3[b][d] = 0),
           c.at = "again" => c.b \subseteq v6 \union v7' \union v10',
           \A b \in c.todo \ v7' : b \notin v6 /\ \A d \in Crew : Spare(b, d)
    PROVE  SearchInv'
<1>1. /\ v5'[h] = c /\ \A g \in B!Calls \ {h} : v5'[g] = v5[g]
      /\ v5' \in [B!Calls -> SweepRow]
      /\ \A g \in B!Calls \ {h} : B!Held(g)' = B!Held(g)
      /\ B!Held(h)' = c.b \union c.todo
  BY OneGoes
<1>2. B!TypeOK'
  BY <1>1 DEF SearchInv, B!TypeOK, SweepRow, B!Calls
<1>3. CallsShaped'
  <2>1. CallsShaped
    BY DEF SearchInv
  <2> QED BY <1>1, <2>1, BroadcastAssumption DEF CallsShaped
<1>4. NotYetMade'
  BY <1>1 DEF SearchInv, NotYetMade
<1>5. OneFanOut'
  <2>1. OneFanOut
    BY DEF SearchInv
  <2>2. v5[h].at # "fan" /\ v5[h].at # "mark"
    BY DEF SearchInv, CallsShaped
  <2>3. \A f, g \in B!Calls : f # g => (B!Held(f) \intersect B!Held(g) \subseteq v7)'
    BY <1>1, <2>1 DEF OneFanOut, Spare
  <2>4. \A g \in B!Calls : v5'[g].at \in {"fan", "again"} =>
            \A a \in v5'[g].b \ v7', e \in v5'[g].left :
                Spare(a, e)' /\ (v5'[g].at = "again" => v3'[a][e] = 0)
    BY <1>1, <2>1 DEF OneFanOut, Spare
  <2>5. \A g \in B!Calls : (B!At(g, "again") => v5[g].b \subseteq v6 \union v7 \union v10)'
    BY <1>1, <2>1 DEF OneFanOut, Spare, B!At
  <2>6. \A g \in B!Calls : \A a \in v5'[g].todo \ v7' : a \notin v6' /\ \A e \in Crew : Spare(a, e)'
    BY <1>1, <2>1 DEF OneFanOut, Spare
  <2>7. \A a \in v6' \ v7' : ~v2'[a].marked => \E g \in B!Calls : B!At(g, "mark")' /\ a \in v5'[g].b
    <3> SUFFICES ASSUME NEW a \in v6 \ v7', ~v2[a].marked
                 PROVE  \E g \in B!Calls : v5'[g].at = "mark" /\ a \in v5'[g].b
      BY DEF B!At
    <3>1. PICK g \in B!Calls : v5[g].at = "mark" /\ a \in v5[g].b
      BY <2>1 DEF OneFanOut, Spare, B!At
    <3> QED BY <1>1, <2>2, <3>1
  <2>8. \A a \in Bookings \ (v6' \union v7') :
            (\A g \in B!Calls : B!At(g, "fan")' => a \notin v5'[g].b) => \A e \in Crew : Spare(a, e)'
    <3> SUFFICES ASSUME NEW a \in Bookings \ (v6 \union v7'), NEW e \in Crew,
                        \A g \in B!Calls : v5'[g].at = "fan" => a \notin v5'[g].b
                 PROVE  Spare(a, e)'
      BY DEF B!At
    <3>1. \A g \in B!Calls : v5[g].at = "fan" => a \notin v5[g].b
      BY <1>1, <2>2
    <3> QED BY <2>1, <3>1 DEF OneFanOut, Spare, B!At
  <2>9. B!OneLiveRequest'
    <3> SUFFICES ASSUME NEW a \in Bookings \ v7', NEW e \in Crew
                 PROVE  v3[a][e] <= IF a \in v10' THEN 2 ELSE 1
      BY DEF B!OneLiveRequest
    <3>1. v3[a][e] <= (IF a \in v10 THEN 2 ELSE 1) /\ v3[a][e] \in 0..MaxLive
      BY <2>1, SearchTyped DEF OneFanOut, B!OneLiveRequest
    <3> QED BY <3>1, BroadcastAssumption
  <2> QED BY <2>3, <2>4, <2>5, <2>6, <2>7, <2>8, <2>9 DEF OneFanOut, Spare
<1>6. KeysKnown'
  <2>1. \A key \in Keys, g \in B!Calls :
              /\ v5'[g].key = key <=> v5[g].key = key
              /\ v5'[g].key = key /\ v5'[g].at = "insert" => v5[g].at = "insert"
    BY <1>1, BroadcastAssumption
  <2> QED BY <2>1, KeysStay
<1> QED BY <1>2, <1>3, <1>4, <1>5, <1>6 DEF SearchInv

\* What is due: a booking made, not marked and, unless a broadcast of it went wrong or is with
\* another call, not sent and without live requests.
LEMMA WhatIsDue ==
    ASSUME SearchInv, NEW h \in B!Calls, B!Free(h), NEW b \in B!Due, b \notin v7, b \notin B!Busy(h)
    PROVE  b \notin v6 /\ \A d \in Crew : Spare(b, d)
<1>1. b \in Bookings /\ ~v2[b].marked /\ v2[b].status = "pending"
  BY DEF B!Due
<1>2. \A g \in B!Calls \ {h} : b \notin B!Held(g)
  BY DEF B!Busy
<1>3. v5[h].b = {} /\ v5[h].at = "none"
  BY DEF B!Free, B!NoCall
<1>4. \A g \in B!Calls : b \notin v5[g].b
  BY <1>2, <1>3 DEF B!Held
<1>5. b \notin v6
  BY <1>1, <1>4 DEF SearchInv, OneFanOut, Spare
<1> QED BY <1>1, <1>4, <1>5 DEF SearchInv, OneFanOut, Spare

LEMMA SearchSelect ==
    ASSUME SearchInv, NEW h \in Sweeps, B!SelectDue(h)
    PROVE  SearchInv'
<1> DEFINE c == [B!NoCall EXCEPT !.at = "next", !.todo = B!Due]
<1>1. /\ h \in B!Calls /\ B!Free(h) /\ B!Goes(h, c) /\ v7' = v7 \union (B!Due \intersect B!Busy(h))
      /\ UNCHANGED <<v1, v2, v3, v4, v6, v8, v9, v10>>
  BY DEF B!SelectDue, B!Calls
<1>2. B!Due \subseteq Bookings /\ \A b \in B!Due : v2[b].status # "none"
  BY DEF B!Due
<1>3. c \in SweepRow /\ c.at = "next" /\ c.key = NoKey /\ c.b = {} /\ c.todo = B!Due
  BY <1>2 DEF B!NoCall, SweepRow, B!Phases
<1> HIDE DEF c
<1>4. v5[h].key = NoKey /\ v5[h].b = {}
  BY <1>1 DEF B!Free, B!NoCall
<1>5. v7 \subseteq v7' /\ v7' \subseteq Bookings /\ v10' = v10 /\ v10' \subseteq Bookings
  BY <1>1, <1>2, SearchTyped
<1>6. \A b \in B!Due \ v7' : /\ b \notin v6 /\ (\A d \in Crew : Spare(b, d))
                             /\ \A g \in B!Calls \ {h} : b \notin B!Held(g)
  <2> TAKE b \in B!Due \ v7'
  <2>1. b \notin v7 /\ b \notin B!Busy(h)
    BY <1>1
  <2> QED BY <1>1, <2>1, WhatIsDue DEF B!Busy
<1> QED BY <1>1, <1>2, <1>3, <1>4, <1>5, <1>6, TakenUp

LEMMA SearchTake ==
    ASSUME SearchInv, NEW h \in Sweeps, B!TakeNext(h)
    PROVE  SearchInv'
<1>1. h \in B!Calls /\ v5[h].at = "next" /\ UNCHANGED <<v1, v2, v3, v4, v6, v7, v8, v9, v10>>
  BY DEF B!TakeNext, B!At, B!Calls
<1>2. PICK b \in v5[h].todo, ds \in SUBSET Crew :
         B!Goes(h, [v5[h] EXCEPT !.at = "fan", !.b = {b}, !.left = ds, !.todo = @ \ {b}])
  BY DEF B!TakeNext
<1> DEFINE c == [v5[h] EXCEPT !.at = "fan", !.b = {b}, !.left = ds, !.todo = @ \ {b}]
<1>3. v5[h] \in SweepRow /\ v5[h].todo \subseteq Bookings /\ b \in Bookings
  BY <1>1, <1>2, SearchTyped DEF SweepRow
<1>4. /\ c \in SweepRow /\ c.at = "fan" /\ c.b = {b} /\ c.left = ds /\ c.key = v5[h].key
      /\ c.todo = v5[h].todo \ {b} /\ B!Goes(h, c)
  BY <1>2, <1>3 DEF SweepRow, B!Phases
<1> HIDE DEF c
<1>5. v5[h].key = NoKey /\ v5[h].b = {}
  BY <1>1 DEF SearchInv, CallsShaped
<1>6. c.b \union c.todo = v5[h].todo /\ v5[h].todo \subseteq B!Held(h) /\ c.b \intersect c.todo = {}
  BY <1>2, <1>4, <1>1, CallHolds
<1>7. \A a \in v5[h].todo : v2[a].status # "none"
  BY <1>1, <1>6, CallHolds
<1>8. \A a \in v5[h].todo \ v7 : /\ a \notin v6 /\ (\A d \in Crew : Spare(a, d))
                                 /\ \A g \in B!Calls \ {h} : a \notin B!Held(g)
  BY <1>1, <1>6 DEF SearchInv, OneFanOut, Spare
<1>9. v7' \subseteq Bookings /\ v10' = v10 /\ v10' \subseteq Bookings
  BY <1>1, SearchTyped
<1>10. \A a \in c.b \ v7', d \in c.left : Spare(a, d)
  BY <1>1, <1>2, <1>4, <1>8
<1>11. \A a \in c.todo \ v7' : a \notin v6 /\ \A d \in Crew : Spare(a, d)
  BY <1>1, <1>4, <1>8
<1> QED BY <1>1, <1>3, <1>4, <1>5, <1>6, <1>7, <1>8, <1>9, <1>10, <1>11, TakenUp

LEMMA SearchAgainStep ==
    ASSUME SearchInv, NEW h \in Clients, NEW b \in Bookings, B!SearchAgain(h, b)
    PROVE  SearchInv'
<1>1. /\ h \in B!Calls /\ B!Free(h) /\ v2[b].status = "pending"
      /\ UNCHANGED <<v1, v2, v3, v4, v6, v8, v9>>
      /\ v7' = IF b \in B!Busy(h) THEN v7 \union {b} ELSE v7
      /\ v10' = IF b \in v6 THEN v10 ELSE v10 \union {b}
  BY DEF B!SearchAgain, B!Calls
<1>2. PICK ds \in SUBSET {d \in Crew : v3[b][d] = 0 /\ v9[b][d] = 0} :
         B!Goes(h, [B!NoCall EXCEPT !.at = "again", !.b = {b}, !.left = ds])
  BY DEF B!SearchAgain
<1> DEFINE c == [B!NoCall EXCEPT !.at = "again", !.b = {b}, !.left = ds]
<1>3. c \in SweepRow /\ c.at = "again" /\ c.b = {b} /\ c.left = ds /\ c.key = NoKey /\ c.todo = {} /\ B!Goes(h, c)
  BY <1>2 DEF B!NoCall, SweepRow, B!Phases
<1> HIDE DEF c
<1>4. v5[h].key = NoKey /\ v5[h].b = {}
  BY <1>1 DEF B!Free, B!NoCall
<1>5. v7 \subseteq v7' /\ v7' \subseteq Bookings /\ v10 \subseteq v10' /\ v10' \subseteq Bookings
  BY <1>1, SearchTyped
<1>6. b \in v6 \union v10' /\ (b \notin v7' => \A g \in B!Calls \ {h} : b \notin B!Held(g))
  BY <1>1 DEF B!Busy
<1>7. \A a \in c.b, d \in c.left : Spare(a, d) /\ v3[a][d] = 0
  BY <1>2, <1>3 DEF Spare
<1> QED BY <1>1, <1>3, <1>4, <1>5, <1>6, <1>7, TakenUp

\* The client's own request: it holds no booking.
LEMMA SearchRequest ==
    ASSUME SearchInv, NEW h \in Clients, NEW b \in Bookings, NEW d \in Crew, B!RequestTruck(h, b, d)
    PROVE  SearchInv'
<1> DEFINE c == [B!NoCall EXCEPT !.at = "ask", !.asks = {<<b, d>>}]
<1>1. /\ h \in B!Calls /\ B!Free(h) /\ B!Goes(h, c)
      /\ UNCHANGED <<v1, v2, v3, v4, v6, v7, v8, v9, v10>>
  BY DEF B!RequestTruck, B!Calls
<1>2. c \in SweepRow /\ c.at = "ask" /\ c.b = {} /\ c.left = {} /\ c.key = NoKey /\ c.todo = {}
  <2> DEFINE asks == {<<b, d>>}
  <2>1. asks \in SUBSET (Bookings \X Crew)
    OBVIOUS
  <2> HIDE DEF asks
  <2>2. c = [B!NoCall EXCEPT !.at = "ask", !.asks = asks]
    BY DEF asks
  <2> HIDE DEF c
  <2> QED BY <2>1, <2>2 DEF B!NoCall, SweepRow, B!Phases
<1> HIDE DEF c
<1>3. v5[h].key = NoKey /\ v5[h].b = {}
  BY <1>1 DEF B!Free, B!NoCall
<1>4. v7' \subseteq Bookings /\ v10' \subseteq Bookings
  BY <1>1, SearchTyped
<1> QED BY <1>1, <1>2, <1>3, <1>4, TakenUp

LEMMA SearchRequested ==
    ASSUME SearchInv, NEW h \in Clients, B!InsertAsked(h)
    PROVE  SearchInv'
<1>1. /\ h \in B!Calls /\ v5[h].at = "ask" /\ v5[h].key = NoKey /\ B!Goes(h, B!NoCall)
      /\ UNCHANGED <<v1, v2, v3, v4, v6, v7, v8, v10>>
  BY DEF B!InsertAsked, B!At, B!Calls, SearchInv, CallsShaped
<1>2. B!NoCall \in SweepRow /\ B!NoCall.at = "none" /\ B!NoCall.key = NoKey /\ B!NoCall.b = {} /\ B!NoCall.todo = {}
  BY DEF B!NoCall, SweepRow, B!Phases
<1>3. /\ v5'[h] = B!NoCall /\ \A g \in B!Calls \ {h} : v5'[g] = v5[g]
      /\ v5' \in [B!Calls -> SweepRow]
      /\ \A g \in B!Calls \ {h} : B!Held(g)' = B!Held(g)
      /\ B!Held(h)' = B!NoCall.b \union B!NoCall.todo
  BY <1>1, <1>2, OneGoes
<1>4. v9' \in [Bookings -> [Crew -> 0..MaxAsked]]
  <2>1. PICK b \in Bookings, d \in Crew : v9[b][d] < MaxAsked /\ v9' = [v9 EXCEPT ![b][d] = @ + 1]
    BY DEF B!InsertAsked
  <2>2. v9[b] \in [Crew -> 0..MaxAsked] /\ v9[b][d] \in 0..MaxAsked
    BY SearchTyped
  <2>3. v9[b][d] + 1 \in 0..MaxAsked
    BY <2>1, <2>2, BroadcastAssumption
  <2> QED BY <2>1, <2>2, <2>3, SearchTyped
<1>5. B!TypeOK'
  BY <1>1, <1>3, <1>4 DEF SearchInv, B!TypeOK, SweepRow, B!Calls
<1>6. CallsShaped'
  BY <1>1, <1>2, <1>3 DEF SearchInv, CallsShaped
<1>7. \A g \in B!Calls : B!Held(g)' \subseteq B!Held(g)
  BY <1>2, <1>3
<1>8. NotYetMade'
  BY <1>1, <1>7 DEF SearchInv, NotYetMade
<1>9. OneFanOut'
  <2>1. \A g \in B!Calls : /\ v5'[g].at \in {"fan", "again", "mark"} \/ v5'[g].todo # {} => v5'[g] = v5[g]
                           /\ v5[g].at \in {"fan", "again", "mark"} => v5'[g] = v5[g]
    BY <1>1, <1>2, <1>3
  <2>2. OneFanOut
    BY DEF SearchInv
  <2> QED BY <1>1, <1>7, <2>1, <2>2 DEF OneFanOut, Spare, B!OneLiveRequest, B!At
<1>10. KeysKnown'
  <2>1. \A key \in Keys, g \in B!Calls :
              /\ v5'[g].key = key <=> v5[g].key = key
              /\ v5'[g].key = key /\ v5'[g].at = "insert" => v5[g].at = "insert"
    BY <1>1, <1>2, <1>3, BroadcastAssumption
  <2> QED BY <1>1, <2>1, KeysStay
<1> QED BY <1>5, <1>6, <1>8, <1>9, <1>10 DEF SearchInv

\* Steps of the booking, which no call takes.
LEMMA SearchBooking ==
    ASSUME SearchInv, NEW b \in Bookings, B!FallDue(b) \/ B!Close(b) \/ \E d \in Crew : B!DriverDeclines(b, d)
    PROVE  SearchInv'
<1>1. UNCHANGED <<v1, v4, v5, v6, v7, v8, v10>>
  BY DEF B!FallDue, B!Close, B!DriverDeclines
<1>2. /\ v2' \in [Bookings -> SearchRow]
      /\ \A a \in Bookings : /\ v2'[a].scheduled = v2[a].scheduled /\ v2'[a].key = v2[a].key
                             /\ v2'[a].marked = v2[a].marked
                             /\ v2'[a].status = v2[a].status \/ v2[a].status = "pending"
                             /\ v2[a].status = "none" => v2'[a].status = "none"
                             /\ v2'[a].status = "none" => v2[a].status = "none"
  <2>1. v2[b] \in SearchRow
    BY SearchTyped
  <2>2. CASE B!FallDue(b)
    BY <2>1, <2>2, SearchTyped DEF B!FallDue, SearchRow
  <2>3. CASE B!Close(b)
    BY <2>1, <2>3, SearchTyped DEF B!Close, SearchRow
  <2>4. CASE \E d \in Crew : B!DriverDeclines(b, d)
    BY <2>4, SearchTyped DEF B!DriverDeclines
  <2> QED BY <2>2, <2>3, <2>4
<1>3. /\ v3' \in [Bookings -> [Crew -> 0..MaxLive]]
      /\ \A a \in Bookings, e \in Crew : v3'[a][e] <= v3[a][e] /\ (v3[a][e] = 0 => v3'[a][e] = 0)
  <2>1. v3[b] \in [Crew -> 0..MaxLive] /\ \A a \in Bookings, e \in Crew : v3[a][e] \in 0..MaxLive
    BY SearchTyped
  <2>2. CASE B!FallDue(b)
    BY <2>1, <2>2, SearchTyped DEF B!FallDue
  <2>3. CASE B!Close(b)
    <3>1. [d \in Crew |-> 0] \in [Crew -> 0..MaxLive]
      BY BroadcastAssumption
    <3>2. v3' = [v3 EXCEPT ![b] = [d \in Crew |-> 0]]
      BY <2>3 DEF B!Close
    <3> QED BY <2>1, <3>1, <3>2, SearchTyped
  <2>4. CASE \E d \in Crew : B!DriverDeclines(b, d)
    <3>1. PICK d \in Crew : v3' = v3 \/ (v3[b][d] > 0 /\ v3' = [v3 EXCEPT ![b][d] = @ - 1])
      BY <2>4 DEF B!DriverDeclines
    <3> SUFFICES ASSUME v3' # v3
                 PROVE  /\ v3' \in [Bookings -> [Crew -> 0..MaxLive]]
                        /\ \A a \in Bookings, e \in Crew :
                              v3'[a][e] <= v3[a][e] /\ (v3[a][e] = 0 => v3'[a][e] = 0)
      BY <2>1, SearchTyped
    <3>2. v3[b][d] > 0 /\ v3' = [v3 EXCEPT ![b][d] = @ - 1]
      BY <3>1
    <3>3. v3[b][d] - 1 \in 0..MaxLive
      BY <2>1, <3>2, BroadcastAssumption
    <3>4. v3' \in [Bookings -> [Crew -> 0..MaxLive]]
      BY <2>1, <3>2, <3>3, SearchTyped
    <3>5. \A a \in Bookings, e \in Crew : v3'[a][e] = IF a = b /\ e = d THEN v3[b][d] - 1 ELSE v3[a][e]
      BY <2>1, <3>2, SearchTyped
    <3> QED BY <2>1, <3>2, <3>4, <3>5
  <2> QED BY <2>2, <2>3, <2>4
<1>9. v9' \in [Bookings -> [Crew -> 0..MaxAsked]]
  <2>1. \A a \in Bookings : v9[a] \in [Crew -> 0..MaxAsked]
    BY SearchTyped
  <2>2. CASE B!FallDue(b)
    BY <2>2, SearchTyped DEF B!FallDue
  <2>3. CASE B!Close(b)
    <3>1. [d \in Crew |-> 0] \in [Crew -> 0..MaxAsked]
      BY BroadcastAssumption
    <3> QED BY <2>3, <3>1, SearchTyped DEF B!Close
  <2>4. CASE \E d \in Crew : B!DriverDeclines(b, d)
    <3>1. PICK d \in Crew : v9' = v9 \/ (v9[b][d] > 0 /\ v9' = [v9 EXCEPT ![b][d] = @ - 1])
      BY <2>4 DEF B!DriverDeclines
    <3>2. CASE v9' = v9
      BY <3>2, SearchTyped
    <3>3. CASE v9[b][d] > 0 /\ v9' = [v9 EXCEPT ![b][d] = @ - 1]
      <4>1. v9[b][d] - 1 \in 0..MaxAsked
        BY <2>1, <3>3, BroadcastAssumption
      <4> QED BY <2>1, <3>3, <4>1, SearchTyped
    <3> QED BY <3>1, <3>2, <3>3
  <2> QED BY <2>2, <2>3, <2>4
<1>4. B!TypeOK'
  BY <1>1, <1>2, <1>3, <1>9 DEF SearchInv, B!TypeOK, SearchRow, B!Calls
<1>5. CallsShaped'
  BY <1>1 DEF SearchInv, CallsShaped
<1>6. NotYetMade'
  BY <1>1, <1>2, <1>3 DEF SearchInv, NotYetMade, B!Held
<1>7. OneFanOut'
  <2>1. OneFanOut
    BY DEF SearchInv
  <2>2. B!OneLiveRequest'
    <3> SUFFICES ASSUME NEW a \in Bookings \ v7, NEW e \in Crew
                 PROVE  v3'[a][e] <= IF a \in v10 THEN 2 ELSE 1
      BY <1>1 DEF B!OneLiveRequest
    <3>1. v3[a][e] <= (IF a \in v10 THEN 2 ELSE 1) /\ v3[a][e] \in 0..MaxLive /\ v3'[a][e] \in 0..MaxLive
      BY <1>3, <2>1, SearchTyped DEF OneFanOut, Spare, B!OneLiveRequest
    <3> QED BY <1>3, <3>1
  <2>3. \A g \in B!Calls : v5[g].b \subseteq Bookings /\ v5[g].todo \subseteq Bookings /\ v5[g].left \subseteq Crew
    BY SearchTyped DEF SweepRow
  <2>10. \A a \in Bookings, e \in Crew : Spare(a, e) => Spare(a, e)'
    <3> TAKE a \in Bookings, e \in Crew
    <3>1. v3[a][e] \in 0..MaxLive /\ v3'[a][e] \in 0..MaxLive /\ v3'[a][e] <= v3[a][e]
      BY <1>3, SearchTyped
    <3> HAVE Spare(a, e)
    <3>2. CASE v3[a][e] = 0
      BY <1>3, <3>2 DEF Spare
    <3>3. CASE v3[a][e] = 1 /\ a \in v10
      <4>1. v3'[a][e] = 0 \/ v3'[a][e] = 1
        BY <3>1, <3>3, BroadcastAssumption
      <4> QED BY <1>1, <3>3, <4>1 DEF Spare
    <3> QED BY <3>2, <3>3 DEF Spare
  <2>4. \A g \in B!Calls : v5'[g].at \in {"fan", "again"} =>
            \A a \in v5'[g].b \ v7', e \in v5'[g].left :
                Spare(a, e)' /\ (v5'[g].at = "again" => v3'[a][e] = 0)
    BY <1>1, <1>3, <2>1, <2>3, <2>10 DEF OneFanOut
  <2>5. \A g \in B!Calls : \A a \in v5'[g].todo \ v7' : a \notin v6' /\ \A e \in Crew : Spare(a, e)'
    BY <1>1, <1>3, <2>1, <2>3, <2>10 DEF OneFanOut
  <2>6. \A a \in v6' \ v7' : ~v2'[a].marked => \E g \in B!Calls : B!At(g, "mark")' /\ a \in v5'[g].b
    BY <1>1, <1>2, <2>1, SearchTyped DEF OneFanOut, Spare, B!At
  <2>7. \A a \in Bookings \ (v6' \union v7') :
            (\A g \in B!Calls : B!At(g, "fan")' => a \notin v5'[g].b) => \A e \in Crew : Spare(a, e)'
    BY <1>1, <1>3, <2>1, <2>10 DEF OneFanOut, B!At
  <2>8. \A f, g \in B!Calls : f # g => (B!Held(f) \intersect B!Held(g) \subseteq v7)'
    BY <1>1, <2>1 DEF OneFanOut, Spare, B!Held
  <2>9. \A g \in B!Calls : (B!At(g, "again") => v5[g].b \subseteq v6 \union v7 \union v10)'
    BY <1>1, <2>1 DEF OneFanOut, Spare, B!At
  <2> QED BY <2>2, <2>4, <2>5, <2>6, <2>7, <2>8, <2>9 DEF OneFanOut, Spare
<1>8. KeysKnown'
  BY <1>1, <1>2, KeysStay
<1> QED BY <1>4, <1>5, <1>6, <1>7, <1>8 DEF SearchInv

LEMMA SearchRestart ==
    ASSUME SearchInv, B!Restart
    PROVE  SearchInv'
<1>1. /\ v5' = [h \in B!Calls |-> B!NoCall] /\ UNCHANGED <<v1, v2, v3, v4, v6, v9, v10>>
      /\ v7' = v7 \union UNION {B!Abandoned(h) : h \in B!Calls}
      /\ v8' = v8 \union UNION {B!Unanswered(h) : h \in B!Calls}
  BY DEF B!Restart
<1>2. /\ B!NoCall \in SweepRow /\ B!NoCall.at = "none" /\ B!NoCall.key = NoKey /\ B!NoCall.b = {} /\ B!NoCall.todo = {}
      /\ \A h \in B!Calls : v5'[h] = B!NoCall
  BY <1>1 DEF B!NoCall, SweepRow, B!Phases
<1>3. \A h \in B!Calls : B!Abandoned(h) \subseteq Bookings /\ B!Unanswered(h) \subseteq Keys
  <2> TAKE h \in B!Calls
  <2>1. v5[h] \in SweepRow
    BY SearchTyped
  <2> QED BY <2>1 DEF B!Abandoned, B!Unanswered, SweepRow
<1>4. v7 \subseteq v7' /\ v7' \subseteq Bookings /\ v8 \subseteq v8' /\ v8' \subseteq Keys
  BY <1>1, <1>3, SearchTyped
<1>5. \A h \in B!Calls : /\ v5[h].at \in {"fan", "again", "mark"} => v5[h].b \subseteq v7'
                         /\ \A key \in Keys \ v8' : v5[h].key # key
  BY <1>1, BroadcastAssumption DEF B!Abandoned, B!Unanswered
<1>6. B!TypeOK'
  BY <1>1, <1>2, <1>4 DEF SearchInv, B!TypeOK, SweepRow
<1>7. CallsShaped'
  BY <1>2 DEF CallsShaped
<1>8. NotYetMade'
  BY <1>1, <1>2 DEF SearchInv, NotYetMade, B!Held
<1>9. OneFanOut'
  <2>1. OneFanOut
    BY DEF SearchInv
  <2>2. \A a \in v6' \ v7' : v2[a].marked
    BY <1>1, <1>4, <1>5, <2>1 DEF OneFanOut, Spare, B!At
  <2>3. \A a \in Bookings \ (v6' \union v7') : \A e \in Crew : Spare(a, e)
    BY <1>1, <1>4, <1>5, <2>1 DEF OneFanOut, Spare, B!At
  <2>4. B!OneLiveRequest'
    BY <1>1, <1>4, <2>1 DEF OneFanOut, Spare, B!OneLiveRequest
  <2> QED BY <1>1, <1>2, <2>2, <2>3, <2>4 DEF OneFanOut, Spare, B!Held, B!At
<1>10. KeysKnown'
  <2>1. \A key \in Keys \ v8', g \in B!Calls : v5'[g].key # key /\ v5[g].key # key
    BY <1>2, <1>5, BroadcastAssumption
  <2> QED BY <1>1, <1>4, <2>1, KeysStay
<1> QED BY <1>6, <1>7, <1>8, <1>9, <1>10 DEF SearchInv

LEMMA SearchStep == SearchInv /\ [B!Next]_(B!vars) => SearchInv'
<1> SUFFICES ASSUME SearchInv, [B!Next]_(B!vars) PROVE SearchInv'
  OBVIOUS
<1>1. CASE \E h \in Clients : \/ \E key \in Keys \union {NoKey} : B!CreateRequest(h, key)
                              \/ \E b \in Bookings :
                                    \/ B!SearchAgain(h, b)
                                    \/ \E scheduled \in BOOLEAN : B!InsertBooking(h, b, scheduled)
                                    \/ \E d \in Crew : B!RequestTruck(h, b, d)
                              \/ B!Save(h) \/ B!InsertAsked(h)
  BY <1>1, SearchCreate, SearchAgainStep, SearchInsert, SearchRequest, SearchSave, SearchRequested
<1>2. CASE \E h \in Sweeps : B!SelectDue(h) \/ B!TakeNext(h)
  BY <1>2, SearchSelect, SearchTake
<1>3. CASE \E h \in B!Calls : \/ \E d \in Crew : B!InsertRequest(h, d) \/ B!FailRequest(h, d)
                              \/ B!FanEnds(h) \/ B!Mark(h)
  BY <1>3, SearchAsk, SearchFanEnds, SearchMark
<1>4. CASE \E b \in Bookings : B!FallDue(b) \/ B!Close(b) \/ \E d \in Crew : B!DriverDeclines(b, d)
  BY <1>4, SearchBooking
<1>5. CASE B!Restart
  BY <1>5, SearchRestart
<1>6. CASE UNCHANGED B!vars
  BY <1>6 DEF B!vars, SearchInv, B!TypeOK, CallsShaped, NotYetMade, OneFanOut, Spare, KeysKnown, B!OneLiveRequest,
       B!Held, B!At
<1> QED BY <1>1, <1>2, <1>3, <1>4, <1>5, <1>6 DEF B!Next

LEMMA SearchHolds == SearchInv => B!NotForgotten /\ B!BookedOnce /\ B!OneLiveRequest
<1> SUFFICES ASSUME SearchInv PROVE B!NotForgotten /\ B!BookedOnce /\ B!OneLiveRequest
  OBVIOUS
<1>1. B!NotForgotten
  BY DEF SearchInv, NotYetMade, B!NotForgotten, B!Due
<1>2. B!OneLiveRequest
  BY DEF SearchInv, OneFanOut, Spare
<1>3. B!BookedOnce
  <2> SUFFICES ASSUME NEW key \in Keys \ v8
               PROVE  Cardinality({b \in Bookings : v2[b].key = key}) <= 1
    BY CardinalityIs DEF B!BookedOnce
  <2> DEFINE made == {b \in Bookings : v2[b].key = key}
  <2>1. \A a, b \in made : a = b
    BY DEF SearchInv, KeysKnown
  <2>2. made = {} \/ \E b : made = {b}
    BY <2>1
  <2>3. Cardinality(made) <= 1
    <3> HIDE DEF made
    <3>1. made = {} => Cardinality(made) = 0
      BY FS_EmptySet
    <3>2. ASSUME NEW b, made = {b} PROVE Cardinality(made) = 1
      BY <3>2, FS_Singleton
    <3> QED BY <2>2, <3>1, <3>2
  <2> QED BY <2>3
<1> QED BY <1>1, <1>2, <1>3

-----------------------------------------------------------------------------
\* What is known while broadcast is at work.
BroadcastAtWork == part = "broadcast" => SearchInv

LEMMA BroadcastAtWorkStep == BroadcastAtWork /\ [Next]_vars => BroadcastAtWork'
<1> SUFFICES ASSUME SearchInv, part = "broadcast", [Next]_vars PROVE SearchInv'
  BY DEF BroadcastAtWork, Next, vars
<1>1. [B!Next]_(B!vars)
  BY DEF Next, vars, B!vars
<1> QED BY <1>1, SearchStep

\* A scheduled booking that nobody has broadcast is still one the sweep finds, wherever a fan-out is
\* torn off (findDueForScheduledBroadcast, markScheduledBroadcastDone).
THEOREM SearchesGoOn == Spec => []NotForgotten
<1>1. Init => BroadcastAtWork
  BY SearchInit DEF Init, BroadcastAtWork
<1>2. BroadcastAtWork => NotForgotten
  BY SearchHolds DEF BroadcastAtWork, NotForgotten
<1> QED BY <1>1, <1>2, BroadcastAtWorkStep, PTL DEF Spec

\* An order repeated under one key makes one booking, and each driver has one live request for it -
\* two where the order was searched for before its broadcast - however often it is searched for and
\* whatever requests the client sends him beside, where no broadcast of it was interrupted or
\* overlapped (idempotent, rebroadcastDriverFanOut, requestTruckForBooking).
THEOREM NothingIsDoneTwice == Spec => []NothingTwice
<1>1. Init => BroadcastAtWork
  BY SearchInit DEF Init, BroadcastAtWork
<1>2. BroadcastAtWork => NothingTwice
  BY SearchHolds DEF BroadcastAtWork, NothingTwice
<1> QED BY <1>1, <1>2, BroadcastAtWorkStep, PTL DEF Spec

-----------------------------------------------------------------------------
(* Matching: v1 is truck, v2 is driver, v3 is booking, v4 is offers, v5    *)
(* is boarded, v6 is rushed, v7 is changes.                                *)

\* The loads of the bookings, in kilograms, and what is aboard each truck.
Weights == [b \in Loads |-> M!Kilograms(v3[b].order.load)]
Board   == [t \in Shared |-> M!Aboard(t)]
Room(w, t, bs) == Capacity[t] # Unset /\ SumOver(w, bs) <= Capacity[t]

MatchTypes ==
    /\ v1 \in [Shared -> [status : {"available", "on_trip"}, part : BOOLEAN, accepting : BOOLEAN]]
    /\ v3 \in [Loads -> [status : {"none", "pending", "assigned", "in_transit", "delivered", "completed"},
                         order : Orders, truck : Shared \union {M!NoTruck}]]
    /\ v4 \subseteq [b : Loads, t : Shared, seen : Nat]
    /\ v5 \in [Shared -> Nat]

\* What is offered waits, and an idle truck is empty.
OfferedWait == \A o \in v4 : v3[o.b].status = "pending" /\ o.seen <= v5[o.t]
IdleEmpty   == \A t \in Shared : v1[t].status = "available" => Board[t] = {}
\* While nothing boards its truck there is room for what is offered, if something is on it.
OffersFit == \A o \in v4 : o.seen = v5[o.t] =>
                 Board[o.t] = {} \/ Room(Weights, o.t, Board[o.t] \union {o.b})
\* There was room for all loads that came by offers as they were found.
SeenFit == \A t \in Shared : \A a, b \in Board[t] \ v6 : a # b => Room(Weights, t, Board[t] \ v6)

MatchInv == MatchTypes /\ OfferedWait /\ IdleEmpty /\ OffersFit /\ SeenFit

LEMMA WeightsAre == MatchTypes => \A b \in Loads : Weights[b] \in Nat
<1> SUFFICES ASSUME MatchTypes, NEW b \in Loads PROVE Weights[b] \in Nat
  OBVIOUS
<1>1. v3[b].order.load.n \in Nat
  BY MatchingAssumption DEF MatchTypes
<1> QED BY <1>1 DEF Weights, M!Kilograms

LEMMA FiniteLoads == \A bs \in SUBSET Loads : IsFiniteSet(bs)
BY MatchingAssumption, FS_Subset

LEMMA BoardIs ==
    /\ \A t \in Shared : Board[t] = M!Aboard(t)
    /\ \A t \in Shared : Board[t] \in SUBSET Loads
    /\ \A t \in Shared : Board[t] = {b \in Loads : v3[b].truck = t /\ v3[b].status \in M!Active}
BY DEF Board, M!Aboard

LEMMA BoardNext ==
    \A t \in Shared : Board'[t] = {b \in Loads : v3'[b].truck = t /\ v3'[b].status \in M!Active}
BY DEF Board, M!Aboard, M!Active

\* The fold that weighs what is aboard is the sum of the weights.
LEMMA UsedIs == \A t \in Shared : M!Used(t) = SumOver(Weights, Board[t])
<1> SUFFICES ASSUME NEW t \in Shared PROVE M!Used(t) = SumOver(Weights, Board[t])
  OBVIOUS
<1> DEFINE aboard == M!Aboard(t)
           Folds(sum) == sum = [s \in SUBSET aboard |->
               IF s = {} THEN 0 ELSE M!Kilograms(v3[CHOOSE x \in s : TRUE].order.load)
                                     + sum[s \ {CHOOSE x \in s : TRUE}]]
           fold == CHOOSE sum : Folds(sum)
<1>1. M!Used(t) = fold[aboard]
  BY DEF M!Used, M!MapThenSumSet, M!MapThenFoldSet
<1>3. aboard \in SUBSET Loads /\ IsFiniteSet(aboard)
  BY FiniteLoads, BoardIs
<1>2. ASSUME NEW sum PROVE Folds(sum) <=> Iterates(sum, Weights, aboard)
  <2>1. \A s \in SUBSET aboard : s # {} =>
           M!Kilograms(v3[CHOOSE x \in s : TRUE].order.load) = Weights[Next1(s)]
    <3>1. \A s \in SUBSET aboard : s # {} => Next1(s) \in Loads
      BY Next1Is, <1>3
    <3> QED BY <3>1 DEF Weights, Next1
  <2>2. [s \in SUBSET aboard |->
               IF s = {} THEN 0 ELSE M!Kilograms(v3[CHOOSE x \in s : TRUE].order.load)
                                     + sum[s \ {CHOOSE x \in s : TRUE}]]
      = [s \in SUBSET aboard |-> IF s = {} THEN 0 ELSE Weights[Next1(s)] + sum[s \ {Next1(s)}]]
    BY <2>1 DEF Next1
  <2> QED BY <2>2 DEF Iterates
<1>8. Board[t] = aboard
  BY BoardIs
<1> HIDE DEF aboard
<1>4. \E sum : Folds(sum)
  <2>1. \E sum : Iterates(sum, Weights, aboard)
    BY <1>3, IteratesExist
  <2> HIDE DEF Folds
  <2> QED BY <1>2, <2>1
<1> HIDE DEF Folds
<1>5. Folds(fold)
  BY <1>4
<1> HIDE DEF fold
<1>6. Iterates(fold, Weights, aboard)
  BY <1>2, <1>5
<1>7. SumOver(Weights, aboard) = fold[aboard]
  BY <1>3, <1>6, SumIterates
<1> QED BY <1>1, <1>7, <1>8

\* A truck with room for more has room for less.
LEMMA RoomForLess ==
    ASSUME MatchTypes, NEW t \in Shared, NEW bs \in SUBSET Loads, NEW as \in SUBSET bs, Room(Weights, t, bs)
    PROVE  Room(Weights, t, as)
<1> DEFINE u == SumOver(Weights, as)  v == SumOver(Weights, bs)  w == Capacity[t]
<1>1. IsFiniteSet(bs) /\ \A b \in bs : Weights[b] \in Nat
  BY FiniteLoads, WeightsAre
<1>2. u <= v /\ u \in Nat
  BY <1>1, SumLess
<1>3. v \in Int
  <2>1. \A b \in bs : Weights[b] \in Int
    BY <1>1
  <2> QED BY <1>1, <2>1, SumInt
<1>4. w # Unset /\ v <= w
  BY DEF Room
<1>5. w \in Nat
  BY <1>4, MatchingAssumption
<1> HIDE DEF u, v, w
<1>6. u <= w
  BY <1>2, <1>3, <1>4, <1>5
<1> QED BY <1>4, <1>6 DEF u, w, Room

\* Room that is compared with a load is room for that load beside the others.
LEMMA RoomForOne ==
    ASSUME MatchTypes, NEW t \in Shared, NEW b \in Loads \ Board[t], Capacity[t] # Unset,
           Capacity[t] - M!Used(t) >= M!Kilograms(v3[b].order.load)
    PROVE  Room(Weights, t, Board[t] \union {b})
<1> DEFINE all == Board[t] \union {b}  rest == all \ {b}
<1>1. IsFiniteSet(all) /\ b \in all /\ \A a \in all : Weights[a] \in Int
  BY FiniteLoads, BoardIs, WeightsAre
<1>2. rest = Board[t]
  OBVIOUS
<1> HIDE DEF all, rest
<1>3. SumOver(Weights, all) = Weights[b] + SumOver(Weights, all \ {b})
  BY <1>1, SumAny
<1>4. SumOver(Weights, rest) = M!Used(t) /\ SumOver(Weights, rest) \in Int
  BY <1>2, UsedIs, FiniteLoads, BoardIs, WeightsAre, SumInt
<1>5. Weights[b] = M!Kilograms(v3[b].order.load) /\ Weights[b] \in Nat /\ Capacity[t] \in Nat
  BY WeightsAre, MatchingAssumption DEF Weights
<1>6. SumOver(Weights, all) = Weights[b] + M!Used(t) /\ M!Used(t) \in Int
  BY <1>3, <1>4 DEF rest
<1>7. SumOver(Weights, all) <= Capacity[t]
  BY <1>5, <1>6
<1> QED BY <1>7 DEF all, Room

\* Where the loads of some bookings have not changed, neither has the room for them.
LEMMA RoomSame ==
    ASSUME NEW v, NEW w, NEW t, NEW bs \in SUBSET Loads, \A b \in bs : v[b] = w[b], Room(v, t, bs)
    PROVE  Room(w, t, bs)
<1>1. IsFiniteSet(bs)
  BY FiniteLoads
<1>2. SumOver(v, bs) = SumOver(w, bs)
  BY <1>1, SumSame
<1> QED BY <1>2 DEF Room

\* Where no load boards and nothing is offered, what fitted still fits.
LEMMA NothingBoards ==
    ASSUME MatchInv, MatchTypes', OfferedWait', IdleEmpty',
           \A b \in Loads : v3[b].status # "none" => Weights'[b] = Weights[b],
           \A t \in Shared : Board'[t] \subseteq Board[t],
           v4' \subseteq v4, UNCHANGED <<v5, v6>>
    PROVE  MatchInv'
<1>1. \A t \in Shared : \A b \in Board[t] : Weights'[b] = Weights[b]
  BY BoardIs DEF M!Active
<1>2. OffersFit'
  <2> SUFFICES ASSUME NEW o \in v4', o.seen = v5[o.t], Board'[o.t] # {}
               PROVE  Room(Weights', o.t, Board'[o.t] \union {o.b})
    BY DEF OffersFit
  <2> DEFINE bs == Board'[o.t] \union {o.b}  cs == Board[o.t] \union {o.b}
  <2>1. o \in v4 /\ o.t \in Shared /\ o.b \in Loads /\ v3[o.b].status = "pending"
    BY DEF MatchInv, MatchTypes, OfferedWait
  <2>2. Board[o.t] # {} /\ bs \subseteq cs
    BY <2>1
  <2>3. Room(Weights, o.t, cs)
    BY <2>1, <2>2 DEF MatchInv, OffersFit
  <2>4. cs \in SUBSET Loads /\ \A b \in cs : Weights'[b] = Weights[b]
    BY <1>1, <2>1, BoardIs
  <2> HIDE DEF bs, cs
  <2>5. bs \in SUBSET Loads /\ Room(Weights, o.t, bs)
    BY <2>1, <2>2, <2>3, <2>4, RoomForLess DEF MatchInv
  <2>6. Room(Weights', o.t, bs)
    BY <2>2, <2>4, <2>5, RoomSame
  <2> QED BY <2>6 DEF bs
<1>3. SeenFit'
  <2> SUFFICES ASSUME NEW t \in Shared, NEW a \in Board'[t] \ v6, NEW b \in Board'[t] \ v6, a # b
               PROVE  Room(Weights', t, Board'[t] \ v6)
    BY DEF SeenFit
  <2> DEFINE bs == Board'[t] \ v6  cs == Board[t] \ v6
  <2>1. bs \subseteq cs /\ a \in bs /\ b \in bs
    OBVIOUS
  <2>2. cs \in SUBSET Loads /\ \A c \in cs : Weights'[c] = Weights[c]
    BY <1>1, BoardIs
  <2>3. Room(Weights, t, cs)
    BY <2>1 DEF MatchInv, SeenFit
  <2> HIDE DEF bs, cs
  <2>4. bs \in SUBSET Loads /\ Room(Weights, t, bs)
    BY <2>1, <2>2, <2>3, RoomForLess DEF MatchInv
  <2>5. Room(Weights', t, bs)
    BY <2>1, <2>2, <2>4, RoomSame
  <2> QED BY <2>5 DEF bs
<1> QED BY <1>2, <1>3 DEF MatchInv

LEMMA OfferCreate ==
    ASSUME MatchInv, NEW b \in Loads, NEW order \in Orders, M!Create(b, order)
    PROVE  MatchInv'
<1>1. /\ v3' = [v3 EXCEPT ![b] = [status |-> "pending", order |-> order, truck |-> M!NoTruck]]
      /\ UNCHANGED <<v1, v4, v5, v6>>
  BY DEF M!Create, M!people
<1>2. v3[b].status = "none"
  BY MatchingAssumption DEF M!Create
<1>3. \A a \in Loads \ {b} : v3'[a] = v3[a]
  BY <1>1 DEF MatchInv, MatchTypes
<1>4. v3'[b].status = "pending"
  BY <1>1 DEF MatchInv, MatchTypes
<1>5. MatchTypes' /\ OfferedWait'
  <2>1. MatchTypes'
    BY <1>1 DEF MatchInv, MatchTypes
  <2>2. OfferedWait'
    BY <1>1, <1>3, <1>4 DEF MatchInv, MatchTypes, OfferedWait
  <2> QED BY <2>1, <2>2
<1>6. \A t \in Shared : Board'[t] \subseteq Board[t]
  BY <1>3, <1>4, BoardIs, BoardNext DEF M!Active
<1>7. IdleEmpty'
  BY <1>1, <1>6 DEF MatchInv, IdleEmpty
<1>8. \A a \in Loads : v3[a].status # "none" => Weights'[a] = Weights[a]
  BY <1>2, <1>3 DEF Weights
<1> QED BY <1>1, <1>5, <1>6, <1>7, <1>8, NothingBoards

LEMMA OfferProceed ==
    ASSUME MatchInv, NEW b \in Loads,
           \/ M!Proceed(b, "assigned", "in_transit") \/ M!Proceed(b, "in_transit", "delivered")
           \/ M!Proceed(b, "delivered", "completed")
    PROVE  MatchInv'
<1>1. PICK to \in {"in_transit", "delivered", "completed"} :
        /\ v3[b].status \in {"assigned", "in_transit", "delivered"}
        /\ v3' = [v3 EXCEPT ![b].status = to]
        /\ to = "in_transit" => v3[b].status = "assigned"
        /\ \/ v1' = v1
           \/ /\ v1' = [v1 EXCEPT ![v3[b].truck].status = "available"]
              /\ to = "completed"
              /\ \A a \in Loads \ {b} :
                    v3[a].truck = v3[b].truck => v3[a].status \in {"completed", "pending"}
        /\ UNCHANGED <<v4, v5, v6>>
  BY DEF M!Proceed
<1>2. \A a \in Loads : /\ v3'[a].order = v3[a].order /\ v3'[a].truck = v3[a].truck
                       /\ a # b => v3'[a].status = v3[a].status
                       /\ a = b => v3'[a].status = to
  BY <1>1 DEF MatchInv, MatchTypes
<1>3. MatchTypes'
  <2> DEFINE Kept == [Shared -> [status : {"available", "on_trip"}, part : BOOLEAN, accepting : BOOLEAN]]
  <2>1. v1' \in Kept
    <3>1. v1 \in Kept
      BY DEF MatchInv, MatchTypes
    <3>2. [v1 EXCEPT ![v3[b].truck].status = "available"] \in Kept
      BY <3>1
    <3> QED BY <1>1, <3>1, <3>2
  <2>2. v3' \in [Loads -> [status : {"none", "pending", "assigned", "in_transit", "delivered", "completed"},
                           order : Orders, truck : Shared \union {M!NoTruck}]]
    BY <1>1 DEF MatchInv, MatchTypes
  <2> QED BY <1>1, <2>1, <2>2 DEF MatchInv, MatchTypes
<1>4. OfferedWait'
  BY <1>1, <1>2 DEF MatchInv, MatchTypes, OfferedWait
<1>5. \A t \in Shared : Board'[t] \subseteq Board[t]
  BY <1>1, <1>2, BoardIs, BoardNext DEF M!Active
<1>6. IdleEmpty'
  <2> SUFFICES ASSUME NEW t \in Shared, v1'[t].status = "available" PROVE Board'[t] = {}
    BY DEF IdleEmpty
  <2>1. CASE v1[t].status = "available"
    BY <1>5, <2>1 DEF MatchInv, IdleEmpty
  <2>2. CASE v1[t].status # "available"
    <3>1. t = v3[b].truck /\ to = "completed" /\ v1' # v1
      BY <1>1, <2>2 DEF MatchInv, MatchTypes
    <3>2. \A a \in Loads : v3'[a].truck = t => v3'[a].status \in {"completed", "pending"}
      BY <1>1, <1>2, <3>1
    <3> QED BY <3>2, BoardNext DEF M!Active
  <2> QED BY <2>1, <2>2
<1>7. \A a \in Loads : Weights'[a] = Weights[a]
  BY <1>2 DEF Weights
<1> QED BY <1>1, <1>3, <1>4, <1>5, <1>6, <1>7, NothingBoards

\* The drivers' own calls change what is offered later.
LEMMA OfferElse ==
    ASSUME MatchInv,
           \/ \E o \in v4 : M!Decline(o)
           \/ \E t \in Shared : M!SetMode(t) \/ M!SetAccepting(t) \/ M!Drive(t) \/ M!GoOffline(t)
           \/ UNCHANGED M!vars
    PROVE  MatchInv'
<1>1. /\ UNCHANGED <<v3, v5, v6>> /\ v4' \subseteq v4
      /\ \/ v1' = v1
         \/ \E t \in Shared : \/ v1' = [v1 EXCEPT ![t].part = ~@]
                              \/ v1' = [v1 EXCEPT ![t].accepting = ~@]
  BY DEF M!Decline, M!SetMode, M!SetAccepting, M!Drive, M!GoOffline, M!Change, M!vars, M!people
<1>2. MatchTypes' /\ \A t \in Shared : v1'[t].status = v1[t].status
  <2>1. CASE v1' = v1
    BY <1>1, <2>1 DEF MatchInv, MatchTypes
  <2>2. CASE v1' # v1
    <3>1. PICK t \in Shared : \/ v1' = [v1 EXCEPT ![t].part = ~@]
                              \/ v1' = [v1 EXCEPT ![t].accepting = ~@]
      BY <1>1, <2>2
    <3>2. CASE v1' = [v1 EXCEPT ![t].part = ~@]
      <4> DEFINE v == ~v1[t].part
      <4>1. v \in BOOLEAN /\ v1' = [v1 EXCEPT ![t].part = v]
        BY <3>2
      <4> HIDE DEF v
      <4> QED BY <1>1, <3>1, <4>1 DEF MatchInv, MatchTypes
    <3>3. CASE v1' = [v1 EXCEPT ![t].accepting = ~@]
      <4> DEFINE v == ~v1[t].accepting
      <4>1. v \in BOOLEAN /\ v1' = [v1 EXCEPT ![t].accepting = v]
        BY <3>3
      <4> HIDE DEF v
      <4> QED BY <1>1, <3>1, <4>1 DEF MatchInv, MatchTypes
    <3> QED BY <3>1, <3>2, <3>3
  <2> QED BY <2>1, <2>2
<1>3. \A t \in Shared : Board'[t] = Board[t]
  BY <1>1, BoardIs, BoardNext
<1>4. OfferedWait' /\ IdleEmpty'
  BY <1>1, <1>2, <1>3 DEF MatchInv, OfferedWait, IdleEmpty
<1>5. \A a \in Loads : Weights'[a] = Weights[a]
  BY <1>1 DEF Weights
<1> QED BY <1>1, <1>2, <1>3, <1>4, <1>5, NothingBoards

\* What is offered to trucks that are empty or have room for it.
LEMMA OfferKeeps ==
    ASSUME MatchInv, NEW b \in Loads, v3[b].status = "pending", NEW ts \in SUBSET Shared,
           \A t \in ts : Board[t] = {} \/ Room(Weights, t, Board[t] \union {b}),
           v4' = v4 \union M!Offers(b, ts), UNCHANGED <<M!people, v3, v5, v6>>
    PROVE  MatchInv'
<1>1. UNCHANGED v1
  BY DEF M!people
<1>2. Board' = Board /\ Weights' = Weights
  BY DEF Board, M!Aboard, Weights
<1>4. \A o \in M!Offers(b, ts) : /\ o.b = b /\ o.t \in ts /\ o.seen = v5[o.t]
                                 /\ o \in [b : Loads, t : Shared, seen : Nat]
  BY DEF M!Offers, MatchInv, MatchTypes
<1>5. MatchTypes' /\ OfferedWait' /\ IdleEmpty'
  <2>1. MatchTypes'
    BY <1>1, <1>4 DEF MatchInv, MatchTypes
  <2>2. OfferedWait'
    BY <1>4 DEF MatchInv, MatchTypes, OfferedWait
  <2>3. IdleEmpty'
    BY <1>1, <1>2 DEF MatchInv, IdleEmpty
  <2> QED BY <2>1, <2>2, <2>3
<1>6. OffersFit'
  BY <1>2, <1>4 DEF MatchInv, OffersFit
<1>7. SeenFit'
  BY <1>2 DEF MatchInv, SeenFit
<1> QED BY <1>5, <1>6, <1>7 DEF MatchInv

LEMMA OfferBroadcast == ASSUME MatchInv, NEW b \in Loads, M!Broadcast(b) PROVE MatchInv'
<1> DEFINE ts == M!Candidates(b) \ {o.t : o \in {o \in v4 : o.b = b}}
<1>1. /\ v3[b].status = "pending" /\ v4' = v4 \union M!Offers(b, ts)
      /\ UNCHANGED <<M!people, v3, v5, v6>>
  BY DEF M!Broadcast
<1>2. \A t \in Shared : b \notin Board[t]
  BY <1>1, BoardIs DEF M!Active
<1>3. ASSUME NEW t \in ts PROVE t \in Shared /\ (Board[t] = {} \/ Room(Weights, t, Board[t] \union {b}))
  <2>1. t \in Shared
    BY DEF M!Candidates, M!FindNearby, M!FindPartTrucks
  <2>2. CASE v1[t].status = "available"
    BY <2>1, <2>2 DEF MatchInv, IdleEmpty
  <2>3. CASE v1[t].status # "available"
    <3>1. Capacity[t] # Unset /\ Capacity[t] - M!Used(t) >= M!Kilograms(v3[b].order.load)
      BY <2>3 DEF M!Candidates, M!FindNearby, M!FindPartTrucks
    <3> QED BY <1>2, <2>1, <3>1, RoomForOne DEF MatchInv
  <2> QED BY <2>1, <2>2, <2>3
<1> HIDE DEF ts
<1>4. ts \in SUBSET Shared
  BY <1>3
<1> QED BY <1>1, <1>3, <1>4, OfferKeeps

LEMMA OfferPick == ASSUME MatchInv, NEW b \in Loads, NEW t \in Shared, M!Pick(b, t) PROVE MatchInv'
<1>1. /\ v3[b].status = "pending" /\ v4' = v4 \union M!Offers(b, {t})
      /\ v1[t].status = "available" /\ UNCHANGED <<M!people, v3, v5, v6>>
  BY DEF M!Pick
<1>2. \A u \in {t} : Board[u] = {} \/ Room(Weights, u, Board[u] \union {b})
  BY <1>1 DEF MatchInv, IdleEmpty
<1>3. {t} \in SUBSET Shared
  OBVIOUS
<1> QED BY <1>1, <1>2, <1>3, OfferKeeps

LEMMA OfferAccept == ASSUME MatchInv, NEW o \in v4, M!Accept(o) PROVE MatchInv'
<1>1. /\ o.b \in Loads /\ o.t \in Shared /\ v3[o.b].status = "pending"
      /\ v3' = [v3 EXCEPT ![o.b].status = "assigned", ![o.b].truck = o.t]
      /\ v1' = [v1 EXCEPT ![o.t].status = "on_trip"]
      /\ v4' = {p \in v4 : p.b # o.b}
      /\ v5' = [v5 EXCEPT ![o.t] = @ + 1]
      /\ v6' = IF o.seen # v5[o.t] THEN v6 \union {o.b} ELSE v6
  BY DEF M!Accept, MatchInv, MatchTypes
<1>2. /\ v3'[o.b].status = "assigned" /\ v3'[o.b].truck = o.t
      /\ \A a \in Loads : v3'[a].order = v3[a].order
      /\ \A a \in Loads \ {o.b} : v3'[a] = v3[a]
  BY <1>1 DEF MatchInv, MatchTypes
<1>3. /\ v1'[o.t].status = "on_trip" /\ v5'[o.t] = v5[o.t] + 1
      /\ \A t \in Shared \ {o.t} : v1'[t] = v1[t] /\ v5'[t] = v5[t]
  BY <1>1 DEF MatchInv, MatchTypes
<1>4. MatchTypes'
  BY <1>1 DEF MatchInv, MatchTypes
<1>5. /\ \A t \in Shared : o.b \notin Board[t]
      /\ Board'[o.t] = Board[o.t] \union {o.b}
      /\ \A t \in Shared \ {o.t} : Board'[t] = Board[t]
  <2>1. \A t \in Shared : o.b \notin Board[t]
    BY <1>1, BoardIs DEF M!Active
  <2>2. \A t \in Shared : \A a \in Loads \ {o.b} : a \in Board'[t] <=> a \in Board[t]
    BY <1>2, BoardIs, BoardNext
  <2>3. \A t \in Shared : o.b \in Board'[t] <=> t = o.t
    BY <1>1, <1>2, BoardNext DEF M!Active
  <2>4. \A t \in Shared : Board[t] \subseteq Loads /\ Board'[t] \subseteq Loads
    BY BoardIs, BoardNext
  <2>5. ASSUME NEW t \in Shared \ {o.t} PROVE Board'[t] = Board[t]
    <3>1. \A a \in Loads : a \in Board'[t] <=> a \in Board[t]
      BY <2>1, <2>2, <2>3
    <3> QED BY <2>4, <3>1
  <2>6. Board'[o.t] = Board[o.t] \union {o.b}
    <3>1. \A a \in Loads : a \in Board'[o.t] <=> a \in Board[o.t] \union {o.b}
      BY <1>1, <2>2, <2>3
    <3> QED BY <1>1, <2>4, <3>1
  <2> QED BY <2>1, <2>5, <2>6
<1>6. \A bs \in SUBSET Loads, t \in Shared : Room(Weights, t, bs) => Room(Weights', t, bs)
  <2>1. \A b \in Loads : Weights[b] = Weights'[b]
    BY <1>2 DEF Weights
  <2> QED BY <2>1, RoomSame
<1>7. OfferedWait' /\ IdleEmpty'
  <2>1. OfferedWait'
    BY <1>1, <1>2, <1>3 DEF MatchInv, MatchTypes, OfferedWait
  <2>2. IdleEmpty'
    BY <1>1, <1>3, <1>5 DEF MatchInv, IdleEmpty
  <2> QED BY <2>1, <2>2
<1>8. OffersFit'
  <2> SUFFICES ASSUME NEW p \in v4', p.seen = v5'[p.t], Board'[p.t] # {}
               PROVE  Room(Weights', p.t, Board'[p.t] \union {p.b})
    BY DEF OffersFit
  <2>1. p \in v4 /\ p.t \in Shared /\ p.b \in Loads /\ p.seen \in Nat /\ p.seen <= v5[p.t]
    BY <1>1 DEF MatchInv, MatchTypes, OfferedWait
  <2>2. p.t # o.t
    BY <1>3, <2>1 DEF MatchInv, MatchTypes
  <2>3. Room(Weights, p.t, Board[p.t] \union {p.b}) /\ Board'[p.t] = Board[p.t]
    BY <1>3, <1>5, <2>1, <2>2 DEF MatchInv, OffersFit
  <2>4. Board[p.t] \union {p.b} \in SUBSET Loads
    BY <2>1, BoardIs
  <2> QED BY <1>6, <2>1, <2>3, <2>4
<1>9. SeenFit'
  <2> SUFFICES ASSUME NEW t \in Shared, NEW a \in Board'[t] \ v6', NEW b \in Board'[t] \ v6', a # b
               PROVE  Room(Weights', t, Board'[t] \ v6')
    BY DEF SeenFit
  <2>1. CASE o.seen # v5[o.t] \/ t # o.t
    <3>1. Board'[t] \ v6' = Board[t] \ v6 /\ Board[t] \ v6 \in SUBSET Loads
      BY <1>1, <1>5, <2>1, BoardIs
    <3>2. Room(Weights, t, Board[t] \ v6)
      BY <3>1 DEF MatchInv, SeenFit
    <3> QED BY <1>6, <3>1, <3>2
  <2>2. CASE o.seen = v5[o.t] /\ t = o.t
    <3> DEFINE bs == Board[t] \union {o.b}  cs == Board'[t] \ v6'
    <3>1. cs \subseteq bs /\ bs \in SUBSET Loads /\ Board[t] # {}
      BY <1>1, <1>5, <2>2, BoardIs
    <3>2. Room(Weights, t, bs)
      BY <2>2, <3>1 DEF MatchInv, OffersFit
    <3> HIDE DEF bs, cs
    <3>3. Room(Weights, t, cs) /\ cs \in SUBSET Loads
      BY <3>1, <3>2, RoomForLess DEF MatchInv
    <3>4. Room(Weights', t, cs)
      BY <1>6, <3>3
    <3> QED BY <3>4 DEF cs
  <2> QED BY <2>1, <2>2
<1> QED BY <1>4, <1>7, <1>8, <1>9 DEF MatchInv

LEMMA MatchInit == M!Init => MatchInv
<1> SUFFICES ASSUME M!Init PROVE MatchInv
  OBVIOUS
<1>1. \A t \in Shared : Board[t] = {}
  BY BoardIs DEF M!Init, M!Active
<1>2. MatchTypes
  <2>1. (CHOOSE order \in Orders : TRUE) \in Orders
    BY MatchingAssumption
  <2> QED BY <2>1 DEF M!Init, MatchTypes
<1> QED BY <1>1, <1>2 DEF M!Init, MatchInv, OfferedWait, IdleEmpty, OffersFit, SeenFit

LEMMA MatchStep == MatchInv /\ [M!Next]_(M!vars) => MatchInv'
<1> SUFFICES ASSUME MatchInv, [M!Next]_(M!vars) PROVE MatchInv'
  OBVIOUS
<1>1. ASSUME NEW b \in Loads,
             \/ \E order \in Orders : M!Create(b, order)
             \/ M!Broadcast(b) \/ \E t \in Shared : M!Pick(b, t)
             \/ M!Proceed(b, "assigned", "in_transit") \/ M!Proceed(b, "in_transit", "delivered")
             \/ M!Proceed(b, "delivered", "completed")
      PROVE  MatchInv'
  BY <1>1, OfferCreate, OfferBroadcast, OfferPick, OfferProceed
<1>2. ASSUME NEW o \in v4, M!Accept(o) PROVE MatchInv'
  BY <1>2, OfferAccept
<1>3. ASSUME \/ \E o \in v4 : M!Decline(o)
             \/ \E t \in Shared : M!SetMode(t) \/ M!SetAccepting(t) \/ M!Drive(t) \/ M!GoOffline(t)
             \/ UNCHANGED M!vars
      PROVE  MatchInv'
  BY <1>3, OfferElse
<1> QED BY <1>1, <1>2, <1>3 DEF M!Next

LEMMA MatchHolds == MatchInv => M!RoomWasSeen
<1> SUFFICES ASSUME MatchInv, NEW t \in Shared, Cardinality(M!Aboard(t)) > 1, M!Aboard(t) \intersect v6 = {}
             PROVE  Capacity[t] # Unset /\ M!Used(t) <= Capacity[t]
  BY CardinalityIs DEF M!RoomWasSeen
<1>1. \E a, b \in M!Aboard(t) : a # b
  <2> SUFFICES ASSUME \A a, b \in M!Aboard(t) : a = b PROVE FALSE
    OBVIOUS
  <2>1. CASE M!Aboard(t) = {}
    BY <2>1, FS_EmptySet
  <2>2. CASE M!Aboard(t) # {}
    <3>1. PICK a : M!Aboard(t) = {a}
      BY <2>2
    <3>2. Cardinality({a}) = 1
      BY FS_Singleton
    <3> QED BY <3>1, <3>2
  <2> QED BY <2>1, <2>2
<1>2. Board[t] = M!Aboard(t) /\ Board[t] \ v6 = Board[t]
  BY BoardIs
<1>3. Room(Weights, t, Board[t])
  BY <1>1, <1>2 DEF MatchInv, SeenFit
<1> QED BY <1>3, UsedIs DEF Room

-----------------------------------------------------------------------------
\* The bookings a truck has taken; no more can board it than there are.
Taken(t) == {b \in Loads : v3[b].truck = t /\ v3[b].status \notin {"none", "pending"}}
BoardingInv ==
    /\ v2 \in [Shared -> [status : {"available", "on_trip", "offline"}, near : BOOLEAN]]
    /\ \A t \in Shared : v5[t] <= Cardinality(Taken(t))
    /\ v6 \subseteq Loads /\ v7 \in 0..MaxSettings

LEMMA TakenIs ==
    /\ \A t \in Shared : Taken(t) \in SUBSET Loads
    /\ \A s \in SUBSET Loads : Cardinality(s) \in Nat /\ Cardinality(s) <= Cardinality(Loads)
    /\ \A s \in SUBSET Loads : \A r \in SUBSET s : Cardinality(r) <= Cardinality(s)
BY FiniteLoads, FS_CardinalityType, FS_Subset DEF Taken

LEMMA BoardingInit == M!Init => BoardingInv
<1> SUFFICES ASSUME M!Init PROVE BoardingInv
  OBVIOUS
<1>1. \A t \in Shared : v5[t] = 0 /\ Cardinality(Taken(t)) \in Nat
  BY TakenIs DEF M!Init
<1>2. v2 \in [Shared -> [status : {"available", "on_trip", "offline"}, near : BOOLEAN]] /\ v6 = {} /\ v7 = 0
  BY DEF M!Init
<1> QED BY <1>1, <1>2, MatchingAssumption DEF BoardingInv

\* What a truck has taken it keeps.
LEMMA BoardingKept ==
    ASSUME MatchInv, BoardingInv, UNCHANGED <<v5, v6>>, v7' \in 0..MaxSettings,
           v2' \in [Shared -> [status : {"available", "on_trip", "offline"}, near : BOOLEAN]],
           \A t \in Shared : Taken(t) \subseteq Taken(t)'
    PROVE  BoardingInv'
<1>1. \A t \in Shared : Taken(t)' \in SUBSET Loads
  BY DEF Taken
<1>2. \A t \in Shared : Cardinality(Taken(t)) <= Cardinality(Taken(t)')
  BY <1>1, TakenIs
<1>3. \A t \in Shared : v5[t] \in Nat /\ Cardinality(Taken(t)) \in Nat /\ Cardinality(Taken(t)') \in Nat
  BY <1>1, TakenIs DEF MatchInv, MatchTypes
<1> QED BY <1>2, <1>3 DEF BoardingInv

LEMMA BoardingAccept == ASSUME MatchInv, BoardingInv, NEW o \in v4, M!Accept(o) PROVE BoardingInv'
<1>1. o.b \in Loads /\ o.t \in Shared /\ v3[o.b].status = "pending" /\ UNCHANGED v7
  BY DEF M!Accept, MatchInv, MatchTypes
<1>2. /\ v3' = [v3 EXCEPT ![o.b].status = "assigned", ![o.b].truck = o.t]
      /\ v5' = [v5 EXCEPT ![o.t] = @ + 1] /\ v2' = [v2 EXCEPT ![o.t].status = "on_trip"]
      /\ v6' = IF o.seen # v5[o.t] THEN v6 \union {o.b} ELSE v6
  BY DEF M!Accept
<1>3. o.b \notin Taken(o.t)
  BY <1>1 DEF Taken
<1>4. /\ Taken(o.t)' = Taken(o.t) \union {o.b}
      /\ \A t \in Shared \ {o.t} : Taken(t)' = Taken(t)
  BY <1>1, <1>2 DEF Taken, MatchInv, MatchTypes
<1>5. Cardinality(Taken(o.t)') = Cardinality(Taken(o.t)) + 1
  <2> DEFINE before == Taken(o.t)
  <2>1. IsFiniteSet(before) /\ o.b \notin before /\ Taken(o.t)' = before \union {o.b}
    BY <1>1, <1>3, <1>4, TakenIs, FiniteLoads
  <2>2. Cardinality(before \union {o.b}) = Cardinality(before) + 1
    <3> HIDE DEF before
    <3> QED BY <2>1, FS_AddElement
  <2> QED BY <2>1, <2>2
<1>6. ASSUME NEW t \in Shared PROVE v5'[t] <= Cardinality(Taken(t)')
  <2>1. v5[t] \in Nat /\ Cardinality(Taken(t)) \in Nat /\ v5[t] <= Cardinality(Taken(t))
    BY TakenIs DEF BoardingInv, MatchInv, MatchTypes
  <2>2. CASE t = o.t
    <3>1. v5'[t] = v5[t] + 1
      BY <1>2, <2>2 DEF MatchInv, MatchTypes
    <3> QED BY <1>5, <2>1, <2>2, <3>1
  <2>3. CASE t # o.t
    <3>1. v5'[t] = v5[t] /\ Taken(t)' = Taken(t)
      BY <1>2, <1>4, <2>3 DEF MatchInv, MatchTypes
    <3> QED BY <2>1, <3>1
  <2> QED BY <2>2, <2>3
<1>7. v2' \in [Shared -> [status : {"available", "on_trip", "offline"}, near : BOOLEAN]]
  BY <1>1, <1>2 DEF BoardingInv
<1>8. v6' \subseteq Loads
  BY <1>1, <1>2 DEF BoardingInv
<1> QED BY <1>1, <1>6, <1>7, <1>8 DEF BoardingInv

LEMMA BoardingProceed ==
    ASSUME MatchInv, BoardingInv, NEW b \in Loads, NEW from, NEW to,
           <<from, to>> \in {<<"assigned", "in_transit">>, <<"in_transit", "delivered">>, <<"delivered", "completed">>},
           M!Proceed(b, from, to)
    PROVE  BoardingInv'
<1>1. UNCHANGED <<v5, v6, v7>> /\ v3' = [v3 EXCEPT ![b].status = to]
  BY DEF M!Proceed
<1>2. v2' \in [Shared -> [status : {"available", "on_trip", "offline"}, near : BOOLEAN]]
  <2>1. v2' = v2 \/ v2' = [v2 EXCEPT ![v3[b].truck].status = "available"]
    BY DEF M!Proceed
  <2> QED BY <2>1 DEF BoardingInv
<1>3. \A t \in Shared : Taken(t) \subseteq Taken(t)'
  BY <1>1 DEF Taken, MatchInv, MatchTypes
<1> QED BY <1>1, <1>2, <1>3, BoardingKept DEF BoardingInv

LEMMA BoardingStep == MatchInv /\ BoardingInv /\ [M!Next]_(M!vars) => BoardingInv'
<1> SUFFICES ASSUME MatchInv, BoardingInv, [M!Next]_(M!vars) PROVE BoardingInv'
  OBVIOUS
<1>1. ASSUME NEW b \in Loads, NEW order \in Orders, M!Create(b, order) PROVE BoardingInv'
  <2>1. UNCHANGED <<v2, v5, v6, v7>>
    BY <1>1 DEF M!Create, M!people
  <2>2. \A t \in Shared : Taken(t) \subseteq Taken(t)'
    <3>1. v3[b].status = "none" /\ v3' = [v3 EXCEPT ![b] = [status |-> "pending", order |-> order, truck |-> M!NoTruck]]
      <4>1. b \in {a \in Loads : a >= b}
        BY MatchingAssumption
      <4> QED BY <1>1, <4>1 DEF M!Create
    <3> QED BY <3>1 DEF Taken, MatchInv, MatchTypes
  <2> QED BY <2>1, <2>2, BoardingKept DEF BoardingInv
<1>2. ASSUME \/ \E b \in Loads : M!Broadcast(b) \/ \E t \in Shared : M!Pick(b, t)
             \/ \E o \in v4 : M!Decline(o)
             \/ UNCHANGED M!vars
      PROVE  BoardingInv'
  <2>1. UNCHANGED <<v2, v3, v5, v6, v7>>
    BY <1>2 DEF M!Broadcast, M!Pick, M!Decline, M!vars, M!people
  <2> QED BY <2>1 DEF BoardingInv, Taken
<1>3. ASSUME NEW b \in Loads,
             \/ M!Proceed(b, "assigned", "in_transit") \/ M!Proceed(b, "in_transit", "delivered")
             \/ M!Proceed(b, "delivered", "completed")
      PROVE  BoardingInv'
  BY <1>3, BoardingProceed
<1>4. ASSUME NEW t \in Shared, M!SetMode(t) \/ M!SetAccepting(t) \/ M!Drive(t) \/ M!GoOffline(t)
      PROVE  BoardingInv'
  <2>1. UNCHANGED <<v3, v5, v6>> /\ v7 < MaxSettings /\ v7' = v7 + 1
    BY <1>4 DEF M!SetMode, M!SetAccepting, M!Drive, M!GoOffline, M!Change
  <2>2. \/ v2' = v2 \/ v2' = [v2 EXCEPT ![t].near = ~@] \/ v2' = [v2 EXCEPT ![t].status = "offline"]
    BY <1>4 DEF M!SetMode, M!SetAccepting, M!Drive, M!GoOffline
  <2>3. v7' \in 0..MaxSettings
    BY <2>1, MatchingAssumption DEF BoardingInv
  <2>4. v2' \in [Shared -> [status : {"available", "on_trip", "offline"}, near : BOOLEAN]]
    BY <2>2 DEF BoardingInv
  <2> QED BY <2>1, <2>3, <2>4 DEF BoardingInv, Taken
<1> QED BY <1>1, <1>2, <1>3, <1>4, BoardingAccept DEF M!Next

LEMMA BoardingTyped == MatchInv /\ BoardingInv => M!TypeOK
<1> SUFFICES ASSUME MatchInv, BoardingInv PROVE M!TypeOK
  OBVIOUS
<1>1. \A t \in Shared : v5[t] \in 0..Cardinality(Loads)
  <2> SUFFICES ASSUME NEW t \in Shared PROVE v5[t] \in 0..Cardinality(Loads)
    OBVIOUS
  <2>1. Cardinality(Taken(t)) \in Nat /\ Cardinality(Taken(t)) <= Cardinality(Loads) /\ Cardinality(Loads) \in Nat
    BY TakenIs
  <2> QED BY <2>1 DEF BoardingInv, MatchInv, MatchTypes
<1>2. \A o \in v4 : o \in [b : Loads, t : Shared, seen : 0..Cardinality(Loads)]
  <2>1. Cardinality(Loads) \in Nat
    BY TakenIs
  <2> QED BY <1>1, <2>1 DEF MatchInv, MatchTypes, OfferedWait
<1>3. v5 \in [Shared -> 0..Cardinality(Loads)]
  BY <1>1 DEF MatchInv, MatchTypes
<1>4. M!Cardinality(Loads) = Cardinality(Loads)
  BY CardinalityIs
<1> QED BY <1>2, <1>3, <1>4 DEF M!TypeOK, MatchInv, MatchTypes, BoardingInv

-----------------------------------------------------------------------------
\* What is known while matching is at work.
MatchingAtWork == part = "matching" => MatchInv

LEMMA MatchingAtWorkStep == MatchingAtWork /\ [Next]_vars => MatchingAtWork'
<1> SUFFICES ASSUME MatchInv, part = "matching", [Next]_vars PROVE MatchInv'
  BY DEF MatchingAtWork, Next, vars
<1>1. [M!Next]_(M!vars)
  BY DEF Next, vars, M!vars
<1> QED BY <1>1, MatchStep

BoardingAtWork == part = "matching" => BoardingInv

LEMMA BoardingAtWorkStep == MatchingAtWork /\ BoardingAtWork /\ [Next]_vars => BoardingAtWork'
<1> SUFFICES ASSUME MatchInv, BoardingInv, part = "matching", [Next]_vars PROVE BoardingInv'
  BY DEF MatchingAtWork, BoardingAtWork, Next, vars
<1>1. [M!Next]_(M!vars)
  BY DEF Next, vars, M!vars
<1> QED BY <1>1, BoardingStep

\* A truck that carries more than one load carries no more than it can, unless one of them was
\* accepted after another had boarded since it was offered (findPartTruckCandidates,
\* finalizeDriverRequest).
THEOREM SharedNotOverloaded == Spec => []RoomWasSeen
<1>1. Init => MatchingAtWork
  BY MatchInit DEF Init, MatchingAtWork
<1>2. MatchingAtWork => RoomWasSeen
  BY MatchHolds DEF MatchingAtWork, RoomWasSeen
<1> QED BY <1>1, <1>2, MatchingAtWorkStep, PTL DEF Spec

-----------------------------------------------------------------------------
(* Geofence: v1 is list, v2 is wanted, v3 is call, v4 is edits, v5 is      *)
(* placed.                                                                 *)

CheckRow == [at : {"none", "upload", "check"}, left : SUBSET Pins, todo : SUBSET E!Ends,
             ends : [E!Ends -> Pins \union {NoPin}], held : SUBSET E!Facts]

\* What the checks in flight have seen holds of what the administrators want: each keeps all that
\* has been so since it began, and an end it has looked up, or no list at all, is among it.
ChecksKnow ==
    \A h \in Hands : v3[h].at = "check" =>
        /\ E!Holds(v2, v3[h]) \subseteq v3[h].held
        /\ \/ "open" \in v3[h].held
           \/ \A end \in E!Ends : end \in v3[h].held \/ (end \in v3[h].todo /\ v3[h].ends[end] # NoPin)

FenceInv == E!TypeOK /\ v2 = v1 /\ ChecksKnow /\ E!WithinTheFence

LEMMA FenceTyped ==
    ASSUME FenceInv
    PROVE  /\ v3 \in [Hands -> CheckRow] /\ \A h \in Hands : v3[h] \in CheckRow
           /\ E!NoCall \in CheckRow
BY DEF FenceInv, E!TypeOK, CheckRow, E!NoCall, E!Ends, E!Facts

LEMMA FenceInit == E!Init => FenceInv
<1> SUFFICES ASSUME E!Init PROVE FenceInv
  OBVIOUS
<1>1. E!TypeOK
  BY GeofenceAssumption DEF E!Init, E!TypeOK, E!Rows, E!Facts, E!Ends, E!NoCall
<1> QED BY <1>1 DEF E!Init, FenceInv, ChecksKnow, E!WithinTheFence, E!NoCall, E!Facts, E!Ends

\* What holds of a booking's ends does not hang on the rest of its call.
LEMMA HoldsOfEnds ==
    ASSUME NEW w, NEW c, NEW d, c.ends = d.ends
    PROVE  E!Holds(w, c) = E!Holds(w, d) /\ E!Holds(w, c) \subseteq E!Facts
BY DEF E!Holds

\* The list changes under the calls b, which are those in flight but for one that ends or goes on
\* with its upload.
LEMMA FenceWatched ==
    ASSUME FenceInv, NEW b \in [Hands -> CheckRow], E!Watched(b),
           \A h \in Hands : b[h].at = "check" => b[h] = v3[h],
           v1' \in [Pins -> E!Rows], v2' = v1', v4' \in 0..MaxEdits, UNCHANGED v5
    PROVE  FenceInv'
<1>1. \A h \in Hands :
         v3'[h] = [b[h] EXCEPT !.held = @ \union IF b[h].at = "check" THEN E!Holds(v2', b[h]) ELSE {}]
  BY DEF E!Watched
<1>2. \A h \in Hands : E!Holds(v2', b[h]) \subseteq E!Facts
  BY DEF E!Holds
<1>3. \A h \in Hands :
         /\ v3'[h] \in CheckRow /\ v3'[h].at = b[h].at /\ v3'[h].ends = b[h].ends
         /\ v3'[h].todo = b[h].todo
         /\ v3'[h].at = "check" => v3'[h].held = b[h].held \union E!Holds(v2', b[h])
  <2> SUFFICES ASSUME NEW h \in Hands
               PROVE  /\ v3'[h] \in CheckRow /\ v3'[h].at = b[h].at /\ v3'[h].ends = b[h].ends
                      /\ v3'[h].todo = b[h].todo
                      /\ v3'[h].at = "check" => v3'[h].held = b[h].held \union E!Holds(v2', b[h])
    OBVIOUS
  <2>1. CASE b[h].at = "check"
    <3> DEFINE now == E!Holds(v2', b[h])
    <3>1. now \subseteq E!Facts /\ v3'[h] = [b[h] EXCEPT !.held = b[h].held \union now]
      BY <1>1, <1>2, <2>1
    <3> HIDE DEF now
    <3>2. v3'[h].held = b[h].held \union now /\ v3'[h] \in CheckRow
      BY <3>1 DEF CheckRow
    <3> QED BY <3>1, <3>2 DEF CheckRow, now
  <2>2. CASE b[h].at # "check"
    <3>1. v3'[h] = [b[h] EXCEPT !.held = b[h].held \union {}]
      BY <1>1, <2>2
    <3> QED BY <2>2, <3>1 DEF CheckRow
  <2> QED BY <2>1, <2>2
<1>4. v3' \in [Hands -> CheckRow]
  BY <1>3 DEF E!Watched
<1>5. E!TypeOK'
  BY <1>4 DEF FenceInv, E!TypeOK, CheckRow
<1>6. ChecksKnow'
  <2> SUFFICES ASSUME NEW h \in Hands, v3'[h].at = "check"
               PROVE  /\ E!Holds(v2', v3'[h]) \subseteq v3'[h].held
                      /\ \/ "open" \in v3'[h].held
                         \/ \A end \in E!Ends : end \in v3'[h].held
                               \/ (end \in v3'[h].todo /\ v3'[h].ends[end] # NoPin)
    BY DEF ChecksKnow
  <2>1. b[h] = v3[h] /\ v3[h].at = "check"
    BY <1>3
  <2>2. E!Holds(v2', v3'[h]) = E!Holds(v2', b[h])
    BY <1>3, HoldsOfEnds
  <2>3. \/ "open" \in v3[h].held
        \/ \A end \in E!Ends : end \in v3[h].held \/ (end \in v3[h].todo /\ v3[h].ends[end] # NoPin)
    BY <2>1 DEF FenceInv, ChecksKnow
  <2> QED BY <1>3, <2>1, <2>2, <2>3
<1> QED BY <1>5, <1>6 DEF FenceInv, E!WithinTheFence

LEMMA FenceEdit ==
    ASSUME FenceInv, NEW p \in Pins, NEW row \in E!Rows, E!Edit(p, row)
    PROVE  FenceInv'
<1>1. v1' \in [Pins -> E!Rows] /\ v2' = v1' /\ v4' \in 0..MaxEdits /\ UNCHANGED v5
  BY GeofenceAssumption DEF FenceInv, E!TypeOK, E!Edit
<1>2. v3 \in [Hands -> CheckRow] /\ E!Watched(v3)
  BY FenceTyped DEF E!Edit
<1> QED BY <1>1, <1>2, FenceWatched

LEMMA FenceChunk ==
    ASSUME FenceInv, NEW h \in Hands, NEW rows \in E!Files, E!Chunk(h, rows)
    PROVE  FenceInv'
<1>1. \A p \in Pins : E!Upsert(rows, p) = IF p \in rows /\ v2[p] = "absent" THEN "active" ELSE v2[p]
  BY DEF FenceInv, E!Upsert
<1>2. v1' \in [Pins -> E!Rows] /\ v2' = v1' /\ v4' \in 0..MaxEdits /\ UNCHANGED v5
  BY <1>1 DEF FenceInv, E!TypeOK, E!Chunk, E!Rows
<1> DEFINE left == v3[h].left \ rows
           b == [v3 EXCEPT ![h] = IF left = {} THEN E!NoCall ELSE [@ EXCEPT !.left = left]]
<1>3. v3[h].at = "upload" /\ E!Watched(b)
  BY DEF E!Chunk
<1>4. b \in [Hands -> CheckRow] /\ \A g \in Hands : b[g].at = "check" => b[g] = v3[g]
  BY <1>3, FenceTyped DEF CheckRow, E!NoCall
<1> HIDE DEF b
<1> QED BY <1>2, <1>3, <1>4, FenceWatched

\* One call begins, goes on or ends, under a list that stays.
LEMMA FenceMoves ==
    ASSUME FenceInv, NEW h \in Hands, NEW c \in CheckRow, v3' = [v3 EXCEPT ![h] = c],
           UNCHANGED <<v1, v2, v4>>, v5' \subseteq E!Facts, E!WithinTheFence',
           c.at = "check" =>
              /\ E!Holds(v2, c) \subseteq c.held
              /\ \/ "open" \in c.held
                 \/ \A end \in E!Ends : end \in c.held \/ (end \in c.todo /\ c.ends[end] # NoPin)
    PROVE  FenceInv'
<1>1. v3' \in [Hands -> CheckRow] /\ v3'[h] = c /\ \A g \in Hands \ {h} : v3'[g] = v3[g]
  BY FenceTyped
<1>2. E!TypeOK'
  BY <1>1 DEF FenceInv, E!TypeOK, CheckRow
<1>3. ChecksKnow'
  <2> SUFFICES ASSUME NEW g \in Hands, v3'[g].at = "check"
               PROVE  /\ E!Holds(v2, v3'[g]) \subseteq v3'[g].held
                      /\ \/ "open" \in v3'[g].held
                         \/ \A end \in E!Ends : end \in v3'[g].held
                               \/ (end \in v3'[g].todo /\ v3'[g].ends[end] # NoPin)
    BY DEF ChecksKnow
  <2>1. CASE g = h
    BY <1>1, <2>1
  <2>2. CASE g # h
    BY <1>1, <2>2 DEF FenceInv, ChecksKnow
  <2> QED BY <2>1, <2>2
<1> QED BY <1>2, <1>3 DEF FenceInv

LEMMA FenceUpload ==
    ASSUME FenceInv, NEW h \in Hands,
           E!Fail(h) \/ E!Insert(h) \/ \E file \in E!Files : E!UploadRequest(h, file)
    PROVE  FenceInv'
<1>1. PICK c \in CheckRow : v3' = [v3 EXCEPT ![h] = c] /\ c.at # "check"
  <2>1. CASE E!Fail(h) \/ E!Insert(h)
    BY <2>1, FenceTyped DEF E!Fail, E!Insert, E!NoCall
  <2>2. CASE \E file \in E!Files : E!UploadRequest(h, file)
    <3>1. PICK file \in E!Files : v3' = [v3 EXCEPT ![h] = [E!NoCall EXCEPT !.at = "upload", !.left = file]]
      BY <2>2 DEF E!UploadRequest
    <3>2. [E!NoCall EXCEPT !.at = "upload", !.left = file] \in CheckRow
      BY FenceTyped DEF CheckRow, E!Files
    <3> QED BY <3>1, <3>2 DEF CheckRow, E!NoCall
  <2> QED BY <2>1, <2>2
<1>2. UNCHANGED <<v1, v2, v4>>
  BY DEF E!Fail, E!Insert, E!UploadRequest
<1>3. v5' \subseteq E!Facts /\ E!WithinTheFence'
  <2>1. CASE E!Insert(h)
    BY <2>1, FenceTyped DEF E!Insert, FenceInv, ChecksKnow, CheckRow, E!WithinTheFence
  <2>2. CASE UNCHANGED v5
    BY <2>2 DEF FenceInv, E!TypeOK, E!WithinTheFence
  <2> QED BY <2>1, <2>2 DEF E!Fail, E!UploadRequest
<1> QED BY <1>1, <1>2, <1>3, FenceMoves

LEMMA FenceCheck ==
    ASSUME FenceInv, NEW h \in Hands, NEW pickup \in Pins \union {NoPin}, NEW drop \in Pins \union {NoPin},
           E!Check(h, pickup, drop)
    PROVE  FenceInv'
<1> DEFINE configured == \E p \in Pins : v1[p] = "active"
           c == [E!NoCall EXCEPT !.at = "check", !.ends = [pickup |-> pickup, drop |-> drop],
                                 !.todo = IF configured THEN E!Ends ELSE {}]
           d == [c EXCEPT !.held = E!Holds(v2, c)]
<1>1. v3' = [v3 EXCEPT ![h] = d] /\ UNCHANGED <<v1, v2, v4, v5>>
      /\ (configured => NoPin \notin {pickup, drop})
  BY DEF E!Check
<1>2. [pickup |-> pickup, drop |-> drop] \in [E!Ends -> Pins \union {NoPin}]
  BY DEF E!Ends
<1>3. c \in CheckRow /\ c.todo = (IF configured THEN E!Ends ELSE {}) /\ c.ends = [pickup |-> pickup, drop |-> drop]
  BY <1>2, FenceTyped DEF CheckRow, E!NoCall
<1>4. E!Holds(v2, c) \subseteq E!Facts
  BY DEF E!Holds
<1>5. d \in CheckRow /\ d.held = E!Holds(v2, c) /\ d.todo = c.todo /\ d.ends = c.ends
  BY <1>3, <1>4 DEF CheckRow
<1>6. E!Holds(v2, d) = d.held
  <2> HIDE DEF c, d
  <2> QED BY <1>5, HoldsOfEnds
<1>7. \/ "open" \in d.held
      \/ \A end \in E!Ends : end \in d.held \/ (end \in d.todo /\ d.ends[end] # NoPin)
  <2>1. CASE configured
    <3>1. \A end \in E!Ends : [pickup |-> pickup, drop |-> drop][end] \in {pickup, drop}
      BY DEF E!Ends
    <3>2. d.todo = E!Ends
      BY <1>3, <1>5, <2>1
    <3> QED BY <1>1, <1>3, <1>5, <2>1, <3>1, <3>2
  <2>2. CASE ~configured
    BY <1>5, <2>2 DEF E!Holds, E!Facts, FenceInv
  <2> QED BY <2>1, <2>2
<1>8. v5' \subseteq E!Facts /\ E!WithinTheFence'
  BY <1>1 DEF FenceInv, E!TypeOK, E!WithinTheFence
<1> HIDE DEF c, d
<1> QED BY <1>1, <1>5, <1>6, <1>7, <1>8, FenceMoves

LEMMA FenceLookUp ==
    ASSUME FenceInv, NEW h \in Hands, NEW end \in E!Ends, E!LookUp(h, end)
    PROVE  FenceInv'
<1>1. UNCHANGED <<v1, v2, v4, v5>> /\ v5' \subseteq E!Facts /\ E!WithinTheFence'
  BY DEF E!LookUp, FenceInv, E!TypeOK, E!WithinTheFence
<1>2. CASE E!isAllowed(v3[h].ends[end])
  <2> DEFINE c == [v3[h] EXCEPT !.todo = v3[h].todo \ {end}]
  <2>1. /\ v3' = [v3 EXCEPT ![h] = c] /\ c \in CheckRow
        /\ c.at = v3[h].at /\ c.held = v3[h].held /\ c.ends = v3[h].ends /\ c.todo = v3[h].todo \ {end}
    BY <1>2, FenceTyped DEF E!LookUp, CheckRow
  <2>2. ASSUME c.at = "check"
        PROVE  /\ E!Holds(v2, c) \subseteq c.held
               /\ \/ "open" \in c.held
                  \/ \A e \in E!Ends : e \in c.held \/ (e \in c.todo /\ c.ends[e] # NoPin)
    <3>1. E!Holds(v2, v3[h]) \subseteq v3[h].held /\ E!Holds(v2, c) = E!Holds(v2, v3[h])
      BY <2>1, <2>2, HoldsOfEnds DEF FenceInv, ChecksKnow
    <3>2. \/ "open" \in v3[h].held
          \/ \A e \in E!Ends : e \in v3[h].held \/ (e \in v3[h].todo /\ v3[h].ends[e] # NoPin)
      BY <2>1, <2>2 DEF FenceInv, ChecksKnow
    <3>3. v3[h].ends[end] # NoPin => end \in v3[h].held
      BY <1>2, <3>1 DEF E!isAllowed, FenceInv, E!Holds, E!Facts, E!Ends
    <3> QED BY <2>1, <3>1, <3>2, <3>3
  <2> HIDE DEF c
  <2> QED BY <1>1, <2>1, <2>2, FenceMoves
<1>3. CASE ~E!isAllowed(v3[h].ends[end])
  <2>1. v3' = [v3 EXCEPT ![h] = E!NoCall] /\ E!NoCall.at # "check"
    BY <1>3 DEF E!LookUp, E!NoCall
  <2> QED BY <1>1, <2>1, FenceTyped, FenceMoves
<1> QED BY <1>2, <1>3

LEMMA FenceStep == FenceInv /\ [E!Next]_(E!vars) => FenceInv'
<1> SUFFICES ASSUME FenceInv, [E!Next]_(E!vars) PROVE FenceInv'
  OBVIOUS
<1>1. CASE E!Next
  BY <1>1, FenceEdit, FenceUpload, FenceChunk, FenceCheck, FenceLookUp DEF E!Next
<1>2. CASE UNCHANGED E!vars
  BY <1>2 DEF E!vars, FenceInv, E!TypeOK, ChecksKnow, E!Holds, E!WithinTheFence
<1> QED BY <1>1, <1>2

LEMMA FenceHolds == FenceInv => E!WithinTheFence
BY DEF FenceInv

-----------------------------------------------------------------------------
\* What is known while geofence is at work.
GeofenceAtWork == part = "geofence" => FenceInv

LEMMA GeofenceAtWorkStep == GeofenceAtWork /\ [Next]_vars => GeofenceAtWork'
<1> SUFFICES ASSUME FenceInv, part = "geofence", [Next]_vars PROVE FenceInv'
  BY DEF GeofenceAtWork, Next, vars
<1>1. [E!Next]_(E!vars)
  BY DEF Next, vars, E!vars
<1> QED BY <1>1, FenceStep

\* A booking is taken where both of its ends were served at some time while it was checked, however
\* the list is replaced in the meantime (checkGeofence, upload).
THEOREM TakenInsideTheFence == Spec => []WithinTheFence
<1>1. Init => GeofenceAtWork
  BY FenceInit DEF Init, GeofenceAtWork
<1>2. GeofenceAtWork => WithinTheFence
  BY FenceHolds DEF GeofenceAtWork, WithinTheFence
<1> QED BY <1>1, <1>2, GeofenceAtWorkStep, PTL DEF Spec

-----------------------------------------------------------------------------
(* Documents: v1 is doc, v2 is row, v3 is issued, v4 is call, v5 is        *)
(* rushed.                                                                 *)

PaperRow == [at : {"none", "look", "write"}, k : Docs \union {"none"}, b : {0} \union Bookings, n : Nat, tries : 0..Attempts]
LinksOf    == {i \in v3 : i[1] = "link"}

\* A booking carries what was handed out, and only once it is there.
PapersCarried ==
    /\ \A k \in Docs, b \in Bookings : v1[k][b] # 0 => D!There(b) /\ <<k, b, v1[k][b]>> \in v3
    /\ \A i \in v3 : i[3] # 0 /\ v2[i[2]] # "none"

\* A number is drawn for a booking that is not there yet by one request; a document is made for
\* one that has none, unless two requests make it at once.
PapersDrawn ==
    \A h \in Hands :
        /\ v4[h].k # "none" => v4[h].b \in Bookings
        /\ v4[h].k = "booking" => v2[v4[h].b] = "none"
        /\ v4[h].k \in Docs \ {"booking"} =>
              /\ v2[v4[h].b] # "none"
              /\ <<v4[h].k, v4[h].b>> \notin v5 => v1[v4[h].k][v4[h].b] = 0
        /\ v4[h].at # "none" /\ v4[h].k \in {"booking", "bilty"} => v4[h].n # 0
        /\ v4[h].n <= Cardinality(Bookings) + 1 + v4[h].tries \/ (v4[h].n = D!Stamp /\ v4[h].at = "write")
        /\ \A g \in Hands \ {h} : v4[g].k = v4[h].k /\ v4[g].b = v4[h].b /\ v4[h].k # "none"
                                     => v4[h].k # "booking" /\ <<v4[h].k, v4[h].b>> \in v5

\* Links are counted, so that the next is new.
PapersCounted ==
    /\ IsFiniteSet(v3)
    /\ \A i \in LinksOf : i[3] > D!Stamp /\ i[3] <= D!Stamp + Cardinality(LinksOf)

DocInv == D!TypeOK /\ PapersCarried /\ PapersDrawn /\ PapersCounted /\ D!QuotedForLife

LEMMA StampIs ==
    /\ D!Stamp \in Nat /\ D!Stamp = Cardinality(Bookings) + Attempts + MaxDeleted + 1
    /\ Cardinality(Bookings) \in Nat
<1>1. Cardinality(Bookings) \in Nat
  BY FS_CardinalityType, DocumentsAssumption
<1> DEFINE n == Cardinality(Bookings) + Attempts + MaxDeleted
<1>2. n \in Nat
  BY <1>1, DocumentsAssumption
<1>3. Cardinality(1..n) = n
  <2> HIDE DEF n
  <2>1. Cardinality(1..n) = IF 1 > n THEN 0 ELSE n - 1 + 1
    BY <1>2, FS_Interval
  <2> QED BY <1>2, <2>1
<1>4. D!Numbers = 1..n
  BY CardinalityIs DEF D!Numbers
<1> QED BY <1>1, <1>2, <1>3, <1>4, CardinalityIs DEF D!Stamp

LEMMA DocTyped ==
    ASSUME DocInv
    PROVE  /\ v1 \in [Docs -> [Bookings -> 0 .. D!Stamp + MaxShared]]
           /\ \A k \in Docs : v1[k] \in [Bookings -> 0 .. D!Stamp + MaxShared]
           /\ \A k \in Docs, b \in Bookings : v1[k][b] \in 0 .. D!Stamp + MaxShared /\ v1[k][b] \in Nat
           /\ v2 \in [Bookings -> {"none", "there", "gone"}]
           /\ v3 \subseteq Docs \X Bookings \X Nat
           /\ \A i \in v3 : i[1] \in Docs /\ i[2] \in Bookings /\ i[3] \in Nat /\ i = <<i[1], i[2], i[3]>>
           /\ v4 \in [Hands -> PaperRow] /\ \A h \in Hands : v4[h] \in PaperRow
           /\ v5 \subseteq Docs \X Bookings
<1>1. D!TypeOK
  BY DEF DocInv
<1> QED BY <1>1, StampIs, DocumentsAssumption DEF D!TypeOK, PaperRow

LEMMA NoPaper == D!NoCall \in PaperRow /\ D!NoCall.k = "none" /\ D!NoCall.at = "none" /\ D!NoCall.n = 0 /\ D!NoCall.tries = 0
BY DocumentsAssumption DEF D!NoCall, PaperRow

LEMMA DocInit == D!Init => DocInv
<1> SUFFICES ASSUME D!Init PROVE DocInv
  OBVIOUS
<1>1. 0 \in 0 .. D!Stamp + MaxShared
  BY StampIs, DocumentsAssumption
<1>2. D!TypeOK
  BY <1>1, NoPaper DEF D!Init, D!TypeOK, PaperRow
<1>3. PapersDrawn
  <2>1. \A h \in Hands : v4[h].k = "none" /\ v4[h].at = "none" /\ v4[h].n = 0 /\ v4[h].tries = 0
    BY NoPaper DEF D!Init
  <2>2. 0 <= Cardinality(Bookings) + 1 + 0
    BY StampIs
  <2> QED BY <2>1, <2>2, DocumentsAssumption DEF PapersDrawn
<1>4. IsFiniteSet(v3)
  BY FS_EmptySet DEF D!Init
<1> QED BY <1>2, <1>3, <1>4 DEF D!Init, DocInv, PapersCarried, PapersCounted, D!QuotedForLife, LinksOf

\* The number a call has drawn fits the column.
LEMMA DrawnFits ==
    ASSUME DocInv, NEW h \in Hands
    PROVE  v4[h].n \in 0 .. D!Stamp + MaxShared
<1>1. v4[h].n \in Nat /\ v4[h].tries \in 0..Attempts
  BY DocTyped DEF PaperRow
<1>2. v4[h].n <= Cardinality(Bookings) + 1 + v4[h].tries \/ v4[h].n = D!Stamp
  BY DEF DocInv, PapersDrawn
<1> QED BY <1>1, <1>2, StampIs, DocumentsAssumption

LEMMA FirstFits ==
    ASSUME NEW k
    PROVE  D!First(k) \in Nat /\ D!First(k) # 0 /\ D!First(k) <= Cardinality(Bookings) + 1
<1>1. D!Carry(k) \subseteq Bookings
  BY DEF D!Carry
<1>2. Cardinality(D!Carry(k)) \in Nat /\ Cardinality(D!Carry(k)) <= Cardinality(Bookings)
  BY <1>1, DocumentsAssumption, FS_Subset, FS_CardinalityType
<1> QED BY <1>2, StampIs, CardinalityIs DEF D!First

\* Steps of one call that hand out nothing.
LEMMA Drawing ==
    ASSUME DocInv, NEW h \in Hands, NEW c \in PaperRow, v4' = [v4 EXCEPT ![h] = c],
           UNCHANGED <<v1, v2, v3>>, v5 \subseteq v5', v5' \subseteq Docs \X Bookings,
           c.k # "none" => c.b \in Bookings,
           c.k = "booking" => v2[c.b] = "none",
           c.k \in Docs \ {"booking"} =>
               v2[c.b] # "none" /\ (<<c.k, c.b>> \notin v5' => v1[c.k][c.b] = 0),
           c.at # "none" /\ c.k \in {"booking", "bilty"} => c.n # 0,
           c.n <= Cardinality(Bookings) + 1 + c.tries \/ (c.n = D!Stamp /\ c.at = "write"),
           \A g \in Hands \ {h} : v4[g].k = c.k /\ v4[g].b = c.b /\ c.k # "none"
               => c.k # "booking" /\ <<c.k, c.b>> \in v5'
    PROVE  DocInv'
<1>1. v4'[h] = c /\ (\A g \in Hands \ {h} : v4'[g] = v4[g]) /\ v4' \in [Hands -> PaperRow]
  BY DocTyped
<1>2. D!TypeOK'
  BY <1>1 DEF DocInv, D!TypeOK, PaperRow, D!Stamp, D!Numbers
<1>3. PapersDrawn'
  BY <1>1 DEF DocInv, PapersDrawn, D!Stamp, D!Numbers
<1>4. PapersCarried'
  BY DEF DocInv, PapersCarried, D!There
<1>5. PapersCounted'
  BY DEF DocInv, PapersCounted, LinksOf, D!Stamp, D!Numbers
<1>6. D!QuotedForLife'
  BY DEF DocInv, D!QuotedForLife, D!There, D!Carry, D!Stamp, D!Numbers
<1> QED BY <1>2, <1>3, <1>4, <1>5, <1>6 DEF DocInv

LEMMA DocRequest ==
    ASSUME DocInv, NEW h \in Hands, NEW b \in Bookings,
           D!NumberRequest(h, b) \/ \E k \in Docs \ {"booking"} : D!FirstRequest(h, k, b)
    PROVE  DocInv'
<1>1. CASE D!NumberRequest(h, b)
  <2> DEFINE c == [at |-> "look", k |-> "booking", b |-> b, n |-> D!First("booking"), tries |-> 0]
  <2>1. /\ v4' = [v4 EXCEPT ![h] = c] /\ UNCHANGED <<v1, v2, v3, v5>> /\ v2[b] = "none"
        /\ \A g \in Hands : v4[g].k = "booking" => v4[g].b # b
    BY <1>1 DEF D!NumberRequest
  <2>2. /\ c \in PaperRow /\ c.at = "look" /\ c.k = "booking" /\ c.b = b /\ c.n = D!First("booking") /\ c.tries = 0
    BY DocumentsAssumption, FirstFits DEF PaperRow
  <2> HIDE DEF c
  <2>3. c.n # 0 /\ c.n <= Cardinality(Bookings) + 1 + c.tries
    BY <2>2, FirstFits, StampIs
  <2>4. v5' \subseteq Docs \X Bookings
    BY <2>1, DocTyped
  <2>5. \A g \in Hands \ {h} : ~(v4[g].k = c.k /\ v4[g].b = c.b)
    BY <2>1, <2>2
  <2>6. c.k = "booking" /\ c.b \in Bookings /\ v2[c.b] = "none"
    BY <2>1, <2>2
  <2> QED BY <2>1, <2>2, <2>3, <2>4, <2>5, <2>6, Drawing
<1>2. CASE \E k \in Docs \ {"booking"} : D!FirstRequest(h, k, b)
  <2>1. PICK k \in Docs \ {"booking"} : D!FirstRequest(h, k, b)
    BY <1>2
  <2> DEFINE c == IF k = "bilty" THEN [at |-> "look", k |-> k, b |-> b, n |-> D!First(k), tries |-> 0]
                  ELSE [at |-> "write", k |-> k, b |-> b, n |-> 0, tries |-> 0]
  <2>2. /\ v4' = [v4 EXCEPT ![h] = c] /\ UNCHANGED <<v1, v2, v3>> /\ v2[b] = "there" /\ v1[k][b] = 0
        /\ v5' = IF \E g \in Hands : v4[g].k = k /\ v4[g].b = b THEN v5 \union {<<k, b>>} ELSE v5
    BY <2>1 DEF D!FirstRequest, D!There
  <2>3. /\ c \in PaperRow /\ c.k = k /\ c.b = b /\ c.tries = 0
        /\ k = "bilty" => c.n = D!First(k)
        /\ k # "bilty" => c.n = 0
    BY DocumentsAssumption, FirstFits DEF PaperRow
  <2> HIDE DEF c
  <2>4. k # "booking" /\ (k = "bilty" => c.n # 0) /\ c.n <= Cardinality(Bookings) + 1 + c.tries
    BY <2>3, FirstFits, StampIs
  <2>5. v5 \subseteq v5' /\ v5' \subseteq Docs \X Bookings
    BY <2>2, DocTyped
  <2>6. \A g \in Hands \ {h} : v4[g].k = k /\ v4[g].b = b => <<k, b>> \in v5'
    BY <2>2
  <2> QED BY <2>2, <2>3, <2>4, <2>5, <2>6, Drawing
<1> QED BY <1>1, <1>2

LEMMA DocLook ==
    ASSUME DocInv, NEW h \in Hands, D!Look(h)
    PROVE  DocInv'
<1>1. v4[h] \in PaperRow /\ v4[h].at = "look" /\ UNCHANGED <<v1, v2, v3, v5>> /\ v5' \subseteq Docs \X Bookings
  BY DocTyped DEF D!Look
<1>2. PICK c \in PaperRow :
         /\ v4' = [v4 EXCEPT ![h] = c] /\ c.k = v4[h].k /\ c.b = v4[h].b /\ c.at # "none"
         /\ \/ c.n = v4[h].n /\ c.tries = v4[h].tries
            \/ c.n = v4[h].n + 1 /\ c.tries = v4[h].tries + 1
            \/ c.n = D!Stamp /\ c.at = "write"
  <2>1. CASE ~D!Taken(v4[h].k, v4[h].n)
    <3> DEFINE c == [v4[h] EXCEPT !.at = "write"]
    <3>1. v4' = [v4 EXCEPT ![h] = c]
      BY <2>1 DEF D!Look
    <3>2. c \in PaperRow /\ c.k = v4[h].k /\ c.b = v4[h].b /\ c.at # "none" /\ c.n = v4[h].n /\ c.tries = v4[h].tries
      BY <1>1 DEF PaperRow
    <3> QED BY <3>1, <3>2
  <2>2. CASE D!Taken(v4[h].k, v4[h].n) /\ v4[h].tries + 1 < Attempts
    <3> DEFINE c == [v4[h] EXCEPT !.n = v4[h].n + 1, !.tries = v4[h].tries + 1]
    <3>1. v4' = [v4 EXCEPT ![h] = c]
      BY <1>1, <2>2 DEF D!Look, PaperRow
    <3>2. v4[h].n + 1 \in Nat /\ v4[h].tries + 1 \in 0..Attempts
      BY <1>1, <2>2, DocumentsAssumption DEF PaperRow
    <3>3. /\ c \in PaperRow /\ c.k = v4[h].k /\ c.b = v4[h].b /\ c.at # "none"
          /\ c.n = v4[h].n + 1 /\ c.tries = v4[h].tries + 1
      BY <1>1, <3>2 DEF PaperRow
    <3> QED BY <3>1, <3>3
  <2>3. CASE D!Taken(v4[h].k, v4[h].n) /\ ~(v4[h].tries + 1 < Attempts)
    <3> DEFINE c == [v4[h] EXCEPT !.at = "write", !.n = D!Stamp]
    <3>1. v4' = [v4 EXCEPT ![h] = c]
      BY <2>3 DEF D!Look
    <3>2. c \in PaperRow /\ c.k = v4[h].k /\ c.b = v4[h].b /\ c.at = "write" /\ c.n = D!Stamp
      BY <1>1, StampIs DEF PaperRow
    <3> QED BY <3>1, <3>2
  <2> QED BY <2>1, <2>2, <2>3
<1>3. v4[h].n \in Nat /\ v4[h].tries \in Nat /\ c.n \in Nat
  BY <1>1, <1>2 DEF PaperRow
<1>4. /\ v4[h].n <= Cardinality(Bookings) + 1 + v4[h].tries
      /\ v4[h].k \in {"booking", "bilty"} => v4[h].n # 0
  BY <1>1 DEF DocInv, PapersDrawn
<1>5. c.n <= Cardinality(Bookings) + 1 + c.tries \/ (c.n = D!Stamp /\ c.at = "write")
  BY <1>2, <1>3, <1>4, StampIs
<1>6. v4[h].k \in {"booking", "bilty"} => c.n # 0
  BY <1>2, <1>3, <1>4, StampIs, DocumentsAssumption
<1>7. /\ v4[h].k # "none" => v4[h].b \in Bookings
      /\ v4[h].k = "booking" => v2[v4[h].b] = "none"
      /\ v4[h].k \in Docs \ {"booking"} =>
              /\ v2[v4[h].b] # "none"
              /\ <<v4[h].k, v4[h].b>> \notin v5 => v1[v4[h].k][v4[h].b] = 0
      /\ \A g \in Hands \ {h} : v4[g].k = v4[h].k /\ v4[g].b = v4[h].b /\ v4[h].k # "none"
                                     => v4[h].k # "booking" /\ <<v4[h].k, v4[h].b>> \in v5
  BY DEF DocInv, PapersDrawn
<1>8. UNCHANGED <<v1, v2, v3>> /\ v5 \subseteq v5' /\ v5' = v5
  BY <1>1
<1>9. /\ c.k # "none" => c.b \in Bookings
      /\ c.k = "booking" => v2[c.b] = "none"
      /\ c.k \in Docs \ {"booking"} => v2[c.b] # "none" /\ (<<c.k, c.b>> \notin v5' => v1[c.k][c.b] = 0)
      /\ \A g \in Hands \ {h} : v4[g].k = c.k /\ v4[g].b = c.b /\ c.k # "none"
                                     => c.k # "booking" /\ <<c.k, c.b>> \in v5'
  BY <1>2, <1>7, <1>8
<1> QED BY <1>1, <1>2, <1>5, <1>6, <1>8, <1>9, Drawing

\* What a call that is over leaves of the others.
LEMMA PaperFinished ==
    ASSUME DocInv, NEW h \in Hands, D!Done(h)
    PROVE  /\ v4' \in [Hands -> PaperRow] /\ v4'[h] = D!NoCall /\ \A g \in Hands \ {h} : v4'[g] = v4[g]
           /\ D!NoCall.k = "none" /\ D!NoCall.at = "none" /\ D!NoCall.n = 0 /\ D!NoCall.tries = 0
           /\ 0 <= Cardinality(Bookings) + 1
BY NoPaper, DocTyped, StampIs DEF D!Done

LEMMA DocGone ==
    ASSUME DocInv, NEW h \in Hands, D!Crash(h)
    PROVE  DocInv'
<1>1. D!Done(h) /\ UNCHANGED <<v1, v2, v3, v5>>
  BY DEF D!Crash
<1>2. D!NoCall.n <= Cardinality(Bookings) + 1 + D!NoCall.tries
  BY NoPaper, StampIs
<1>3. v4' = [v4 EXCEPT ![h] = D!NoCall] /\ v5' \subseteq Docs \X Bookings
  BY <1>1, DocTyped DEF D!Done
<1> QED BY <1>1, <1>2, <1>3, NoPaper, DocumentsAssumption, Drawing

LEMMA DocDelete ==
    ASSUME DocInv, NEW b \in Bookings, D!HardDelete(b)
    PROVE  DocInv'
<1>1. v2[b] = "there" /\ v2' = [v2 EXCEPT ![b] = "gone"] /\ UNCHANGED <<v3, v4, v5>>
      /\ v1' = [k \in Docs |-> [v1[k] EXCEPT ![b] = 0]]
  BY DEF D!HardDelete, D!There
<1>2. /\ \A k \in Docs, c \in Bookings : v1'[k][c] = IF c = b THEN 0 ELSE v1[k][c]
      /\ \A c \in Bookings : v2'[c] = IF c = b THEN "gone" ELSE v2[c]
  BY <1>1, DocTyped
<1>3. v1' \in [Docs -> [Bookings -> 0 .. D!Stamp + MaxShared]] /\ v2' \in [Bookings -> {"none", "there", "gone"}]
  <2>1. \A k \in Docs : [v1[k] EXCEPT ![b] = 0] \in [Bookings -> 0 .. D!Stamp + MaxShared]
    BY DocTyped, StampIs, DocumentsAssumption
  <2> QED BY <1>1, <2>1, DocTyped
<1>4. D!TypeOK'
  BY <1>1, <1>3 DEF DocInv, D!TypeOK, D!Stamp, D!Numbers
<1>5. PapersCarried'
  BY <1>1, <1>2, DocTyped DEF DocInv, PapersCarried, D!There
<1>6. PapersDrawn'
  BY <1>1, <1>2, DocumentsAssumption DEF DocInv, PapersDrawn, D!Stamp, D!Numbers
<1>7. PapersCounted'
  BY <1>1 DEF DocInv, PapersCounted, LinksOf, D!Stamp, D!Numbers
<1>8. D!QuotedForLife'
  <2> SUFFICES ASSUME NEW i \in v3, D!There(i[2])', <<i[1], i[2]>> \notin v5
               PROVE  /\ v1'[i[1]][i[2]] = i[3]
                      /\ i[3] # D!Stamp => \A a \in Bookings \ {i[2]} : v2'[a] = "there" /\ v1'[i[1]][a] # 0 => v1'[i[1]][a] # i[3]
    BY <1>1 DEF D!QuotedForLife, D!Stamp, D!Numbers, D!Carry, D!There
  <2>1. i[1] \in Docs /\ i[2] \in Bookings
    BY DocTyped
  <2>2. D!There(i[2]) /\ i[2] # b
    BY <1>2, <2>1 DEF D!There
  <2>3. /\ v1[i[1]][i[2]] = i[3]
        /\ i[3] # D!Stamp => \A a \in D!Carry(i[1]) \ {i[2]} : v1[i[1]][a] # i[3]
    BY <2>2 DEF DocInv, D!QuotedForLife
  <2> QED BY <1>2, <2>1, <2>2, <2>3 DEF D!Carry, D!There
<1> QED BY <1>4, <1>5, <1>6, <1>7, <1>8 DEF DocInv

LEMMA DocReuse ==
    ASSUME DocInv, NEW b \in Bookings, NEW k \in Docs \ {"booking"}, D!Reuse(k, b)
    PROVE  DocInv'
<1>1. v3' = v3 /\ UNCHANGED <<v1, v2, v4, v5>>
  BY DEF D!Reuse, DocInv, PapersCarried
<1> QED BY <1>1 DEF DocInv, D!TypeOK, PapersCarried, PapersDrawn, PapersCounted, D!QuotedForLife, D!Stamp,
     D!Numbers, D!There, D!Carry, LinksOf

\* A document written: a number or link nobody else carries.
LEMMA PaperWritten ==
    ASSUME DocInv, NEW h \in Hands, NEW k \in Docs, NEW b \in Bookings, NEW n \in 0 .. D!Stamp + MaxShared,
           n # 0, v4[h].k = k, v4[h].b = b, D!Done(h), UNCHANGED v5,
           v2' = IF k = "booking" THEN [v2 EXCEPT ![b] = "there"] ELSE v2,
           v1' = IF v2'[b] = "there" THEN [v1 EXCEPT ![k][b] = n] ELSE v1,
           v3' = v3 \union {<<k, b, n>>},
           n # D!Stamp => \A c \in D!Carry(k) \ {b} : v1[k][c] # n,
           k = "link" => n = D!Stamp + 1 + Cardinality(LinksOf)
    PROVE  DocInv'
<1>1. /\ v4' \in [Hands -> PaperRow] /\ v4'[h] = D!NoCall /\ \A g \in Hands \ {h} : v4'[g] = v4[g]
      /\ D!NoCall.k = "none" /\ D!NoCall.at = "none" /\ D!NoCall.n = 0 /\ D!NoCall.tries = 0
      /\ 0 <= Cardinality(Bookings) + 1
  BY PaperFinished
<1>2. v2' \in [Bookings -> {"none", "there", "gone"}]
      /\ \A c \in Bookings : v2'[c] = IF k = "booking" /\ c = b THEN "there" ELSE v2[c]
  BY DocTyped
<1>3. v1' \in [Docs -> [Bookings -> 0 .. D!Stamp + MaxShared]]
      /\ \A l \in Docs, c \in Bookings : v1'[l][c] = IF l = k /\ c = b /\ v2'[b] = "there" THEN n ELSE v1[l][c]
  <2>1. CASE v2'[b] = "there"
    <3>1. [v1[k] EXCEPT ![b] = n] \in [Bookings -> 0 .. D!Stamp + MaxShared]
      BY DocTyped
    <3>2. v1' = [v1 EXCEPT ![k] = [v1[k] EXCEPT ![b] = n]]
      BY <2>1
    <3> QED BY <2>1, <3>1, <3>2, DocTyped
  <2>2. CASE v2'[b] # "there"
    BY <2>2, DocTyped
  <2> QED BY <2>1, <2>2
<1>4. n \in Nat /\ v3' \subseteq Docs \X Bookings \X Nat
  BY DocTyped, StampIs, DocumentsAssumption
<1>5. /\ k = "booking" => v2[b] = "none"
      /\ k # "booking" => v2[b] # "none" /\ (<<k, b>> \notin v5 => v1[k][b] = 0)
      /\ \A g \in Hands \ {h} : v4[g].k = k /\ v4[g].b = b => k # "booking" /\ <<k, b>> \in v5
  <2>1. k # "none"
    BY DocumentsAssumption
  <2> QED BY <2>1 DEF DocInv, PapersDrawn
<1>6. D!TypeOK'
  BY <1>1, <1>2, <1>3, <1>4 DEF DocInv, D!TypeOK, PaperRow, D!Stamp, D!Numbers
<1>7. PapersCarried'
  <2>1. PapersCarried
    BY DEF DocInv
  <2>2. \A l \in Docs, c \in Bookings : v1'[l][c] # 0 => v2'[c] = "there" /\ <<l, c, v1'[l][c]>> \in v3'
    <3> SUFFICES ASSUME NEW l \in Docs, NEW c \in Bookings, v1'[l][c] # 0
                 PROVE  v2'[c] = "there" /\ <<l, c, v1'[l][c]>> \in v3'
      OBVIOUS
    <3>1. CASE l = k /\ c = b /\ v2'[b] = "there"
      BY <1>3, <3>1
    <3>2. CASE ~(l = k /\ c = b /\ v2'[b] = "there")
      <4>1. v1'[l][c] = v1[l][c] /\ v1[l][c] # 0
        BY <1>3, <3>2
      <4>2. v2[c] = "there" /\ <<l, c, v1[l][c]>> \in v3
        BY <2>1, <4>1 DEF PapersCarried, D!There
      <4> QED BY <1>2, <4>1, <4>2
    <3> QED BY <3>1, <3>2
  <2>3. \A i \in v3' : i[3] # 0 /\ v2'[i[2]] # "none"
    <3> SUFFICES ASSUME NEW i \in v3' PROVE i[3] # 0 /\ v2'[i[2]] # "none"
      OBVIOUS
    <3>1. CASE i \in v3
      BY <1>2, <2>1, <3>1, DocTyped DEF PapersCarried
    <3>2. CASE i = <<k, b, n>>
      BY <1>2, <1>5, <3>2
    <3> QED BY <3>1, <3>2
  <2> QED BY <2>2, <2>3 DEF PapersCarried, D!There
<1>8. PapersDrawn'
  <2>1. PapersDrawn /\ D!Stamp' = D!Stamp
    BY DEF DocInv, D!Stamp, D!Numbers
  <2> SUFFICES ASSUME NEW g \in Hands
               PROVE  /\ v4'[g].k # "none" => v4'[g].b \in Bookings
                      /\ v4'[g].k = "booking" => v2'[v4'[g].b] = "none"
                      /\ v4'[g].k \in Docs \ {"booking"} =>
                            /\ v2'[v4'[g].b] # "none"
                            /\ <<v4'[g].k, v4'[g].b>> \notin v5 => v1'[v4'[g].k][v4'[g].b] = 0
                      /\ v4'[g].at # "none" /\ v4'[g].k \in {"booking", "bilty"} => v4'[g].n # 0
                      /\ \/ v4'[g].n <= Cardinality(Bookings) + 1 + v4'[g].tries
                         \/ v4'[g].n = D!Stamp /\ v4'[g].at = "write"
                      /\ \A f \in Hands \ {g} : v4'[f].k = v4'[g].k /\ v4'[f].b = v4'[g].b /\ v4'[g].k # "none"
                                     => v4'[g].k # "booking" /\ <<v4'[g].k, v4'[g].b>> \in v5
    BY <2>1 DEF PapersDrawn
  <2>2. CASE g = h
    <3>1. v4'[g].n <= Cardinality(Bookings) + 1 + v4'[g].tries
      BY <1>1, <2>2, StampIs
    <3>2. v4'[g].k = "none" /\ v4'[g].at = "none"
      BY <1>1, <2>2
    <3> QED BY <3>1, <3>2, DocumentsAssumption
  <2>3. CASE g # h
    <3>1. v4'[g] = v4[g] /\ \A f \in Hands : v4'[f].k # "none" => v4'[f] = v4[f]
      BY <1>1, <2>3
    <3>2. /\ v4[g].k # "none" => v4[g].b \in Bookings
          /\ v4[g].k = "booking" => v2[v4[g].b] = "none"
          /\ v4[g].k \in Docs \ {"booking"} =>
                /\ v2[v4[g].b] # "none"
                /\ <<v4[g].k, v4[g].b>> \notin v5 => v1[v4[g].k][v4[g].b] = 0
          /\ v4[g].at # "none" /\ v4[g].k \in {"booking", "bilty"} => v4[g].n # 0
          /\ \/ v4[g].n <= Cardinality(Bookings) + 1 + v4[g].tries
             \/ v4[g].n = D!Stamp /\ v4[g].at = "write"
          /\ \A f \in Hands \ {g} : v4[f].k = v4[g].k /\ v4[f].b = v4[g].b /\ v4[g].k # "none"
                         => v4[g].k # "booking" /\ <<v4[g].k, v4[g].b>> \in v5
      BY <2>1 DEF PapersDrawn
    <3>3. v4[g].k = "booking" => v2'[v4[g].b] = "none"
      BY <1>2, <1>5, <2>3, <3>2, DocumentsAssumption
    <3>4. v4[g].k \in Docs \ {"booking"} => v2'[v4[g].b] # "none"
      BY <1>2, <3>2, DocumentsAssumption
    <3>5. v4[g].k \in Docs \ {"booking"} /\ <<v4[g].k, v4[g].b>> \notin v5 => v1'[v4[g].k][v4[g].b] = 0
      BY <1>3, <1>5, <2>3, <3>2, DocumentsAssumption
    <3> QED BY <3>1, <3>2, <3>3, <3>4, <3>5
  <2> QED BY <2>2, <2>3
<1>9. PapersCounted'
  <2>1. IsFiniteSet(v3) /\ LinksOf \subseteq v3 /\ IsFiniteSet(LinksOf) /\ Cardinality(LinksOf) \in Nat
    BY FS_Subset, FS_CardinalityType DEF DocInv, PapersCounted, LinksOf
  <2>2. IsFiniteSet(v3')
    BY <2>1, FS_AddElement
  <2>3. \A i \in LinksOf : i[3] > D!Stamp /\ i[3] <= D!Stamp + Cardinality(LinksOf) /\ i[3] \in Nat
    BY DocTyped DEF DocInv, PapersCounted, LinksOf
  <2>4. CASE k = "link"
    <3>1. LinksOf' = LinksOf \union {<<k, b, n>>}
      BY <2>4 DEF LinksOf
    <3>2. <<k, b, n>> \notin LinksOf
      <4> SUFFICES ASSUME <<k, b, n>> \in LinksOf PROVE FALSE
        OBVIOUS
      <4>1. <<k, b, n>>[3] <= D!Stamp + Cardinality(LinksOf)
        BY <2>3
      <4>2. n <= D!Stamp + Cardinality(LinksOf)
        BY <4>1
      <4> QED BY <2>1, <2>4, <4>2, StampIs
    <3>3. Cardinality(LinksOf') = Cardinality(LinksOf) + 1
      BY <2>1, <3>1, <3>2, FS_AddElement
    <3>4. \A i \in LinksOf' : i[3] > D!Stamp /\ i[3] <= D!Stamp + Cardinality(LinksOf')
      <4> SUFFICES ASSUME NEW i \in LinksOf' PROVE i[3] > D!Stamp /\ i[3] <= D!Stamp + Cardinality(LinksOf')
        OBVIOUS
      <4>1. CASE i \in LinksOf
        BY <2>1, <2>3, <3>3, <4>1, StampIs
      <4>2. CASE i = <<k, b, n>>
        <5>1. i[3] = n
          BY <4>2
        <5> QED BY <2>1, <2>4, <3>3, <5>1, StampIs
      <4> QED BY <3>1, <4>1, <4>2
    <3> QED BY <2>2, <3>4 DEF PapersCounted, D!Stamp, D!Numbers
  <2>5. CASE k # "link"
    <3>1. LinksOf' = LinksOf
      BY <2>5 DEF LinksOf
    <3> QED BY <2>2, <2>3, <3>1 DEF PapersCounted, D!Stamp, D!Numbers
  <2> QED BY <2>4, <2>5
<1>10. D!QuotedForLife'
  <2>1. D!QuotedForLife /\ PapersCarried
    BY DEF DocInv
  <2> SUFFICES ASSUME NEW i \in v3', v2'[i[2]] = "there", <<i[1], i[2]>> \notin v5
               PROVE  /\ v1'[i[1]][i[2]] = i[3]
                      /\ i[3] # D!Stamp => \A a \in Bookings \ {i[2]} : v2'[a] = "there" /\ v1'[i[1]][a] # 0 => v1'[i[1]][a] # i[3]
    BY DEF D!QuotedForLife, D!Stamp, D!Numbers, D!Carry, D!There
  <2>2. CASE i = <<k, b, n>>
    <3>1. i[1] = k /\ i[2] = b /\ i[3] = n
      BY <2>2
    <3>2. \A a \in Bookings \ {b} : v2'[a] = v2[a] /\ v1'[k][a] = v1[k][a]
      BY <1>2, <1>3
    <3> QED BY <1>3, <3>1, <3>2 DEF D!Carry, D!There
  <2>3. CASE i \in v3
    <3>1. i[1] \in Docs /\ i[2] \in Bookings /\ i[3] \in Nat /\ i[3] # 0 /\ v2[i[2]] # "none"
      BY <2>1, <2>3, DocTyped DEF PapersCarried
    <3>2. v2[i[2]] = "there" /\ (i[2] = b => k # "booking")
      BY <1>2, <1>5, <3>1
    <3>3. /\ v1[i[1]][i[2]] = i[3]
          /\ i[3] # D!Stamp => \A a \in D!Carry(i[1]) \ {i[2]} : v1[i[1]][a] # i[3]
      BY <2>1, <2>3, <3>2 DEF D!QuotedForLife, D!There
    <3>4. ~(i[1] = k /\ i[2] = b)
      BY <1>5, <3>1, <3>2, <3>3
    <3>5. v1'[i[1]][i[2]] = i[3]
      BY <1>3, <3>1, <3>3, <3>4
    <3>6. ASSUME i[3] # D!Stamp, NEW a \in Bookings \ {i[2]}, v2'[a] = "there", v1'[i[1]][a] # 0, v1'[i[1]][a] = i[3]
          PROVE  FALSE
      <4>1. CASE i[1] = k /\ a = b
        <5>1. i[3] = n
          BY <1>3, <3>6, <4>1
        <5>2. i[2] \in D!Carry(k) \ {b}
          BY <3>1, <3>2, <3>3, <3>6, <4>1 DEF D!Carry, D!There
        <5> QED BY <3>3, <3>6, <4>1, <5>1, <5>2
      <4>2. CASE ~(i[1] = k /\ a = b)
        <5>1. v1[i[1]][a] = i[3]
          BY <1>3, <3>1, <3>6, <4>2
        <5>2. a \in D!Carry(i[1])
          BY <2>1, <3>1, <3>6, <5>1 DEF PapersCarried, D!Carry
        <5> QED BY <3>3, <3>6, <5>1, <5>2
      <4> QED BY <4>1, <4>2
    <3> QED BY <3>5, <3>6
  <2> QED BY <2>2, <2>3
<1> QED BY <1>6, <1>7, <1>8, <1>9, <1>10 DEF DocInv

LEMMA DocWrite ==
    ASSUME DocInv, NEW h \in Hands, D!InsertBooking(h) \/ D!WriteBilty(h) \/ D!WriteLink(h)
    PROVE  DocInv'
<1> DEFINE b == v4[h].b
           n == v4[h].n
<1>1. /\ v4[h] \in PaperRow /\ n \in 0 .. D!Stamp + MaxShared /\ n \in Nat
      /\ v4[h].k # "none" => b \in Bookings
      /\ v4[h].at # "none" /\ v4[h].k \in {"booking", "bilty"} => n # 0
      /\ D!Done(h) /\ UNCHANGED v5 /\ v4[h].at = "write"
  BY DocTyped, DrawnFits DEF DocInv, PapersDrawn, PaperRow, D!InsertBooking, D!WriteBilty, D!WriteLink
<1>3. CASE UNCHANGED <<v1, v2, v3>>
  <2>1. v4' = [v4 EXCEPT ![h] = D!NoCall]
    BY <1>1 DEF D!Done
  <2>2. v5' \subseteq Docs \X Bookings /\ v5' = v5
    BY <1>1, DocTyped
  <2>3. D!NoCall.n <= Cardinality(Bookings) + 1 + D!NoCall.tries
    BY NoPaper, StampIs
  <2> QED BY <1>3, <2>1, <2>2, <2>3, NoPaper, DocumentsAssumption, Drawing
<1>4. CASE D!InsertBooking(h) /\ ~UNCHANGED <<v1, v2, v3>>
  <2>1. /\ v4[h].k = "booking" /\ "booking" \in Docs /\ b \in Bookings /\ n # 0
        /\ v2' = [v2 EXCEPT ![b] = "there"] /\ v1' = [v1 EXCEPT !["booking"][b] = n]
        /\ v3' = v3 \union {<<"booking", b, n>>}
        /\ n # D!Stamp => ~D!Taken("booking", n)
    BY <1>1, <1>4, DocumentsAssumption DEF D!InsertBooking
  <2>2. v2'[b] = "there"
    BY <2>1, DocTyped
  <2>3. n # D!Stamp => \A c \in D!Carry("booking") \ {b} : v1["booking"][c] # n
    BY <2>1 DEF D!Taken
  <2> HIDE DEF b, n
  <2> QED BY <1>1, <2>1, <2>2, <2>3, PaperWritten DEF b, n
<1>5. CASE D!WriteBilty(h) /\ ~UNCHANGED <<v1, v2, v3>>
  <2>1. /\ v4[h].k = "bilty" /\ n # 0 /\ v2' = v2
        /\ v1' = IF D!There(b) THEN [v1 EXCEPT !["bilty"][b] = n] ELSE v1
        /\ v3' = v3 \union {<<"bilty", b, n>>}
        /\ n # D!Stamp => \A c \in D!Carry("bilty") \ {b} : v1["bilty"][c] # n
    BY <1>1, <1>5 DEF D!WriteBilty
  <2>2. "bilty" \in Docs /\ b \in Bookings
    BY <1>1, <2>1 DEF PaperRow
  <2>3. v1' = IF v2'[b] = "there" THEN [v1 EXCEPT !["bilty"][b] = n] ELSE v1
    BY <2>1 DEF D!There
  <2> HIDE DEF b, n
  <2> QED BY <1>1, <2>1, <2>2, <2>3, PaperWritten DEF b, n
<1>6. CASE D!WriteLink(h) /\ ~UNCHANGED <<v1, v2, v3>>
  <2> DEFINE m == D!Stamp + 1 + Cardinality(LinksOf)
  <2>1. /\ v4[h].k = "link" /\ v2' = v2 /\ m <= D!Stamp + MaxShared
        /\ v1' = IF D!There(b) THEN [v1 EXCEPT !["link"][b] = m] ELSE v1
        /\ v3' = v3 \union {<<"link", b, m>>}
    BY <1>6, CardinalityIs DEF D!WriteLink, LinksOf
  <2>2. "link" \in Docs /\ b \in Bookings
    BY <1>1, <2>1 DEF PaperRow
  <2>3. v1' = IF v2'[b] = "there" THEN [v1 EXCEPT !["link"][b] = m] ELSE v1
    BY <2>1 DEF D!There
  <2>4. LinksOf \subseteq v3 /\ IsFiniteSet(v3) /\ Cardinality(LinksOf) \in Nat
    BY FS_Subset, FS_CardinalityType DEF DocInv, PapersCounted, LinksOf
  <2>5. m \in 0 .. D!Stamp + MaxShared /\ m # 0
    BY <2>1, <2>4, StampIs, DocumentsAssumption
  <2>6. \A c \in D!Carry("link") \ {b} : v1["link"][c] # m
    <3> SUFFICES ASSUME NEW c \in D!Carry("link"), v1["link"][c] = m PROVE FALSE
      OBVIOUS
    <3>1. <<"link", c, m>> \in v3
      BY <2>2 DEF DocInv, PapersCarried, D!Carry
    <3>2. <<"link", c, m>> \in LinksOf
      BY <3>1 DEF LinksOf
    <3>3. <<"link", c, m>>[3] <= D!Stamp + Cardinality(LinksOf)
      BY <3>2 DEF DocInv, PapersCounted
    <3>4. m <= D!Stamp + Cardinality(LinksOf)
      BY <3>3
    <3> QED BY <2>4, <3>4, StampIs
  <2> HIDE DEF b, n
  <2>7. v4[h].b = b
    BY DEF b
  <2> QED BY <1>1, <2>1, <2>2, <2>3, <2>5, <2>6, <2>7, PaperWritten
<1> QED BY <1>3, <1>4, <1>5, <1>6

LEMMA DocStep == DocInv /\ [D!Next]_(D!vars) => DocInv'
<1> SUFFICES ASSUME DocInv, [D!Next]_(D!vars) PROVE DocInv'
  OBVIOUS
<1>1. CASE D!Next
  BY <1>1, DocDelete, DocReuse, DocLook, DocWrite, DocGone, DocRequest DEF D!Next
<1>2. CASE UNCHANGED D!vars
  <2>1. D!Stamp' = D!Stamp
    BY DEF D!Stamp, D!Numbers
  <2>2. UNCHANGED <<v1, v2, v3, v4, v5>>
    BY <1>2 DEF D!vars
  <2>3. D!TypeOK' /\ PapersCarried' /\ PapersDrawn'
    BY <2>1, <2>2 DEF DocInv, D!TypeOK, PapersCarried, PapersDrawn, D!There
  <2>4. PapersCounted' /\ D!QuotedForLife'
    BY <2>1, <2>2 DEF DocInv, PapersCounted, D!QuotedForLife, D!There, D!Carry, LinksOf
  <2> QED BY <2>3, <2>4 DEF DocInv
<1> QED BY <1>1, <1>2

LEMMA DocHolds == DocInv => D!QuotedForLife
BY DEF DocInv

-----------------------------------------------------------------------------
\* What is known while documents is at work.
DocumentsAtWork == part = "documents" => DocInv

LEMMA DocumentsAtWorkStep == DocumentsAtWork /\ [Next]_vars => DocumentsAtWork'
<1> SUFFICES ASSUME DocInv, part = "documents", [Next]_vars PROVE DocInv'
  BY DEF DocumentsAtWork, Next, vars
<1>1. [D!Next]_(D!vars)
  BY DEF Next, vars, D!vars
<1> QED BY <1>1, DocStep

\* A number or a link that has been handed out stays its booking's and no other's, however requests
\* for it and deletions of bookings overlap (getOrCreateBiltyNumber, createBooking).
THEOREM NumbersStay == Spec => []QuotedForLife
<1>1. Init => DocumentsAtWork
  BY DocInit DEF Init, DocumentsAtWork
<1>2. DocumentsAtWork => QuotedForLife
  BY DocHolds DEF DocumentsAtWork, QuotedForLife
<1> QED BY <1>1, <1>2, DocumentsAtWorkStep, PTL DEF Spec

-----------------------------------------------------------------------------
(* Gateway: v1 is booking, v2 is qr, v3 is orders, v4 is codes, v5 is      *)
(* cash, v6 is call, v7 is stale.                                          *)

Flights == [at : {"full", "advance", "keep", "fetch", "confirm", "collect", "close"}, n : Nat,
            read : W!Booking, qr : [id : Nat, status : {"null", "active", "closed"}]]

GateTypes ==
    /\ v1 \in W!Booking /\ v2 \in [id : Nat, status : {"null", "active", "closed"}]
    /\ v3 \in Seq(W!Payments) /\ v4 \in Seq(W!Payments)
    /\ v5 \in Nat /\ v7 \in BOOLEAN
    /\ v6 \in [Hands -> Flights \union {W!NoCall}]

\* An order is for the advance or for all, and requests are about orders and codes that there are.
OrdersFor == \A i \in DOMAIN v3 :
    v3[i].due = IF v3[i].type = "advance" THEN Advance ELSE v3[i].of
CallsAbout ==
    /\ v2.id # 0 => v2.id \in DOMAIN v4
    /\ \A h \in Hands :
          /\ v6[h].at \in {"full", "advance"} => v6[h].n \in W!Captures(v3)
          /\ v6[h].at = "confirm" => v6[h].n \in W!Captures(v4)
          /\ v6[h].at \in {"keep", "fetch", "close"} => v6[h].n \in DOMAIN v4
          /\ v6[h].at = "collect" /\ v6[h].n # 0 => v6[h].n \in DOMAIN v4

\* Nobody has paid more than the amount, which only grows.
NotTooMuch ==
    /\ BookingFare <= v1.amount /\ v1.paid <= v1.amount
    /\ \A h \in Hands : v6[h].at # "none" =>
          /\ BookingFare <= v6[h].read.amount /\ v6[h].read.amount <= v1.amount
          /\ v6[h].read.paid <= v6[h].read.amount

\* What has been paid, but for one of the codes.
Dues(p)           == [k \in DOMAIN p |-> p[k].due]
Collected(p, k)   == SumOver(Dues(p), W!Captures(p) \ {k})
Beside(p, q, c, k) == Collected(p, 0) + Collected(q, k) + c

\* What the booking or a request counts as paid has been paid, and what a code leaves out has been
\* paid by other means.
Backed == ~v7 =>
    /\ v1.paid <= Beside(v3, v4, v5, 0)
    /\ \A h \in Hands : v6[h].at # "none" => v6[h].read.paid <= Beside(v3, v4, v5, 0)
    /\ \A k \in DOMAIN v4 : v4[k].of - v4[k].due <= Beside(v3, v4, v5, k)

GateInv == GateTypes /\ OrdersFor /\ CallsAbout /\ NotTooMuch /\ Backed

LEMMA CapturesAre ==
    ASSUME NEW p \in Seq(W!Payments)
    PROVE  /\ W!Captures(p) \subseteq DOMAIN p /\ 0 \notin DOMAIN p /\ DOMAIN p = 1..Len(p) /\ Len(p) \in Nat
           /\ \A x \in SUBSET W!Captures(p) : IsFiniteSet(x)
           /\ \A k \in DOMAIN p : p[k] \in W!Payments /\ p[k].due \in Nat /\ p[k].of \in Nat /\ Dues(p)[k] = p[k].due
<1>1. DOMAIN p = 1..Len(p) /\ Len(p) \in Nat
  OBVIOUS
<1>2. IsFiniteSet(1..Len(p))
  BY <1>1, FS_Interval
<1>3. \A x \in SUBSET W!Captures(p) : IsFiniteSet(x)
  BY <1>1, <1>2, FS_Subset DEF W!Captures
<1>4. \A k \in DOMAIN p : p[k] \in W!Payments
  OBVIOUS
<1>5. \A k \in DOMAIN p : p[k].due \in Nat /\ p[k].of \in Nat /\ Dues(p)[k] = p[k].due
  BY <1>4 DEF W!Payments, Dues
<1> QED BY <1>1, <1>3, <1>4, <1>5 DEF W!Captures

LEMMA CollectedIs ==
    ASSUME NEW p \in Seq(W!Payments), NEW k
    PROVE  Collected(p, k) \in Nat
<1>1. W!Captures(p) \ {k} \in SUBSET W!Captures(p)
  OBVIOUS
<1>2. IsFiniteSet(W!Captures(p) \ {k}) /\ \A x \in W!Captures(p) \ {k} : Dues(p)[x] \in Nat
  BY <1>1, CapturesAre
<1>3. SumOver(Dues(p), W!Captures(p) \ {k}) \in Nat
  BY <1>2, SumLess
<1> QED BY <1>3 DEF Collected

LEMMA CollectedAll ==
    ASSUME NEW p \in Seq(W!Payments), NEW k \in W!Captures(p)
    PROVE  Collected(p, 0) = p[k].due + Collected(p, k)
<1>1. IsFiniteSet(W!Captures(p)) /\ \A x \in W!Captures(p) : Dues(p)[x] \in Int
  BY CapturesAre
<1>2. SumOver(Dues(p), W!Captures(p)) = Dues(p)[k] + SumOver(Dues(p), W!Captures(p) \ {k})
  BY <1>1, SumAny
<1>3. W!Captures(p) \ {0} = W!Captures(p) /\ Dues(p)[k] = p[k].due
  BY CapturesAre
<1> QED BY <1>2, <1>3 DEF Collected

\* More captured payments are no smaller sum.
LEMMA CollectedGrows ==
    ASSUME NEW p \in Seq(W!Payments), NEW q \in Seq(W!Payments), NEW k,
           W!Captures(p) \subseteq W!Captures(q), \A x \in W!Captures(p) : q[x].due = p[x].due
    PROVE  Collected(p, k) <= Collected(q, k)
<1> DEFINE r == W!Captures(p) \ {k}  s == W!Captures(q) \ {k}
<1>1. r \in SUBSET W!Captures(p) /\ s \in SUBSET W!Captures(q) /\ r \in SUBSET s
  OBVIOUS
<1>2. IsFiniteSet(r) /\ IsFiniteSet(s)
  BY <1>1, CapturesAre
<1>3. \A x \in s : Dues(q)[x] \in Nat
  BY <1>1, CapturesAre
<1>4. \A x \in r : Dues(p)[x] = Dues(q)[x]
  BY <1>1, CapturesAre
<1> HIDE DEF r, s
<1>5. SumOver(Dues(p), r) = SumOver(Dues(q), r)
  BY <1>2, <1>4, SumSame
<1>6. SumOver(Dues(q), r) <= SumOver(Dues(q), s)
  BY <1>1, <1>2, <1>3, SumLess
<1> QED BY <1>5, <1>6 DEF Collected, r, s

LEMMA BesideIs ==
    ASSUME NEW p \in Seq(W!Payments), NEW q \in Seq(W!Payments), NEW c \in Nat, NEW k
    PROVE  Beside(p, q, c, k) \in Nat
BY CollectedIs DEF Beside

\* The fold that adds up what is captured is that sum.
LEMMA SumsAre ==
    ASSUME NEW p \in Seq(W!Payments)
    PROVE  W!Sums(p) = Collected(p, 0)
<1> DEFINE all == W!Captures(p)
           Folds(sum) == sum = [s \in SUBSET all |->
               IF s = {} THEN 0 ELSE p[CHOOSE x \in s : TRUE].due + sum[s \ {CHOOSE x \in s : TRUE}]]
           fold == CHOOSE sum : Folds(sum)
<1>1. W!Sums(p) = fold[all]
  BY DEF W!Sums, W!MapThenSumSet, W!MapThenFoldSet
<1>2. IsFiniteSet(all) /\ all \ {0} = all /\ all \subseteq DOMAIN p
  BY CapturesAre
<1>3. ASSUME NEW sum PROVE Folds(sum) <=> Iterates(sum, Dues(p), all)
  <2>1. \A s \in SUBSET all : s # {} => p[CHOOSE x \in s : TRUE].due = Dues(p)[Next1(s)]
    <3>1. \A s \in SUBSET all : s # {} => Next1(s) \in DOMAIN p
      BY Next1Is, <1>2
    <3> QED BY <3>1 DEF Dues, Next1
  <2>2. [s \in SUBSET all |->
               IF s = {} THEN 0 ELSE p[CHOOSE x \in s : TRUE].due + sum[s \ {CHOOSE x \in s : TRUE}]]
      = [s \in SUBSET all |-> IF s = {} THEN 0 ELSE Dues(p)[Next1(s)] + sum[s \ {Next1(s)}]]
    BY <2>1 DEF Next1
  <2> QED BY <2>2 DEF Iterates
<1>4. Collected(p, 0) = SumOver(Dues(p), all)
  BY <1>2 DEF Collected
<1> HIDE DEF all
<1>5. \E sum : Folds(sum)
  <2>1. \E sum : Iterates(sum, Dues(p), all)
    BY <1>2, IteratesExist
  <2> HIDE DEF Folds
  <2> QED BY <1>3, <2>1
<1> HIDE DEF Folds
<1>6. Folds(fold)
  BY <1>5
<1> HIDE DEF fold
<1>7. Iterates(fold, Dues(p), all)
  BY <1>3, <1>6
<1>8. SumOver(Dues(p), all) = fold[all]
  BY <1>2, <1>7, SumIterates
<1> QED BY <1>1, <1>4, <1>8

LEMMA CodeOpened ==
    ASSUME NEW p \in Seq(W!Payments), NEW r \in W!Payments, r.at = "open"
    PROVE  /\ Append(p, r) \in Seq(W!Payments) /\ DOMAIN Append(p, r) = DOMAIN p \union {Len(p) + 1}
           /\ Len(p) + 1 \notin DOMAIN p /\ Append(p, r)[Len(p) + 1] = r
           /\ \A x \in DOMAIN p : Append(p, r)[x] = p[x]
           /\ W!Captures(Append(p, r)) = W!Captures(p)
<1> DEFINE q == Append(p, r)
<1>1. /\ q \in Seq(W!Payments) /\ DOMAIN q = DOMAIN p \union {Len(p) + 1}
      /\ Len(p) + 1 \notin DOMAIN p /\ q[Len(p) + 1] = r
      /\ \A x \in DOMAIN p : q[x] = p[x]
  <2>1. Len(p) \in Nat /\ DOMAIN p = 1..Len(p) /\ q \in Seq(W!Payments) /\ DOMAIN q = 1..(Len(p) + 1)
    OBVIOUS
  <2> QED BY <2>1
<1> HIDE DEF q
<1>2. W!Captures(q) = W!Captures(p)
  BY <1>1 DEF W!Captures
<1> QED BY <1>1, <1>2 DEF q

Moved(p, q, k, at) == q = [p EXCEPT ![k].at = at]

LEMMA MovedIs ==
    ASSUME NEW p \in Seq(W!Payments), NEW k \in DOMAIN p, p[k].at = "open", NEW at \in {"captured", "closed"},
           NEW q, Moved(p, q, k, at)
    PROVE  /\ q \in Seq(W!Payments) /\ DOMAIN q = DOMAIN p /\ W!Captures(p) \subseteq W!Captures(q)
           /\ \A x \in DOMAIN p : q[x].due = p[x].due /\ q[x].of = p[x].of /\ q[x].type = p[x].type
<1> USE DEF Moved
<1>1. \A x \in DOMAIN p : p[x] \in W!Payments
  BY CapturesAre
<1>2. DOMAIN q = DOMAIN p /\ \A x \in DOMAIN p : q[x] \in W!Payments
  BY <1>1 DEF W!Payments
<1>3. q \in Seq(W!Payments)
  <2>1. DOMAIN p = 1..Len(p) /\ Len(p) \in Nat
    OBVIOUS
  <2>2. q = [x \in 1..Len(p) |-> q[x]]
    BY <2>1
  <2> QED BY <1>2, <2>1, <2>2
<1>4. \A x \in DOMAIN p : q[x].due = p[x].due /\ q[x].of = p[x].of /\ q[x].type = p[x].type
  BY <1>1 DEF W!Payments
<1>5. \A x \in W!Captures(p) : q[x].at = "captured"
  BY <1>1 DEF W!Captures, W!Payments
<1> QED BY <1>2, <1>3, <1>4, <1>5 DEF W!Captures

\* What is captured stays captured, for as much, and cash is not given back.
Grown ==
    /\ W!Captures(v3) \subseteq W!Captures(v3') /\ \A x \in W!Captures(v3) : v3'[x].due = v3[x].due
    /\ W!Captures(v4) \subseteq W!Captures(v4') /\ \A x \in W!Captures(v4) : v4'[x].due = v4[x].due
    /\ v5 <= v5'

LEMMA AddLess ==
    \A a, b, c, d, e, f \in Nat : a <= b /\ c <= d /\ e <= f => a + c + e <= b + d + f
OBVIOUS

LEMMA BesideGrows ==
    ASSUME GateTypes, GateTypes', Grown
    PROVE  \A k : /\ Beside(v3, v4, v5, k) <= Beside(v3', v4', v5', k)
                  /\ Beside(v3, v4, v5, k) \in Nat /\ Beside(v3', v4', v5', k) \in Nat
<1> SUFFICES ASSUME NEW k
             PROVE  /\ Beside(v3, v4, v5, k) <= Beside(v3', v4', v5', k)
                    /\ Beside(v3, v4, v5, k) \in Nat /\ Beside(v3', v4', v5', k) \in Nat
  OBVIOUS
<1>1. /\ v3 \in Seq(W!Payments) /\ v3' \in Seq(W!Payments) /\ v4 \in Seq(W!Payments)
      /\ v4' \in Seq(W!Payments) /\ v5 \in Nat /\ v5' \in Nat
  BY DEF GateTypes
<1> DEFINE a == Collected(v3, 0)  b == Collected(v3', 0)
           c == Collected(v4, k)  d == Collected(v4', k)
<1>2. a \in Nat /\ b \in Nat /\ c \in Nat /\ d \in Nat
  BY <1>1, CollectedIs
<1>3. a <= b
  BY <1>1, CollectedGrows DEF Grown
<1>4. c <= d
  BY <1>1, CollectedGrows DEF Grown
<1>5. Beside(v3, v4, v5, k) = a + c + v5 /\ Beside(v3', v4', v5', k) = b + d + v5'
  BY DEF Beside
<1>6. v5 <= v5'
  BY DEF Grown
<1>7. Beside(v3, v4, v5, k) \in Nat /\ Beside(v3', v4', v5', k) \in Nat
  BY <1>1, BesideIs
<1> HIDE DEF a, b, c, d
<1>8. a + c + v5 <= b + d + v5'
  <2>1. v5 \in Nat /\ v5' \in Nat
    BY <1>1
  <2> QED BY <1>2, <1>3, <1>4, <1>6, <2>1, AddLess
<1> QED BY <1>5, <1>7, <1>8

\* What a step has to show: what it reads is the booking, what it offers is what is left to pay.
ReadsKeep == \A h \in Hands : v6'[h].at # "none" =>
    (v6[h].at # "none" /\ v6'[h].read = v6[h].read) \/ v6'[h].read = v1
CodesKeep == \A k \in DOMAIN v4' :
    \/ k \in DOMAIN v4 /\ v4'[k].of = v4[k].of /\ v4'[k].due = v4[k].due
    \/ k \notin W!Captures(v4') /\ v4'[k].of - v4'[k].due = v1.paid

LEMMA MoneyKeeps ==
    ASSUME GateInv, GateTypes', Grown, ReadsKeep, CodesKeep, v7 => v7',
           v1.amount <= v1'.amount, v1'.paid <= v1'.amount,
           v1'.paid = v1.paid \/ (~v7' => v1'.paid <= Beside(v3', v4', v5', 0))
    PROVE  NotTooMuch' /\ Backed'
<1> DEFINE Old(k) == Beside(v3, v4, v5, k)  New(k) == Beside(v3', v4', v5', k)
<1>1. \A k : Old(k) <= New(k) /\ Old(k) \in Nat /\ New(k) \in Nat
  BY BesideGrows DEF GateInv
<1>2. \A k \in DOMAIN v4' : k \notin W!Captures(v4') => New(k) = New(0)
  <2>1. \A k \in DOMAIN v4' : k \notin W!Captures(v4') => W!Captures(v4') \ {k} = W!Captures(v4') \ {0}
    BY CapturesAre DEF GateTypes
  <2> QED BY <2>1 DEF Beside, Collected
<1>3. /\ v1.amount \in Nat /\ v1.paid \in Nat /\ v1'.amount \in Nat /\ v1'.paid \in Nat
      /\ \A h \in Hands : v6[h].at # "none" => v6[h].read.amount \in Nat /\ v6[h].read.paid \in Nat
  BY DEF GateInv, GateTypes, W!Booking, Flights, W!NoCall
<1> HIDE DEF Old, New
<1>4. NotTooMuch'
  <2>1. BookingFare <= v1'.amount
    BY <1>3, GatewayAssumption DEF GateInv, NotTooMuch
  <2>2. ASSUME NEW h \in Hands, v6'[h].at # "none"
        PROVE  /\ BookingFare <= v6'[h].read.amount /\ v6'[h].read.amount <= v1'.amount
               /\ v6'[h].read.paid <= v6'[h].read.amount
    BY <1>3, <2>2, GatewayAssumption DEF GateInv, NotTooMuch, ReadsKeep
  <2> QED BY <2>1, <2>2 DEF NotTooMuch
<1>5. ASSUME ~v7' PROVE /\ v1.paid <= Old(0)
                        /\ \A h \in Hands : v6[h].at # "none" => v6[h].read.paid <= Old(0)
                        /\ \A k \in DOMAIN v4 : v4[k].of - v4[k].due <= Old(k)
  BY <1>5 DEF GateInv, Backed, Old
<1>6. ASSUME ~v7', NEW h \in Hands, v6'[h].at # "none" PROVE v6'[h].read.paid <= New(0)
  BY <1>1, <1>3, <1>5, <1>6 DEF ReadsKeep
<1>7. ASSUME ~v7', NEW k \in DOMAIN v4' PROVE v4'[k].of - v4'[k].due <= New(k)
  <2>1. CASE k \in DOMAIN v4 /\ v4'[k].of = v4[k].of /\ v4'[k].due = v4[k].due
    <3>1. v4[k].of \in Nat /\ v4[k].due \in Nat
      BY <2>1, CapturesAre DEF GateInv, GateTypes
    <3> QED BY <1>1, <1>5, <1>7, <2>1, <3>1
  <2>2. CASE k \notin W!Captures(v4') /\ v4'[k].of - v4'[k].due = v1.paid
    BY <1>1, <1>2, <1>3, <1>5, <1>7, <2>2
  <2> QED BY <2>1, <2>2 DEF CodesKeep
<1>8. ~v7' => v1'.paid <= New(0)
  BY <1>1, <1>3, <1>5 DEF New
<1> QED BY <1>4, <1>6, <1>7, <1>8 DEF Backed, New

\* Where no request changes, or one does to c.
LEMMA OneCall ==
    ASSUME GateInv, NEW h \in Hands, NEW c \in Flights \union {W!NoCall},
           v6' = [v6 EXCEPT ![h] = c]
    PROVE  /\ v6' \in [Hands -> Flights \union {W!NoCall}]
           /\ v6'[h] = c /\ \A g \in Hands \ {h} : v6'[g] = v6[g]
BY DEF GateInv, GateTypes

LEMMA FlightIs ==
    GateInv => \A h \in Hands : v6[h].at # "none" =>
        /\ v6[h] \in Flights /\ v6[h].n \in Nat /\ v6[h].read \in W!Booking
        /\ v6[h].read.amount \in Nat /\ v6[h].read.paid \in Nat
<1> SUFFICES ASSUME GateInv, NEW h \in Hands, v6[h].at # "none"
             PROVE  /\ v6[h] \in Flights /\ v6[h].n \in Nat /\ v6[h].read \in W!Booking
                    /\ v6[h].read.amount \in Nat /\ v6[h].read.paid \in Nat
  OBVIOUS
<1>1. v6[h] \in Flights
  BY DEF GateInv, GateTypes, W!NoCall
<1> QED BY <1>1 DEF Flights, W!Booking

LEMMA BookingIs ==
    GateInv => v1 \in W!Booking /\ v1.amount \in Nat /\ v1.paid \in Nat
BY DEF GateInv, GateTypes, W!Booking

\* An order is made, for this booking or for something else.
LEMMA OrderMade ==
    ASSUME GateInv, NEW r \in W!Payments, r.at = "open",
           r.due = (IF r.type = "advance" THEN Advance ELSE r.of),
           v3' = Append(v3, r), UNCHANGED <<v1, v2, v4, v5, v6, v7>>
    PROVE  GateInv'
<1>3. /\ v3' \in Seq(W!Payments) /\ DOMAIN v3' = DOMAIN v3 \union {Len(v3) + 1}
      /\ v3'[Len(v3) + 1] = r
      /\ \A x \in DOMAIN v3 : v3'[x] = v3[x]
      /\ W!Captures(v3') = W!Captures(v3) /\ W!Captures(v3) \subseteq DOMAIN v3
  BY CodeOpened, CapturesAre DEF GateInv, GateTypes
<1>4. GateTypes'
  BY <1>3 DEF GateInv, GateTypes
<1>5. OrdersFor'
  BY <1>3 DEF GateInv, OrdersFor
<1>6. CallsAbout'
  BY <1>3 DEF GateInv, CallsAbout
<1>7. Grown /\ ReadsKeep /\ CodesKeep
  BY <1>3 DEF Grown, ReadsKeep, CodesKeep, GateInv, GateTypes
<1>8. NotTooMuch' /\ Backed'
  BY <1>4, <1>7, MoneyKeeps, BookingIs DEF GateInv, NotTooMuch
<1> QED BY <1>4, <1>5, <1>6, <1>8 DEF GateInv

LEMMA StepCreateOrder ==
    ASSUME GateInv, NEW type \in {"full", "advance"}, W!CreateOrder(type)
    PROVE  GateInv'
<1> DEFINE r == [due |-> W!computeAmountPaid(v1, type), of |-> v1.amount, type |-> type, at |-> "open"]
<1>1. v3' = Append(v3, r) /\ UNCHANGED <<v1, v2, v4, v5, v6, v7>>
  BY DEF W!CreateOrder
<1>2. r \in W!Payments /\ r.at = "open" /\ r.due = (IF r.type = "advance" THEN Advance ELSE r.of)
  BY BookingIs, GatewayAssumption DEF W!computeAmountPaid, W!Payments, W!Types
<1> HIDE DEF r
<1> QED BY <1>1, <1>2, OrderMade

LEMMA StepOrderElsewhere == ASSUME GateInv, W!OrderElsewhere PROVE GateInv'
<1> DEFINE r == [due |-> 0, of |-> 0, type |-> "full", at |-> "open"]
<1>1. v3' = Append(v3, r) /\ UNCHANGED <<v1, v2, v4, v5, v6, v7>>
  BY DEF W!OrderElsewhere
<1>2. r \in W!Payments /\ r.at = "open" /\ r.due = (IF r.type = "advance" THEN Advance ELSE r.of)
  BY DEF W!Payments, W!Types
<1> HIDE DEF r
<1> QED BY <1>1, <1>2, OrderMade

LEMMA StepPayOrder == ASSUME GateInv, NEW i \in DOMAIN v3, W!PayOrder(i) PROVE GateInv'
<1>1. /\ Moved(v3, v3', i, "captured") /\ v3[i].at = "open"
      /\ UNCHANGED <<v1, v2, v4, v5, v6, v7>>
  BY DEF W!PayOrder, Moved
<1>2. /\ v3' \in Seq(W!Payments) /\ DOMAIN v3' = DOMAIN v3 /\ W!Captures(v3) \subseteq W!Captures(v3')
      /\ \A x \in DOMAIN v3 : /\ v3'[x].due = v3[x].due /\ v3'[x].of = v3[x].of
                              /\ v3'[x].type = v3[x].type
  <2>1. v3 \in Seq(W!Payments) /\ "captured" \in {"captured", "closed"}
    BY DEF GateInv, GateTypes
  <2> QED BY <1>1, <2>1, MovedIs
<1>3. GateTypes'
  BY <1>1, <1>2 DEF GateInv, GateTypes
<1>4. OrdersFor'
  BY <1>2 DEF GateInv, OrdersFor
<1>5. CallsAbout'
  BY <1>1, <1>2 DEF GateInv, CallsAbout
<1>6. W!Captures(v3) \subseteq DOMAIN v3
  BY CapturesAre DEF GateInv, GateTypes
<1>7. Grown /\ ReadsKeep /\ CodesKeep
  <2>1. Grown
    <3>1. v5 \in Nat /\ v5' = v5 /\ v4' = v4
      BY <1>1 DEF GateInv, GateTypes
    <3> QED BY <1>2, <1>6, <3>1 DEF Grown
  <2>2. ReadsKeep /\ CodesKeep
    BY <1>1 DEF ReadsKeep, CodesKeep
  <2> QED BY <2>1, <2>2
<1>8. NotTooMuch' /\ Backed'
  BY <1>1, <1>3, <1>7, MoneyKeeps, BookingIs DEF GateInv, NotTooMuch
<1> QED BY <1>3, <1>4, <1>5, <1>8 DEF GateInv

\* A code is paid or closed, by the client or by the handler whose call becomes c.
LEMMA CodeMoves ==
    ASSUME GateInv, NEW k \in DOMAIN v4, v4[k].at = "open", NEW at \in {"captured", "closed"},
           Moved(v4, v4', k, at), UNCHANGED <<v1, v3, v5, v7>>,
           v2' \in [id : Nat, status : {"null", "active", "closed"}], v2' = v2 \/ v2'.id = k,
           v6' = v6 \/ \E h \in Hands : v6' = [v6 EXCEPT ![h] = W!NoCall]
    PROVE  GateInv'
<1>1. /\ v4' \in Seq(W!Payments) /\ DOMAIN v4' = DOMAIN v4 /\ W!Captures(v4) \subseteq W!Captures(v4')
      /\ \A x \in DOMAIN v4 : v4'[x].due = v4[x].due /\ v4'[x].of = v4[x].of
  <2>1. v4 \in Seq(W!Payments)
    BY DEF GateInv, GateTypes
  <2> QED BY <2>1, MovedIs
<1>2. /\ v6' \in [Hands -> Flights \union {W!NoCall}]
      /\ \A g \in Hands : v6'[g] = v6[g] \/ v6'[g].at = "none"
  <2>1. v6 \in [Hands -> Flights \union {W!NoCall}] /\ W!NoCall.at = "none"
    BY DEF GateInv, GateTypes, W!NoCall
  <2> QED BY <2>1
<1>3. GateTypes'
  BY <1>1, <1>2 DEF GateInv, GateTypes
<1>4. OrdersFor'
  BY DEF GateInv, OrdersFor
<1>5. CallsAbout'
  BY <1>1, <1>2 DEF GateInv, CallsAbout
<1>6. W!Captures(v4) \subseteq DOMAIN v4
  BY CapturesAre DEF GateInv, GateTypes
<1>7. Grown /\ ReadsKeep /\ CodesKeep
  <2>1. Grown
    <3>1. v5 \in Nat /\ v5' = v5 /\ v3' = v3
      BY DEF GateInv, GateTypes
    <3>2. \A x \in W!Captures(v4) : v4'[x].due = v4[x].due
      BY <1>1, <1>6
    <3> QED BY <1>1, <3>1, <3>2 DEF Grown
  <2>2. ReadsKeep
    BY <1>2 DEF ReadsKeep
  <2>3. CodesKeep
    BY <1>1 DEF CodesKeep
  <2> QED BY <2>1, <2>2, <2>3
<1>8. NotTooMuch' /\ Backed'
  BY <1>3, <1>7, MoneyKeeps, BookingIs DEF GateInv, NotTooMuch
<1> QED BY <1>3, <1>4, <1>5, <1>8 DEF GateInv

LEMMA StepScan == ASSUME GateInv, NEW k \in DOMAIN v4, W!Scan(k) PROVE GateInv'
<1>1. PICK at \in {"captured", "closed"} : Moved(v4, v4', k, at)
  BY DEF W!Scan, Moved
<1> QED BY <1>1, CodeMoves DEF W!Scan, GateInv, GateTypes

\* Where the payments stay as they are and a call becomes c.
LEMMA PaymentsStay ==
    ASSUME GateInv, GateTypes', UNCHANGED <<v3, v4>>, v5 <= v5', v7 => v7',
           v1.amount <= v1'.amount, v1'.paid <= v1'.amount,
           v1'.paid = v1.paid \/ (~v7' => v1'.paid <= Beside(v3, v4, v5', 0)),
           ReadsKeep, CallsAbout'
    PROVE  GateInv'
<1>1. OrdersFor'
  BY DEF GateInv, OrdersFor
<1>2. Grown /\ CodesKeep
  BY DEF Grown, CodesKeep
<1>3. NotTooMuch' /\ Backed'
  BY <1>2, MoneyKeeps
<1> QED BY <1>1, <1>3 DEF GateInv

LEMMA StepDeliver == ASSUME GateInv, W!Deliver PROVE GateInv'
<1>1. /\ v1.amount = BookingFare /\ UNCHANGED <<v2, v3, v4, v5, v6, v7>>
      /\ v1' = [v1 EXCEPT !.amount = BookingFare + Charge, !.status = IF @ = "paid" THEN "partial" ELSE @]
  BY DEF W!Deliver
<1>2. /\ v1' \in W!Booking /\ v1'.amount = BookingFare + Charge /\ v1'.paid = v1.paid
  <2> DEFINE status == IF v1.status = "paid" THEN "partial" ELSE v1.status
  <2>1. status \in {"pending", "partial", "paid"}
    BY BookingIs DEF GateInv, W!Booking
  <2>2. v1' = [v1 EXCEPT !.amount = BookingFare + Charge, !.status = status]
    BY <1>1
  <2>3. BookingFare + Charge \in Nat
    BY GatewayAssumption
  <2> HIDE DEF status
  <2> QED BY <2>1, <2>2, <2>3, BookingIs DEF GateInv, W!Booking
<1>3. GateTypes'
  BY <1>1, <1>2 DEF GateInv, GateTypes
<1>4. v1.amount <= v1'.amount /\ v1'.paid <= v1'.amount
  BY <1>1, <1>2, GatewayAssumption, BookingIs DEF GateInv, NotTooMuch
<1>5. ReadsKeep /\ CallsAbout' /\ v5 <= v5'
  BY <1>1 DEF ReadsKeep, GateInv, CallsAbout, GateTypes
<1> QED BY <1>1, <1>2, <1>3, <1>4, <1>5, PaymentsStay

\* A request begins, moves on or ends, and nothing else happens.
LEMMA CallMoves ==
    ASSUME GateInv, NEW h \in Hands, NEW c \in Flights \union {W!NoCall}, v6' = [v6 EXCEPT ![h] = c],
           UNCHANGED <<v1, v3, v4, v5, v7>>,
           v2' \in [id : Nat, status : {"null", "active", "closed"}], v2'.id # 0 => v2'.id \in DOMAIN v4,
           c.at = "none" \/ c.read = v1 \/ (v6[h].at # "none" /\ c.read = v6[h].read),
           c.at \in {"full", "advance"} => c.n \in W!Captures(v3),
           c.at = "confirm" => c.n \in W!Captures(v4),
           c.at \in {"keep", "fetch", "close"} => c.n \in DOMAIN v4,
           c.at = "collect" /\ c.n # 0 => c.n \in DOMAIN v4
    PROVE  GateInv'
<1>1. /\ v6' \in [Hands -> Flights \union {W!NoCall}]
      /\ v6'[h] = c /\ \A g \in Hands \ {h} : v6'[g] = v6[g]
  BY OneCall
<1>2. GateTypes'
  BY <1>1 DEF GateInv, GateTypes
<1>3. ReadsKeep
  BY <1>1 DEF ReadsKeep
<1>4. CallsAbout'
  BY <1>1 DEF GateInv, CallsAbout
<1>5. v5 <= v5' /\ v1.amount <= v1'.amount /\ v1'.paid <= v1'.amount
  BY BookingIs DEF GateInv, GateTypes, NotTooMuch
<1> QED BY <1>2, <1>3, <1>4, <1>5, PaymentsStay

\* Requests begin with the booking and the columns as they are.
LEMMA Begins ==
    ASSUME GateInv, NEW at \in {"full", "advance", "keep", "fetch", "confirm", "collect", "close"}, NEW n \in Nat
    PROVE  LET c == [at |-> at, n |-> n, read |-> v1, qr |-> v2] IN
           c \in Flights /\ c.at = at /\ c.n = n /\ c.read = v1
BY DEF GateInv, GateTypes, Flights

LEMMA StepBegin ==
    ASSUME GateInv, NEW h \in Hands,
           \/ \E i \in DOMAIN v3, type \in W!Types : W!Verify(h, i, type)
           \/ \E k \in DOMAIN v4 : W!Webhook(h, k)
           \/ W!Poll(h) \/ W!Collect(h)
    PROVE  GateInv'
<1>1. PICK at \in {"full", "advance", "fetch", "confirm", "collect"}, n \in Nat :
        /\ W!Go(h, at, n)
        /\ at \in {"full", "advance"} => n \in W!Captures(v3)
        /\ at = "confirm" => n \in W!Captures(v4)
        /\ at = "fetch" => n \in DOMAIN v4
        /\ at = "collect" /\ n # 0 => n \in DOMAIN v4
        /\ UNCHANGED <<v1, v2, v3, v4, v5, v7>>
  <2>1. ASSUME NEW i \in DOMAIN v3, NEW type \in {"full", "advance"}, W!Verify(h, i, type)
        PROVE  W!Go(h, type, i) /\ i \in W!Captures(v3) /\ i \in Nat
               /\ UNCHANGED <<v1, v2, v3, v4, v5, v7>>
    BY <2>1, CapturesAre DEF W!Verify, W!Signed, W!Captures, GateInv, GateTypes
  <2>2. ASSUME NEW k \in DOMAIN v4, W!Webhook(h, k)
        PROVE  W!Go(h, "confirm", k) /\ k \in W!Captures(v4) /\ k \in Nat
               /\ UNCHANGED <<v1, v2, v3, v4, v5, v7>>
    BY <2>2, CapturesAre DEF W!Webhook, W!Captures, GateInv, GateTypes
  <2>3. ASSUME W!Poll(h)
        PROVE  W!Go(h, "fetch", v2.id) /\ v2.id \in DOMAIN v4 /\ v2.id \in Nat
               /\ UNCHANGED <<v1, v2, v3, v4, v5, v7>>
    BY <2>3 DEF W!Poll, GateInv, GateTypes, CallsAbout
  <2>4. ASSUME W!Collect(h)
        PROVE  W!Go(h, "collect", v2.id) /\ (v2.id # 0 => v2.id \in DOMAIN v4) /\ v2.id \in Nat
               /\ UNCHANGED <<v1, v2, v3, v4, v5, v7>>
    BY <2>4 DEF W!Collect, GateInv, GateTypes, CallsAbout
  <2> QED BY <2>1, <2>2, <2>3, <2>4 DEF W!Types
<1> DEFINE c == [at |-> at, n |-> n, read |-> v1, qr |-> v2]
<1>2. c \in Flights /\ c.at = at /\ c.n = n /\ c.read = v1
  BY Begins
<1>3. v6' = [v6 EXCEPT ![h] = c]
  BY <1>1 DEF W!Go
<1>4. v2' \in [id : Nat, status : {"null", "active", "closed"}] /\ (v2'.id # 0 => v2'.id \in DOMAIN v4)
  BY <1>1 DEF GateInv, GateTypes, CallsAbout
<1> HIDE DEF c
<1> QED BY <1>1, <1>2, <1>3, <1>4, CallMoves

LEMMA StepCreateQr == ASSUME GateInv, NEW h \in Hands, W!CreateQr(h) PROVE GateInv'
<1> DEFINE r == [due |-> W!AmountDue(v1), of |-> v1.amount, type |-> "full", at |-> "open"]
           c == [at |-> "keep", n |-> Len(v4) + 1, read |-> v1, qr |-> v2]
<1>1. /\ v4' = Append(v4, r) /\ v6' = [v6 EXCEPT ![h] = c]
      /\ UNCHANGED <<v1, v2, v3, v5, v7>>
  BY DEF W!CreateQr, W!Go
<1>2. r \in W!Payments /\ r.at = "open" /\ r.of - r.due = v1.paid
  <2>1. W!AmountDue(v1) \in Nat /\ v1.amount - W!AmountDue(v1) = v1.paid
    BY BookingIs DEF GateInv, NotTooMuch, W!AmountDue
  <2> QED BY <2>1, BookingIs DEF W!Payments, W!Types
<1>3. c \in Flights /\ c.at = "keep" /\ c.n = Len(v4) + 1 /\ c.read = v1
  <2>1. Len(v4) + 1 \in Nat
    BY CapturesAre DEF GateInv, GateTypes
  <2> QED BY <2>1, Begins
<1> HIDE DEF r, c
<1>4. /\ v4' \in Seq(W!Payments) /\ DOMAIN v4' = DOMAIN v4 \union {Len(v4) + 1}
      /\ v4'[Len(v4) + 1] = r /\ Len(v4) + 1 \notin DOMAIN v4
      /\ \A x \in DOMAIN v4 : v4'[x] = v4[x]
      /\ W!Captures(v4') = W!Captures(v4) /\ W!Captures(v4) \subseteq DOMAIN v4
  BY <1>1, <1>2, CodeOpened, CapturesAre DEF GateInv, GateTypes
<1>5. /\ v6' \in [Hands -> Flights \union {W!NoCall}]
      /\ v6'[h] = c /\ \A g \in Hands \ {h} : v6'[g] = v6[g]
  BY <1>1, <1>3, OneCall
<1>6. GateTypes'
  BY <1>1, <1>4, <1>5 DEF GateInv, GateTypes
<1>7. OrdersFor'
  BY <1>1 DEF GateInv, OrdersFor
<1>8. CallsAbout'
  BY <1>1, <1>3, <1>4, <1>5 DEF GateInv, CallsAbout
<1>9. Grown /\ ReadsKeep /\ CodesKeep
  <2>1. Grown
    <3>1. v5 \in Nat /\ v5' = v5 /\ v3' = v3
      BY <1>1 DEF GateInv, GateTypes
    <3> QED BY <1>4, <3>1 DEF Grown
  <2>2. ReadsKeep
    BY <1>3, <1>5 DEF ReadsKeep
  <2>3. CodesKeep
    BY <1>2, <1>4 DEF CodesKeep
  <2> QED BY <2>1, <2>2, <2>3
<1>10. NotTooMuch' /\ Backed'
  BY <1>1, <1>6, <1>9, MoneyKeeps, BookingIs DEF GateInv, NotTooMuch
<1> QED BY <1>6, <1>7, <1>8, <1>10 DEF GateInv

LEMMA EndIs == W!NoCall.at = "none"
BY DEF W!NoCall

LEMMA StepKeepQr == ASSUME GateInv, NEW h \in Hands, W!KeepQr(h) PROVE GateInv'
<1>1. /\ v6[h].at = "keep" /\ v6' = [v6 EXCEPT ![h] = W!NoCall]
      /\ v2' = [id |-> v6[h].n, status |-> "active"]
      /\ UNCHANGED <<v1, v3, v4, v5, v7>>
  BY DEF W!KeepQr, W!Done
<1>2. v6[h].n \in Nat /\ v6[h].n \in DOMAIN v4
  BY <1>1, FlightIs DEF GateInv, CallsAbout
<1> QED BY <1>1, <1>2, EndIs, CallMoves

LEMMA StepFetch == ASSUME GateInv, NEW h \in Hands, W!Fetch(h) PROVE GateInv'
<1>1. /\ v6[h].at = "fetch" /\ UNCHANGED <<v1, v2, v3, v4, v5, v7>>
      /\ v6[h].n \in DOMAIN v4 /\ v6[h] \in Flights
  BY FlightIs DEF W!Fetch, GateInv, CallsAbout
<1>2. v2' \in [id : Nat, status : {"null", "active", "closed"}] /\ (v2'.id # 0 => v2'.id \in DOMAIN v4)
  BY <1>1 DEF GateInv, GateTypes, CallsAbout
<1>3. CASE W!Captured(v6[h].n)
  <2> DEFINE c == [v6[h] EXCEPT !.at = "confirm"]
  <2>1. c \in Flights /\ c.at = "confirm" /\ c.n = v6[h].n /\ c.read = v6[h].read
    BY <1>1 DEF Flights
  <2>2. v6' = [v6 EXCEPT ![h] = c]
    BY <1>1, <1>3 DEF W!Fetch, W!Then
  <2>3. c.n \in W!Captures(v4)
    BY <1>1, <1>3, <2>1 DEF W!Captured, W!Captures
  <2> HIDE DEF c
  <2> QED BY <1>1, <1>2, <2>1, <2>2, <2>3, CallMoves
<1>4. CASE ~W!Captured(v6[h].n)
  <2>1. v6' = [v6 EXCEPT ![h] = W!NoCall]
    BY <1>4 DEF W!Fetch, W!Done
  <2> QED BY <1>1, <1>2, <2>1, EndIs, CallMoves
<1> QED BY <1>3, <1>4

LEMMA StepFail == ASSUME GateInv, NEW h \in Hands, W!Fail(h) PROVE GateInv'
<1>1. /\ v6' = [v6 EXCEPT ![h] = W!NoCall] /\ UNCHANGED <<v1, v2, v3, v4, v5, v7>>
  BY DEF W!Fail, W!Done
<1>2. v2' \in [id : Nat, status : {"null", "active", "closed"}] /\ (v2'.id # 0 => v2'.id \in DOMAIN v4)
  BY <1>1 DEF GateInv, GateTypes, CallsAbout
<1> QED BY <1>1, <1>2, EndIs, CallMoves

LEMMA StepCloseQr == ASSUME GateInv, NEW h \in Hands, W!CloseQr(h) PROVE GateInv'
<1> DEFINE k == v6[h].n
<1>1. /\ v6[h].at = "close" /\ v6' = [v6 EXCEPT ![h] = W!NoCall]
      /\ v4' = IF v4[k].at = "open" THEN [v4 EXCEPT ![k].at = "closed"] ELSE v4
      /\ v2' = [id |-> k, status |-> "closed"]
      /\ UNCHANGED <<v1, v3, v5, v7>>
  BY DEF W!CloseQr, W!Done
<1>2. k \in Nat /\ k \in DOMAIN v4
  BY <1>1, FlightIs DEF GateInv, CallsAbout
<1> HIDE DEF k
<1>3. v2' \in [id : Nat, status : {"null", "active", "closed"}] /\ v2'.id = k
  BY <1>1, <1>2
<1>4. CASE v4[k].at = "open"
  <2>1. Moved(v4, v4', k, "closed")
    BY <1>1, <1>4 DEF Moved
  <2> QED BY <1>1, <1>2, <1>3, <1>4, <2>1, CodeMoves
<1>5. CASE v4[k].at # "open"
  BY <1>1, <1>2, <1>3, <1>5, EndIs, CallMoves
<1> QED BY <1>4, <1>5

LEMMA StepFinalizePayment == ASSUME GateInv, NEW h \in Hands, W!FinalizePayment(h) PROVE GateInv'
<1> DEFINE c == v6[h]  type == c.at  paid == W!computeAmountPaid(c.read, type)
           status == IF type = "advance" THEN "partial" ELSE "paid"
<1>1. /\ c.at \in {"full", "advance"} /\ v6' = [v6 EXCEPT ![h] = W!NoCall]
      /\ v1' = [v1 EXCEPT !.status = status, !.mode = "razorpay", !.paid = paid]
      /\ v7' = (v7 \/ c.read.amount # v3[c.n].of \/ type # v3[c.n].type)
      /\ UNCHANGED <<v2, v3, v4, v5>>
  BY DEF W!FinalizePayment, W!Done, W!Types
<1>2. /\ c.read.amount \in Nat /\ BookingFare <= c.read.amount /\ c.read.amount <= v1.amount
      /\ c.n \in W!Captures(v3) /\ v1.amount \in Nat
  BY <1>1, FlightIs, BookingIs DEF GateInv, CallsAbout, NotTooMuch
<1>3. c.n \in DOMAIN v3 /\ v3[c.n].due = IF v3[c.n].type = "advance" THEN Advance ELSE v3[c.n].of
  BY <1>2, CapturesAre DEF GateInv, GateTypes, OrdersFor
<1>4. paid \in Nat /\ paid <= v1.amount
  BY <1>2, GatewayAssumption DEF W!computeAmountPaid
<1>5. ~v7' => paid = v3[c.n].due
  BY <1>1, <1>3 DEF W!computeAmountPaid, GateInv, GateTypes
<1>6. v3[c.n].due <= Beside(v3, v4, v5, 0)
  <2> DEFINE due == v3[c.n].due  a == Collected(v3, c.n)  b == Collected(v4, 0)
  <2>1. Collected(v3, 0) = due + a
    BY <1>2, CollectedAll DEF GateInv, GateTypes
  <2>2. due \in Nat /\ a \in Nat /\ b \in Nat /\ v5 \in Nat
    BY <1>3, CollectedIs, CapturesAre DEF GateInv, GateTypes
  <2>3. Beside(v3, v4, v5, 0) = (due + a) + b + v5
    BY <2>1 DEF Beside
  <2> HIDE DEF due, a, b
  <2>4. due <= (due + a) + b + v5
    BY <2>2
  <2> QED BY <2>3, <2>4 DEF due
<1>7. status \in {"pending", "partial", "paid"}
  OBVIOUS
<1> HIDE DEF c, type, paid, status
<1>8. v1' \in W!Booking /\ v1'.amount = v1.amount /\ v1'.paid = paid
  BY <1>1, <1>4, <1>7, BookingIs DEF GateInv, W!Booking, W!Modes
<1>9. /\ v6' \in [Hands -> Flights \union {W!NoCall}]
      /\ v6'[h] = W!NoCall /\ \A g \in Hands \ {h} : v6'[g] = v6[g]
  BY <1>1, OneCall
<1>10. GateTypes'
  BY <1>1, <1>8, <1>9 DEF GateInv, GateTypes
<1>11. ReadsKeep /\ CallsAbout'
  BY <1>1, <1>9, EndIs DEF ReadsKeep, GateInv, CallsAbout
<1>12. ~v7' => v1'.paid <= Beside(v3, v4, v5', 0)
  BY <1>1, <1>5, <1>6, <1>8
<1>13. v1.amount <= v1'.amount /\ v1'.paid <= v1'.amount /\ v5 <= v5' /\ (v7 => v7')
  BY <1>1, <1>2, <1>4, <1>8 DEF GateInv, GateTypes
<1> QED BY <1>1, <1>10, <1>11, <1>12, <1>13, PaymentsStay

LEMMA StepFinalizeTripPayment == ASSUME GateInv, NEW h \in Hands, W!FinalizeTripPayment(h) PROVE GateInv'
<1> DEFINE c == v6[h]  mode == IF c.at = "confirm" THEN "razorpay_qr" ELSE "cash"
           next == IF c.n # 0 /\ (c.at = "confirm" \/ c.qr.status # "closed") THEN [c EXCEPT !.at = "close"] ELSE W!NoCall
<1>1. /\ c.at \in {"confirm", "collect"} /\ v6' = [v6 EXCEPT ![h] = next]
      /\ v1' = [v1 EXCEPT !.status = "paid", !.paid = c.read.amount, !.mode = mode]
      /\ v5' = IF c.at = "collect" THEN v5 + W!AmountDue(c.read) ELSE v5
      /\ v7' = (v7 \/ (c.at = "confirm" /\ c.read.amount # v4[c.n].of))
      /\ UNCHANGED <<v2, v3, v4>>
  BY DEF W!FinalizeTripPayment, W!Then, W!Done
<1>2. /\ c \in Flights /\ c.n \in Nat /\ c.read.amount \in Nat /\ c.read.paid \in Nat
      /\ c.read.paid <= c.read.amount /\ c.read.amount <= v1.amount /\ v1.amount \in Nat
      /\ c.at = "confirm" => c.n \in W!Captures(v4)
      /\ c.n # 0 => c.n \in DOMAIN v4
  BY <1>1, FlightIs, BookingIs, CapturesAre DEF GateInv, GateTypes, CallsAbout, NotTooMuch
<1>3. /\ next \in Flights \union {W!NoCall}
      /\ next.at # "none" => next.at = "close" /\ next.n \in DOMAIN v4 /\ next.read = c.read
  BY <1>1, <1>2, EndIs DEF Flights
<1>4. mode \in W!Modes
  BY DEF W!Modes
<1>5. W!AmountDue(c.read) \in Nat /\ c.read.paid + W!AmountDue(c.read) = c.read.amount
  BY <1>2 DEF W!AmountDue
<1>6. v5' \in Nat /\ v5 \in Nat /\ v5 <= v5'
  BY <1>1, <1>5 DEF GateInv, GateTypes
<1>7. ASSUME ~v7' PROVE c.read.amount <= Beside(v3, v4, v5', 0)
  <2> DEFINE a == Collected(v3, 0)  b == Collected(v4, 0)
  <2>1. a \in Nat /\ b \in Nat
    BY CollectedIs DEF GateInv, GateTypes
  <2>2. CASE c.at = "collect"
    <3>1. c.read.paid <= a + b + v5
      BY <1>1, <1>7, <2>2 DEF GateInv, Backed, Beside
    <3>2. v5' = v5 + W!AmountDue(c.read)
      BY <1>1, <2>2
    <3> HIDE DEF a, b
    <3>3. c.read.amount <= a + b + v5'
      BY <1>2, <1>5, <1>6, <2>1, <3>1, <3>2
    <3> QED BY <3>3 DEF a, b, Beside
  <2>3. CASE c.at = "confirm"
    <3> DEFINE due == v4[c.n].due  of == v4[c.n].of  d == Collected(v4, c.n)
    <3>1. of - due <= a + d + v5
      BY <1>1, <1>2, <1>7, <2>3, CapturesAre DEF GateInv, GateTypes, Backed, Beside
    <3>2. b = due + d
      BY <1>2, <2>3, CollectedAll DEF GateInv, GateTypes
    <3>3. due \in Nat /\ of \in Nat /\ d \in Nat
      BY <1>2, <2>3, CapturesAre, CollectedIs DEF GateInv, GateTypes
    <3>4. c.read.amount = of /\ v5' = v5
      BY <1>1, <1>7, <2>3
    <3> HIDE DEF a, b, d, due, of
    <3>5. of <= a + b + v5
      BY <1>6, <2>1, <3>1, <3>2, <3>3
    <3> QED BY <3>4, <3>5 DEF a, b, Beside
  <2> QED BY <1>1, <2>2, <2>3
<1> HIDE DEF c, mode, next
<1>8. v1' \in W!Booking /\ v1'.amount = v1.amount /\ v1'.paid = c.read.amount
  BY <1>1, <1>2, <1>4, BookingIs DEF GateInv, W!Booking
<1>9. /\ v6' \in [Hands -> Flights \union {W!NoCall}]
      /\ v6'[h] = next /\ \A g \in Hands \ {h} : v6'[g] = v6[g]
  BY <1>1, <1>3, OneCall
<1>10. GateTypes'
  BY <1>1, <1>6, <1>8, <1>9 DEF GateInv, GateTypes
<1>11. ReadsKeep
  <2>1. v6[h].at # "none" /\ v6[h] = c
    BY <1>1 DEF c
  <2> QED BY <1>3, <1>9, <2>1 DEF ReadsKeep
<1>12. CallsAbout'
  BY <1>1, <1>3, <1>9 DEF GateInv, CallsAbout
<1>13. /\ v1.amount <= v1'.amount /\ v1'.paid <= v1'.amount /\ (v7 => v7')
       /\ ~v7' => v1'.paid <= Beside(v3, v4, v5', 0)
  BY <1>1, <1>2, <1>7, <1>8 DEF GateInv, GateTypes
<1> QED BY <1>1, <1>6, <1>10, <1>11, <1>12, <1>13, PaymentsStay

LEMMA GateInit == W!Init => GateInv
<1> SUFFICES ASSUME W!Init PROVE GateInv
  OBVIOUS
<1>1. <<>> \in Seq(W!Payments) /\ DOMAIN <<>> = {} /\ v3 = <<>> /\ v4 = <<>>
  BY DEF W!Init
<1>2. /\ v1 \in W!Booking /\ v1.amount = BookingFare /\ v1.paid = 0
      /\ v2 \in [id : Nat, status : {"null", "active", "closed"}] /\ v2.id = 0
  BY GatewayAssumption DEF W!Init, W!Booking, W!Modes
<1>3. \A h \in Hands : v6[h] = W!NoCall /\ v6[h].at = "none"
  BY EndIs DEF W!Init
<1>4. GateTypes
  BY <1>1, <1>2 DEF W!Init, GateTypes
<1>5. OrdersFor /\ CallsAbout
  BY <1>1, <1>2, <1>3 DEF OrdersFor, CallsAbout
<1>6. NotTooMuch
  BY <1>2, <1>3, GatewayAssumption DEF NotTooMuch
<1>7. Backed
  <2>1. Beside(v3, v4, v5, 0) \in Nat
    BY <1>1, BesideIs DEF W!Init
  <2> QED BY <1>1, <1>2, <1>3, <2>1 DEF Backed
<1> QED BY <1>4, <1>5, <1>6, <1>7 DEF GateInv

LEMMA GateStep == GateInv /\ [W!Next]_(W!vars) => GateInv'
<1> SUFFICES ASSUME GateInv, [W!Next]_(W!vars) PROVE GateInv'
  OBVIOUS
<1>1. ASSUME (\E type \in W!Types : W!CreateOrder(type)) \/ W!OrderElsewhere PROVE GateInv'
  BY <1>1, StepCreateOrder, StepOrderElsewhere DEF W!Types
<1>2. ASSUME NEW h \in Hands,
             \/ \E i \in DOMAIN v3, type \in W!Types : W!Verify(h, i, type)
             \/ \E k \in DOMAIN v4 : W!Webhook(h, k)
             \/ W!Poll(h) \/ W!Collect(h)
      PROVE  GateInv'
  BY <1>2, StepBegin
<1>3. ASSUME NEW h \in Hands,
             \/ W!FinalizePayment(h) \/ W!CreateQr(h) \/ W!KeepQr(h) \/ W!Fetch(h)
             \/ W!FinalizeTripPayment(h) \/ W!CloseQr(h) \/ W!Fail(h)
      PROVE  GateInv'
  BY <1>3, StepFinalizePayment, StepCreateQr, StepKeepQr, StepFetch, StepFinalizeTripPayment,
     StepCloseQr, StepFail
<1>4. ASSUME (\E i \in DOMAIN v3 : W!PayOrder(i)) \/ (\E k \in DOMAIN v4 : W!Scan(k)) \/ W!Deliver
      PROVE  GateInv'
  BY <1>4, StepPayOrder, StepScan, StepDeliver
<1>5. CASE UNCHANGED W!vars
  BY <1>5 DEF W!vars, GateInv, GateTypes, OrdersFor, CallsAbout, NotTooMuch, Backed
<1> QED BY <1>1, <1>2, <1>3, <1>4, <1>5 DEF W!Next

LEMMA GateHolds == GateInv => W!PaidForReal
<1> SUFFICES ASSUME GateInv, ~v7 PROVE v1.paid <= W!Sums(v3) + W!Sums(v4) + v5
  BY DEF W!PaidForReal, W!Covered
<1>1. W!Sums(v3) = Collected(v3, 0) /\ W!Sums(v4) = Collected(v4, 0)
  BY SumsAre DEF GateInv, GateTypes
<1> QED BY <1>1 DEF GateInv, Backed, Beside

-----------------------------------------------------------------------------
\* There are as many orders and codes as the bound allows, and a request has read the code of one.
GateBound ==
    /\ Len(v3) + Len(v4) <= MaxPayments
    /\ \A h \in Hands : v6[h] = W!NoCall \/ v6[h].qr.id \in 0..MaxPayments

\* The code of the trip is one of those there are.
LEMMA CodeWithin == GateInv /\ GateBound => v2.id \in 0..MaxPayments
<1> SUFFICES ASSUME GateInv, GateBound PROVE v2.id \in 0..MaxPayments
  OBVIOUS
<1>1. Len(v3) \in Nat /\ Len(v4) \in Nat /\ DOMAIN v4 = 1..Len(v4) /\ v2.id \in Nat
  BY DEF GateInv, GateTypes
<1> QED BY <1>1, GatewayAssumption DEF GateInv, GateBound, CallsAbout

\* What a request in flight has read of the code.
Bounded(c) == c = W!NoCall \/ c.qr.id \in 0..MaxPayments

LEMMA GateBoundInit == W!Init => GateBound
<1>1. <<>> \in Seq(W!Payments) /\ Len(<<>>) = 0
  OBVIOUS
<1> QED BY <1>1, GatewayAssumption DEF W!Init, GateBound

LEMMA GateBoundStep == GateInv /\ GateBound /\ [W!Next]_(W!vars) => GateBound'
<1> SUFFICES ASSUME GateInv, GateBound, [W!Next]_(W!vars) PROVE GateBound'
  OBVIOUS
<1>1. /\ v3 \in Seq(W!Payments) /\ v4 \in Seq(W!Payments)
      /\ Len(v3) \in Nat /\ Len(v4) \in Nat /\ Len(v3) + Len(v4) <= MaxPayments
      /\ v3' \in Seq(W!Payments) /\ v4' \in Seq(W!Payments)
      /\ v6 \in [Hands -> Flights \union {W!NoCall}] /\ \A h \in Hands : Bounded(v6[h])
      /\ v2.id \in 0..MaxPayments
  BY CodeWithin, GateStep DEF GateInv, GateTypes, GateBound, Bounded
<1> DEFINE Within == Len(v3') + Len(v4') <= MaxPayments /\ \A h \in Hands : Bounded(v6'[h])
<1>2. ASSUME (\E type \in W!Types : W!CreateOrder(type)) \/ W!OrderElsewhere PROVE Within
  <2>1. Len(v3) + Len(v4) < MaxPayments /\ UNCHANGED <<v4, v6>> /\ \E r : v3' = Append(v3, r)
    <3>1. CASE W!OrderElsewhere
      BY <3>1 DEF W!OrderElsewhere
    <3>2. ASSUME NEW type \in W!Types, W!CreateOrder(type)
          PROVE  Len(v3) + Len(v4) < MaxPayments /\ UNCHANGED <<v4, v6>> /\ \E r : v3' = Append(v3, r)
      BY <3>2 DEF W!CreateOrder
    <3> QED BY <1>2, <3>1, <3>2
  <2>2. Len(v3') = Len(v3) + 1
    BY <1>1, <2>1
  <2> QED BY <1>1, <2>1, <2>2, GatewayAssumption
<1>3. ASSUME NEW h \in Hands, W!CreateQr(h) PROVE Within
  <2>1. /\ Len(v3) + Len(v4) < MaxPayments /\ UNCHANGED v3
        /\ v4' = Append(v4, [due |-> W!AmountDue(v1), of |-> v1.amount, type |-> "full", at |-> "open"])
        /\ v6' = [v6 EXCEPT ![h] = [at |-> "keep", n |-> Len(v4) + 1, read |-> v1, qr |-> v2]]
    BY <1>3 DEF W!CreateQr, W!Go
  <2>2. Len(v4') = Len(v4) + 1
    BY <1>1, <2>1
  <2>3. \A g \in Hands : Bounded(v6'[g])
    BY <1>1, <2>1 DEF Bounded
  <2> QED BY <1>1, <2>1, <2>2, <2>3, GatewayAssumption
<1>4. ASSUME NEW h \in Hands, NEW at, NEW n,
             UNCHANGED <<v3, v4>>,
             \/ v6' = v6 \/ v6' = [v6 EXCEPT ![h] = W!NoCall]
             \/ v6[h] # W!NoCall /\ v6' = [v6 EXCEPT ![h].at = at]
             \/ v6' = [v6 EXCEPT ![h] = [at |-> at, n |-> n, read |-> v1, qr |-> v2]]
      PROVE  Within
  <2>1. CASE v6' = v6 \/ v6' = [v6 EXCEPT ![h] = W!NoCall]
    BY <1>1, <1>4, <2>1 DEF Bounded
  <2>2. CASE v6[h] # W!NoCall /\ v6' = [v6 EXCEPT ![h].at = at]
    <3>1. v6[h] \in Flights
      BY <1>1, <2>2
    <3>2. \A g \in Hands : v6'[g] = v6[g] \/ v6'[g].qr.id = v6[h].qr.id
      BY <1>1, <2>2, <3>1 DEF Flights
    <3> QED BY <1>1, <1>4, <2>2, <3>2 DEF Bounded
  <2>3. CASE v6' = [v6 EXCEPT ![h] = [at |-> at, n |-> n, read |-> v1, qr |-> v2]]
    BY <1>1, <1>4, <2>3 DEF Bounded
  <2> QED BY <1>4, <2>1, <2>2, <2>3
<1>5. ASSUME NEW h \in Hands,
             \/ \E i \in DOMAIN v3, type \in W!Types : W!Verify(h, i, type)
             \/ \E k \in DOMAIN v4 : W!Webhook(h, k)
             \/ W!Poll(h) \/ W!Collect(h) \/ W!FinalizePayment(h) \/ W!KeepQr(h) \/ W!Fetch(h)
             \/ W!FinalizeTripPayment(h) \/ W!Fail(h)
      PROVE  Within
  <2>1. UNCHANGED <<v3, v4>>
    BY <1>5 DEF W!Verify, W!Webhook, W!Poll, W!Collect, W!FinalizePayment, W!KeepQr, W!Fetch,
                W!FinalizeTripPayment, W!Fail
  <2>2. \E at, n : \/ v6' = [v6 EXCEPT ![h] = W!NoCall]
                   \/ v6[h] # W!NoCall /\ v6' = [v6 EXCEPT ![h].at = at]
                   \/ v6' = [v6 EXCEPT ![h] = [at |-> at, n |-> n, read |-> v1, qr |-> v2]]
    <3>1. CASE \/ \E i \in DOMAIN v3, type \in W!Types : W!Verify(h, i, type)
               \/ \E k \in DOMAIN v4 : W!Webhook(h, k)
               \/ W!Poll(h) \/ W!Collect(h)
      BY <3>1 DEF W!Verify, W!Webhook, W!Poll, W!Collect, W!Go
    <3>2. CASE W!FinalizePayment(h) \/ W!KeepQr(h) \/ W!Fail(h)
      BY <3>2 DEF W!FinalizePayment, W!KeepQr, W!Fail, W!Done
    <3>3. CASE W!Fetch(h) \/ W!FinalizeTripPayment(h)
      <4>1. v6[h] # W!NoCall
        BY <3>3, EndIs DEF W!Fetch, W!FinalizeTripPayment
      <4> QED BY <3>3, <4>1 DEF W!Fetch, W!FinalizeTripPayment, W!Done, W!Then
    <3> QED BY <1>5, <3>1, <3>2, <3>3
  <2> QED BY <1>4, <2>1, <2>2
<1>6. ASSUME NEW h \in Hands, W!CloseQr(h) PROVE Within
  <2>1. UNCHANGED v3 /\ v6' = [v6 EXCEPT ![h] = W!NoCall]
    BY <1>6 DEF W!CloseQr, W!Done
  <2>2. Len(v4') = Len(v4)
    <3>1. v4' = v4 \/ v4' = [v4 EXCEPT ![v6[h].n].at = "closed"]
      BY <1>6 DEF W!CloseQr
    <3> QED BY <1>1, <3>1
  <2> QED BY <1>1, <2>1, <2>2 DEF Bounded
<1>7. ASSUME NEW i \in DOMAIN v3, W!PayOrder(i) PROVE Within
  <2>1. UNCHANGED <<v4, v6>> /\ v3' = [v3 EXCEPT ![i].at = "captured"]
    BY <1>7 DEF W!PayOrder
  <2>2. Len(v3') = Len(v3)
    BY <1>1, <2>1
  <2> QED BY <1>1, <2>1, <2>2
<1>8. ASSUME NEW k \in DOMAIN v4, W!Scan(k) PROVE Within
  <2>1. UNCHANGED <<v3, v6>> /\ \E at : v4' = [v4 EXCEPT ![k].at = at]
    BY <1>8 DEF W!Scan
  <2>2. Len(v4') = Len(v4)
    BY <1>1, <2>1
  <2> QED BY <1>1, <2>1, <2>2
<1>9. ASSUME W!Deliver \/ UNCHANGED W!vars PROVE Within
  <2>1. v3' = v3 /\ v4' = v4 /\ v6' = v6
    BY <1>9 DEF W!Deliver, W!vars
  <2> QED BY <1>1, <2>1
<1>10. Within
  <2> HIDE DEF Within
  <2> QED BY <1>2, <1>3, <1>5, <1>6, <1>7, <1>8, <1>9 DEF W!Next
<1> QED BY <1>10 DEF GateBound, Bounded

LEMMA GateTyped == GateInv /\ GateBound => W!TypeOK
<1> SUFFICES ASSUME GateInv, GateBound PROVE W!TypeOK
  OBVIOUS
<1>1. v2 \in W!QrColumns
  BY CodeWithin DEF GateInv, GateTypes, W!QrColumns
<1>2. ASSUME NEW h \in Hands, v6[h] # W!NoCall
      PROVE  /\ v6[h].at \in W!Types \union {"keep", "fetch", "confirm", "collect", "close"}
             /\ v6[h].read \in W!Booking /\ v6[h].qr \in W!QrColumns /\ v6[h].n \in Nat
  <2>1. v6[h] \in Flights /\ v6[h].qr.id \in 0..MaxPayments
    BY <1>2 DEF GateInv, GateTypes, GateBound
  <2> QED BY <2>1 DEF Flights, W!QrColumns, W!Types
<1> QED BY <1>1, <1>2 DEF W!TypeOK, GateInv, GateTypes, GateBound

-----------------------------------------------------------------------------
\* What is known while gateway is at work.
GatewayAtWork == part = "gateway" => GateInv

LEMMA GatewayAtWorkStep == GatewayAtWork /\ [Next]_vars => GatewayAtWork'
<1> SUFFICES ASSUME GateInv, part = "gateway", [Next]_vars PROVE GateInv'
  BY DEF GatewayAtWork, Next, vars
<1>1. [W!Next]_(W!vars)
  BY DEF Next, vars, W!vars
<1> QED BY <1>1, GateStep

GateBoundAtWork == part = "gateway" => GateBound

LEMMA GateBoundAtWorkStep == GatewayAtWork /\ GateBoundAtWork /\ [Next]_vars => GateBoundAtWork'
<1> SUFFICES ASSUME GateInv, GateBound, part = "gateway", [Next]_vars PROVE GateBound'
  BY DEF GatewayAtWork, GateBoundAtWork, Next, vars
<1>1. [W!Next]_(W!vars)
  BY DEF Next, vars, W!vars
<1> QED BY <1>1, GateBoundStep

\* What a booking says has been paid, somebody has paid, however checkouts, polls and webhooks overlap
\* or die and whatever payment a verification is about - unless a payment was recorded at an amount,
\* or as a type, that is not the one it was made at, or was made for something else (finalizePayment,
\* finalizeTripPayment).
THEOREM PaidBySomebody == Spec => []PaidForReal
<1>1. Init => GatewayAtWork
  BY GateInit DEF Init, GatewayAtWork
<1>2. GatewayAtWork => PaidForReal
  BY GateHolds DEF GatewayAtWork, PaidForReal
<1> QED BY <1>1, <1>2, GatewayAtWorkStep, PTL DEF Spec

-----------------------------------------------------------------------------
(* Pricing: v1 is config, v2 is crowded, v3 is quote, v4 is booking, v5 is *)
(* hours.                                                                  *)

AskRow == [category : STRING, transport : {"intra", "inter"}, distance : Nat, express : BOOLEAN,
           zone : STRING, traffic : Nat, capacity : 0..100]
Tiers(values) == Seq(Nat \X values) \ {<<>>}
RateRow == [charge : [threshold : Nat, low : Nat, high : Nat],
            advance : Tiers([flat : Nat, percent : Nat]), sla : Tiers(Nat),
            surcharge : Nat \ {0}, factor : Nat, fuel : Nat, toll : Nat]
AllRates == SavedRates \union {Q!Default}

\* A quote is the estimate for what was asked, by the rates and the trucks it was made from.
QuoteMade ==
    v3 = Q!None \/ /\ v3.at = "quoted" /\ v3.request \in Asks
                   /\ v3.request.express => v3.request.transport = "intra"
                   /\ v3.config \in AllRates /\ v3.crowded \in BOOLEAN
                   /\ v3.price = Q!Estimate(v3.config, v3.crowded, v3.request)
\* A booking is made of the last quote: at its price, or by the estimate of its own time.
BookingMade ==
    v4 = Q!None \/
    /\ v4.at = "booked" /\ v3 # Q!None
    /\ v4.config \in AllRates /\ v4.crowded \in BOOLEAN
    /\ LET e == Q!Estimate(v4.config, v4.crowded, Q!BookedAs(v3.request)) IN
       /\ v4.amount = IF v4.given THEN v3.price.total ELSE e.total
       /\ v4.fee = e.fee /\ v4.surcharge = e.express
    /\ v4.express = (v3.request.transport = "intra" /\ v3.request.express)
    /\ v4.advance \in 0..v4.amount
\* The delivery time is that of rates saved at some time, for the kind of delivery booked.
HoursFixed ==
    v5 = -1 \/
    /\ v4 # Q!None
    /\ \E c \in AllRates :
          v5 = Q!Tier(c.sla, v3.request.distance) * (IF v4.express THEN c.factor ELSE 100)

PriceInv == v1 \in AllRates /\ v2 \in BOOLEAN /\ QuoteMade /\ BookingMade /\ HoursFixed

LEMMA AsksTyped == \A r \in Asks : r \in AskRow /\ Q!BookedAs(r) \in AskRow
BY PricingAssumption DEF AskRow, Q!BookedAs

LEMMA RatesTyped == \A c \in AllRates : c \in RateRow
<1>1. \A c \in SavedRates : c \in RateRow
  BY PricingAssumption DEF RateRow, Tiers
<1>2. Q!Default.advance \in Tiers([flat : Nat, percent : Nat])
  BY DEF Q!Default, Q!Config, Q!Open, Tiers
<1>3. Q!Default.sla \in Tiers(Nat)
  BY DEF Q!Default, Q!Config, Q!Open, Tiers
<1>4. Q!Default = Q!Config(Q!Default.charge, Q!Default.advance, Q!Default.sla, 20, 60, 15, 50000)
  BY DEF Q!Default, Q!Config
<1>5. Q!Default.charge \in [threshold : Nat, low : Nat, high : Nat]
  BY DEF Q!Default, Q!Config
<1>6. Q!Default \in RateRow
  <2> DEFINE charge == Q!Default.charge
  <2> DEFINE advance == Q!Default.advance
  <2> DEFINE sla == Q!Default.sla
  <2> HIDE DEF charge, advance, sla
  <2>1. Q!Config(charge, advance, sla, 20, 60, 15, 50000) \in RateRow
    BY <1>2, <1>3, <1>5 DEF charge, advance, sla, RateRow, Q!Config
  <2> QED BY <2>1, <1>4 DEF charge, advance, sla
<1> QED BY <1>1, <1>6 DEF AllRates

LEMMA Products == \A a, b \in Nat : a * b \in Nat /\ (b >= 1 => a * b >= a)
<1> SUFFICES ASSUME NEW a \in Nat, NEW b \in Nat PROVE a * b \in Nat /\ (b >= 1 => a * b >= a)
  OBVIOUS
<1>1. a * b \in Nat
  OBVIOUS
<1>2. ASSUME b >= 1 PROVE a * b >= a
  <2>1. PICK n \in Nat : b = n + 1
    BY <1>2
  <2>2. a * n \in Nat /\ a * b = a * n + a
    BY <2>1
  <2> QED BY <2>2
<1> QED BY <1>1, <1>2

\* A share of an amount is an amount, and is something if there is enough to share.
LEMMA PercentIs ==
    \A x, p : x \in Nat /\ p \in Nat =>
                Q!Percent(x, p) \in Nat /\ (x >= 50 /\ p >= 1 => Q!Percent(x, p) > 0)
<1> SUFFICES ASSUME NEW x \in Nat, NEW p \in Nat
             PROVE  Q!Percent(x, p) \in Nat /\ (x >= 50 /\ p >= 1 => Q!Percent(x, p) > 0)
  OBVIOUS
<1>1. x * p \in Nat /\ (p >= 1 => x * p >= x)
  BY Products
<1> DEFINE n == x * p
<1> HIDE DEF n
<1>2. n \in Nat => (n + 50) \div 100 \in Nat /\ (n >= 50 => (n + 50) \div 100 > 0)
  OBVIOUS
<1>3. Q!Percent(x, p) = (n + 50) \div 100
  BY DEF n, Q!Percent
<1> QED BY <1>1, <1>2, <1>3 DEF n

\* There is a first tier that covers x.
LEMMA FirstTier ==
    ASSUME NEW values, NEW tiers, NEW n \in Nat \ {0}, Len(tiers) = n,
           \A i \in 1..n : tiers[i] \in Nat \X values, NEW x \in Nat
    PROVE  Q!Tier(tiers, x) \in values
<1> DEFINE covers(i) == i = n \/ x <= tiers[i][1]
<1> DEFINE first(i) == covers(i) /\ \A j \in 1..i-1 : x > tiers[j][1]
<1>1. n \in Nat \ {0} /\ \A i \in 1..n : tiers[i] \in Nat \X values
  OBVIOUS
<1>2. \E i \in 1..n : first(i)
  <2> DEFINE all == 1..n
  <2> DEFINE family == {s \in SUBSET all : \E i \in all : s = 1..i /\ \E j \in 1..i : covers(j)}
  <2>1. IsFiniteSet(all)
    BY FS_Interval
  <2>2. 1..n \in family
    BY <1>1
  <2>3. PICK s \in family : \A y \in s : s \ {y} \notin family
    <3> HIDE DEF family, all
    <3>1. family \subseteq SUBSET all
      BY DEF family
    <3> QED BY <2>1, <2>2, <3>1, SmallestSet
  <2>4. PICK i \in all : s = 1..i /\ \E j \in 1..i : covers(j)
    BY <2>3
  <2>5. ASSUME NEW j \in 1..i-1, covers(j) PROVE FALSE
    <3>1. i - 1 \in all /\ 1..i-1 = s \ {i} /\ 1..i-1 \in SUBSET all /\ i \in s
      BY <1>1, <2>4, <2>5
    <3>2. s \ {i} \in family
      <4> HIDE DEF covers, all
      <4>1. \E m \in all : s \ {i} = 1..m /\ \E k \in 1..m : covers(k)
        BY <2>5, <3>1
      <4>2. s \ {i} \in SUBSET all
        BY <3>1
      <4> QED BY <4>1, <4>2
    <3> QED BY <2>3, <3>1, <3>2
  <2>6. covers(i)
    <3>1. PICK j \in 1..i : covers(j)
      BY <2>4
    <3>2. j = i \/ j \in 1..i-1
      BY <1>1, <2>4
    <3> QED BY <2>5, <3>1, <3>2
  <2>7. \A j \in 1..i-1 : x > tiers[j][1]
    <3> SUFFICES ASSUME NEW j \in 1..i-1 PROVE x > tiers[j][1]
      OBVIOUS
    <3>1. j \in 1..n /\ tiers[j][1] \in Nat
      BY <1>1, <2>4
    <3>2. ~covers(j)
      BY <2>5
    <3> QED BY <3>1, <3>2
  <2> QED BY <2>4, <2>6, <2>7
<1>3. Q!Tier(tiers, x) = tiers[CHOOSE i \in 1..n : first(i)][2]
  BY DEF Q!Tier
<1> DEFINE i == CHOOSE k \in 1..n : first(k)
<1>4. i \in 1..n
  <2> HIDE DEF first
  <2> QED BY <1>2
<1>5. tiers[i][2] \in values
  <2> HIDE DEF i
  <2> QED BY <1>1, <1>4
<1> QED BY <1>3, <1>5

LEMMA TierIs ==
    ASSUME NEW values, NEW tiers \in Tiers(values), NEW x \in Nat
    PROVE  Q!Tier(tiers, x) \in values
<1>1. Len(tiers) \in Nat \ {0} /\ \A i \in 1..Len(tiers) : tiers[i] \in Nat \X values
  BY DEF Tiers
<1> QED BY <1>1, FirstTier

\* A whole truck costs something, and the part of a truck at least nothing.
LEMMA SubtotalIs ==
    ASSUME NEW c \in AllRates, NEW r \in AskRow
    PROVE  Q!Subtotal(c, r) \in Nat /\ (r.category # "part" => Q!Subtotal(c, r) >= 40000)
<1>1. c.fuel \in Nat /\ c.toll \in Nat
  BY RatesTyped DEF RateRow
<1>2. r.distance \in Nat /\ r.capacity \in Nat
  BY DEF AskRow
<1> DEFINE card == Q!Card(Q!TypeKey(r.category))
<1>3. /\ card.floor \in Nat /\ card.floor >= 400 /\ card.kerala \in Nat
      /\ card.rates \in [1..8 -> Nat]
  BY DEF Q!Card, Q!TypeKey
<1> HIDE DEF card
<1>4. Q!RatePerKm(r) \in Nat
  <2> DEFINE bands == [i \in 1..Len(Q!Bands) |-> <<Q!Bands[i], card.rates[i]>>]
  <2>1. Len(Q!Bands) = 8 /\ \A i \in 1..8 : Q!Bands[i] \in Nat
    BY DEF Q!Bands, Q!Open
  <2>2. bands \in [1..8 -> Nat \X Nat]
    BY <1>3, <2>1
  <2>3. DOMAIN bands = 1..8 /\ Len(bands) = 8
    BY <2>1
  <2>4. Q!Tier(bands, r.distance) \in Nat
    <3>1. \A i \in 1..8 : bands[i] \in Nat \X Nat
      BY <2>2
    <3>2. 8 \in Nat \ {0}
      OBVIOUS
    <3> HIDE DEF bands
    <3> QED BY <1>2, <2>3, <3>1, <3>2, FirstTier, Zenon
  <2>5. Q!RatePerKm(r) = IF r.zone = "kerala" THEN card.kerala ELSE Q!Tier(bands, r.distance)
    BY DEF Q!RatePerKm, card
  <2> QED BY <1>3, <2>4, <2>5
<1>5. 100 * r.distance * Q!RatePerKm(r) \in Nat /\ 100 * r.distance * 40 \in Nat
  BY <1>2, <1>4, Products
<1> DEFINE fare == Q!Fare(r).base + Q!Fare(r).rest
<1>6. fare \in Nat /\ fare >= 40000
  <2> DEFINE raw == 100 * r.distance * Q!RatePerKm(r)
  <2> HIDE DEF raw
  <2>1. Q!Fare(r) = [base |-> 100 * card.floor, rest |-> Q!Most(0, raw - 100 * card.floor)]
    BY DEF Q!Fare, card, raw
  <2>2. raw \in Nat
    BY <1>5 DEF raw
  <2> QED BY <1>3, <2>1, <2>2 DEF Q!Most
<1> DEFINE share == Q!Percent(100 * r.distance * 40, r.capacity)
<1> DEFINE fuel == Q!Percent(fare, c.fuel)
<1>7. share \in Nat /\ fuel \in Nat
  <2> DEFINE whole == 100 * r.distance * 40
  <2> HIDE DEF fare, whole
  <2>1. whole \in Nat
    BY <1>5 DEF whole
  <2>2. Q!Percent(whole, r.capacity) \in Nat /\ Q!Percent(fare, c.fuel) \in Nat
    BY <1>1, <1>2, <1>6, <2>1, PercentIs
  <2> QED BY <2>2 DEF whole
<1>8. Q!Subtotal(c, r) = IF r.category = "part" THEN share
                         ELSE IF r.transport = "inter" THEN fare + fuel + c.toll ELSE fare
  BY DEF Q!Subtotal
<1> HIDE DEF fare, share, fuel
<1> QED BY <1>1, <1>6, <1>7, <1>8

\* The lines of an estimate are amounts, and a whole truck by express is charged for it.
LEMMA EstimateIs ==
    ASSUME NEW c \in AllRates, NEW w \in BOOLEAN, NEW r \in AskRow
    PROVE  /\ Q!Estimate(c, w, r).total \in Nat /\ Q!Estimate(c, w, r).fee \in Nat
           /\ Q!Estimate(c, w, r).express \in Nat
           /\ Q!Estimate(c, w, r).express > 0 <=> Q!ExpressActive(r)
<1> DEFINE subtotal == Q!Subtotal(c, r)
<1> DEFINE traffic == Q!Percent(subtotal, Q!TrafficPercent(r) - 100)
<1> DEFINE supply == Q!Percent(subtotal, Q!SupplyPercent(w) - 100)
<1> DEFINE adjusted == subtotal + traffic + supply
<1> DEFINE fee == Q!ServiceCharge(c, adjusted)
<1> DEFINE express == IF Q!ExpressActive(r) THEN Q!Percent(adjusted + fee, c.surcharge) ELSE 0
<1>1. subtotal \in Nat /\ (r.category # "part" => subtotal >= 40000)
  BY SubtotalIs
<1>2. Q!TrafficPercent(r) - 100 \in Nat
  <2> DEFINE AtLeast == {n \in Nat : n >= 100}
  <2> DEFINE tiers == <<<<110, 100>>, <<130, 115>>, <<160, 130>>, <<Q!Open, 150>>>>
  <2>1. tiers \in Tiers(AtLeast)
    BY DEF Tiers, Q!Open
  <2>2. Q!Tier(tiers, r.traffic) \in AtLeast
    <3> HIDE DEF AtLeast, tiers
    <3> QED BY <2>1, TierIs DEF AskRow
  <2>3. Q!TrafficPercent(r) = IF r.traffic = 0 THEN 100 ELSE Q!Tier(tiers, r.traffic)
    BY DEF Q!TrafficPercent
  <2> HIDE DEF tiers
  <2> QED BY <2>2, <2>3
<1>3. Q!SupplyPercent(w) - 100 \in Nat
  BY DEF Q!SupplyPercent
<1>4. traffic \in Nat /\ supply \in Nat
  <2> DEFINE slow == Q!TrafficPercent(r) - 100
  <2> DEFINE scarce == Q!SupplyPercent(w) - 100
  <2> HIDE DEF subtotal, slow, scarce
  <2>1. slow \in Nat /\ scarce \in Nat
    BY <1>2, <1>3 DEF slow, scarce
  <2>2. Q!Percent(subtotal, slow) \in Nat /\ Q!Percent(subtotal, scarce) \in Nat
    BY <1>1, <2>1, PercentIs
  <2> QED BY <2>2 DEF slow, scarce
<1>5. adjusted \in Nat /\ (r.category # "part" => adjusted >= 40000)
  <2> HIDE DEF subtotal, traffic, supply
  <2> QED BY <1>1, <1>4
<1>6. fee \in Nat
  <2> HIDE DEF adjusted
  <2>1. c.charge.low \in Nat /\ c.charge.high \in Nat
    BY RatesTyped DEF RateRow
  <2> QED BY <1>5, <2>1, PercentIs DEF Q!ServiceCharge
<1>7. express \in Nat /\ (express > 0 <=> Q!ExpressActive(r))
  <2>1. c.surcharge \in Nat /\ c.surcharge >= 1
    BY RatesTyped DEF RateRow
  <2>2. Q!ExpressActive(r) => r.category # "part"
    BY DEF Q!ExpressActive
  <2> DEFINE sum == adjusted + fee
  <2>3. sum \in Nat /\ (r.category # "part" => sum >= 50)
    <3> HIDE DEF adjusted, fee
    <3> QED BY <1>5, <1>6
  <2>4. Q!Percent(sum, c.surcharge) \in Nat /\ (r.category # "part" => Q!Percent(sum, c.surcharge) > 0)
    <3> HIDE DEF sum
    <3> QED BY <2>1, <2>3, PercentIs
  <2>5. express = IF Q!ExpressActive(r) THEN Q!Percent(sum, c.surcharge) ELSE 0
    OBVIOUS
  <2> HIDE DEF express, sum
  <2> QED BY <2>2, <2>4, <2>5
<1>8. /\ Q!Estimate(c, w, r).total = adjusted + fee + express /\ Q!Estimate(c, w, r).fee = fee
      /\ Q!Estimate(c, w, r).express = express
  BY DEF Q!Estimate
<1> HIDE DEF adjusted, fee, express
<1> QED BY <1>5, <1>6, <1>7, <1>8

LEMMA PriceInit == Q!Init => PriceInv
BY DEF Q!Init, PriceInv, AllRates, QuoteMade, BookingMade, HoursFixed

LEMMA PriceTyped ==
    ASSUME PriceInv, v3 # Q!None
    PROVE  v3.request \in AskRow /\ Q!BookedAs(v3.request) \in AskRow /\ v3.request.distance \in Nat
BY AsksTyped DEF PriceInv, QuoteMade, AskRow

\* What says of the price that it is an amount.
LEMMA AmountIs ==
    ASSUME PriceInv, v4 # Q!None
    PROVE  v4.amount \in Nat /\ v4.fee \in Nat
<1>1. v3 # Q!None /\ v3.config \in AllRates /\ v3.crowded \in BOOLEAN /\ v4.config \in AllRates /\ v4.crowded \in BOOLEAN
  BY DEF PriceInv, QuoteMade, BookingMade
<1>2. v3.request \in AskRow /\ Q!BookedAs(v3.request) \in AskRow
  BY <1>1, PriceTyped
<1>3. Q!Estimate(v3.config, v3.crowded, v3.request).total \in Nat
  BY <1>1, <1>2, EstimateIs
<1> DEFINE e == Q!Estimate(v4.config, v4.crowded, Q!BookedAs(v3.request))
<1>4. e.total \in Nat /\ e.fee \in Nat
  BY <1>1, <1>2, EstimateIs
<1>5. v4.amount = (IF v4.given THEN v3.price.total ELSE e.total) /\ v4.fee = e.fee
  BY DEF PriceInv, BookingMade
<1>6. v3.price.total \in Nat
  BY <1>1, <1>3 DEF PriceInv, QuoteMade
<1> HIDE DEF e
<1> QED BY <1>4, <1>5, <1>6

LEMMA PriceQuote == ASSUME PriceInv, NEW r \in Asks, Q!Quote(r) PROVE PriceInv'
<1>1. QuoteMade'
  BY DEF Q!Quote, PriceInv, QuoteMade
<1>2. v5 = -1 /\ BookingMade' /\ HoursFixed' /\ v1' \in AllRates /\ v2' \in BOOLEAN
  BY DEF Q!Quote, PriceInv, BookingMade, HoursFixed
<1> QED BY <1>1, <1>2 DEF PriceInv

LEMMA PriceBook == ASSUME PriceInv, NEW given \in BOOLEAN, Q!Book(given) PROVE PriceInv'
<1> DEFINE e == Q!Estimate(v1, v2, Q!BookedAs(v3.request))
<1>1. v3 # Q!None /\ v4 = Q!None /\ UNCHANGED <<v1, v2, v3, v5>> /\ v5 = -1 /\ v1 \in AllRates /\ v2 \in BOOLEAN
  BY DEF Q!Book, PriceInv, HoursFixed
<1>2. v4' = [at |-> "booked", config |-> v1, crowded |-> v2, given |-> given,
             amount |-> IF given THEN v3.price.total ELSE e.total, fee |-> e.fee,
             express |-> v3.request.transport = "intra" /\ v3.request.express, surcharge |-> e.express,
             advance |-> 0]
  BY DEF Q!Book
<1>3. e.total \in Nat
  BY <1>1, PriceTyped, EstimateIs
<1>4. Q!Estimate(v3.config, v3.crowded, v3.request).total \in Nat
  BY <1>1, PriceTyped, EstimateIs DEF PriceInv, QuoteMade
<1>5. v3.price.total \in Nat
  BY <1>1, <1>4 DEF PriceInv, QuoteMade
<1>6. Q!Estimate(v4'.config, v4'.crowded, Q!BookedAs(v3'.request)) = e
  BY <1>1, <1>2
<1>7. BookingMade'
  <2> DEFINE now == Q!Estimate(v4'.config, v4'.crowded, Q!BookedAs(v3'.request))
  <2>1. now = e
    BY <1>6
  <2> HIDE DEF e, now
  <2>2. v4'.at = "booked" /\ v4'.config \in AllRates /\ v4'.crowded \in BOOLEAN /\ v3' # Q!None
    BY <1>1, <1>2
  <2>3. /\ v4'.amount = IF v4'.given THEN v3'.price.total ELSE now.total
        /\ v4'.fee = now.fee /\ v4'.surcharge = now.express
    BY <1>1, <1>2, <2>1
  <2>4. v4'.express = (v3'.request.transport = "intra" /\ v3'.request.express)
    BY <1>1, <1>2
  <2>5. v4'.advance \in 0..v4'.amount
    BY <1>2, <1>3, <1>5 DEF e
  <2> QED BY <2>2, <2>3, <2>4, <2>5 DEF BookingMade, now
<1>8. QuoteMade' /\ HoursFixed'
  BY <1>1 DEF PriceInv, QuoteMade, HoursFixed
<1> QED BY <1>1, <1>7, <1>8 DEF PriceInv

LEMMA PriceAdvance == ASSUME PriceInv, Q!PayAdvance PROVE PriceInv'
<1>1. v4 # Q!None /\ UNCHANGED <<v1, v2, v3, v5>> /\ v1 \in AllRates
  BY DEF Q!PayAdvance, PriceInv
<1>2. v4.amount \in Nat
  BY <1>1, AmountIs
<1> DEFINE due == Q!AdvanceAmount(v1, v4.amount)
<1>3. v4' = [v4 EXCEPT !.advance = due]
  BY DEF Q!PayAdvance
<1>4. due \in 0..v4.amount
  <2> DEFINE tier == Q!Tier(v1.advance, v4.amount)
  <2>1. tier \in [flat : Nat, percent : Nat]
    <3>1. v1.advance \in Tiers([flat : Nat, percent : Nat])
      BY <1>1, RatesTyped DEF RateRow
    <3> QED BY <1>2, <3>1, TierIs
  <2>2. due = Q!Least(v4.amount, IF tier.percent > 0 THEN Q!Percent(v4.amount, tier.percent) ELSE tier.flat)
    BY DEF Q!AdvanceAmount
  <2> HIDE DEF tier, due
  <2>3. tier.flat \in Nat /\ tier.percent \in Nat
    BY <2>1
  <2>4. Q!Percent(v4.amount, tier.percent) \in Nat
    BY <1>2, <2>3, PercentIs
  <2> QED BY <1>2, <2>2, <2>3, <2>4 DEF Q!Least
<1>5. BookingMade'
  <2> DEFINE e == Q!Estimate(v4.config, v4.crowded, Q!BookedAs(v3.request))
  <2> DEFINE now == Q!Estimate(v4'.config, v4'.crowded, Q!BookedAs(v3'.request))
  <2>1. /\ v4.at = "booked" /\ v3 # Q!None /\ v4.config \in AllRates /\ v4.crowded \in BOOLEAN
        /\ v4.amount = IF v4.given THEN v3.price.total ELSE e.total
        /\ v4.fee = e.fee /\ v4.surcharge = e.express
        /\ v4.express = (v3.request.transport = "intra" /\ v3.request.express)
    BY <1>1 DEF PriceInv, BookingMade
  <2>2. /\ v4'.config = v4.config /\ v4'.crowded = v4.crowded /\ v4'.amount = v4.amount
        /\ v4'.given = v4.given /\ v4'.fee = v4.fee /\ v4'.surcharge = v4.surcharge
        /\ v4'.express = v4.express /\ v4'.at = v4.at
    BY <1>3
  <2>3. now = e
    BY <1>1, <2>2
  <2>4. v4'.advance \in 0..v4'.amount
    BY <1>3, <1>4, <2>2
  <2> HIDE DEF e, now
  <2> QED BY <1>1, <2>1, <2>2, <2>3, <2>4 DEF BookingMade, now
<1>6. QuoteMade' /\ HoursFixed'
  <2>1. v4'.at = v4.at /\ v4.at = "booked" /\ v4'.express = v4.express
    BY <1>1, <1>3 DEF PriceInv, BookingMade
  <2>2. v4' # Q!None
    BY <2>1 DEF Q!None
  <2> QED BY <1>1, <2>1, <2>2 DEF PriceInv, QuoteMade, HoursFixed
<1> QED BY <1>1, <1>5, <1>6 DEF PriceInv

LEMMA PriceHours == ASSUME PriceInv, Q!FixDeliveryTime PROVE PriceInv'
<1>1. v4 # Q!None /\ UNCHANGED <<v1, v2, v3, v4>> /\ v1 \in AllRates
  BY DEF Q!FixDeliveryTime, PriceInv
<1>2. v5' = Q!Tier(v1.sla, v3.request.distance) * (IF v4.express THEN v1.factor ELSE 100)
  BY DEF Q!FixDeliveryTime, Q!DeliveryHours
<1>3. HoursFixed'
  BY <1>1, <1>2 DEF HoursFixed
<1> QED BY <1>1, <1>3 DEF PriceInv, QuoteMade, BookingMade

LEMMA PriceRest ==
    ASSUME PriceInv,
           Q!TrucksMove \/ (\E c \in SavedRates \union {Q!Default} : Q!UpdateConfig(c)) \/ UNCHANGED Q!vars
    PROVE  PriceInv'
<1>1. UNCHANGED <<v3, v4, v5>> /\ v1' \in AllRates /\ v2' \in BOOLEAN
  BY DEF Q!TrucksMove, Q!UpdateConfig, Q!vars, PriceInv, AllRates
<1> QED BY <1>1 DEF PriceInv, QuoteMade, BookingMade, HoursFixed

LEMMA PriceStep == PriceInv /\ [Q!Next]_(Q!vars) => PriceInv'
BY PriceQuote, PriceBook, PriceAdvance, PriceHours, PriceRest DEF Q!Next

LEMMA PriceHonoured == PriceInv => Q!QuoteHonoured
<1> SUFFICES ASSUME PriceInv, v4 # Q!None, v3.request.capacity = 100,
                    v4.config = v3.config, v4.crowded = v3.crowded
             PROVE  v4.amount = v3.price.total /\ v4.fee = v3.price.fee
  BY DEF Q!QuoteHonoured
<1>1. v3 # Q!None
  BY DEF PriceInv, BookingMade
<1>2. Q!BookedAs(v3.request) = v3.request
  BY <1>1, PriceTyped DEF AskRow, Q!BookedAs
<1>3. Q!Estimate(v4.config, v4.crowded, Q!BookedAs(v3.request)) = v3.price
  BY <1>1, <1>2 DEF PriceInv, QuoteMade
<1> QED BY <1>3 DEF PriceInv, BookingMade

LEMMA PricePaidFor == PriceInv => Q!ExpressPaidFor
<1> SUFFICES ASSUME PriceInv, v5 # -1, v3.request.category # "part"
             PROVE  \E c \in AllRates :
                       v5 = Q!Tier(c.sla, v3.request.distance) * (IF v4.surcharge > 0 THEN c.factor ELSE 100)
  BY DEF Q!ExpressPaidFor, AllRates
<1>1. v4 # Q!None /\ v3 # Q!None /\ v4.config \in AllRates /\ v4.crowded \in BOOLEAN
  BY DEF PriceInv, BookingMade, HoursFixed
<1> DEFINE r == Q!BookedAs(v3.request)
<1>2. Q!ExpressActive(r) <=> v4.express
  <2>1. v3.request \in AskRow
    BY <1>1, PriceTyped
  <2>2. r.category = v3.request.category /\ r.transport = v3.request.transport /\ r.express = v3.request.express
    BY <2>1 DEF AskRow, Q!BookedAs
  <2>3. v4.express = (v3.request.transport = "intra" /\ v3.request.express)
    BY <1>1 DEF PriceInv, BookingMade
  <2>4. v3.request.transport \in {"intra", "inter"}
    BY <2>1 DEF AskRow
  <2> HIDE DEF r
  <2> QED BY <2>2, <2>3, <2>4 DEF Q!ExpressActive
<1>3. Q!Estimate(v4.config, v4.crowded, r).express > 0 <=> Q!ExpressActive(r)
  BY <1>1, PriceTyped, EstimateIs
<1>4. v4.surcharge = Q!Estimate(v4.config, v4.crowded, r).express
  BY <1>1 DEF PriceInv, BookingMade
<1>5. v4.surcharge > 0 <=> v4.express
  BY <1>2, <1>3, <1>4
<1> QED BY <1>5 DEF PriceInv, HoursFixed

LEMMA PriceTypesHold == PriceInv => Q!TypeOK
<1> SUFFICES ASSUME PriceInv PROVE Q!TypeOK
  OBVIOUS
<1>1. v1 \in SavedRates \union {Q!Default} /\ v2 \in BOOLEAN /\ (v3 = Q!None \/ v3.request \in Asks)
  BY DEF PriceInv, QuoteMade, AllRates
<1>2. v4 = Q!None \/ (v4.amount \in Nat /\ v4.fee \in Nat /\ v4.advance \in 0..v4.amount)
  BY AmountIs DEF PriceInv, BookingMade
<1>3. ASSUME v5 # -1 PROVE v5 \in Nat
  <2>1. v4 # Q!None /\ v3 # Q!None
    BY <1>3 DEF PriceInv, HoursFixed, BookingMade
  <2>2. PICK c \in AllRates :
           v5 = Q!Tier(c.sla, v3.request.distance) * (IF v4.express THEN c.factor ELSE 100)
    BY <1>3 DEF PriceInv, HoursFixed
  <2>3. c.sla \in Tiers(Nat) /\ c.factor \in Nat
    BY RatesTyped DEF RateRow
  <2>4. Q!Tier(c.sla, v3.request.distance) \in Nat
    BY <2>1, <2>3, TierIs, PriceTyped
  <2> DEFINE base == Q!Tier(c.sla, v3.request.distance)
  <2> HIDE DEF base
  <2>5. base * c.factor \in Nat /\ base * 100 \in Nat
    BY <2>3, <2>4, Products DEF base
  <2> QED BY <2>2, <2>5 DEF base
<1> QED BY <1>1, <1>2, <1>3 DEF Q!TypeOK

-----------------------------------------------------------------------------
\* What is known while pricing is at work.
PricingAtWork == part = "pricing" => PriceInv

LEMMA PricingAtWorkStep == PricingAtWork /\ [Next]_vars => PricingAtWork'
<1> SUFFICES ASSUME PriceInv, part = "pricing", [Next]_vars PROVE PriceInv'
  BY DEF PricingAtWork, Next, vars
<1>1. [Q!Next]_(Q!vars)
  BY DEF Next, vars, Q!vars
<1> QED BY <1>1, PriceStep

\* A booking costs what was quoted for it at these rates and with these trucks around, whatever
\* rates are saved and whatever is asked for, and the short delivery time is that of a client who
\* pays for it (quoteBooking, createBooking, finalizeDriverRequest).
THEOREM PricedAsQuoted == Spec => []BookedAsQuoted
<1>1. Init => PricingAtWork
  BY PriceInit DEF Init, PricingAtWork
<1>2. PricingAtWork => BookedAsQuoted
  BY PriceHonoured, PricePaidFor DEF PricingAtWork, BookedAsQuoted
<1> QED BY <1>1, <1>2, PricingAtWorkStep, PTL DEF Spec
=============================================================================
