---------------------------- MODULE Preferences ----------------------------
(***************************************************************************)
(* A client's saved addresses; saved payment methods are kept by the same  *)
(* statements.  The booking form is filled from the default, and nothing   *)
(* but these statements keeps one row, and only one, marked as it:  a      *)
(* transaction replaces the default, but the first row and the successor   *)
(* of a removed default are found by a query of their own.                 *)
(***************************************************************************)
EXTENDS Integers, FiniteSets

CONSTANTS
    Rows,                    \* saved_addresses, in the order of created_at
    Calls                    \* requests in flight

VARIABLES
    default,       \* is_default of the rows there are; "none" before and after
    call,          \* what is in flight, with what it has counted
    unsure         \* history: a request was cut off, overlapped, or named a row that is gone

vars == <<default, call, unsure>>

NoCall == [at |-> "none", first |-> FALSE]
Saved  == {r \in Rows : default[r] \in {"yes", "no"}}
Latest == {r \in Saved : \A s \in Saved : s <= r}

TypeOK ==
    /\ default \in [Rows -> {"none", "yes", "no", "gone"}]
    /\ call \in [Calls -> [at : {"none", "insert", "promote"}, first : BOOLEAN]]
    /\ unsure \in BOOLEAN

Init ==
    /\ default = [r \in Rows |-> "none"]
    /\ call = [h \in Calls |-> NoCall]
    /\ unsure = FALSE

Done(h)   == call' = [call EXCEPT ![h] = NoCall]
Alone(h)  == \A g \in Calls \ {h} : call[g] = NoCall
\* Whether what a step does next to other requests in flight may end in none or two defaults.
Note(bad) == unsure' = (unsure \/ bad)
-----------------------------------------------------------------------------
\* create: counts the client's rows, then inserts; the first row becomes the default.
CreateRequest(h) ==
    /\ call[h] = NoCall /\ \E r \in Rows : default[r] = "none"
    /\ call' = [call EXCEPT ![h] = [at |-> "insert", first |-> Saved = {}]]
    /\ UNCHANGED <<default, unsure>>

Insert(h, r) ==
    /\ call[h].at = "insert" /\ default[r] = "none"
    /\ \A s \in Rows : s < r => default[s] # "none"
    /\ default' = [default EXCEPT ![r] = IF call[h].first THEN "yes" ELSE "no"]
    /\ Done(h) /\ Note(~Alone(h))

\* Bug: the row is marked, and no other is cleared.
MarkedToo(r) == [s \in Rows |-> IF s \in Saved /\ s = r THEN "yes" ELSE default[s]]
\* The rows after setDefault: every row of the client is cleared before one is marked.
Marked(r) == [s \in Rows |-> IF s \notin Saved THEN default[s] ELSE IF s = r THEN "yes" ELSE "no"]

\* setDefault, one transaction over rows it locks.  The id is not looked up first: for a row
\* that is gone the transaction still clears the others, and commits.
SetDefault(h, r) ==
    /\ call[h] = NoCall /\ default[r] # "none"
    /\ default' = Marked(r)
    /\ Note(r \notin Saved \/ ~Alone(h))
    /\ UNCHANGED call

\* remove: deletes the row, and promotes the latest of the rest if it was the default.
Remove(h, r) ==
    /\ call[h] = NoCall /\ r \in Saved
    /\ default' = [default EXCEPT ![r] = "gone"]
    /\ IF default[r] = "yes" THEN call' = [call EXCEPT ![h].at = "promote"] ELSE UNCHANGED call
    /\ Note(~Alone(h))

Promote(h) ==
    /\ call[h].at = "promote"
    /\ default' = [r \in Rows |-> IF r \in Latest THEN "yes" ELSE default[r]]
    /\ Done(h) /\ Note(~Alone(h))

\* The server stops, or a query fails, between the two queries of a request.
Crash(h) ==
    /\ call[h] # NoCall
    /\ Done(h) /\ Note(call[h].at = "promote")
    /\ UNCHANGED default

Next == \E h \in Calls :
    \/ CreateRequest(h) \/ Promote(h) \/ Crash(h)
    \/ \E r \in Rows : Insert(h, r) \/ SetDefault(h, r) \/ Remove(h, r)

Spec == Init /\ [][Next]_vars
-----------------------------------------------------------------------------
AtRest == \A h \in Calls : call[h] = NoCall

\* A client with saved addresses has one default, through every sequence of requests that are
\* served one after the other and name rows there are (create, setDefault, remove).
OneDefault ==
    AtRest /\ ~unsure /\ Saved # {} => Cardinality({r \in Saved : default[r] = "yes"}) = 1
=============================================================================
