------------------------------ MODULE Geofence ------------------------------
(***************************************************************************)
(* The list of pincodes the company serves, which administrators edit one  *)
(* by one and upload by the file, and the check of both ends of a booking  *)
(* against it, which reads it three times.  A list without an active       *)
(* pincode is not in force.                                                *)
(***************************************************************************)
EXTENDS Integers, FiniteSets

CONSTANTS
    Pins, NoPin,             \* pincodes; an address without one
    Calls,                   \* requests in flight
    ChunkSize,               \* BULK_INSERT_CHUNK_SIZE
    MaxEdits                 \* bound: edits of one pincode

VARIABLES
    list,          \* allowed_pincodes.active; "absent" where there is no row
    wanted,        \* what the administrators have last said of each
    call,          \* what is in flight
    edits,
    placed         \* history: of the last booking, which of its ends was wanted while it was checked

vars == <<list, wanted, call, edits, placed>>

Rows   == {"absent", "active", "closed"}
Facts  == {"open", "pickup", "drop"}
Ends   == {"pickup", "drop"}
NoCall == [at |-> "none", left |-> {}, ends |-> [end \in Ends |-> NoPin], todo |-> {}, held |-> {}]

TypeOK ==
    /\ list \in [Pins -> Rows] /\ wanted \in [Pins -> Rows]
    /\ call \in [Calls -> [at : {"none", "upload", "check"}, left : SUBSET Pins, todo : SUBSET Ends,
                           ends : [Ends -> Pins \union {NoPin}], held : SUBSET Facts]]
    /\ edits \in 0..MaxEdits /\ placed \subseteq Facts

Init ==
    /\ list = [p \in Pins |-> "absent"] /\ wanted = list
    /\ call = [h \in Calls |-> NoCall] /\ edits = 0 /\ placed = Facts

\* What holds of a booking's ends, where the administrators' word is w.
Holds(w, c) ==
    {f \in Facts : IF f = "open" THEN \A p \in Pins : w[p] # "active"
                   ELSE c.ends[f] # NoPin /\ w[c.ends[f]] = "active"}

\* The calls c, each with what has held since it began.
Watched(c) == call' = [h \in Calls |-> [c[h] EXCEPT !.held = @ \union
                        IF c[h].at = "check" THEN Holds(wanted', c[h]) ELSE {}]]
-----------------------------------------------------------------------------
\* createPincode (409 for one that is listed), setPincodeActive, deletePincode.
Edit(p, row) ==
    /\ edits < MaxEdits /\ edits' = edits + 1
    /\ row # list[p] /\ (list[p] = "absent" => row = "active")
    /\ list' = [list EXCEPT ![p] = row] /\ wanted' = [wanted EXCEPT ![p] = row]
    /\ Watched(call) /\ UNCHANGED placed

\* extractRows: of an .xlsx or .csv the rows that hold a pincode, repeated ones once.
Files == SUBSET Pins \ {{}}

\* bulkUploadPincodes
UploadRequest(h, file) ==
    /\ call[h] = NoCall
    /\ call' = [call EXCEPT ![h] = [NoCall EXCEPT !.at = "upload", !.left = file]]
    /\ UNCHANGED <<list, wanted, edits, placed>>

\* Bug: a row that is there is made active as well.
UpsertActive(rows, p) == IF p \in rows THEN "active" ELSE list[p]
\* bulkCreate: ON CONFLICT leaves the row as it is, but for its label.
Upsert(rows, p) == IF p \in rows /\ list[p] = "absent" THEN "active" ELSE list[p]

\* One statement of at most BULK_INSERT_CHUNK_SIZE rows.
Chunk(h, rows) ==
    LET left == call[h].left \ rows IN
    /\ call[h].at = "upload" /\ rows \subseteq call[h].left
    /\ Cardinality(rows) = ChunkSize \/ left = {}
    /\ list' = [p \in Pins |-> Upsert(rows, p)]
    /\ wanted' = [p \in Pins |-> IF p \in rows /\ wanted[p] = "absent" THEN "active" ELSE wanted[p]]
    /\ Watched([call EXCEPT ![h] = IF left = {} THEN NoCall ELSE [@ EXCEPT !.left = left]])
    /\ UNCHANGED <<edits, placed>>

\* checkGeofence for createBooking: isAnyConfigured.  Without a list any two ends will do.
Check(h, pickup, drop) ==
    LET configured == \E p \in Pins : list[p] = "active"
        c == [NoCall EXCEPT !.at = "check", !.ends = [pickup |-> pickup, drop |-> drop],
                            !.todo = IF configured THEN Ends ELSE {}] IN
    /\ call[h] = NoCall
    /\ configured => NoPin \notin {pickup, drop}
    /\ call' = [call EXCEPT ![h] = [c EXCEPT !.held = Holds(wanted, c)]]
    /\ UNCHANGED <<list, wanted, edits, placed>>

isAllowed(pin) == list[pin] = "active"

\* The two queries of its Promise.all, whichever comes first.
LookUp(h, end) ==
    LET c == call[h] IN
    /\ end \in c.todo
    /\ call' = [call EXCEPT ![h] = IF isAllowed(c.ends[end]) THEN [c EXCEPT !.todo = @ \ {end}]
                                   ELSE NoCall]
    /\ UNCHANGED <<list, wanted, edits, placed>>

\* createBooking: the insert comes after everything else it computes.
Insert(h) ==
    /\ call[h].at = "check" /\ call[h].todo = {}
    /\ placed' = call[h].held
    /\ call' = [call EXCEPT ![h] = NoCall]
    /\ UNCHANGED <<list, wanted, edits>>

\* A request fails, or the server restarts: of a file some chunks are in.
Fail(h) ==
    /\ call[h] # NoCall /\ call' = [call EXCEPT ![h] = NoCall]
    /\ UNCHANGED <<list, wanted, edits, placed>>

Next ==
    \/ \E p \in Pins, row \in Rows : Edit(p, row)
    \/ \E h \in Calls :
          \/ \E file \in Files : UploadRequest(h, file) \/ Chunk(h, file)
          \/ \E pickup, drop \in Pins \union {NoPin} : Check(h, pickup, drop)
          \/ \E end \in Ends : LookUp(h, end)
          \/ Insert(h) \/ Fail(h)

Spec == Init /\ [][Next]_vars
-----------------------------------------------------------------------------
\* A booking is taken where, while it was checked, the administrators wanted both its ends, or
\* none at all - whatever they and their uploads do meanwhile (checkGeofence, bulkCreate).
WithinTheFence == "open" \in placed \/ Ends \subseteq placed
=============================================================================
