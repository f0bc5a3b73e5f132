----------------------------- MODULE Documents -----------------------------
(***************************************************************************)
(* The numbers and links people quote: booking numbers, drawn before the   *)
(* row is inserted, and the bilty number and the tracking link, made for a *)
(* booking the first time anybody asks for one.  A number comes from a     *)
(* count of the rows that carry one; a few candidates are looked up one    *)
(* after the other, then a timestamp is taken.  Unique indexes guard all   *)
(* of them.  Dispute numbers are drawn by the statements of booking        *)
(* numbers; their rows go with the booking.  One month is modelled.        *)
(***************************************************************************)
EXTENDS Integers, FiniteSets

CONSTANTS
    Bookings,                \* in the order of creation
    Calls,                   \* requests in flight
    Attempts,                \* 5 in the code
    Docs,                    \* bound: the kinds asked for, of "booking", "bilty", "link"
    MaxShared,               \* bound: links made
    MaxDeleted               \* bound: hard deletions

VARIABLES
    doc,           \* booking_number, bilty_number, tracking_share_token; 0 for NULL
    row,           \* the booking is not there yet, there, or deleted
    issued,        \* history: documents handed out, as kind, booking and number
    call,          \* what is in flight
    rushed         \* history: bookings with two first requests for one document at once

vars == <<doc, row, issued, call, rushed>>

Numbers == 1 .. Cardinality(Bookings) + Attempts + MaxDeleted
Stamp   == Cardinality(Numbers) + 1     \* the timestamp, told from every counted number
NoCall  == [at |-> "none", k |-> "none", b |-> 0, n |-> 0, tries |-> 0]
There(b) == row[b] = "there"
Carry(k) == {b \in Bookings : There(b) /\ doc[k][b] # 0}

TypeOK ==
    /\ doc \in [Docs -> [Bookings -> 0 .. Stamp + MaxShared]]
    /\ row \in [Bookings -> {"none", "there", "gone"}]
    /\ issued \subseteq Docs \X Bookings \X Nat
    /\ call \in [Calls -> [at : {"none", "look", "write"}, k : Docs \union {"none"},
                           b : {0} \union Bookings, n : Nat, tries : 0..Attempts]]
    /\ rushed \subseteq Docs \X Bookings

Init ==
    /\ doc = [k \in Docs |-> [b \in Bookings |-> 0]]
    /\ row = [b \in Bookings |-> "none"]
    /\ issued = {} /\ rushed = {}
    /\ call = [h \in Calls |-> NoCall]

Done(h) == call' = [call EXCEPT ![h] = NoCall]
-----------------------------------------------------------------------------
\* The first candidate: one more than the rows that carry a number.
First(k) == Cardinality(Carry(k)) + 1

\* generateBookingNumber on behalf of createBooking; rows come in the order of Bookings.
NumberRequest(h, b) ==
    /\ call[h] = NoCall /\ row[b] = "none"
    /\ \A c \in Bookings : c < b => row[c] # "none" \/ \E g \in Calls : call[g].b = c
    /\ \A g \in Calls : call[g].k = "booking" => call[g].b # b
    /\ call' = [call EXCEPT ![h] = [at |-> "look", k |-> "booking", b |-> b,
                                    n |-> First("booking"), tries |-> 0]]
    /\ UNCHANGED <<doc, row, issued, rushed>>

\* A document of a booking that has it is handed out again.
Reuse(k, b) ==
    /\ There(b) /\ doc[k][b] # 0
    /\ issued' = issued \union {<<k, b, doc[k][b]>>}
    /\ UNCHANGED <<doc, row, call, rushed>>

\* Bug: a new one is made for everybody who asks.
EveryRequest(h, k, b) ==
    /\ call[h] = NoCall /\ There(b)
    /\ call' = [call EXCEPT ![h] =
            IF k = "bilty" THEN [at |-> "look", k |-> k, b |-> b, n |-> First(k), tries |-> 0]
            ELSE [at |-> "write", k |-> k, b |-> b, n |-> 0, tries |-> 0]]
    /\ UNCHANGED <<doc, row, issued, rushed>>
\* getOrCreateBiltyNumber (the download, the resend and the mail on delivery) and
\* getOrCreateTrackingShareToken read NULL and go on to make one.
FirstRequest(h, k, b) ==
    /\ call[h] = NoCall /\ There(b) /\ doc[k][b] = 0
    /\ call' = [call EXCEPT ![h] =
            IF k = "bilty" THEN [at |-> "look", k |-> k, b |-> b, n |-> First(k), tries |-> 0]
            ELSE [at |-> "write", k |-> k, b |-> b, n |-> 0, tries |-> 0]]
    /\ rushed' = IF \E g \in Calls : call[g].k = k /\ call[g].b = b
                 THEN rushed \union {<<k, b>>} ELSE rushed
    /\ UNCHANGED <<doc, row, issued>>

Taken(k, n) == \E b \in Carry(k) : doc[k][b] = n

\* One lookup of a candidate.
Look(h) ==
    LET c == call[h] IN
    /\ c.at = "look"
    /\ call' = [call EXCEPT ![h] =
            IF ~Taken(c.k, c.n) THEN [c EXCEPT !.at = "write"]
            ELSE IF c.tries + 1 < Attempts THEN [c EXCEPT !.n = @ + 1, !.tries = @ + 1]
            ELSE [c EXCEPT !.at = "write", !.n = Stamp]]
    /\ UNCHANGED <<doc, row, issued, rushed>>

\* The INSERT of a booking: the unique index refuses a number taken since, and the order fails.
InsertBooking(h) ==
    /\ call[h].at = "write" /\ call[h].k = "booking"
    /\ IF call[h].n # Stamp /\ Taken("booking", call[h].n) THEN UNCHANGED <<doc, row, issued>>
       ELSE /\ row' = [row EXCEPT ![call[h].b] = "there"]
            /\ doc' = [doc EXCEPT !["booking"][call[h].b] = call[h].n]
            /\ issued' = issued \union {<<"booking", call[h].b, call[h].n>>}
    /\ Done(h) /\ UNCHANGED rushed

\* The UPDATE of a bilty number, which does not ask whether there is one by now; a number taken
\* by another booking is refused, and a booking that is gone gets its document all the same.
WriteBilty(h) ==
    LET b == call[h].b  n == call[h].n IN
    /\ call[h].at = "write" /\ call[h].k = "bilty"
    /\ IF n # Stamp /\ \E c \in Carry("bilty") \ {b} : doc["bilty"][c] = n
       THEN UNCHANGED <<doc, issued>>
       ELSE /\ doc' = IF There(b) THEN [doc EXCEPT !["bilty"][b] = n] ELSE doc
            /\ issued' = issued \union {<<"bilty", b, n>>}
    /\ Done(h) /\ UNCHANGED <<row, rushed>>

\* The UPDATE of a tracking token; tokens are random, so always new.
WriteLink(h) ==
    LET b == call[h].b
        n == Stamp + 1 + Cardinality({i \in issued : i[1] = "link"}) IN
    /\ call[h].at = "write" /\ call[h].k = "link" /\ n <= Stamp + MaxShared
    /\ doc' = IF There(b) THEN [doc EXCEPT !["link"][b] = n] ELSE doc
    /\ issued' = issued \union {<<"link", b, n>>}
    /\ Done(h) /\ UNCHANGED <<row, rushed>>

\* hardDelete by an administrator, in any status; the broker's softDelete keeps the row.
HardDelete(b) ==
    /\ There(b) /\ Cardinality({c \in Bookings : row[c] = "gone"}) < MaxDeleted
    /\ row' = [row EXCEPT ![b] = "gone"]
    /\ doc' = [k \in Docs |-> [doc[k] EXCEPT ![b] = 0]]
    /\ UNCHANGED <<issued, call, rushed>>

\* The server stops between two queries of a request.
Crash(h) == call[h] # NoCall /\ Done(h) /\ UNCHANGED <<doc, row, issued, rushed>>

Next ==
    \/ \E b \in Bookings : HardDelete(b) \/ \E k \in Docs \ {"booking"} : Reuse(k, b)
    \/ \E h \in Calls :
          \/ Look(h) \/ InsertBooking(h) \/ WriteBilty(h) \/ WriteLink(h) \/ Crash(h)
          \/ \E b \in Bookings : NumberRequest(h, b)
                                 \/ \E k \in Docs \ {"booking"} : FirstRequest(h, k, b)

Spec == Init /\ [][Next]_vars
-----------------------------------------------------------------------------
\* A document stays its booking's, and no other booking ever gets its number, as long as the
\* booking is not deleted and its first requests did not overlap ("never regenerated after
\* that", getOrCreateBiltyNumber; "exactly one share token", getOrCreateTrackingShareToken).
QuotedForLife ==
    \A i \in issued :
        There(i[2]) /\ <<i[1], i[2]>> \notin rushed =>
            /\ doc[i[1]][i[2]] = i[3]
            /\ i[3] # Stamp => \A b \in Carry(i[1]) \ {i[2]} : doc[i[1]][b] # i[3]
=============================================================================
