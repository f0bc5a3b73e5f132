------------------------------ MODULE Services ------------------------------
(***************************************************************************)
(* The services around a trip.  They share no row, so a behaviour is one   *)
(* of them at work (`part`) and the others at rest: the states are the sum *)
(* of theirs.  The variables are those of the part at work, in the order   *)
(* of its own declaration.                                                 *)
(***************************************************************************)
EXTENDS Integers, Sequences, FiniteSets

CONSTANTS
    Hands,                     \* what is in flight, and the devices of Sessions
    Crew, Trucks,              \* drivers (the reviewers of Kyc); trucks
    Ids, Bookings, Addresses,  \* numbers in the order of creation: of accounts and incidents, of
                               \* bookings, of saved addresses
    Keys,                      \* idempotency keys; the keys of KYC documents
    MaxMessages,               \* bound of a thread
    \* Sessions
    DeviceStaleAfter, AccessLife, RefreshLife, OtpLife, OtpLimit, SessionMixes,
    MaxClock, MaxTokens, MaxOtps, MaxResets,
    \* Users
    Deletions, Phones, NoPhone, UserMixes,
    \* Fleet
    Brokers, Nobody, MaxLoose,
    \* Presence
    LocationStaleAfter, Period,
    \* Kyc
    Roles, Checks, MaxFiles,
    \* Broadcast
    NoKey, Clients, Sweeps, SearchModes, SearchMixes, MaxLive, MaxAsked,
    \* Matching
    Shared, Capacity, Unset, Size, Loads, Orders, MaxSettings,
    \* Pricing
    Asks, SavedRates,
    \* Chat
    Client, Staff, MaxChanges,
    \* Documents
    Attempts, Docs, MaxShared, MaxDeleted,
    \* Gateway
    BookingFare, Advance, Charge, MaxPayments,
    \* Direct
    Broker, Driver, Visitor,
    \* Geofence
    Pins, NoPin, ChunkSize, MaxEdits,
    \* Schema
    Behind

\* What the proofs need of the numbers: rows are numbered in the order of creation and there are
\* finitely many, NULL is neither a number to call nor a key, and the bounds are numbers.
ASSUME SessionsAssumption    == MaxClock \in Nat \ {0} /\ MaxTokens \in Nat /\ MaxResets \in Nat
ASSUME UsersAssumption       == Ids \subseteq Nat \ {0} /\ Deletions \subseteq Nat \ {0} /\ NoPhone \notin Phones
ASSUME FleetAssumption       ==
    Nobody \notin Trucks /\ Nobody \notin Crew /\ Nobody \notin Brokers /\ MaxLoose \in Nat
ASSUME PresenceAssumption    == LocationStaleAfter \in Nat \ {0} /\ Period \in Nat
ASSUME KycAssumption         == MaxFiles \in Nat
ASSUME BroadcastAssumption   ==
    Bookings \subseteq Int /\ MaxLive \in Nat /\ MaxAsked \in Nat /\ NoKey \notin Keys /\ Clients \intersect Sweeps = {}
ASSUME MatchingAssumption    ==
    /\ Loads \subseteq Int /\ IsFiniteSet(Loads) /\ Capacity \in [Shared -> Nat \union {Unset}]
    /\ Orders # {} /\ (\A order \in Orders : order.load.n \in Nat) /\ MaxSettings \in Nat
ASSUME PricingAssumption     ==
    /\ Asks \subseteq [category : STRING, transport : {"intra", "inter"}, distance : Nat, express : BOOLEAN,
                       zone : STRING, traffic : Nat, capacity : 0..100]
    /\ SavedRates \subseteq
          [charge : [threshold : Nat, low : Nat, high : Nat],
           advance : Seq(Nat \X [flat : Nat, percent : Nat]) \ {<<>>}, sla : Seq(Nat \X Nat) \ {<<>>},
           surcharge : Nat \ {0}, factor : Nat, fuel : Nat, toll : Nat]
ASSUME GatewayAssumption     ==
    BookingFare \in Nat /\ Advance \in Nat /\ Charge \in Nat /\ Advance <= BookingFare /\ MaxPayments \in Nat
ASSUME DocumentsAssumption   ==
    /\ IsFiniteSet(Bookings) /\ Attempts \in Nat /\ MaxShared \in Nat /\ MaxDeleted \in Nat
    /\ "booking" \in Docs /\ Docs \subseteq {"booking", "bilty", "link"}
ASSUME GeofenceAssumption    == MaxEdits \in Nat
ASSUME ChatAssumption        == MaxMessages \in Nat /\ MaxChanges \in Nat
ASSUME DirectAssumption      == Broker # Driver /\ Visitor \notin {Broker, Driver} /\ MaxMessages \in Nat
ASSUME PreferencesAssumption == Addresses \subseteq Int /\ IsFiniteSet(Addresses)

VARIABLES part, v1, v2, v3, v4, v5, v6, v7, v8, v9, v10

vars == <<part, v1, v2, v3, v4, v5, v6, v7, v8, v9, v10>>
-----------------------------------------------------------------------------
S == INSTANCE Sessions WITH
        mix <- v1, clock <- v2, account <- v3, tokens <- v4, otps <- v5, device <- v6,
        call <- v7, resetting <- v8, resets <- v9,
        Devices <- Hands, StaleAfter <- DeviceStaleAfter, Mixes <- SessionMixes

U == INSTANCE Users WITH
        mix <- v1, user <- v2, request <- v3, call <- v4, proved <- v5, restored <- v6, byHand <- v7,
        vouched <- v8,
        Requests <- Deletions, Calls <- Hands, Mixes <- UserMixes

F == INSTANCE Fleet WITH
        trucks <- v1, profiles <- v2, booked <- v3, tx <- v4, loose <- v5, loosened <- v6,
        Drivers <- Crew, Handlers <- Hands

P == INSTANCE Presence WITH
        profile <- v1, run <- v2, since <- v3, missed <- v4,
        Drivers <- Crew, StaleAfter <- LocationStaleAfter

K == INSTANCE Kyc WITH
        role <- v1, status <- v2, row <- v3, files <- v4, call <- v5, passed <- v6, mixed <- v7,
        Requests <- Hands, Reviewers <- Crew

B == INSTANCE Broadcast WITH
        mix <- v1, booking <- v2, live <- v3, answers <- v4, call <- v5, sent <- v6, torn <- v7,
        retried <- v8, asked <- v9, early <- v10,
        Drivers <- Crew, Modes <- SearchModes, Mixes <- SearchMixes

M == INSTANCE Matching WITH
        truck <- v1, driver <- v2, booking <- v3, offers <- v4, boarded <- v5, rushed <- v6, changes <- v7,
        Trucks <- Shared, Bookings <- Loads, MaxChanges <- MaxSettings

Q == INSTANCE Pricing WITH
        config <- v1, crowded <- v2, quote <- v3, booking <- v4, hours <- v5,
        Requests <- Asks, Saved <- SavedRates

C == INSTANCE Chat WITH
        stage <- v1, greeted <- v2, assigned <- v3, locked <- v4, messages <- v5, changes <- v6, call <- v7,
        Calls <- Hands

I == INSTANCE Incidents WITH
        active <- v1, incident <- v2, reason <- v3, mechanic <- v4, call <- v5, torn <- v6,
        Calls <- Hands

A == INSTANCE Preferences WITH
        default <- v1, call <- v2, unsure <- v3, Rows <- Addresses, Calls <- Hands

D == INSTANCE Documents WITH
        doc <- v1, row <- v2, issued <- v3, call <- v4, rushed <- v5, Calls <- Hands

W == INSTANCE Gateway WITH
        booking <- v1, qr <- v2, orders <- v3, codes <- v4, cash <- v5, call <- v6, stale <- v7,
        Fare <- BookingFare, Calls <- Hands

R == INSTANCE Direct WITH
        thread <- v1, messages <- v2, window <- v3, call <- v4, hasty <- v5, Calls <- Hands

E == INSTANCE Geofence WITH
        list <- v1, wanted <- v2, call <- v3, edits <- v4, placed <- v5, Calls <- Hands

G == INSTANCE Schema WITH
        db <- v1, rows <- v2, release <- v3, at <- v4

ASSUME SchemaAssumption      == G!InOrder /\ Behind \subseteq 0..Len(G!Batches) - 1

-----------------------------------------------------------------------------
\* What the part at work does not use.
NoVar(v) == v = "off"

Init ==
    \/ part = "sessions"    /\ S!Init /\ NoVar(v10)
    \/ part = "users"       /\ U!Init /\ NoVar(v9) /\ NoVar(v10)
    \/ part = "fleet"       /\ F!Init /\ NoVar(v7) /\ NoVar(v8) /\ NoVar(v9) /\ NoVar(v10)
    \/ part = "presence"    /\ P!Init /\ NoVar(v5) /\ NoVar(v6) /\ NoVar(v7) /\ NoVar(v8) /\ NoVar(v9) /\ NoVar(v10)
    \/ part = "kyc"         /\ K!Init /\ NoVar(v8) /\ NoVar(v9) /\ NoVar(v10)
    \/ part = "broadcast"   /\ B!Init
    \/ part = "matching"    /\ M!Init /\ NoVar(v8) /\ NoVar(v9) /\ NoVar(v10)
    \/ part = "pricing"     /\ Q!Init /\ NoVar(v6) /\ NoVar(v7) /\ NoVar(v8) /\ NoVar(v9) /\ NoVar(v10)
    \/ part = "chat"        /\ C!Init /\ NoVar(v8) /\ NoVar(v9) /\ NoVar(v10)
    \/ part = "incidents"   /\ I!Init /\ NoVar(v7) /\ NoVar(v8) /\ NoVar(v9) /\ NoVar(v10)
    \/ part = "preferences" /\ A!Init /\ NoVar(v4) /\ NoVar(v5) /\ NoVar(v6) /\ NoVar(v7) /\ NoVar(v8) /\ NoVar(v9) /\ NoVar(v10)
    \/ part = "documents"   /\ D!Init /\ NoVar(v6) /\ NoVar(v7) /\ NoVar(v8) /\ NoVar(v9) /\ NoVar(v10)
    \/ part = "gateway"     /\ W!Init /\ NoVar(v8) /\ NoVar(v9) /\ NoVar(v10)
    \/ part = "direct"      /\ R!Init /\ NoVar(v6) /\ NoVar(v7) /\ NoVar(v8) /\ NoVar(v9) /\ NoVar(v10)
    \/ part = "geofence"    /\ E!Init /\ NoVar(v6) /\ NoVar(v7) /\ NoVar(v8) /\ NoVar(v9) /\ NoVar(v10)
    \/ part = "schema"      /\ G!Init /\ NoVar(v5) /\ NoVar(v6) /\ NoVar(v7) /\ NoVar(v8) /\ NoVar(v9) /\ NoVar(v10)

Next ==
    \/ part = "sessions"    /\ S!Next /\ UNCHANGED <<part, v10>>
    \/ part = "users"       /\ U!Next /\ UNCHANGED <<part, v9, v10>>
    \/ part = "fleet"       /\ F!Next /\ UNCHANGED <<part, v7, v8, v9, v10>>
    \/ part = "presence"    /\ P!Next /\ UNCHANGED <<part, v5, v6, v7, v8, v9, v10>>
    \/ part = "kyc"         /\ K!Next /\ UNCHANGED <<part, v8, v9, v10>>
    \/ part = "broadcast"   /\ B!Next /\ UNCHANGED part
    \/ part = "matching"    /\ M!Next /\ UNCHANGED <<part, v8, v9, v10>>
    \/ part = "pricing"     /\ Q!Next /\ UNCHANGED <<part, v6, v7, v8, v9, v10>>
    \/ part = "chat"        /\ C!Next /\ UNCHANGED <<part, v8, v9, v10>>
    \/ part = "incidents"   /\ I!Next /\ UNCHANGED <<part, v7, v8, v9, v10>>
    \/ part = "preferences" /\ A!Next /\ UNCHANGED <<part, v4, v5, v6, v7, v8, v9, v10>>
    \/ part = "documents"   /\ D!Next /\ UNCHANGED <<part, v6, v7, v8, v9, v10>>
    \/ part = "gateway"     /\ W!Next /\ UNCHANGED <<part, v8, v9, v10>>
    \/ part = "direct"      /\ R!Next /\ UNCHANGED <<part, v6, v7, v8, v9, v10>>
    \/ part = "geofence"    /\ E!Next /\ UNCHANGED <<part, v6, v7, v8, v9, v10>>
    \/ part = "schema"      /\ G!Next /\ UNCHANGED <<part, v5, v6, v7, v8, v9, v10>>

Spec == Init /\ [][Next]_vars
-----------------------------------------------------------------------------
\* The type invariant of the part at work.
TypesOK ==
    /\ part = "sessions"    => S!TypeOK
    /\ part = "users"       => U!TypeOK
    /\ part = "fleet"       => F!TypeOK
    /\ part = "presence"    => P!TypeOK
    /\ part = "kyc"         => K!TypeOK
    /\ part = "broadcast"   => B!TypeOK
    /\ part = "matching"    => M!TypeOK
    /\ part = "pricing"     => Q!TypeOK
    /\ part = "chat"        => C!TypeOK
    /\ part = "incidents"   => I!TypeOK
    /\ part = "preferences" => A!TypeOK
    /\ part = "documents"   => D!TypeOK
    /\ part = "gateway"     => W!TypeOK
    /\ part = "direct"      => R!TypeOK
    /\ part = "geofence"    => E!TypeOK
    /\ part = "schema"      => G!TypeOK

\* The properties of the parts, whose modules say more.  When every session has been ended
\* at once, a token that still renews is of a later login (revokeAllForUser).
RevokedForGood == part = "sessions" => S!RevokedForGood
\* A number shown as verified has been proved by somebody, or an administrator has created the
\* account with it, and an account whose deletion is completed is deleted (updateProfile,
\* verifyPhone, createAdmin, deleteAccountFromRequest).
AccountsHonest == part = "users" => U!PhoneProved /\ U!RemovedWhenCompleted
\* A truck names the driver who names it (TruckModel.assignDriver, TruckModel.create).
LinkAgrees == part = "fleet" => F!LinkAgrees
\* A driver who shows as available has been heard of lately (staleDriverLocationSweep).
Reachable == part = "presence" => P!Reachable
\* Every document of the submission is a stored file (uploadKycDocument).
DocumentsStored == part = "kyc" => K!DocumentsStored
\* Accounts are verified by a reviewer or by their checks (verifyKyc, submitKyc).
DecisionsHold == [][part = "kyc" => K!Decided]_vars
\* The sweep finds a scheduled booking until it is broadcast (findDueForScheduledBroadcast).
NotForgotten == part = "broadcast" => B!NotForgotten
\* An order repeated under one key makes one booking, and however often it is searched for, a
\* driver has one live request for it beside those of the client himself (idempotent,
\* rebroadcastDriverFanOut).
NothingTwice == part = "broadcast" => B!BookedOnce /\ B!OneLiveRequest
\* A shared truck is not overloaded by offers accepted as found (findPartTruckCandidates).
RoomWasSeen == part = "matching" => M!RoomWasSeen
\* A booking costs what was quoted at these rates, and the short delivery time goes with the
\* express surcharge (quoteBooking, createBooking, finalizeDriverRequest).
BookedAsQuoted == part = "pricing" => Q!QuoteHonoured /\ Q!ExpressPaidFor
\* A message for a person reaches everybody on the booking (postMessage, escalateAndNotify).
MessagesReach == part = "chat" => C!MessagesReach
\* Where the mechanic is done, the incident is resolved (updateMechanicRequest).
BreakdownsClose == part = "incidents" => I!BreakdownsClose
\* A client with saved addresses has one default (savedAddress.model).
OneDefault == part = "preferences" => A!OneDefault
\* A number or link handed out stays its booking's (getOrCreateBiltyNumber).
QuotedForLife == part = "documents" => D!QuotedForLife
\* What a booking says has been paid, somebody has paid, where each payment is recorded as what it
\* was made for (finalizePayment, finalizeTripPayment).
PaidForReal == part = "gateway" => W!PaidForReal
\* A message that has gone out unseen is in its reader's badge, until a visitor marks it
\* (markThreadRead).
BadgeHonest == part = "direct" => R!BadgeHonest
\* A booking is taken where both ends were wanted while it was checked (checkGeofence).
WithinTheFence == part = "geofence" => E!WithinTheFence
\* No start of the server fails on what another one left (runMigrations).
StartsComplete == part = "schema" => G!StartsComplete
=============================================================================
