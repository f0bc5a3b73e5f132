------------------------------- MODULE Schema -------------------------------
(***************************************************************************)
(* The schema migration that every start of the server runs from its first *)
(* statement.  A batch is one client.query() and commits or fails as a     *)
(* whole; nothing spans two batches, and the first one that fails ends the *)
(* run, while the server goes on to serve.  Releases append batches, so    *)
(* an older release is a prefix of today's.                                *)
(*                                                                         *)
(* An object is a table, an enum type, an enum value added later, or a     *)
(* column, constraint or label that a later batch relies on.  A value of   *)
(* an enum cannot be used by the batch that adds it.                       *)
(***************************************************************************)
EXTENDS Integers, Sequences, Functions

CONSTANT Behind              \* releases: how many of today's batches each one lacks

VARIABLES
    db,            \* the objects there are
    rows,          \* kinds of rows there are that an older constraint refused
    release,       \* batches the deployed release has
    at             \* the batch a start has come to; Serving or Failed when it is over

vars == <<db, rows, release, at>>

Serving == 1000
Failed  == 1001

\* A batch: what it finds there, what it makes, what it takes away, the rows that its
\* constraints refuse, and the object that makes it do nothing.
Batch(needs, makes) == [needs |-> needs, makes |-> makes, drops |-> {}, bars |-> {}, unless |-> "-"]
On(t, makes) == Batch({t}, makes)       \* a batch that alters one table
Trigger(t)   == Batch({t, "touch"}, {}) \* DROP and CREATE of its updated_at trigger
-----------------------------------------------------------------------------
\* Users, OTPs, tokens, audit log, the trigger function; Google sign-in, profiles, notifications.
Users == <<
    Batch({}, {"user_role", "user_status", "users", "otps", "refresh_tokens", "audit_logs", "touch"}),
    On("users", {"users.google_id"}),
    On("users", {"notifications"}) >>

\* KYC, and its labels renamed once: not_submitted, pending, approved become pending,
\* submitted, verified.
KycRename == [Batch({"kyc_status"}, {"kyc.verified"}) EXCEPT !.drops = {"kyc.approved"}, !.unless = "kyc.verified"]
KycStatus == <<
    [Batch({"users"}, {"kyc_status", "kyc.approved", "users.kyc_status", "kyc_submissions"})
        EXCEPT !.unless = "kyc_status"],
    KycRename >>

BookingsTable == <<
    Batch({"users", "touch"}, {"booking_status", "truck_category", "payment_status", "bookings",
                               "booking_timeline"}),
    Batch({"users", "touch", "truck_category"}, {"trucks", "driver_profiles"}) >>

BookingNumbers == <<
    Batch({"bookings", "trucks"}, {}),
    On("bookings", {}),
    On("bookings", {"bookings.booking_number"}),
    On("bookings.booking_number", {}),
    On("bookings.booking_number", {}) >>

TripsTable == <<
    Batch({"bookings", "users", "booking_status", "touch"}, {"job_status", "job_requests", "trips", "trip_timeline"}),
    Batch({"bookings", "users", "touch"}, {"settlements", "disputes"}) >>

\* The two singleton rows are inserted unless they are there.
Settings == <<
    Batch({}, {"pricing_config", "admin_settings"}),
    On("pricing_config", {"pricing row"}),
    On("admin_settings", {}),
    Batch({"users", "touch"}, {"broker_profiles"}),
    On("booking_status", {}),
    On("users", {"idempotency_keys"}) >>

IncidentsTable == <<
    On("driver_profiles", {"driver_profiles.current_lat"}),
    Batch({"trips", "users"}, {"trip_incidents"}),
    On("trips", {"pod_files"}),
    On("disputes", {"disputes.dispute_number"}),
    On("disputes.dispute_number", {}),
    On("disputes.dispute_number", {}),
    On("users", {"kyc_files"}),
    On("job_status", {}),
    On("job_requests", {}),
    Batch({"trip_incidents", "touch"}, {"mechanic_requests"}) >>

\* Threads are of one booking at first: a constraint, and a column that may not be NULL.
ChatTables == <<
    [Batch({"bookings", "users"}, {"chat_threads", "chat_messages", "threads of bookings", "booking_id_key"})
        EXCEPT !.unless = "chat_threads"],
    Batch({"trips", "driver_profiles", "bookings"}, {"trip_pod_photos"}),
    On("bookings", {}),
    On("bookings", {}),
    On("bookings", {}) >>

RequestsTable == <<
    Batch({"bookings", "trucks", "users", "touch"}, {"driver_request_status", "driver_requests"}),
    Batch({"bookings", "users"}, {}),
    Batch({"users", "driver_profiles"}, {"device_tokens"}),
    Batch({"driver_requests", "job_requests"}, {}),
    On("trips", {}),
    On("trips", {}),
    Batch({}, {"tracking_last_known"}),
    Batch({"driver_requests", "driver_request_status", "job_requests", "job_status"}, {}),
    On("driver_profiles", {}),
    Batch({"payment_status", "bookings"}, {}) >>

\* The assistant's account has a role that the batch before it adds.
Bot == <<
    On("user_role", {"user_role.bot"}),
    Batch({"users", "user_role.bot", "chat_threads", "chat_messages"}, {"bot", "chat_threads.stage"}),
    On("users", {}) >>

ClientTables == <<
    On("users", {"saved_addresses", "saved_payment_methods"}),
    On("trips", {}),
    On("users", {}) >> \o Bot

\* The check on search_mode comes with its column, and only with it.
Scheduled == [Batch({"bookings", "users", "trips"}, {"bookings.search_mode", "broker or truck"})
                 EXCEPT !.bars = {"part load"}, !.unless = "bookings.search_mode"]
BookingColumns == <<
    On("driver_profiles", {}),
    Scheduled,
    On("bookings", {"bookings.tracking_share_token"}),
    On("bookings.tracking_share_token", {}),
    On("payment_status", {}),
    On("admin_settings", {}),
    On("trips", {}),
    On("bookings", {}),
    On("trip_pod_photos", {}),
    Batch({"bookings", "trips", "users", "trucks"}, {"driver_reassignments"}),
    On("driver_reassignments", {}) >>

\* Direct threads of a broker and a driver have no booking.
DirectThreads == <<
    [On("chat_threads", {}) EXCEPT !.drops = {"threads of bookings"}],
    Batch({"chat_threads", "users"}, {"chat_threads.broker_id"}),
    [On("chat_threads", {}) EXCEPT !.drops = {"booking_id_key"}],
    On("chat_threads.broker_id", {"unique threads"}),
    On("chat_threads.broker_id", {}),
    On("trips", {}),
    On("users", {"users.sessions_valid_after"}),
    On("user_role", {}) >>

PodColumns == <<
    Batch({"trips", "users"}, {"trips.pod_status"}),
    On("trips.pod_status", {}),
    Batch({"users", "trucks", "truck_category"}, {"monthly_hiring_enquiries", "monthly_vehicle_listings"}),
    Batch({"monthly_hiring_enquiries", "monthly_vehicle_listings"}, {}),
    On("truck_category", {}),
    On("monthly_hiring_enquiries", {}),
    On("driver_profiles", {}) >>

KycColumns == <<
    On("kyc_submissions", {"kyc_submissions.verification_results"}),
    On("kyc_submissions", {}),
    On("kyc_submissions", {}),
    On("users", {}),
    On("truck_category", {}),
    Batch({"trucks", "bookings"}, {"trucks.body_type", "bookings.truck_body_type"}),
    Batch({"trucks.body_type", "bookings.truck_body_type"}, {}),
    On("trucks", {}) >>

\* Part loads: the check on search_mode is dropped and made again at every start.
PartLoads == <<
    Batch({}, {"trip_join_request_status"}),
    Batch({"trip_join_request_status", "bookings", "trips", "trucks", "users"}, {"trip_join_requests"}),
    Trigger("trip_join_requests"),
    [On("bookings.search_mode", {"part loads too"}) EXCEPT !.drops = {"broker or truck"}],
    On("trucks", {}),
    On("bookings", {}) >>

LegalPages == <<
    On("users", {"legal_pages"}),
    Trigger("legal_pages"),
    On("legal_pages", {}),
    On("users", {"account_deletion_requests"}),
    Trigger("account_deletion_requests"),
    Batch({"account_deletion_requests", "users"}, {}),
    Batch({}, {"allowed_pincodes"}),
    Trigger("allowed_pincodes"),
    On("bookings", {}) >>

Wallets == <<
    On("users", {"wallets"}),
    Trigger("wallets"),
    [Batch({"wallets", "bookings"}, {"wallet_transactions", "client types"}) EXCEPT !.unless = "wallet_transactions"],
    Batch({}, {"gst_verification_status"}),
    Batch({"users", "gst_verification_status"}, {}),
    Batch({"users.kyc_status", "kyc.verified", "kyc_submissions.verification_results"}, {}),
    On("pricing row", {}),
    On("users", {}),
    On("wallet_transactions", {}),
    [On("wallet_transactions", {"earnings too"}) EXCEPT !.drops = {"client types"}] >>

Postpaid == <<
    Batch({}, {"billing_type"}),
    Batch({"users", "billing_type"}, {}),
    On("payment_status", {}),
    On("users", {"postpaid_bills"}),
    Trigger("postpaid_bills"),
    Batch({"postpaid_bills", "bookings"}, {"postpaid_bill_items"}),
    On("admin_settings", {}),
    On("bookings", {}),
    On("users", {"client_billing_parties"}),
    On("admin_settings", {}),
    Batch({"admin_settings", "bookings"}, {}) >>

Batches == Users \o KycStatus \o BookingsTable \o BookingNumbers \o TripsTable \o Settings \o IncidentsTable
           \o ChatTables \o RequestsTable \o ClientTables \o BookingColumns \o DirectThreads
           \o PodColumns \o KycColumns \o PartLoads \o LegalPages \o Wallets \o Postpaid
-----------------------------------------------------------------------------
Objects  == UNION {b.makes : b \in Range(Batches)}
Replaced == UNION {b.drops : b \in Range(Batches)}
Releases == {Len(Batches) - n : n \in Behind}
Kinds    == {"part load", "direct thread", "earning"}

\* The order of the batches above is a sound one.  Whatever a batch needs, an earlier one makes,
\* and nothing takes it away; an object is made by one batch and dropped after it.
MadeInOrder(batches, replaced) ==
    \A i, j \in DOMAIN batches :
        /\ i # j => batches[i].makes \intersect batches[j].makes = {}
        /\ batches[i].makes \intersect batches[j].drops # {} => i < j
        /\ batches[i].needs \intersect replaced = {}
        /\ \A o \in batches[i].needs : \E k \in 1..i-1 : o \in batches[k].makes
\* A batch that looks before it runs looks for something it makes and nobody drops; if it
\* drops an object, so does the batch look that made it, for what this one needs.
LooksAtItsOwn(batches, replaced) ==
    \A i \in DOMAIN batches : batches[i].unless # "-" =>
        /\ batches[i].unless \in batches[i].makes \ replaced
        /\ \A j \in DOMAIN batches : batches[j].makes \intersect batches[i].drops # {} =>
               batches[j].unless \in batches[i].needs
\* Rows that a constraint refuses are admitted by a batch that needs the one with the constraint.
AdmittedLater(batches) ==
    \A i, j \in DOMAIN batches : batches[i].bars # {} =>
        /\ batches[i].bars = {"part load"}
        /\ "part loads too" \in batches[j].makes => batches[i].unless \in batches[j].needs

InOrder ==
    LET batches == Batches  objects == Objects  replaced == Replaced IN
    /\ Len(batches) < Serving /\ "-" \notin objects /\ "part loads too" \in objects \ replaced
    /\ batches \in Seq([needs : SUBSET objects, makes : SUBSET objects, drops : SUBSET objects,
                        bars : SUBSET Kinds, unless : objects \union {"-"}])
    /\ MadeInOrder(batches, replaced) /\ LooksAtItsOwn(batches, replaced) /\ AdmittedLater(batches)

TypeOK ==
    /\ db \subseteq Objects
    /\ rows \subseteq Kinds
    /\ release \in Releases
    /\ at \in 1..Len(Batches) \union {Serving, Failed}

Init ==
    /\ db = {} /\ rows = {}
    /\ release \in Releases
    /\ at = 1

\* Bug: a constraint is added although its column is there, to rows that it refuses.
RunsBlindly(b) == b.needs \subseteq db /\ b.bars \intersect rows = {}
\* One batch.  An enum value is visible to it once another batch has committed it.
Runs(b) ==
    /\ b.needs \subseteq db
    /\ b.unless \in db \/ b.bars \intersect rows = {}

Step ==
    /\ at \in 1..release
    /\ LET b == Batches[at] IN
       IF Runs(b)
       THEN /\ db' = IF b.unless \in db THEN db ELSE (db \ b.drops) \union b.makes
            /\ at' = IF at = release THEN Serving ELSE at + 1
       ELSE at' = Failed /\ UNCHANGED db
    /\ UNCHANGED <<rows, release>>

\* runStartupMigrations: the process dies, or is deployed anew, at any point; the next one
\* begins with the first batch.
Restart(r) ==
    /\ r >= release
    /\ release' = r /\ at' = 1
    /\ UNCHANGED <<db, rows>>

\* The rows of a serving process that only the newer constraints admit.
Admits(kind) ==
    CASE kind = "part load"     -> "part loads too" \in db
      [] kind = "direct thread" -> "unique threads" \in db /\ "threads of bookings" \notin db
      [] kind = "earning"       -> "earnings too" \in db

Serve(kind) ==
    /\ at \in {Serving, Failed} /\ Admits(kind) /\ kind \notin rows
    /\ rows' = rows \union {kind}
    /\ UNCHANGED <<db, release, at>>

Next ==
    \/ Step
    \/ \E r \in Releases : Restart(r)
    \/ \E kind \in Kinds : Serve(kind)

Spec == Init /\ [][Next]_vars
-----------------------------------------------------------------------------
\* No start fails on what an earlier one, cut off anywhere, or an earlier release and its rows
\* have left behind, and one that ends has made everything (runMigrations; "all statements are
\* idempotent", runStartupMigrations).
StartsComplete ==
    /\ at # Failed
    /\ at = Serving =>
          LET kept == db \union Replaced IN
          \A b \in Range(SubSeq(Batches, 1, release)) : b.makes \subseteq kept /\ b.drops \intersect db = {}
=============================================================================
