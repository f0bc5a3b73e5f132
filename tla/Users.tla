------------------------------- MODULE Users -------------------------------
(***************************************************************************)
(* Accounts as rows: who registers and how, the phone number and whether   *)
(* it is proved, the status that administrators set, and the requests to   *)
(* have an account deleted.  The sessions of an account are in Sessions.   *)
(***************************************************************************)
EXTENDS Integers, FiniteSets

CONSTANTS
    Ids,             \* of accounts, in the order of creation
    Requests,        \* of deletion, in the order of creation
    Phones,
    NoPhone,         \* NULL, of accounts made by Google sign-in
    Calls,
    Mixes            \* bound: what a behaviour is made of, "phones", "removal"

VARIABLES
    mix,             \* chosen at the start
    user,            \* users: status, phone, is_phone_verified
    request,         \* account_deletion_requests: status, user_id (0: NULL)
    call,            \* handlers between two queries
    proved,          \* history: phones whose owner has shown that he has them
    restored,        \* history: accounts made active again since they were deleted
    byHand,          \* history: requests whose status an administrator has set
    vouched          \* history: accounts that have the number an administrator has created them with

vars == <<mix, user, request, call, proved, restored, byHand, vouched>>

NoCall == [at |-> "none", id |-> 0, phone |-> NoPhone]
NoUser == [status |-> "none", phone |-> NoPhone, verified |-> FALSE]

TypeOK ==
    /\ mix \in Mixes
    /\ user \in [Ids -> [status : {"none", "active", "blocked", "inactive"},
                         phone : Phones \union {NoPhone}, verified : BOOLEAN]]
    /\ request \in [Requests -> [status : {"none", "pending", "completed", "rejected"}, user : Ids \union {0}]]
    /\ call \in [Calls -> [at : {"none", "register", "admin", "hire", "phone", "use", "delete", "complete", "status"},
                           id : Ids \union Requests \union {0}, phone : Phones \union {NoPhone}]]
    /\ proved \subseteq Phones /\ restored \subseteq Ids /\ byHand \subseteq Requests
    /\ vouched \subseteq Ids

Init ==
    /\ mix \in Mixes
    /\ user = [i \in Ids |-> NoUser]
    /\ request = [r \in Requests |-> [status |-> "none", user |-> 0]]
    /\ call = [h \in Calls |-> NoCall]
    /\ proved = {} /\ restored = {} /\ byHand = {} /\ vouched = {}

-----------------------------------------------------------------------------
Known     == {i \in Ids : user[i].status # "none"}
Holder(p) == {i \in Known : user[i].phone = p}        \* at most one: UNIQUE
Free(f)   == {i \in DOMAIN f : \A j \in DOMAIN f : f[j].status = "none" <=> j >= i}
Starts(h, at, id, phone) ==
    call[h] = NoCall /\ call' = [call EXCEPT ![h] = [at |-> at, id |-> id, phone |-> phone]]
Goes(h, at) == call' = [call EXCEPT ![h].at = at]
Ends(h)     == call' = [call EXCEPT ![h] = NoCall]

\* Made active again, whatever has happened before.
Restore(is) == restored' = restored \union is

-----------------------------------------------------------------------------
(* Registration and phone numbers                                          *)

\* register, registerDriverWithTruck: the phone is proved by a Firebase token and is free.
RegisterRequest(h, p) ==
    /\ Holder(p) = {} /\ Starts(h, "register", 0, p)
    /\ proved' = proved \union {p}
    /\ UNCHANGED <<mix, user, request, restored, byHand, vouched>>

\* registerAdmin, and registerDriver of a broker: the number is free, and nobody shows that he has it.
AddRequest(h, how, p) ==
    /\ "phones" \in mix /\ how \in {"admin", "hire"}
    /\ Holder(p) = {} /\ Starts(h, how, 0, p)
    /\ UNCHANGED <<mix, user, request, proved, restored, byHand, vouched>>

\* UserModel.create and createAdmin, which fail when another one has taken the phone.  The number
\* counts as verified when its owner has shown it, and when the account is an administrator's.
Register(h) ==
    /\ call[h].at \in {"register", "admin", "hire"} /\ Ends(h)
    /\ IF Holder(call[h].phone) = {}
       THEN \E i \in Free(user) :
               /\ user' = [user EXCEPT ![i] = [status |-> "active", phone |-> call[h].phone,
                                             verified |-> call[h].at # "hire"]]
               /\ vouched' = IF call[h].at = "admin" THEN vouched \union {i} ELSE vouched
       ELSE UNCHANGED <<user, vouched>>
    /\ UNCHANGED <<mix, request, proved, restored, byHand>>

\* createGoogleUser
RegisterByGoogle ==
    /\ "phones" \in mix
    /\ \E i \in Free(user) : user' = [user EXCEPT ![i] = [status |-> "active", phone |-> NoPhone, verified |-> FALSE]]
    /\ UNCHANGED <<mix, request, call, proved, restored, byHand, vouched>>

\* updateProfile, updateUserByAdmin: nobody else has the phone.
PhoneRequest(h, i, p) ==
    /\ "phones" \in mix /\ i \in Known /\ Holder(p) \subseteq {i} /\ Starts(h, "phone", i, p)
    /\ UNCHANGED <<mix, user, request, proved, restored, byHand, vouched>>

\* Bug: the flag stays as it is.
SetPhoneOnly(i, p) == user' = [user EXCEPT ![i].phone = p]
\* UserModel.updateProfile: a number that differs is not proved; of a NULL phone nothing
\* differs, and its flag stays.
SetPhone(i, p) ==
    user' = [user EXCEPT ![i] = [status |-> user[i].status, phone |-> p,
                                 verified |-> user[i].verified /\ user[i].phone \in {p, NoPhone}]]

UpdatePhone(h) ==
    /\ call[h].at = "phone" /\ Ends(h)
    /\ IF Holder(call[h].phone) \subseteq {call[h].id}
       THEN SetPhone(call[h].id, call[h].phone) ELSE UNCHANGED user
    /\ vouched' = {i \in vouched : user'[i].phone = user[i].phone}
    /\ UNCHANGED <<mix, request, proved, restored, byHand>>

\* verifyOtp, whose code was sent to any number, and firebasePhoneLogin of an active account.
ProveRequest(h, p) ==
    /\ Starts(h, "use", 0, p) /\ proved' = proved \union {p}
    /\ UNCHANGED <<mix, user, request, restored, byHand, vouched>>

\* UserModel.verifyPhone: whoever has the number by now, whatever his status.
VerifyPhone(h) ==
    /\ call[h].at = "use" /\ Ends(h)
    /\ user' = [i \in Ids |-> IF i \in Holder(call[h].phone)
                   THEN [status |-> "active", phone |-> user[i].phone, verified |-> TRUE] ELSE user[i]]
    /\ Restore(Holder(call[h].phone))
    /\ UNCHANGED <<mix, request, proved, byHand, vouched>>

-----------------------------------------------------------------------------
(* Status and removal                                                      *)

\* updateUserStatus and deleteUser by an administrator: findById, then the update.
StatusRequest(h, i) ==
    /\ "removal" \in mix /\ i \in Known /\ Starts(h, "status", i, NoPhone)
    /\ UNCHANGED <<mix, user, request, proved, restored, byHand, vouched>>

SetStatus(h, status) ==
    /\ call[h].at = "status" /\ Ends(h)
    /\ user' = [user EXCEPT ![call[h].id].status = status]
    /\ IF status = "inactive" THEN UNCHANGED restored ELSE Restore({call[h].id})
    /\ UNCHANGED <<mix, request, proved, byHand, vouched>>

\* submitAccountDeletionRequest (0: nobody is linked), submitMyAccountDeletionRequest.
Submit(i) ==
    /\ "removal" \in mix /\ (i # 0 => user[i].status = "active")
    /\ \E r \in Free(request) : request' = [request EXCEPT ![r] = [status |-> "pending", user |-> i]]
    /\ UNCHANGED <<mix, user, call, proved, restored, byHand, vouched>>

\* updateAccountDeletionRequest: the status alone, to any value.
SetRequest(r, status) ==
    /\ request[r].status # "none"
    /\ request' = [request EXCEPT ![r].status = status]
    /\ byHand' = byHand \union {r}
    /\ UNCHANGED <<mix, user, call, proved, restored, vouched>>

\* deleteAccountFromRequest: a request that links an account, in whatever status.
DeleteRequest(h, r) ==
    /\ request[r].user # 0 /\ Starts(h, "delete", r, NoPhone)
    /\ UNCHANGED <<mix, user, request, proved, restored, byHand, vouched>>

\* Bug: the request is completed first.
CompleteFirst(h) ==
    /\ call[h].at = "delete" /\ Goes(h, "complete")
    /\ request' = [request EXCEPT ![call[h].id].status = "completed"]
    /\ UNCHANGED <<mix, user, proved, restored, byHand, vouched>>
\* UserModel.delete
DeleteAccount(h) ==
    /\ call[h].at = "delete" /\ Goes(h, "complete")
    /\ LET i == request[call[h].id].user IN
          /\ user' = [user EXCEPT ![i].status = "inactive"]
          /\ restored' = restored \ {i}
    /\ UNCHANGED <<mix, request, proved, byHand, vouched>>

Complete(h) ==
    /\ call[h].at = "complete" /\ Ends(h)
    /\ request' = [request EXCEPT ![call[h].id].status = "completed"]
    /\ UNCHANGED <<mix, user, proved, restored, byHand, vouched>>

Fail(h) == call[h] # NoCall /\ Ends(h) /\ UNCHANGED <<mix, user, request, proved, restored, byHand, vouched>>

Next ==
    \/ \E h \in Calls :
          \/ \E p \in Phones : RegisterRequest(h, p) \/ ProveRequest(h, p)
                               \/ \E how \in {"admin", "hire"} : AddRequest(h, how, p)
                               \/ \E i \in Ids : PhoneRequest(h, i, p)
          \/ \E i \in Ids : StatusRequest(h, i)
          \/ \E r \in Requests : DeleteRequest(h, r)
          \/ \E status \in {"active", "blocked", "inactive"} : SetStatus(h, status)
          \/ Register(h) \/ UpdatePhone(h) \/ VerifyPhone(h) \/ DeleteAccount(h) \/ Complete(h) \/ Fail(h)
    \/ RegisterByGoogle
    \/ \E i \in Known \union {0} : Submit(i)
    \/ \E r \in Requests, status \in {"pending", "completed", "rejected"} : SetRequest(r, status)

Spec == Init /\ [][Next]_vars
-----------------------------------------------------------------------------
\* A number that an account shows as verified has been proved by somebody, or is the one that
\* an administrator has created this account with and that has stood since: nobody's flag moves
\* with him to another number (updateProfile: "that one flag kept honest"; createAdmin).
PhoneProved ==
    \A i \in Known : user[i].verified => user[i].phone \in proved \/ i \in vouched

\* An account whose deletion is marked completed by the action that deletes it is deleted,
\* wherever that action stops, until it is made active again (deleteAccountFromRequest).
RemovedWhenCompleted ==
    \A r \in Requests : request[r].status = "completed" /\ r \notin byHand
        => user[request[r].user].status # "active" \/ request[r].user \in restored
=============================================================================
