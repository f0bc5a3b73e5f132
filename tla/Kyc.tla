-------------------------------- MODULE Kyc --------------------------------
(***************************************************************************)
(* The verification of one account: the documents it uploads, the checks a *)
(* provider makes of its numbers, the approval that follows when all of    *)
(* them pass, the review by an administrator or the driver's broker, and   *)
(* the migration that every start of the server runs.                      *)
(*                                                                         *)
(* The status is in users.kyc_status, everything else in kyc_submissions;  *)
(* one transaction writes both.  The requests of the account's owner and   *)
(* of the reviewers interleave at every await and may fail at each.        *)
(***************************************************************************)
EXTENDS Integers, Sequences, FiniteSets

CONSTANTS
    Roles,                   \* the role of the account is one of these
    Keys,                    \* document_key
    Checks,                  \* the provider's checks, "gst" among them
    Requests, Reviewers,     \* what the owner and the reviewers have in flight
    MaxFiles                 \* bound: uploads

VARIABLES
    role,          \* users.role, chosen at the start
    status,        \* users.kyc_status
    row,           \* kyc_submissions; `by` is reviewed_by and auto_verified
    files,         \* kyc_files in the order of their insertion
    call,          \* the calls in flight
    passed,        \* history: checks that have passed at some time
    mixed          \* history: keys uploaded beside another call that writes documents

vars == <<role, status, row, files, call, passed, mixed>>

Status  == {"pending", "submitted", "verified", "rejected"}
Calls   == Requests \union Reviewers
NoDocs  == [k \in Keys |-> 0]
NoCall  == [at |-> "none", file |-> 0, docs |-> NoDocs, todo |-> {}, alone |-> TRUE]
Phases  == {"none", "record", "finalize", "merge", "submit", "complete", "replace",
            "approve", "drop", "judge"}

TypeOK ==
    /\ role \in Roles /\ status \in Status
    /\ row \in [exists : BOOLEAN, docs : [Keys -> 0..MaxFiles],
                results : [Checks -> {"none", "verified", "failed"}],
                by : {"nobody", "reviewer", "auto"}]
    /\ files \in Seq([key : Keys, kept : BOOLEAN]) /\ Len(files) <= MaxFiles
    /\ call \in [Calls -> [at : Phases, file : 0..MaxFiles, docs : [Keys -> 0..MaxFiles],
                           todo : SUBSET Checks, alone : BOOLEAN]]
    /\ passed \subseteq Checks /\ mixed \subseteq Keys

Init ==
    /\ role \in Roles /\ status = "pending"
    /\ row = [exists |-> FALSE, docs |-> NoDocs, results |-> [c \in Checks |-> "none"],
              by |-> "nobody"]
    /\ files = <<>> /\ call = [h \in Calls |-> NoCall]
    /\ passed = {} /\ mixed = {}

-----------------------------------------------------------------------------
\* Bug: one check that has passed is enough.
SomeVerified == \E c \in Checks : row.results[c] = "verified"
\* REQUIRED_CHECKS_BY_ROLE: a driving licence is asked of drivers only.
Required == IF role = "driver" THEN Checks ELSE Checks \ {"drivingLicense"}
AllVerified == \A c \in Required : row.results[c] = "verified"

Free(h)      == call[h] = NoCall
At(h, phase) == call[h].at = phase
Goes(h, c)   == call' = [call EXCEPT ![h] = c]
Ends(h)      == Goes(h, NoCall)
\* A decision ends the call; reviews that have begun before it are no longer alone.
Decides(h)   ==
    call' = [g \in Calls |->
        IF g = h THEN NoCall
        ELSE IF call[g].at = "judge" THEN [call[g] EXCEPT !.alone = FALSE] ELSE call[g]]

\* The calls that write documents, and the keys of those that upload.
Writing  == {h \in Calls : call[h].at \in {"merge", "submit", "replace", "drop"}}
KeysOf(S) == {files[call[g].file].key : g \in {g \in S : call[g].file # 0}}
\* A call that writes documents begins: it and those beside it are not alone.
Begins(h, c, keys) ==
    /\ call' = [g \in Calls |->
          IF g = h THEN [c EXCEPT !.alone = Writing = {}]
          ELSE IF g \in Writing THEN [call[g] EXCEPT !.alone = FALSE] ELSE call[g]]
    /\ mixed' = IF Writing = {} THEN mixed ELSE mixed \union keys \union KeysOf(Writing)

-----------------------------------------------------------------------------
(* The owner                                                               *)

\* CashfreeVerificationProvider: what it makes of an answer; the rest is thrown (Fail).
Answers == {"verified", "failed"}
\* KycModel.updateVerificationResult
Recorded(c, result) == row' = [row EXCEPT !.exists = TRUE, !.results[c] = result]

\* verifyPan, verifyGst, verifyDrivingLicense, verifyAadhaarOtp: one answer of the provider.
Check(h, c, result) ==
    /\ Free(h) /\ c \in Required
    /\ Recorded(c, result)
    /\ passed' = IF result = "verified" THEN passed \union {c} ELSE passed
    /\ IF role = "client" THEN Goes(h, [NoCall EXCEPT !.at = "finalize"]) ELSE UNCHANGED call
    /\ UNCHANGED <<role, status, files, mixed>>

\* The provider's getDigilockerStatus: which of the requested documents an authenticated
\* session turns up.
Found == SUBSET (Required \ {"gst"}) \ {{}}

\* getDigilockerStatus: the documents found are recorded one by one.
Digilocker(h, found) ==
    /\ Free(h)
    /\ Goes(h, [NoCall EXCEPT !.at = "record", !.todo = found])
    /\ UNCHANGED <<role, status, row, files, passed, mixed>>

RecordNext(h) ==
    /\ At(h, "record")
    /\ \E c \in call[h].todo :
          /\ Recorded(c, "verified")
          /\ passed' = passed \union {c}
          /\ IF call[h].todo # {c} THEN Goes(h, [call[h] EXCEPT !.todo = @ \ {c}])
             ELSE IF role = "client" THEN Goes(h, [NoCall EXCEPT !.at = "finalize"]) ELSE Ends(h)
    /\ UNCHANGED <<role, status, files, mixed>>

\* maybeAutoFinalizeClientKyc.
FinalizeClient(h) ==
    /\ At(h, "finalize")
    /\ IF AllVerified THEN Goes(h, [NoCall EXCEPT !.at = "complete", !.docs = row.docs])
       ELSE Ends(h)
    /\ UNCHANGED <<role, status, row, files, passed, mixed>>

\* submitKyc: the body carries the documents the app has loaded.
Submit(h) ==
    /\ role # "client" /\ Free(h)
    /\ Begins(h, [NoCall EXCEPT !.at = "submit", !.docs = row.docs], {})
    /\ UNCHANGED <<role, status, row, files, passed>>

\* uploadKycDocument: the file is inserted, the documents read, merged and stored, and
\* the other files of the key deleted.
Upload(h, k) ==
    /\ role # "client" /\ Free(h) /\ Len(files) < MaxFiles
    /\ files' = Append(files, [key |-> k, kept |-> TRUE])
    /\ Begins(h, [NoCall EXCEPT !.at = "merge", !.file = Len(files) + 1], {k})
    /\ UNCHANGED <<role, status, row, passed>>

Merge(h) ==
    LET n == call[h].file IN
    /\ At(h, "merge")
    /\ Goes(h, [call[h] EXCEPT !.at = "replace", !.docs = [row.docs EXCEPT ![files[n].key] = n]])
    /\ UNCHANGED <<role, status, row, files, passed, mixed>>

\* KycModel.upsertSubmission: the documents are replaced, the review starts again.
Upsert(h) ==
    /\ call[h].at \in {"submit", "complete", "replace"}
    /\ row' = [row EXCEPT !.exists = TRUE, !.docs = call[h].docs, !.by = "nobody"]
    /\ status' = "submitted"
    /\ CASE At(h, "replace") -> Goes(h, [call[h] EXCEPT !.at = "drop"])
         [] At(h, "complete") \/ (At(h, "submit") /\ AllVerified) ->
                Goes(h, [NoCall EXCEPT !.at = "approve"])
         [] OTHER -> Ends(h)
    /\ UNCHANGED <<role, files, passed, mixed>>

\* KycModel.autoVerify.
AutoVerify(h) ==
    /\ At(h, "approve")
    /\ status' = "verified" /\ row' = [row EXCEPT !.by = "auto"]
    /\ Decides(h)
    /\ UNCHANGED <<role, files, passed, mixed>>

\* Bug: every file of the key is deleted.
DropAll(h) ==
    LET n == call[h].file IN
    /\ At(h, "drop")
    /\ files' = [i \in DOMAIN files |-> IF files[i].key = files[n].key
                    THEN [files[i] EXCEPT !.kept = FALSE] ELSE files[i]]
    /\ Ends(h)
    /\ UNCHANGED <<role, status, row, passed, mixed>>
\* KycModel.deleteOtherFiles.
DropOthers(h) ==
    LET n == call[h].file  k == files[n].key IN
    /\ At(h, "drop")
    /\ files' = [i \in DOMAIN files |-> IF files[i].key = k /\ i # n
                    THEN [files[i] EXCEPT !.kept = FALSE] ELSE files[i]]
    /\ mixed' = IF call[h].alone THEN mixed \ {k} ELSE mixed
    /\ Ends(h)
    /\ UNCHANGED <<role, status, row, passed>>

-----------------------------------------------------------------------------
(* The reviewers                                                           *)

\* Bug: the state of the account is not looked at.
AnyReviewable == role # "client"
\* assertReviewable, assertBrokerReviewable.
Reviewable == role # "client" /\ status # "verified"

ReviewRequest(h) ==
    /\ Free(h) /\ Reviewable
    /\ Goes(h, [NoCall EXCEPT !.at = "judge"])
    /\ UNCHANGED <<role, status, row, files, passed, mixed>>

\* verifyKyc, rejectKyc
Decisions == {"verified", "rejected"}

\* KycModel.review; an account without a submission is reviewed all the same.
Review(h, decision) ==
    /\ At(h, "judge")
    /\ status' = decision
    /\ row' = [row EXCEPT !.by = IF row.exists THEN "reviewer" ELSE @]
    /\ Decides(h)
    /\ UNCHANGED <<role, files, passed, mixed>>

-----------------------------------------------------------------------------
\* An error in any call: what it has written stays.
Fail(h) ==
    /\ ~Free(h) /\ Ends(h)
    /\ UNCHANGED <<role, status, row, files, passed, mixed>>

\* A start of the server: runMigrations sends accounts that were verified without a GST
\* check back to review, the ones a reviewer has approved since among them.
Boot ==
    /\ call' = [h \in Calls |-> NoCall]
    /\ status' = IF /\ role # "client" /\ status = "verified"
                    /\ row.exists /\ row.results["gst"] # "verified"
                 THEN "submitted" ELSE status
    /\ UNCHANGED <<role, row, files, passed, mixed>>

Next ==
    \/ \E h \in Requests :
          \/ \E c \in Checks, result \in Answers : Check(h, c, result)
          \/ \E found \in Found : Digilocker(h, found)
          \/ \E k \in Keys : Upload(h, k)
          \/ RecordNext(h) \/ FinalizeClient(h) \/ Submit(h) \/ Merge(h) \/ Upsert(h)
          \/ AutoVerify(h) \/ DropOthers(h) \/ Fail(h)
    \/ \E h \in Reviewers :
          \/ ReviewRequest(h) \/ Fail(h)
          \/ \E decision \in Decisions : Review(h, decision)
    \/ Boot

Spec == Init /\ [][Next]_vars
-----------------------------------------------------------------------------
\* Every document of the submission is a stored file: replacing a file deletes the old
\* one only once nothing refers to it.  Calls that overlap break it, the next upload of
\* that key which nothing overlaps mends it (uploadKycDocument, upsertSubmission).
DocumentsStored ==
    \A k \in Keys \ mixed : row.docs[k] # 0 => files[row.docs[k]].kept

\* A step that verifies an account, or takes that back.
Decided ==
    /\ status # "verified" /\ status' = "verified" =>
          (\E h \in Reviewers : At(h, "judge") /\ call'[h] = NoCall) \/ Required \subseteq passed
    /\ status = "verified" /\ status' = "rejected" =>
          \E h \in Reviewers : At(h, "judge") /\ ~call[h].alone

\* An account is verified by a reviewer or because every check its role requires has
\* passed; once verified it is rejected only by a review that had begun before
\* (assertReviewable, submitKyc, maybeAutoFinalizeClientKyc).
DecisionsHold == [][Decided]_vars
=============================================================================
