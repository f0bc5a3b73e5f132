---------------------------- MODULE PeopleProofs ----------------------------
(***************************************************************************)
(* What the services about people guarantee for any accounts, devices,     *)
(* drivers and calls in flight: sessions, accounts and their numbers,      *)
(* presence, verification. The invariants are the components' own; the     *)
(* variables are those of Services, and each section says which of the     *)
(* component's they stand for.                                             *)
(***************************************************************************)
EXTENDS Services, SequenceTheorems, TLAPS

\* A sequence whose elements are rewritten in place is still a sequence, as long as before.
LEMMA Rewritten ==
    ASSUME NEW X, NEW Y, NEW s \in Seq(X), NEW t,
           t = [i \in DOMAIN s |-> t[i]], \A i \in DOMAIN s : t[i] \in Y
    PROVE  t \in Seq(Y) /\ Len(t) = Len(s) /\ DOMAIN t = DOMAIN s
<1>1. Len(s) \in Nat /\ DOMAIN s = 1..Len(s)
  BY LenProperties
<1>2. t \in [1..Len(s) -> Y] /\ DOMAIN t = 1..Len(s)
  BY <1>1
<1>3. t \in Seq(Y)
  BY <1>1, <1>2, SeqDef
<1>4. Len(t) \in Nat /\ DOMAIN t = 1..Len(t)
  BY <1>3, LenProperties
<1>5. Len(t) = Len(s)
  BY <1>1, <1>2, <1>4
<1> QED BY <1>1, <1>2, <1>3, <1>5

\* What appending does to the places of a sequence.
LEMMA Appended ==
    ASSUME NEW X, NEW s \in Seq(X), NEW e \in X
    PROVE  /\ Append(s, e) \in Seq(X)
           /\ Len(s) \in Nat /\ DOMAIN s = 1..Len(s) /\ Len(Append(s, e)) = Len(s) + 1
           /\ DOMAIN Append(s, e) = DOMAIN s \union {Len(s) + 1} /\ Len(s) + 1 \notin DOMAIN s
           /\ \A i \in DOMAIN s : Append(s, e)[i] = s[i]
           /\ Append(s, e)[Len(s) + 1] = e
OBVIOUS

-----------------------------------------------------------------------------
(* Sessions: v1 is mix, v2 is clock, v3 is account, v4 is tokens, v5 is    *)
(* otps, v6 is device, v7 is call, v8 is resetting, v9 is resets.          *)

\* A token that is not revoked is of a login after the last reset, or was being renewed at one.
Renews(i) == v4[i].revoked \/ v4[i].since = v9 \/ v4[i].raced

\* A refresh in flight has found its token in such a state at the reset it has seen.
RefreshesKnow ==
    \A d \in Hands : v7[d].at \in {"revoke", "renew"} =>
        LET n == v7[d].n IN
        /\ n \in DOMAIN v4 /\ v7[d].seen <= v9
        /\ v7[d].seen = v9 => v4[n].since = v9 \/ v4[n].raced

SessionInv == S!TypeOK /\ (\A i \in DOMAIN v4 : Renews(i)) /\ RefreshesKnow

TokenRow == [at : 1..MaxClock, revoked : BOOLEAN, since : 0..MaxResets, raced : BOOLEAN]
OtpRow   == [at : 1..MaxClock, used : BOOLEAN]

LEMMA SessionInit == S!Init => SessionInv
<1> SUFFICES ASSUME S!Init PROVE SessionInv
  OBVIOUS
<1>1. v4 \in Seq(TokenRow) /\ v5 \in Seq(OtpRow) /\ DOMAIN v4 = {}
  BY EmptySeq DEF S!Init
<1>2. S!TypeOK
  <2>1. 1 \in 1..MaxClock /\ 0 \in 0..MaxClock /\ 0 \in 0..MaxTokens /\ 0 \in 0..MaxResets
    BY SessionsAssumption
  <2> QED BY <1>1, <2>1 DEF S!Init, S!TypeOK, TokenRow, OtpRow, S!NoCall, S!SignedOut, S!Status, S!Phases
<1>3. RefreshesKnow
  BY DEF S!Init, RefreshesKnow, S!NoCall
<1> QED BY <1>1, <1>2, <1>3 DEF SessionInv

\* What becomes of the calls in flight.
SessionRow == [at : S!Phases, n : Nat, seen : 0..MaxResets]

LEMMA SessionCalls ==
    ASSUME SessionInv, NEW d \in Hands, NEW phase \in S!Phases \ {"revoke", "renew"}, NEW n \in Nat,
           S!Starts(d, phase, n) \/ S!Goes(d, phase) \/ S!Ends(d)
    PROVE  /\ v7' \in [Hands -> SessionRow]
           /\ \A e \in Hands : v7'[e].at \in {"revoke", "renew"} => v7'[e] = v7[e]
<1>1. v7 \in [Hands -> SessionRow] /\ v9 \in 0..MaxResets
  BY DEF SessionInv, S!TypeOK, SessionRow
<1>2. /\ [at |-> phase, n |-> n, seen |-> v9] \in SessionRow
      /\ S!NoCall \in SessionRow /\ [v7[d] EXCEPT !.at = phase] \in SessionRow
  BY <1>1, SessionsAssumption DEF SessionRow, S!NoCall, S!Phases
<1>3. PICK c \in SessionRow : v7' = [v7 EXCEPT ![d] = c] /\ c.at \notin {"revoke", "renew"}
  BY <1>1, <1>2 DEF S!Starts, S!Goes, S!Ends, S!NoCall, SessionRow
<1> QED BY <1>1, <1>3

\* Steps that leave tokens and resets alone and start no refresh.
LEMMA SessionElsewhere ==
    ASSUME SessionInv, S!TypeOK', UNCHANGED <<v4, v9>>,
           \A d \in Hands : v7'[d].at \in {"revoke", "renew"} => v7'[d] = v7[d]
    PROVE  SessionInv'
BY DEF SessionInv, Renews, RefreshesKnow

\* Steps that revoke every token.
LEMMA SessionAll ==
    ASSUME SessionInv, v4' = S!RevokeAll(v4)
    PROVE  /\ v4' \in Seq(TokenRow) /\ DOMAIN v4' = DOMAIN v4
           /\ \A i \in DOMAIN v4 : v4'[i].revoked
<1>1. v4 \in Seq(TokenRow)
  BY DEF SessionInv, S!TypeOK, TokenRow
<1>2. \A i \in DOMAIN v4 : v4[i] \in TokenRow
  BY <1>1
<1>3. /\ v4' = [i \in DOMAIN v4 |-> v4'[i]]
      /\ \A i \in DOMAIN v4 : v4'[i] \in TokenRow /\ v4'[i].revoked
  BY <1>2 DEF S!RevokeAll, TokenRow
<1>4. v4' \in Seq(TokenRow) /\ DOMAIN v4' = DOMAIN v4
  BY <1>1, <1>3, Rewritten
<1> QED BY <1>3, <1>4

LEMMA SessionReset ==
    ASSUME SessionInv, S!TypeOK', v4' = S!RevokeAll(v4), v9' = v9 + 1,
           \A d \in Hands : v7'[d].at \in {"revoke", "renew"} => v7'[d] = v7[d]
    PROVE  SessionInv'
<1>1. v9 \in Nat /\ \A d \in Hands : v7[d].seen \in Nat
  BY DEF SessionInv, S!TypeOK
<1>2. DOMAIN v4' = DOMAIN v4 /\ \A i \in DOMAIN v4 : v4'[i].revoked
  BY SessionAll
<1>3. (\A i \in DOMAIN v4 : Renews(i))'
  BY <1>2 DEF Renews
<1>4. RefreshesKnow'
  BY <1>1, <1>2 DEF SessionInv, RefreshesKnow
<1> QED BY <1>3, <1>4 DEF SessionInv

\* Steps that revoke some tokens and change nothing else of them.
LEMMA SessionSome ==
    ASSUME SessionInv, S!TypeOK', DOMAIN v4' = DOMAIN v4, v9' = v9,
           \A i \in DOMAIN v4 : v4'[i].revoked
               \/ v4'[i] = v4[i],
           \A i \in DOMAIN v4 : v4'[i].since = v4[i].since /\ v4'[i].raced = v4[i].raced,
           \A d \in Hands : v7'[d].at \in {"revoke", "renew"} =>
               v7[d].at \in {"revoke", "renew"} /\ v7'[d].n = v7[d].n /\ v7'[d].seen = v7[d].seen
    PROVE  SessionInv'
<1>1. (\A i \in DOMAIN v4 : Renews(i))'
  BY DEF SessionInv, Renews
<1>2. RefreshesKnow'
  BY DEF SessionInv, RefreshesKnow
<1> QED BY <1>1, <1>2 DEF SessionInv

\* A new pair of tokens, of a login or a refresh that knows since when it is.
LEMMA SessionIssue ==
    ASSUME SessionInv, NEW d \in Hands, NEW since \in 0..MaxResets, NEW raced \in BOOLEAN,
           S!Issue(d, since, raced), S!Ends(d), UNCHANGED <<v1, v2, v5, v8, v9>>,
           v3' \in [status : S!Status, lastActive : 0..MaxClock, validAfter : 0..MaxClock],
           since = v9 \/ raced
    PROVE  SessionInv'
<1> DEFINE t == [at |-> v2, revoked |-> FALSE, since |-> since, raced |-> raced]
<1>1. v4 \in Seq(TokenRow) /\ t \in TokenRow /\ v4' = Append(v4, t)
  BY DEF SessionInv, S!TypeOK, TokenRow, S!Issue
<1>2. /\ v4' \in Seq(TokenRow) /\ Len(v4) \in Nat
      /\ DOMAIN v4' = DOMAIN v4 \union {Len(v4) + 1}
      /\ \A i \in DOMAIN v4 : v4'[i] = v4[i]
      /\ v4'[Len(v4) + 1] = t
  BY <1>1, Appended
<1>3. S!TypeOK'
  <2>1. v6' \in [Hands -> [refresh : 0..MaxTokens, access : 0..MaxClock]]
    BY <1>2, SessionsAssumption DEF SessionInv, S!TypeOK, S!Issue
  <2>2. v7' \in [Hands -> [at : S!Phases, n : Nat, seen : 0..MaxResets]]
    BY SessionsAssumption DEF SessionInv, S!TypeOK, S!Ends, S!NoCall, S!Phases
  <2> QED BY <1>2, <2>1, <2>2 DEF SessionInv, S!TypeOK, TokenRow
<1>4. (\A i \in DOMAIN v4 : Renews(i))'
  <2> SUFFICES ASSUME NEW i \in DOMAIN v4' PROVE Renews(i)'
    OBVIOUS
  <2>1. CASE i \in DOMAIN v4
    BY <2>1, <1>2 DEF SessionInv, Renews
  <2>2. CASE i = Len(v4) + 1
    BY <2>2, <1>2 DEF Renews
  <2> QED BY <2>1, <2>2, <1>2
<1>5. RefreshesKnow'
  BY <1>2 DEF SessionInv, S!TypeOK, RefreshesKnow, S!Ends, S!NoCall
<1> QED BY <1>3, <1>4, <1>5 DEF SessionInv

LEMMA SessionCreate ==
    ASSUME SessionInv, NEW d \in Hands, S!CreateSession(d)
    PROVE  SessionInv'
<1>1. v9 \in 0..MaxResets /\ v3' \in [status : S!Status, lastActive : 0..MaxClock, validAfter : 0..MaxClock]
  BY DEF SessionInv, S!TypeOK, S!CreateSession, S!Status
<1> QED BY <1>1, SessionIssue DEF S!CreateSession

LEMMA SessionRenew ==
    ASSUME SessionInv, NEW d \in Hands, S!Renew(d)
    PROVE  SessionInv'
<1> DEFINE old == v4[v7[d].n]
           raced == old.raced \/ v7[d].seen # v9
<1>1. /\ v7[d].n \in DOMAIN v4 /\ v7[d].seen <= v9
      /\ v7[d].seen = v9 => old.since = v9 \/ old.raced
  BY DEF SessionInv, RefreshesKnow, S!Renew, S!At
<1>2. old \in TokenRow
  <2>1. v4 \in Seq(TokenRow)
    BY DEF SessionInv, S!TypeOK, TokenRow
  <2>2. \A i \in DOMAIN v4 : v4[i] \in TokenRow
    BY <2>1
  <2> QED BY <1>1, <2>2
<1>3. old.since \in 0..MaxResets /\ raced \in BOOLEAN /\ (old.since = v9 \/ raced)
  BY <1>1, <1>2 DEF TokenRow
<1>4. S!Issue(d, old.since, raced) /\ S!Ends(d) /\ UNCHANGED <<v1, v2, v5, v8, v9>>
  BY DEF S!Renew
<1>5. v3' \in [status : S!Status, lastActive : 0..MaxClock, validAfter : 0..MaxClock]
  BY DEF SessionInv, S!TypeOK, S!Renew
<1> HIDE DEF raced, old
<1> QED BY <1>3, <1>4, <1>5, SessionIssue

LEMMA SessionRefresh ==
    ASSUME SessionInv, NEW d \in Hands, S!RefreshRequest(d)
    PROVE  SessionInv'
<1>1. /\ v6[d].refresh \in Nat /\ v9 \in 0..MaxResets
      /\ v6[d].refresh \in DOMAIN v4 /\ ~v4[v6[d].refresh].revoked
      /\ v7' = [v7 EXCEPT ![d] = [at |-> "revoke", n |-> v6[d].refresh, seen |-> v9]]
  BY DEF SessionInv, S!TypeOK, S!RefreshRequest, S!Starts, S!Valid
<1>2. S!TypeOK'
  BY <1>1 DEF SessionInv, S!TypeOK, S!RefreshRequest, S!Phases
<1>3. (\A i \in DOMAIN v4 : Renews(i))'
  BY DEF SessionInv, Renews, S!RefreshRequest
<1>4. RefreshesKnow'
  <2> SUFFICES ASSUME NEW e \in Hands, v7'[e].at \in {"revoke", "renew"}
               PROVE  LET n == v7'[e].n IN
                      /\ n \in DOMAIN v4 /\ v7'[e].seen <= v9
                      /\ v7'[e].seen = v9 => v4[n].since = v9 \/ v4[n].raced
    BY DEF RefreshesKnow, S!RefreshRequest
  <2>1. v7 \in [Hands -> SessionRow]
    BY DEF SessionInv, S!TypeOK, SessionRow
  <2>2. CASE e = d
    BY <1>1, <2>1, <2>2 DEF SessionInv, Renews
  <2>3. CASE e # d
    BY <1>1, <2>1, <2>3 DEF SessionInv, RefreshesKnow
  <2> QED BY <2>2, <2>3
<1> QED BY <1>2, <1>3, <1>4 DEF SessionInv

LEMMA SessionRevokeOld ==
    ASSUME SessionInv, NEW d \in Hands, S!RevokeOld(d)
    PROVE  SessionInv'
<1>1. v7[d].n \in DOMAIN v4 /\ v4 \in Seq(TokenRow)
  BY DEF SessionInv, S!TypeOK, TokenRow, RefreshesKnow, S!RevokeOld, S!At
<1>2. \A i \in DOMAIN v4 : v4[i] \in TokenRow
  BY <1>1
<1>3. /\ v4' = [i \in DOMAIN v4 |-> v4'[i]]
      /\ \A i \in DOMAIN v4 : /\ v4'[i] \in TokenRow
                              /\ v4'[i].revoked \/ v4'[i] = v4[i]
                              /\ v4'[i].since = v4[i].since /\ v4'[i].raced = v4[i].raced
  BY <1>1, <1>2 DEF S!RevokeOld, TokenRow
<1>4. v4' \in Seq(TokenRow) /\ DOMAIN v4' = DOMAIN v4
  BY <1>1, <1>3, Rewritten
<1>5. S!TypeOK'
  BY <1>4 DEF SessionInv, S!TypeOK, TokenRow, S!RevokeOld, S!Goes, S!Phases
<1>6. \A e \in Hands : v7'[e].at \in {"revoke", "renew"} =>
          v7[e].at \in {"revoke", "renew"} /\ v7'[e].n = v7[e].n /\ v7'[e].seen = v7[e].seen
  BY DEF SessionInv, S!TypeOK, S!RevokeOld, S!Goes, S!At
<1> QED BY <1>3, <1>4, <1>5, <1>6, SessionSome DEF S!RevokeOld

LEMMA SessionLogout ==
    ASSUME SessionInv, NEW d \in Hands, S!Logout(d)
    PROVE  SessionInv'
<1>1. v4 \in Seq(TokenRow)
  BY DEF SessionInv, S!TypeOK, TokenRow
<1>2. v6' \in [Hands -> [refresh : 0..MaxTokens, access : 0..MaxClock]]
  BY SessionsAssumption DEF SessionInv, S!TypeOK, S!Logout, S!SignedOut
<1>3. CASE /\ v4' = [i \in DOMAIN v4 |-> IF i = v6[d].refresh
                       THEN [v4[i] EXCEPT !.revoked = TRUE] ELSE v4[i]]
           /\ UNCHANGED v9
  <2>1. \A i \in DOMAIN v4 : v4[i] \in TokenRow
    BY <1>1
  <2>2. /\ v4' = [i \in DOMAIN v4 |-> v4'[i]]
        /\ \A i \in DOMAIN v4 : /\ v4'[i] \in TokenRow
                                /\ v4'[i].revoked \/ v4'[i] = v4[i]
                                /\ v4'[i].since = v4[i].since /\ v4'[i].raced = v4[i].raced
    BY <1>3, <2>1 DEF TokenRow
  <2>3. v4' \in Seq(TokenRow) /\ DOMAIN v4' = DOMAIN v4
    BY <1>1, <2>2, Rewritten
  <2>4. S!TypeOK'
    BY <1>2, <1>3, <2>3 DEF SessionInv, S!TypeOK, TokenRow, S!Logout
  <2> QED BY <1>3, <2>2, <2>3, <2>4, SessionSome DEF S!Logout
<1>4. CASE /\ v9 < MaxResets /\ v9' = v9 + 1
           /\ v4' = S!RevokeAll(v4)
  <2>1. v4' \in Seq(TokenRow)
    BY <1>4, SessionAll
  <2>2. S!TypeOK'
    <3>1. v9' \in 0..MaxResets
      BY <1>4, SessionsAssumption DEF SessionInv, S!TypeOK
    <3> QED BY <1>2, <2>1, <3>1 DEF SessionInv, S!TypeOK, TokenRow, S!Logout
  <2> QED BY <1>4, <2>2, SessionReset DEF S!Logout
<1> QED BY <1>3, <1>4 DEF S!Logout

LEMMA SessionForced ==
    ASSUME SessionInv, S!ForceLogoutRequest \/ \E d \in Hands : S!ResetPassword(d)
    PROVE  SessionInv'
<1>1. /\ v9 < MaxResets /\ v9' = v9 + 1 /\ v4' = S!RevokeAll(v4)
      /\ UNCHANGED <<v1, v2, v3, v5, v6>> /\ v8' \in BOOLEAN
      /\ UNCHANGED v7 \/ \E d \in Hands : S!Ends(d)
  BY DEF SessionInv, S!TypeOK, S!ForceLogoutRequest, S!ResetPassword
<1>2. /\ v7' \in [Hands -> SessionRow]
      /\ \A d \in Hands : v7'[d].at \in {"revoke", "renew"} => v7'[d] = v7[d]
  <2>1. "none" \in S!Phases \ {"revoke", "renew"} /\ 0 \in Nat
    BY DEF S!Phases
  <2>2. CASE UNCHANGED v7
    BY <2>2 DEF SessionInv, S!TypeOK, SessionRow
  <2>3. CASE \E d \in Hands : S!Ends(d)
    BY <2>1, <2>3, SessionCalls
  <2> QED BY <1>1, <2>2, <2>3
<1>3. v4' \in Seq(TokenRow) /\ v9' \in 0..MaxResets
  BY <1>1, SessionAll, SessionsAssumption DEF SessionInv, S!TypeOK
<1>4. S!TypeOK'
  BY <1>1, <1>2, <1>3 DEF SessionInv, S!TypeOK, TokenRow, SessionRow
<1> QED BY <1>1, <1>2, <1>4, SessionReset

LEMMA SessionOtps ==
    ASSUME SessionInv, NEW d \in Hands, S!ClearOtps(d) \/ S!InsertOtp(d) \/ S!UseOtp(d)
    PROVE  SessionInv'
<1>1. v5 \in Seq(OtpRow) /\ v2 \in 1..MaxClock
  BY DEF SessionInv, S!TypeOK, OtpRow
<1>2. \A i \in DOMAIN v5 : v5[i] \in OtpRow
  BY <1>1
<1>3. v5' \in Seq(OtpRow)
  <2>1. CASE S!ClearOtps(d)
    <3>1. v5' = [i \in DOMAIN v5 |-> v5'[i]] /\ \A i \in DOMAIN v5 : v5'[i] \in OtpRow
      BY <1>2, <2>1 DEF S!ClearOtps, OtpRow
    <3> QED BY <1>1, <3>1, Rewritten
  <2>2. CASE S!InsertOtp(d)
    BY <1>1, <2>2 DEF S!InsertOtp, OtpRow
  <2>3. CASE S!UseOtp(d)
    <3>1. v5' = [i \in DOMAIN v5 |-> v5'[i]] /\ \A i \in DOMAIN v5 : v5'[i] \in OtpRow
      BY <1>2, <2>3 DEF S!UseOtp, OtpRow
    <3> QED BY <1>1, <3>1, Rewritten
  <2> QED BY <2>1, <2>2, <2>3
<1>4. /\ v7' \in [Hands -> SessionRow]
      /\ \A e \in Hands : v7'[e].at \in {"revoke", "renew"} => v7'[e] = v7[e]
  <2>1. {"none", "insert", "activate", "close"} \subseteq S!Phases \ {"revoke", "renew"} /\ 0 \in Nat
    BY DEF S!Phases
  <2>2. S!Ends(d) \/ \E phase \in {"insert", "activate", "close"} : S!Goes(d, phase)
    BY DEF S!ClearOtps, S!InsertOtp, S!UseOtp
  <2> QED BY <2>1, <2>2, SessionCalls
<1>5. S!TypeOK' /\ UNCHANGED <<v4, v9>>
  BY <1>3, <1>4 DEF SessionInv, S!TypeOK, OtpRow, SessionRow, S!ClearOtps, S!InsertOtp, S!UseOtp
<1> QED BY <1>4, <1>5, SessionElsewhere

LEMMA SessionRest ==
    ASSUME SessionInv,
           \/ \E d \in Hands : S!LoginRequest(d) \/ S!Request(d) \/ S!SendOtpRequest(d) \/ S!OtpRequest(d)
                               \/ S!ActivateByOtp(d)
           \/ S!MarkSessionsReset \/ S!Tick \/ (\E s \in S!Status : S!SetStatus(s))
    PROVE  SessionInv'
<1>1. UNCHANGED <<v1, v4, v5, v6, v9>>
  BY DEF S!LoginRequest, S!Request, S!SendOtpRequest, S!OtpRequest, S!ActivateByOtp, S!MarkSessionsReset,
       S!Tick, S!SetStatus
<1>2. \A i \in DOMAIN v5 : i \in Nat
  BY DEF SessionInv, S!TypeOK
<1>3. /\ v7' \in [Hands -> SessionRow]
      /\ \A e \in Hands : v7'[e].at \in {"revoke", "renew"} => v7'[e] = v7[e]
  <2>1. {"create", "clear", "use", "spend", "none"} \subseteq S!Phases \ {"revoke", "renew"} /\ 0 \in Nat
    BY DEF S!Phases
  <2>2. CASE UNCHANGED v7
    BY <2>2 DEF SessionInv, S!TypeOK, SessionRow
  <2>3. CASE \E d \in Hands, phase \in {"create", "clear", "use", "spend"}, n \in Nat :
                 S!Starts(d, phase, n) \/ S!Goes(d, phase) \/ S!Ends(d)
    BY <2>1, <2>3, SessionCalls
  <2>4. UNCHANGED v7 \/ \E d \in Hands, phase \in {"create", "clear", "use", "spend"}, n \in Nat :
                             S!Starts(d, phase, n) \/ S!Goes(d, phase) \/ S!Ends(d)
    BY <1>2, <2>1 DEF S!LoginRequest, S!Request, S!SendOtpRequest, S!OtpRequest, S!ActivateByOtp,
       S!MarkSessionsReset, S!Tick, S!SetStatus
  <2> QED BY <2>2, <2>3, <2>4
<1>4. /\ v2' \in 1..MaxClock /\ v8' \in BOOLEAN
      /\ v3' \in [status : S!Status, lastActive : 0..MaxClock, validAfter : 0..MaxClock]
  <2>0. v2 \in 1..MaxClock /\ v2 \in 0..MaxClock
    BY SessionsAssumption DEF SessionInv, S!TypeOK
  <2>1. CASE S!Tick
    BY <2>1, SessionsAssumption DEF SessionInv, S!TypeOK, S!Tick
  <2>2. CASE UNCHANGED <<v2, v3, v8>>
    BY <2>2 DEF SessionInv, S!TypeOK
  <2>3. CASE \E d \in Hands : S!Request(d)
    BY <2>0, <2>3 DEF SessionInv, S!TypeOK, S!Request
  <2>4. CASE S!MarkSessionsReset
    BY <2>0, <2>4 DEF SessionInv, S!TypeOK, S!MarkSessionsReset
  <2>5. CASE \E s \in S!Status : S!SetStatus(s)
    BY <2>5 DEF SessionInv, S!TypeOK, S!SetStatus
  <2>6. CASE \E d \in Hands : S!ActivateByOtp(d)
    BY <2>6 DEF SessionInv, S!TypeOK, S!ActivateByOtp, S!Status
  <2> QED BY <2>1, <2>2, <2>3, <2>4, <2>5, <2>6 DEF S!LoginRequest, S!SendOtpRequest, S!OtpRequest
<1>5. S!TypeOK'
  BY <1>1, <1>3, <1>4 DEF SessionInv, S!TypeOK, SessionRow
<1> QED BY <1>1, <1>3, <1>5, SessionElsewhere

LEMMA SessionStep == SessionInv /\ [S!Next]_(S!vars) => SessionInv'
<1> SUFFICES ASSUME SessionInv, [S!Next]_(S!vars) PROVE SessionInv'
  OBVIOUS
<1>1. CASE S!Next
  BY <1>1, SessionCreate, SessionRenew, SessionRefresh, SessionRevokeOld, SessionLogout,
     SessionForced, SessionOtps, SessionRest DEF S!Next
<1>2. CASE UNCHANGED S!vars
  BY <1>2 DEF S!vars, SessionInv, S!TypeOK, Renews, RefreshesKnow
<1> QED BY <1>1, <1>2

LEMMA SessionHolds == SessionInv => S!RevokedForGood
BY DEF SessionInv, Renews, S!RevokedForGood, S!Valid

-----------------------------------------------------------------------------
\* What is known while sessions is at work.
SessionsAtWork == part = "sessions" => SessionInv

LEMMA SessionsAtWorkStep == SessionsAtWork /\ [Next]_vars => SessionsAtWork'
<1> SUFFICES ASSUME SessionInv, part = "sessions", [Next]_vars PROVE SessionInv'
  BY DEF SessionsAtWork, Next, vars
<1>1. [S!Next]_(S!vars)
  BY DEF Next, vars, S!vars
<1> QED BY <1>1, SessionStep

\* Once all sessions of an account have been ended, by a reset of the password, a logout everywhere or
\* an administrator, no token of before renews, however refreshes and logins overlap
\* (revokeAllForUser, refresh).
THEOREM SessionsEndForGood == Spec => []RevokedForGood
<1>1. Init => SessionsAtWork
  BY SessionInit DEF Init, SessionsAtWork
<1>2. SessionsAtWork => RevokedForGood
  BY SessionHolds DEF SessionsAtWork, RevokedForGood
<1> QED BY <1>1, <1>2, SessionsAtWorkStep, PTL DEF Spec

-----------------------------------------------------------------------------
(* Users: v1 is mix, v2 is user, v3 is request, v4 is call, v5 is proved,  *)
(* v6 is restored, v7 is byHand, v8 is vouched.                            *)

\* What a handler has taken from its request or read before its next query.
CallsFit ==
    \A h \in Hands :
        /\ v4[h].at \in {"register", "use"} => v4[h].phone \in v5
        /\ v4[h].at \in {"phone", "status"} => v4[h].id \in Ids /\ v2[v4[h].id].status # "none"
        /\ v4[h].at \in {"phone", "admin", "hire"} => v4[h].phone \in Phones
        /\ v4[h].at \in {"delete", "complete"} =>
              /\ v4[h].id \in Deletions
              /\ v3[v4[h].id].user # 0

\* The accounts whose rows still have to be made have neither a number nor a request.
Unmade == \A i \in Ids : v2[i].status = "none" => v2[i] = U!NoUser

Linked ==
    \A r \in Deletions :
        /\ v3[r].status = "none" => v3[r].user = 0
        /\ v3[r].user # 0 => v2[v3[r].user].status # "none"

Gone(i) == v2[i].status # "active" \/ i \in v6

\* A handler that is about to mark a request completed has deleted the account before.
DeletedBefore == \A h \in Hands : v4[h].at = "complete" => Gone(v3[v4[h].id].user)
CompletedGone ==
    \A r \in Deletions : v3[r].status = "completed" /\ r \notin v7 =>
        v3[r].user # 0 /\ Gone(v3[r].user)

\* An administrator has entered a number.
Entered == \A i \in v8 : v2[i].phone # NoPhone

Shape == U!TypeOK /\ CallsFit /\ Unmade /\ Linked /\ Entered
UsersInv == Shape /\ U!PhoneProved /\ DeletedBefore /\ CompletedGone

LEMMA UsersInit == U!Init => UsersInv
<1> SUFFICES ASSUME U!Init PROVE UsersInv
  OBVIOUS
<1> USE DEF U!Init, U!NoCall, U!NoUser
<1>1. U!TypeOK
  BY DEF U!TypeOK
<1>2. CallsFit /\ Unmade /\ Linked /\ Entered
  BY DEF CallsFit, Unmade, Linked, Entered
<1>3. U!PhoneProved /\ DeletedBefore /\ CompletedGone
  BY DEF U!PhoneProved, DeletedBefore, CompletedGone, U!Known
<1> QED BY <1>1, <1>2, <1>3 DEF UsersInv, Shape

-----------------------------------------------------------------------------
(* Handlers that start                                                     *)

\* One more handler in flight, and perhaps one more number proved: nothing else is disturbed.
LEMMA Starting ==
    ASSUME UsersInv, NEW h \in Hands, NEW at, NEW id, NEW p,
           U!Starts(h, at, id, p), v5' \in {v5, v5 \union ({p} \ {NoPhone})},
           v1' = v1, v2' = v2, v3' = v3, v6' = v6, v7' = v7, v8' = v8,
           \/ at \in {"admin", "hire"} /\ id = 0 /\ p \in Phones
           \/ at \in {"register", "use"} /\ id = 0 /\ p \in Phones /\ p \in v5'
           \/ at = "phone" /\ id \in U!Known /\ p \in Phones
           \/ at = "status" /\ id \in U!Known /\ p = NoPhone
           \/ at = "delete" /\ id \in Deletions /\ v3[id].user # 0 /\ p = NoPhone
    PROVE  UsersInv'
<1> USE UsersAssumption DEF U!Starts, UsersInv, Shape, U!Known
<1>1. U!TypeOK'
  BY DEF U!TypeOK
<1>2. CallsFit'
  BY DEF U!TypeOK, CallsFit
<1>3. Unmade' /\ Linked' /\ Entered'
  BY DEF Unmade, Linked, Entered
<1>4. U!PhoneProved'
  BY DEF U!PhoneProved
<1>5. DeletedBefore'
  BY DEF U!TypeOK, DeletedBefore, Gone
<1>6. CompletedGone'
  BY DEF CompletedGone, Gone
<1> QED BY <1>1, <1>2, <1>3, <1>4, <1>5, <1>6

LEMMA Requested ==
    ASSUME UsersInv, NEW h \in Hands,
           \/ \E p \in Phones : U!RegisterRequest(h, p) \/ U!ProveRequest(h, p)
                                \/ \E how \in {"admin", "hire"} : U!AddRequest(h, how, p)
                                \/ \E i \in Ids : U!PhoneRequest(h, i, p)
           \/ \E i \in Ids : U!StatusRequest(h, i)
           \/ \E r \in Deletions : U!DeleteRequest(h, r)
    PROVE  UsersInv'
<1>1. CASE \E p \in Phones : U!RegisterRequest(h, p) \/ U!ProveRequest(h, p)
  <2> PICK p \in Phones : U!RegisterRequest(h, p) \/ U!ProveRequest(h, p)
    BY <1>1
  <2>1. U!Starts(h, "register", 0, p) \/ U!Starts(h, "use", 0, p)
    BY DEF U!RegisterRequest, U!ProveRequest
  <2>2. v5' = v5 \union ({p} \ {NoPhone}) /\ p \in v5'
    BY UsersAssumption DEF U!RegisterRequest, U!ProveRequest
  <2> QED BY <2>1, <2>2, Starting DEF U!RegisterRequest, U!ProveRequest
<1>2. CASE \E p \in Phones, i \in Ids : U!PhoneRequest(h, i, p)
  <2> PICK p \in Phones, i \in Ids : U!PhoneRequest(h, i, p)
    BY <1>2
  <2>1. U!Starts(h, "phone", i, p) /\ i \in U!Known /\ v5' = v5
    BY DEF U!PhoneRequest
  <2> QED BY <2>1, Starting DEF U!PhoneRequest
<1>3. CASE \E i \in Ids : U!StatusRequest(h, i)
  <2> PICK i \in Ids : U!StatusRequest(h, i)
    BY <1>3
  <2>1. U!Starts(h, "status", i, NoPhone) /\ i \in U!Known /\ v5' = v5
    BY DEF U!StatusRequest
  <2> QED BY <2>1, Starting DEF U!StatusRequest
<1>4. CASE \E r \in Deletions : U!DeleteRequest(h, r)
  <2> PICK r \in Deletions : U!DeleteRequest(h, r)
    BY <1>4
  <2>1. U!Starts(h, "delete", r, NoPhone) /\ v5' = v5
    BY DEF U!DeleteRequest
  <2> QED BY <2>1, Starting DEF U!DeleteRequest
<1>5. CASE \E p \in Phones, how \in {"admin", "hire"} : U!AddRequest(h, how, p)
  <2> PICK p \in Phones, how \in {"admin", "hire"} : U!AddRequest(h, how, p)
    BY <1>5
  <2>1. U!Starts(h, how, 0, p) /\ v5' = v5
    BY DEF U!AddRequest
  <2> QED BY <2>1, Starting DEF U!AddRequest
<1> QED BY <1>1, <1>2, <1>3, <1>4, <1>5

-----------------------------------------------------------------------------
(* Registration and phone numbers                                          *)

\* A row of its own for a new account, with no number, with a proved one or with an administrator's.
LEMMA Making ==
    ASSUME UsersInv, NEW i \in U!Free(v2), NEW new,
           new \in [status : {"active"}, phone : Phones \union {NoPhone}, verified : BOOLEAN],
           new.verified => new.phone \in v5 \/ i \in v8',
           v8' \in {v8, v8 \union {i}}, i \in v8' \ v8 => new.phone \in Phones,
           v2' = [v2 EXCEPT ![i] = new], UNCHANGED <<v1, v3, v5, v6, v7>>,
           UNCHANGED v4 \/ \E h \in Hands : U!Ends(h)
    PROVE  UsersInv'
<1> USE DEF UsersInv, Shape
<1>1. i \in Ids /\ v2[i].status = "none"
  BY UsersAssumption DEF U!Free, U!TypeOK
<1>2. U!TypeOK'
  <2>1. v2' \in [Ids -> [status : {"none", "active", "blocked", "inactive"},
                         phone : Phones \union {NoPhone}, verified : BOOLEAN]]
    BY <1>1 DEF U!TypeOK
  <2>2. v4' \in [Hands -> [at : {"none", "register", "admin", "hire", "phone", "use", "delete", "complete", "status"},
                           id : Ids \union Deletions \union {0}, phone : Phones \union {NoPhone}]]
    BY DEF U!TypeOK, U!Ends, U!NoCall
  <2> QED BY <1>1, <2>1, <2>2 DEF U!TypeOK
<1>3. \A g \in Hands : v4'[g] = v4[g] \/ v4'[g] = U!NoCall
  BY DEF U!TypeOK, U!Ends
<1>4. \A j \in Ids : v2[j].status # "none" => v2'[j] = v2[j]
  BY <1>1 DEF U!TypeOK
<1>5. CallsFit'
  BY <1>3, <1>4 DEF CallsFit, U!NoCall
<1>6. Unmade' /\ Linked' /\ Entered'
  <2>1. Unmade' /\ Linked'
    BY <1>1 DEF U!TypeOK, Unmade, Linked
  <2>2. i \notin v8
    BY <1>1 DEF Unmade, Entered, U!NoUser
  <2>3. v2'[i] = new /\ \A j \in v8 : v2'[j] = v2[j]
    BY <1>1, <2>2 DEF U!TypeOK
  <2>4. Entered'
    BY <2>2, <2>3, UsersAssumption DEF Entered
  <2> QED BY <2>1, <2>4
<1>7. U!PhoneProved'
  BY <1>1 DEF U!TypeOK, U!PhoneProved, U!Known
<1>8. \A r \in Deletions : v3[r].user # i \/ v3[r].user = 0
  BY <1>1 DEF Linked
<1>9. DeletedBefore'
  BY <1>1, <1>8, <1>3 DEF U!TypeOK, CallsFit, DeletedBefore, Gone, U!NoCall
<1>10. CompletedGone'
  BY <1>1, <1>8 DEF U!TypeOK, CompletedGone, Gone
<1> QED BY <1>2, <1>5, <1>6, <1>7, <1>9, <1>10

\* A change of the numbers, or of the accounts made active, that is honest about both.
LEMMA Changing ==
    ASSUME UsersInv, NEW h \in Hands, U!Ends(h),
           U!TypeOK', UNCHANGED <<v1, v3, v5, v7>>, v6 \subseteq v6',
           v8' = {i \in v8 : v2'[i].phone = v2[i].phone},
           \A i \in Ids : /\ v2[i].status = "none" <=> v2'[i].status = "none"
                          /\ v2[i].status = "none" => v2'[i] = v2[i]
                          /\ v2'[i].verified => \/ v2'[i].phone \in v5
                                                \/ v2[i].verified /\ v2'[i].phone = v2[i].phone
                          /\ v2'[i].status = "active" => v2[i].status = "active" \/ i \in v6'
    PROVE  UsersInv'
<1> USE DEF UsersInv, Shape
<1>1. CallsFit'
  BY DEF U!TypeOK, CallsFit, U!Ends, U!NoCall
<1>2. Unmade' /\ Linked' /\ Entered'
  BY DEF U!TypeOK, Unmade, Linked, Entered
<1>3. U!PhoneProved'
  BY DEF U!TypeOK, U!PhoneProved, U!Known
<1>4. \A i \in Ids : Gone(i) => Gone(i)'
  BY DEF Gone
<1>5. \A r \in Deletions : v3[r].user \in Ids \union {0}
  BY DEF U!TypeOK
<1>6. DeletedBefore'
  BY <1>4, <1>5 DEF U!TypeOK, CallsFit, DeletedBefore, U!Ends, U!NoCall
<1>7. CompletedGone'
  BY <1>4, <1>5 DEF CompletedGone
<1> QED BY <1>1, <1>2, <1>3, <1>6, <1>7

Row == [status : {"none", "active", "blocked", "inactive"},
        phone : Phones \union {NoPhone}, verified : BOOLEAN]

\* UserModel.updateProfile: what the row says of a new number.
LEMMA NewNumber ==
    ASSUME v2 \in [Ids -> Row], NEW i \in Ids, NEW p \in Phones, U!SetPhone(i, p)
    PROVE  /\ v2' \in [Ids -> Row]
           /\ \A j \in Ids : j # i => v2'[j] = v2[j]
           /\ v2'[i].status = v2[i].status /\ v2'[i].phone = p
           /\ v2'[i].verified => v2[i].verified /\ v2[i].phone \in {p, NoPhone}
<1> DEFINE flag == v2[i].verified /\ v2[i].phone \in {p, NoPhone}
<1>1. v2[i].status \in {"none", "active", "blocked", "inactive"}
  BY DEF Row
<1>2. flag \in BOOLEAN /\ (flag => v2[i].verified /\ v2[i].phone \in {p, NoPhone})
  OBVIOUS
<1>3. v2' = [v2 EXCEPT ![i] = [status |-> v2[i].status, phone |-> p, verified |-> flag]]
  BY DEF U!SetPhone
<1> HIDE DEF flag
<1>4. [status |-> v2[i].status, phone |-> p, verified |-> flag] \in Row
  BY <1>1, <1>2 DEF Row
<1> QED BY <1>2, <1>3, <1>4

\* UpdatePhone and VerifyPhone: a number that differs is not proved.
LEMMA PhoneNumbers ==
    ASSUME UsersInv, NEW h \in Hands, U!UpdatePhone(h) \/ U!VerifyPhone(h)
    PROVE  UsersInv'
<1> USE DEF UsersInv, Shape
<1>1. U!Ends(h)
  BY DEF U!UpdatePhone, U!VerifyPhone
<1>2. v4' \in [Hands -> [at : {"none", "register", "admin", "hire", "phone", "use", "delete", "complete", "status"},
                         id : Ids \union Deletions \union {0}, phone : Phones \union {NoPhone}]]
  BY <1>1 DEF U!TypeOK, U!Ends, U!NoCall
<1>5. v2 \in [Ids -> Row]
  BY DEF U!TypeOK, Row
<1>3. CASE U!UpdatePhone(h)
  <2> DEFINE i == v4[h].id
             p == v4[h].phone
  <2>1. i \in Ids /\ v2[i].status # "none" /\ p \in Phones
    BY <1>3 DEF U!UpdatePhone, CallsFit
  <2>2. (v2' = v2 \/ U!SetPhone(i, p)) /\ v8' = {j \in v8 : v2'[j].phone = v2[j].phone}
    BY <1>3 DEF U!UpdatePhone
  <2> HIDE DEF i, p
  <2>3. v2' \in [Ids -> Row]
    BY <1>5, <2>1, <2>2, NewNumber
  <2>4. U!TypeOK'
    BY <1>3, <1>2, <2>2, <2>3 DEF U!TypeOK, U!UpdatePhone, Row
  <2>5. v2[i].verified => v2[i].phone # NoPhone
    BY <2>1, UsersAssumption DEF U!PhoneProved, U!Known, U!TypeOK, Entered
  <2>6. \A j \in Ids : /\ v2[j].status = "none" <=> v2'[j].status = "none"
                       /\ v2[j].status = "none" => v2'[j] = v2[j]
                       /\ v2'[j].verified => v2[j].verified /\ v2'[j].phone = v2[j].phone
                       /\ v2'[j].status = "active" => v2[j].status = "active"
    <3>1. CASE v2' = v2
      BY <3>1
    <3>2. CASE U!SetPhone(i, p)
      BY <1>5, <2>1, <2>5, <3>2, NewNumber
    <3> QED BY <2>2, <3>1, <3>2
  <2> QED BY <1>3, <1>1, <2>2, <2>4, <2>6, Changing DEF U!UpdatePhone
<1>4. CASE U!VerifyPhone(h)
  <2> DEFINE p == v4[h].phone
  <2>1. p \in v5
    BY <1>4 DEF U!VerifyPhone, CallsFit
  <2>2. \A i \in Ids : /\ i \in U!Holder(p) => /\ v2'[i] = [status |-> "active", phone |-> v2[i].phone, verified |-> TRUE]
                                               /\ i \in v6' /\ v2[i].status # "none"
                                               /\ v2[i].phone = p
                       /\ i \notin U!Holder(p) => v2'[i] = v2[i]
    BY <1>4 DEF U!VerifyPhone, U!Restore, U!Holder, U!Known
  <2> HIDE DEF p
  <2>3. \A i \in Ids : i \in U!Holder(p) =>
            /\ v2'[i] \in Row /\ v2'[i].status = "active" /\ v2'[i].phone = p
            /\ i \in v6' /\ v2[i].status # "none"
    <3> TAKE i \in Ids
    <3>1. HAVE i \in U!Holder(p)
    <3>2. v2[i].phone \in Phones \union {NoPhone}
      BY <1>5 DEF Row
    <3>3. [status |-> "active", phone |-> v2[i].phone, verified |-> TRUE] \in Row
      BY <3>2 DEF Row
    <3> QED BY <2>2, <3>1, <3>3
  <2>4. v2' \in [Ids -> Row]
    BY <1>4, <1>5, <2>2, <2>3 DEF U!VerifyPhone
  <2>6. v6 \subseteq v6' /\ v6' \subseteq Ids
    BY <1>4 DEF U!VerifyPhone, U!Restore, U!Holder, U!Known, U!TypeOK
  <2>7. U!TypeOK'
    BY <1>4, <1>2, <2>4, <2>6 DEF U!TypeOK, U!VerifyPhone, Row
  <2>8. \A i \in Ids : /\ v2[i].status = "none" <=> v2'[i].status = "none"
                       /\ v2[i].status = "none" => v2'[i] = v2[i]
                       /\ v2'[i].verified => \/ v2'[i].phone \in v5
                                             \/ v2[i].verified /\ v2'[i].phone = v2[i].phone
                       /\ v2'[i].phone = v2[i].phone
                       /\ v2'[i].status = "active" => v2[i].status = "active" \/ i \in v6'
    BY <2>1, <2>2, <2>3
  <2>9. v8' = {i \in v8 : v2'[i].phone = v2[i].phone}
    BY <1>4, <2>8 DEF U!VerifyPhone, U!TypeOK
  <2> QED BY <1>4, <1>1, <2>6, <2>7, <2>8, <2>9, Changing DEF U!VerifyPhone
<1> QED BY <1>3, <1>4

LEMMA StatusSet ==
    ASSUME UsersInv, NEW h \in Hands,
           NEW status \in {"active", "blocked", "inactive"}, U!SetStatus(h, status)
    PROVE  UsersInv'
<1> USE DEF UsersInv, Shape
<1> DEFINE i == v4[h].id
<1>1. i \in Ids /\ v2[i].status # "none"
  BY DEF U!SetStatus, CallsFit
<1>2. v2' = [v2 EXCEPT ![i] = [v2[i] EXCEPT !.status = status]]
  BY DEF U!SetStatus
<1>3. v6' = v6 \/ v6' = v6 \union {i}
  BY DEF U!SetStatus, U!Restore
<1>4. status # "inactive" => i \in v6'
  BY DEF U!SetStatus, U!Restore
<1> HIDE DEF i
<1>5. v4' \in [Hands -> [at : {"none", "register", "admin", "hire", "phone", "use", "delete", "complete", "status"},
                         id : Ids \union Deletions \union {0}, phone : Phones \union {NoPhone}]]
  BY DEF U!TypeOK, U!SetStatus, U!Ends, U!NoCall
<1>6. v2' \in [Ids -> [status : {"none", "active", "blocked", "inactive"},
                       phone : Phones \union {NoPhone}, verified : BOOLEAN]]
  <2>1. v2 \in [Ids -> Row]
    BY DEF U!TypeOK, Row
  <2>2. [v2[i] EXCEPT !.status = status] \in Row
    BY <1>1, <2>1 DEF Row
  <2> QED BY <1>1, <1>2, <2>1, <2>2 DEF Row
<1>7. U!TypeOK'
  BY <1>1, <1>3, <1>5, <1>6 DEF U!TypeOK, U!SetStatus
<1>8. \A j \in Ids : j # i => v2'[j] = v2[j]
  BY <1>1, <1>2 DEF U!TypeOK
<1>9. v2'[i].status = status /\ v2'[i].phone = v2[i].phone /\ v2'[i].verified = v2[i].verified
  BY <1>1, <1>2 DEF U!TypeOK
<1>10. v8' = {j \in v8 : v2'[j].phone = v2[j].phone}
  BY <1>1, <1>8, <1>9 DEF U!SetStatus, U!TypeOK
<1>11. v6 \subseteq v6'
  BY <1>3
<1> QED BY <1>1, <1>4, <1>7, <1>8, <1>9, <1>10, <1>11, Changing DEF U!SetStatus

-----------------------------------------------------------------------------
(* Deletions for deletion                                                   *)

LEMMA Submitting ==
    ASSUME UsersInv, NEW i \in U!Known \union {0}, U!Submit(i)
    PROVE  UsersInv'
<1> USE UsersAssumption DEF UsersInv, Shape
<1>1. PICK r \in U!Free(v3) : v3' = [v3 EXCEPT ![r] = [status |-> "pending", user |-> i]]
  BY DEF U!Submit
<1>2. r \in Deletions /\ v3[r].status = "none" /\ i \in Ids \union {0}
  BY DEF U!Free, U!TypeOK, U!Known
<1>3. \A s \in Deletions : s # r => v3'[s] = v3[s]
  BY <1>1, <1>2 DEF U!TypeOK
<1>4. v3'[r].status = "pending" /\ v3'[r].user = i
  BY <1>1, <1>2 DEF U!TypeOK
<1>5. U!TypeOK'
  BY <1>1, <1>2 DEF U!TypeOK, U!Submit
<1>6. CallsFit'
  BY <1>2, <1>3 DEF CallsFit, Linked, U!Submit
<1>7. Unmade' /\ Linked' /\ Entered'
  BY <1>2, <1>3, <1>4 DEF Unmade, Linked, Entered, U!Submit, U!Known
<1>8. U!PhoneProved'
  BY DEF U!PhoneProved, U!Known, U!Submit
<1>9. DeletedBefore'
  BY <1>2, <1>3 DEF CallsFit, Linked, DeletedBefore, Gone, U!Submit
<1>10. CompletedGone'
  BY <1>3, <1>4 DEF CompletedGone, Gone, U!Submit
<1> QED BY <1>5, <1>6, <1>7, <1>8, <1>9, <1>10

\* SetRequest and Complete change the status of one request and nobody's account.
LEMMA Deciding ==
    ASSUME UsersInv, NEW r \in Deletions, NEW status \in {"pending", "completed", "rejected"},
           v3[r].status # "none" \/ v3[r].user # 0,
           v3' = [v3 EXCEPT ![r].status = status],
           v1' = v1, v2' = v2, v5' = v5, v6' = v6, v8' = v8,
           \/ v4' = v4 /\ v7' = v7 \union {r}
           \/ /\ \E h \in Hands : U!Ends(h)
              /\ v7' = v7 /\ v3[r].user # 0 /\ Gone(v3[r].user)
    PROVE  UsersInv'
<1> USE UsersAssumption DEF UsersInv, Shape
<1>1. \A s \in Deletions : v3'[s].user = v3[s].user /\ (s # r => v3'[s] = v3[s])
  BY DEF U!TypeOK
<1>2. v3'[r].status = status
  BY DEF U!TypeOK
<1>3. \A g \in Hands : v4'[g] = v4[g] \/ v4'[g] = U!NoCall
  BY DEF U!TypeOK, U!Ends
<1>4. U!TypeOK'
  <2> DEFINE request == [status : {"none", "pending", "completed", "rejected"}, user : Ids \union {0}]
             at      == [at : {"none", "register", "admin", "hire", "phone", "use", "delete", "complete", "status"},
                         id : Ids \union Deletions \union {0}, phone : Phones \union {NoPhone}]
  <2>1. v3 \in [Deletions -> request] /\ v4 \in [Hands -> at] /\ v7 \subseteq Deletions
    BY DEF U!TypeOK
  <2>2. [v3[r] EXCEPT !.status = status] \in request
    BY <2>1
  <2>3. v3' \in [Deletions -> request]
    BY <2>1, <2>2
  <2>4. U!NoCall \in at
    BY DEF U!NoCall
  <2> HIDE DEF at
  <2>5. v4' \in [Hands -> at] /\ v7' \subseteq Deletions
    BY <2>1, <2>4 DEF U!Ends
  <2> QED BY <2>3, <2>5 DEF U!TypeOK, at
<1>5. CallsFit'
  BY <1>1, <1>3 DEF CallsFit, U!NoCall
<1>6. Unmade' /\ Linked' /\ Entered'
  BY <1>1, <1>2 DEF Unmade, Linked, Entered
<1>7. U!PhoneProved'
  BY DEF U!PhoneProved, U!Known
<1>8. DeletedBefore'
  BY <1>1, <1>3 DEF CallsFit, DeletedBefore, Gone, U!NoCall
<1>9. CompletedGone'
  BY <1>1, <1>2 DEF CompletedGone, Gone
<1> QED BY <1>4, <1>5, <1>6, <1>7, <1>8, <1>9

LEMMA Deleting ==
    ASSUME UsersInv, NEW h \in Hands, U!DeleteAccount(h)
    PROVE  UsersInv'
<1> USE UsersAssumption DEF UsersInv, Shape
<1> DEFINE i == v3[v4[h].id].user
<1>1. v4[h].id \in Deletions /\ i # 0
  BY DEF U!DeleteAccount, CallsFit
<1>2. i \in Ids
  BY <1>1 DEF U!TypeOK
<1>3. v2[i].status # "none"
  BY <1>1 DEF Linked
<1>4. v2' = [v2 EXCEPT ![i].status = "inactive"] /\ v6' = v6 \ {i}
  BY DEF U!DeleteAccount
<1> HIDE DEF i
<1>5. \A j \in Ids : j # i => v2'[j] = v2[j] /\ (j \in v6' <=> j \in v6)
  BY <1>2, <1>4 DEF U!TypeOK
<1>6. v2'[i].status = "inactive" /\ v2'[i].phone = v2[i].phone /\ v2'[i].verified = v2[i].verified
  BY <1>2, <1>4 DEF U!TypeOK
<1>7. v2' \in [Ids -> Row]
  BY <1>2, <1>4 DEF U!TypeOK, Row
<1>8. v4' \in [Hands -> [at : {"none", "register", "admin", "hire", "phone", "use", "delete", "complete", "status"},
                         id : Ids \union Deletions \union {0}, phone : Phones \union {NoPhone}]]
  BY DEF U!TypeOK, U!DeleteAccount, U!Goes
<1>9. U!TypeOK'
  BY <1>4, <1>7, <1>8 DEF U!TypeOK, Row, U!DeleteAccount
<1>10. \A j \in Ids : Gone(j) => Gone(j)'
  BY <1>5, <1>6 DEF Gone
<1>11. \A g \in Hands : v4'[g].id = v4[g].id /\ v4'[g].phone = v4[g].phone /\ (g # h => v4'[g] = v4[g])
  BY DEF U!TypeOK, U!DeleteAccount, U!Goes
<1>12. v4[h].at = "delete" /\ v4'[h].at = "complete"
  BY DEF U!TypeOK, U!DeleteAccount, U!Goes
<1>13. v3' = v3 /\ v5' = v5 /\ v7' = v7 /\ v8' = v8
  BY DEF U!DeleteAccount
<1>14. \A j \in Ids : v2[j].status # "none" <=> v2'[j].status # "none"
  BY <1>3, <1>5, <1>6
<1>15. CallsFit'
  BY <1>1, <1>11, <1>12, <1>13, <1>14 DEF CallsFit
<1>16. Unmade' /\ Linked' /\ Entered'
  BY <1>2, <1>3, <1>5, <1>6, <1>13, <1>14 DEF Unmade, Linked, Entered, U!TypeOK
<1>17. U!PhoneProved'
  BY <1>3, <1>5, <1>6, <1>13, <1>14 DEF U!PhoneProved, U!Known
<1>18. \A r \in Deletions : v3[r].user # 0 => v3[r].user \in Ids
  BY DEF U!TypeOK
<1>19. DeletedBefore'
  <2>1. Gone(v3[v4[h].id].user)'
    BY <1>6, <1>11, <1>13 DEF Gone, i
  <2>2. \A g \in Hands : g # h /\ v4[g].at = "complete" => Gone(v3[v4[g].id].user)'
    BY <1>10, <1>11, <1>13, <1>18 DEF DeletedBefore, CallsFit, Gone
  <2> QED BY <2>1, <2>2, <1>11 DEF DeletedBefore
<1>20. CompletedGone'
  BY <1>10, <1>13, <1>18 DEF CompletedGone, Gone
<1> QED BY <1>9, <1>15, <1>16, <1>17, <1>19, <1>20

LEMMA Failing ==
    ASSUME UsersInv, NEW h \in Hands, U!Fail(h)
    PROVE  UsersInv'
<1>1. U!Ends(h) /\ v1' = v1 /\ v2' = v2 /\ v3' = v3 /\ v5' = v5
        /\ v6' = v6 /\ v7' = v7 /\ v8' = {i \in v8 : v2'[i].phone = v2[i].phone}
  BY DEF U!Fail
<1>2. U!TypeOK'
  BY <1>1 DEF UsersInv, Shape, U!TypeOK, U!Ends, U!NoCall
<1> QED BY <1>1, <1>2, Changing

-----------------------------------------------------------------------------
LEMMA UsersStep == UsersInv /\ [U!Next]_(U!vars) => UsersInv'
<1> SUFFICES ASSUME UsersInv, [U!Next]_(U!vars) PROVE UsersInv'
  OBVIOUS
<1>1. ASSUME NEW h \in Hands, U!Register(h) PROVE UsersInv'
  <2> DEFINE how == v4[h].at
             p   == v4[h].phone
             new == [status |-> "active", phone |-> p, verified |-> how # "hire"]
  <2>1. /\ U!Ends(h) /\ how \in {"register", "admin", "hire"} /\ p \in Phones
        /\ how = "register" => p \in v5
        /\ UNCHANGED <<v1, v3, v5, v6, v7>>
    BY <1>1 DEF U!Register, UsersInv, Shape, CallsFit, U!TypeOK
  <2>2. CASE UNCHANGED <<v2, v8>>
    <3>1. U!TypeOK'
      BY <2>1, <2>2 DEF UsersInv, Shape, U!TypeOK, U!Ends, U!NoCall
    <3>2. v8' = {i \in v8 : v2'[i].phone = v2[i].phone}
      BY <2>2
    <3> QED BY <2>1, <2>2, <3>1, <3>2, Changing
  <2>3. CASE \E i \in U!Free(v2) : /\ v2' = [v2 EXCEPT ![i] = new]
                                   /\ v8' = IF how = "admin" THEN v8 \union {i} ELSE v8
    <3>1. new \in [status : {"active"}, phone : Phones \union {NoPhone}, verified : BOOLEAN]
          /\ new.phone = p /\ (new.verified <=> how # "hire")
      BY <2>1
    <3> HIDE DEF new, how, p
    <3>2. PICK i \in U!Free(v2) : /\ v2' = [v2 EXCEPT ![i] = new]
                                  /\ v8' = IF how = "admin" THEN v8 \union {i} ELSE v8
      BY <2>3
    <3>3. new.verified => new.phone \in v5 \/ i \in v8'
      BY <2>1, <3>1, <3>2
    <3> QED BY <2>1, <3>1, <3>2, <3>3, Making
  <2> QED BY <1>1, <2>2, <2>3 DEF U!Register
<1>2. ASSUME U!RegisterByGoogle PROVE UsersInv'
  <2>1. [status |-> "active", phone |-> NoPhone, verified |-> FALSE]
            \in [status : {"active"}, phone : Phones \union {NoPhone}, verified : BOOLEAN]
    OBVIOUS
  <2> QED BY <1>2, <2>1, Making DEF U!RegisterByGoogle
<1>3. ASSUME NEW h \in Hands, U!UpdatePhone(h) \/ U!VerifyPhone(h) PROVE UsersInv'
  BY <1>3, PhoneNumbers
<1>4. ASSUME NEW r \in Deletions, NEW status \in {"pending", "completed", "rejected"}, U!SetRequest(r, status)
      PROVE  UsersInv'
  BY <1>4, Deciding DEF U!SetRequest
<1>5. ASSUME NEW h \in Hands, U!Complete(h) PROVE UsersInv'
  <2>1. /\ v4[h].id \in Deletions /\ v3[v4[h].id].user # 0 /\ Gone(v3[v4[h].id].user)
        /\ U!Ends(h) /\ v3' = [v3 EXCEPT ![v4[h].id].status = "completed"]
        /\ v1' = v1 /\ v2' = v2 /\ v5' = v5 /\ v6' = v6 /\ v7' = v7 /\ v8' = v8
    BY <1>5 DEF U!Complete, UsersInv, Shape, CallsFit, DeletedBefore
  <2> QED BY <2>1, Deciding
<1>6. CASE U!Next
  BY <1>6, <1>1, <1>2, <1>3, <1>4, <1>5, Requested, StatusSet, Submitting, Deleting, Failing DEF U!Next
<1>7. CASE UNCHANGED U!vars
  <2>1. v1' = v1 /\ v2' = v2 /\ v3' = v3 /\ v4' = v4 /\ v5' = v5
          /\ v6' = v6 /\ v7' = v7 /\ v8' = v8
    BY <1>7 DEF U!vars
  <2> QED BY <2>1 DEF UsersInv, Shape, U!TypeOK, CallsFit, Unmade, Linked, Entered, U!PhoneProved, U!Known,
                      DeletedBefore, CompletedGone, Gone
<1> QED BY <1>6, <1>7

LEMMA UsersHolds == UsersInv => U!PhoneProved /\ U!RemovedWhenCompleted
BY DEF UsersInv, CompletedGone, Gone, U!RemovedWhenCompleted

-----------------------------------------------------------------------------
\* What is known while users is at work.
UsersAtWork == part = "users" => UsersInv

LEMMA UsersAtWorkStep == UsersAtWork /\ [Next]_vars => UsersAtWork'
<1> SUFFICES ASSUME UsersInv, part = "users", [Next]_vars PROVE UsersInv'
  BY DEF UsersAtWork, Next, vars
<1>1. [U!Next]_(U!vars)
  BY DEF Next, vars, U!vars
<1> QED BY <1>1, UsersStep

\* Nobody is shown as the verified holder of a number that has neither been proved nor been entered
\* by the administrator who created his account, and a deletion the server marks completed has been
\* made, wherever its handlers stop (updateProfile, verifyPhone, createAdmin, deleteAccountFromRequest).
THEOREM AccountsAreHonest == Spec => []AccountsHonest
<1>1. Init => UsersAtWork
  BY UsersInit DEF Init, UsersAtWork
<1>2. UsersAtWork => AccountsHonest
  BY UsersHolds DEF UsersAtWork, AccountsHonest
<1> QED BY <1>1, <1>2, UsersAtWorkStep, PTL DEF Spec

-----------------------------------------------------------------------------
(* Presence: v1 is profile, v2 is run, v3 is since, v4 is missed.          *)

ProfileRow == [status : {"available", "on_trip", "offline"}, seen : 0..P!Never, updated : 0..P!Never, told : BOOLEAN]

\* A driver heard of, or whose profile was touched, less than n minutes ago.
HeardOf(d, n) == v1[d].seen < n \/ v1[d].updated < n

\* What the last run leaves grows older until the next; a run takes in all that are late.
RunKnows ==
    \A d \in Crew : v1[d].status = "available" =>
        /\ v2.at = "none" /\ ~v4 => HeardOf(d, LocationStaleAfter + v3)
        /\ v2.at = "offline" => /\ HeardOf(d, LocationStaleAfter) \/ d \in v2.left
                                /\ ~v4 => HeardOf(d, LocationStaleAfter + Period)
        /\ v2.at = "tell" => HeardOf(d, LocationStaleAfter)

PresenceInv ==
    /\ P!TypeOK /\ RunKnows
    /\ v2.at # "none" => v3 = 0
    /\ v2.at = "none" => v2.left = {}

LEMMA PresenceTyped ==
    ASSUME PresenceInv
    PROVE  /\ v1 \in [Crew -> ProfileRow] /\ \A d \in Crew : v1[d] \in ProfileRow
           /\ v2 \in [at : {"none", "offline", "tell"}, left : SUBSET Crew]
           /\ v3 \in 0..Period /\ v4 \in BOOLEAN
           /\ P!Never \in Nat /\ P!Never = LocationStaleAfter + Period + 1 /\ 0 \in 0..P!Never
           /\ \A d \in Crew : v1[d].seen \in Nat /\ v1[d].updated \in Nat
BY PresenceAssumption DEF PresenceInv, P!TypeOK, ProfileRow, P!Never

LEMMA PresenceInit == P!Init => PresenceInv
<1> SUFFICES ASSUME P!Init PROVE PresenceInv
  OBVIOUS
<1>1. P!Never \in Nat /\ 0 \in 0..P!Never /\ P!Never \in 0..P!Never /\ 0 \in 0..Period
  BY PresenceAssumption DEF P!Never
<1>2. P!TypeOK
  BY <1>1 DEF P!Init, P!TypeOK, P!NoRun
<1>3. \A d \in Crew : v1[d].updated = 0
  BY DEF P!Init
<1> QED BY <1>2, <1>3, PresenceAssumption DEF P!Init, PresenceInv, RunKnows, HeardOf, P!NoRun

\* Steps that touch one profile: its driver has just been heard of, or shows as he did.
LEMMA PresenceTouched ==
    ASSUME PresenceInv, NEW d \in Crew, NEW p \in ProfileRow, v1' = [v1 EXCEPT ![d] = p],
           p.updated = 0, P!Rest
    PROVE  PresenceInv'
<1>1. v1' \in [Crew -> ProfileRow] /\ v1'[d] = p /\ \A e \in Crew \ {d} : v1'[e] = v1[e]
  BY PresenceTyped
<1>2. P!TypeOK'
  BY <1>1 DEF PresenceInv, P!TypeOK, ProfileRow, P!Rest, P!Never
<1>3. HeardOf(d, LocationStaleAfter)' /\ HeardOf(d, LocationStaleAfter + v3)' /\ HeardOf(d, LocationStaleAfter + Period)'
  BY <1>1, PresenceAssumption, PresenceTyped DEF HeardOf, P!Rest
<1>4. \A e \in Crew \ {d}, n \in Int : HeardOf(e, n)' <=> HeardOf(e, n)
  BY <1>1 DEF HeardOf
<1>5. LocationStaleAfter + v3 \in Int /\ LocationStaleAfter + Period \in Int /\ LocationStaleAfter \in Int
  BY PresenceAssumption, PresenceTyped
<1>6. RunKnows'
  BY <1>1, <1>3, <1>4, <1>5 DEF PresenceInv, RunKnows, P!Rest
<1> QED BY <1>2, <1>6 DEF PresenceInv, P!Rest

LEMMA PresenceHandlers ==
    ASSUME PresenceInv, NEW d \in Crew, NEW status \in {"available", "offline"},
           P!Ping(d) \/ P!Begin(d) \/ P!End(d) \/ P!ForceLogout(d) \/ P!Edit(d) \/ P!Switch(d, status)
    PROVE  PresenceInv'
<1>1. v1[d] \in ProfileRow /\ 0 \in 0..P!Never /\ v1 \in [Crew -> ProfileRow]
  BY PresenceTyped
<1>2. CASE P!Ping(d)
  <2> DEFINE p == [status |-> IF d \in P!Busy THEN "on_trip" ELSE "available", seen |-> 0, updated |-> 0, told |-> FALSE]
  <2>1. p \in ProfileRow /\ p.updated = 0 /\ v1' = [v1 EXCEPT ![d] = p] /\ P!Rest
    BY <1>1, <1>2 DEF P!Ping, ProfileRow
  <2> HIDE DEF p
  <2> QED BY <2>1, PresenceTouched
<1>3. CASE ~P!Ping(d)
  <2>1. PICK s \in {"available", "on_trip", "offline"} : P!Set(d, s) /\ P!Rest
    BY <1>1, <1>3 DEF P!Begin, P!End, P!ForceLogout, P!Edit, P!Switch, ProfileRow
  <2> DEFINE p == [v1[d] EXCEPT !.status = s, !.updated = 0]
  <2>2. p \in ProfileRow /\ p.updated = 0 /\ v1' = [v1 EXCEPT ![d] = p]
    BY <1>1, <2>1 DEF P!Set, ProfileRow
  <2> HIDE DEF p
  <2> QED BY <2>1, <2>2, PresenceTouched
<1> QED BY <1>2, <1>3

LEMMA PresenceSelect ==
    ASSUME PresenceInv, P!Select
    PROVE  PresenceInv'
<1>1. /\ v2' = [at |-> "offline", left |-> P!StaleAvailable] /\ v3' = 0 /\ UNCHANGED <<v1, v4>>
      /\ v3 = Period /\ v2.at = "none" /\ P!StaleAvailable \subseteq Crew
  BY DEF P!Select, P!NoRun, P!StaleAvailable
<1>2. P!TypeOK'
  BY <1>1, PresenceAssumption DEF PresenceInv, P!TypeOK, P!Never
<1>3. \A d \in Crew : v1[d].status = "available" => HeardOf(d, LocationStaleAfter) \/ d \in P!StaleAvailable
  BY PresenceAssumption, PresenceTyped DEF P!StaleAvailable, P!Late, HeardOf
<1>4. \A d \in Crew, n \in Int : HeardOf(d, n)' <=> HeardOf(d, n)
  BY <1>1 DEF HeardOf
<1>5. LocationStaleAfter \in Int /\ LocationStaleAfter + Period \in Int
  BY PresenceAssumption
<1> QED BY <1>1, <1>2, <1>3, <1>4, <1>5 DEF PresenceInv, RunKnows

LEMMA PresenceOffline ==
    ASSUME PresenceInv, NEW d \in Crew, P!SetOffline(d)
    PROVE  PresenceInv'
<1>1. v1[d] \in ProfileRow /\ 0 \in 0..P!Never /\ v1 \in [Crew -> ProfileRow]
  BY PresenceTyped
<1>2. /\ v1' \in [Crew -> ProfileRow] /\ v1'[d].status = "offline"
      /\ \A e \in Crew \ {d} : v1'[e] = v1[e]
  BY <1>1 DEF P!SetOffline, P!Set, ProfileRow
<1>3. /\ v2' = [at |-> "offline", left |-> v2.left \ {d}] /\ v2.at = "offline" /\ UNCHANGED <<v3, v4>>
      /\ v2.left \subseteq Crew
  BY PresenceTyped DEF P!SetOffline
<1>4. P!TypeOK'
  BY <1>2, <1>3 DEF PresenceInv, P!TypeOK, ProfileRow, P!Never
<1>5. \A e \in Crew \ {d}, n \in Int : HeardOf(e, n)' <=> HeardOf(e, n)
  BY <1>2 DEF HeardOf
<1>6. LocationStaleAfter \in Int /\ LocationStaleAfter + Period \in Int
  BY PresenceAssumption
<1> QED BY <1>2, <1>3, <1>4, <1>5, <1>6 DEF PresenceInv, RunKnows

LEMMA PresenceTell ==
    ASSUME PresenceInv, P!SelectOnTrip \/ P!Done \/ P!Fail \/ \E d \in Crew : P!Tell(d)
    PROVE  PresenceInv'
<1>1. /\ v1' \in [Crew -> ProfileRow]
      /\ \A d \in Crew : /\ v1'[d].status = v1[d].status /\ v1'[d].seen = v1[d].seen
                         /\ v1'[d].updated = v1[d].updated
  <2>1. CASE \E d \in Crew : P!Tell(d)
    <3>1. PICK d \in Crew : v1' = [v1 EXCEPT ![d].told = TRUE]
      BY <2>1 DEF P!Tell
    <3>2. \A e \in Crew : v1[e] \in ProfileRow
      BY PresenceTyped
    <3>3. \A e \in Crew : v1'[e] = IF e = d THEN [v1[e] EXCEPT !.told = TRUE] ELSE v1[e]
      BY <3>1, PresenceTyped
    <3>4. \A e \in Crew : /\ v1'[e] \in ProfileRow /\ v1'[e].status = v1[e].status
                         /\ v1'[e].seen = v1[e].seen /\ v1'[e].updated = v1[e].updated
      BY <3>2, <3>3 DEF ProfileRow
    <3> QED BY <3>1, <3>4, PresenceTyped
  <2>2. CASE UNCHANGED v1
    BY <2>2, PresenceTyped
  <2> QED BY <2>1, <2>2 DEF P!SelectOnTrip, P!Done, P!Fail
<1>2. /\ v2' \in [at : {"none", "offline", "tell"}, left : SUBSET Crew] /\ UNCHANGED v3
      /\ v4' \in BOOLEAN /\ v2.at # "none"
      /\ v2'.at = "none" => v4' \/ v2.at = "tell"
      /\ v2'.at = "tell" => v2.at = "tell" \/ (v2.at = "offline" /\ v2.left = {})
      /\ v2'.at # "offline" /\ (v2'.at = "none" => v2'.left = {})
  <2>1. v2 \in [at : {"none", "offline", "tell"}, left : SUBSET Crew] /\ P!StaleOnTrip \subseteq Crew
    BY PresenceTyped DEF P!StaleOnTrip, P!Busy
  <2>2. CASE P!SelectOnTrip
    BY <2>1, <2>2, PresenceTyped DEF P!SelectOnTrip
  <2>3. CASE P!Done
    BY <2>1, <2>3 DEF P!Done, P!NoRun
  <2>4. CASE P!Fail
    <3>1. v2.at # "none"
      <4>1. v2 = [at |-> v2.at, left |-> v2.left] /\ (v2.at = "none" => v2.left = {})
        BY <2>1 DEF PresenceInv
      <4>2. v2.at = "none" => v2 = P!NoRun
        BY <4>1 DEF P!NoRun
      <4> QED BY <4>2, <2>4 DEF P!Fail
    <3> QED BY <2>1, <2>4, <3>1 DEF P!Fail, P!NoRun
  <2>5. CASE \E d \in Crew : P!Tell(d)
    BY <2>1, <2>5, PresenceTyped DEF P!Tell
  <2> QED BY <2>2, <2>3, <2>4, <2>5
<1>3. P!TypeOK'
  BY <1>1, <1>2 DEF PresenceInv, P!TypeOK, ProfileRow, P!Never
<1>4. \A d \in Crew, n \in Int : HeardOf(d, n)' <=> HeardOf(d, n)
  BY <1>1 DEF HeardOf
<1>5. LocationStaleAfter \in Int /\ LocationStaleAfter + v3 = LocationStaleAfter /\ v3 = 0
  <2>1. LocationStaleAfter \in Int
    BY PresenceAssumption
  <2>2. v3 = 0
    BY <1>2 DEF PresenceInv
  <2> QED BY <2>1, <2>2
<1> QED BY <1>1, <1>2, <1>3, <1>4, <1>5 DEF PresenceInv, RunKnows

LEMMA PresenceAged ==
    ASSUME NEW age \in 0..P!Never
    PROVE  P!Older(age) \in 0..P!Never /\ P!Older(age) <= age + 1
BY PresenceAssumption DEF P!Older, P!Never

LEMMA PresenceTick ==
    ASSUME PresenceInv, P!Tick
    PROVE  PresenceInv'
<1>0. v2.at = "none" /\ v3' = v3 + 1 /\ v3 < Period /\ UNCHANGED <<v2, v4>>
  BY DEF P!Tick, P!NoRun
<1>1. \A d \in Crew : v1'[d] = [v1[d] EXCEPT !.seen = P!Older(v1[d].seen), !.updated = P!Older(v1[d].updated)]
  BY DEF P!Tick, P!NoRun
<1>3. \A d \in Crew : /\ v1'[d] \in ProfileRow /\ v1'[d].status = v1[d].status
                      /\ v1'[d].seen = P!Older(v1[d].seen) /\ v1'[d].updated = P!Older(v1[d].updated)
  <2> SUFFICES ASSUME NEW d \in Crew
               PROVE  /\ v1'[d] \in ProfileRow /\ v1'[d].status = v1[d].status
                      /\ v1'[d].seen = P!Older(v1[d].seen) /\ v1'[d].updated = P!Older(v1[d].updated)
    OBVIOUS
  <2>1. v1[d] \in ProfileRow /\ v1[d].seen \in 0..P!Never /\ v1[d].updated \in 0..P!Never
    BY PresenceTyped DEF ProfileRow
  <2>2. P!Older(v1[d].seen) \in 0..P!Never /\ P!Older(v1[d].updated) \in 0..P!Never
    BY PresenceAged, <2>1
  <2>3. v1'[d] = [v1[d] EXCEPT !.seen = P!Older(v1[d].seen), !.updated = P!Older(v1[d].updated)]
    BY <1>1
  <2> QED BY <2>1, <2>2, <2>3 DEF ProfileRow
<1>4. v1' \in [Crew -> ProfileRow] /\ v3' \in 0..Period
  <2>1. v3' \in 0..Period
    <3>1. v3 \in 0..Period
      BY PresenceTyped
    <3> QED BY <1>0, <3>1, PresenceAssumption
  <2> QED BY <1>3, <2>1 DEF P!Tick
<1>5. P!TypeOK'
  BY <1>0, <1>4 DEF PresenceInv, P!TypeOK, ProfileRow, P!Never
<1>6. \A d \in Crew : HeardOf(d, LocationStaleAfter + v3) => HeardOf(d, LocationStaleAfter + v3)'
  <2> SUFFICES ASSUME NEW d \in Crew, HeardOf(d, LocationStaleAfter + v3) PROVE HeardOf(d, LocationStaleAfter + v3)'
    OBVIOUS
  <2>1. /\ v1[d].seen \in 0..P!Never /\ v1[d].updated \in 0..P!Never
        /\ LocationStaleAfter \in Int /\ v3 \in Int
    BY PresenceAssumption, PresenceTyped DEF ProfileRow
  <2>2. /\ v1'[d].seen \in Int /\ v1'[d].seen <= v1[d].seen + 1
        /\ v1'[d].updated \in Int /\ v1'[d].updated <= v1[d].updated + 1
    <3>1. v1'[d].seen = P!Older(v1[d].seen) /\ v1'[d].updated = P!Older(v1[d].updated)
      BY <1>3
    <3>2. P!Never \in Nat
      BY PresenceTyped
    <3>3. /\ P!Older(v1[d].seen) \in 0..P!Never /\ P!Older(v1[d].seen) <= v1[d].seen + 1
          /\ P!Older(v1[d].updated) \in 0..P!Never /\ P!Older(v1[d].updated) <= v1[d].updated + 1
      BY PresenceAged, <2>1
    <3> QED BY <3>1, <3>2, <3>3
  <2>3. v3' = v3 + 1
    BY <1>0
  <2> QED BY <2>1, <2>2, <2>3 DEF HeardOf
<1> QED BY <1>0, <1>3, <1>5, <1>6 DEF PresenceInv, RunKnows

LEMMA PresenceStep == PresenceInv /\ [P!Next]_(P!vars) => PresenceInv'
<1> SUFFICES ASSUME PresenceInv, [P!Next]_(P!vars) PROVE PresenceInv'
  OBVIOUS
<1>1. CASE P!Next
  BY <1>1, PresenceHandlers, PresenceSelect, PresenceOffline, PresenceTell, PresenceTick DEF P!Next
<1>2. CASE UNCHANGED P!vars
  BY <1>2 DEF P!vars, PresenceInv, P!TypeOK, RunKnows, HeardOf, P!Never
<1> QED BY <1>1, <1>2

LEMMA PresenceHolds == PresenceInv => P!Reachable
<1> SUFFICES ASSUME PresenceInv, NEW d \in Crew, v1[d].status = "available", ~v4
             PROVE  HeardOf(d, LocationStaleAfter + Period)
  BY DEF P!Reachable, HeardOf
<1>1. /\ v2.at \in {"none", "offline", "tell"} /\ v3 \in 0..Period
      /\ v1[d].seen \in Nat /\ v1[d].updated \in Nat
  BY PresenceTyped
<1>2. \/ HeardOf(d, LocationStaleAfter + v3) \/ HeardOf(d, LocationStaleAfter + Period) \/ HeardOf(d, LocationStaleAfter)
  BY <1>1 DEF PresenceInv, RunKnows
<1> QED BY <1>1, <1>2, PresenceAssumption DEF HeardOf

-----------------------------------------------------------------------------
\* What is known while presence is at work.
PresenceAtWork == part = "presence" => PresenceInv

LEMMA PresenceAtWorkStep == PresenceAtWork /\ [Next]_vars => PresenceAtWork'
<1> SUFFICES ASSUME PresenceInv, part = "presence", [Next]_vars PROVE PresenceInv'
  BY DEF PresenceAtWork, Next, vars
<1>1. [P!Next]_(P!vars)
  BY DEF Next, vars, P!vars
<1> QED BY <1>1, PresenceStep

\* A driver who shows as available has been heard of since the last sweeps, however the steps of the
\* sweep and the driver's own calls overlap (staleDriverLocationSweep).
THEOREM AvailableIsReachable == Spec => []Reachable
<1>1. Init => PresenceAtWork
  BY PresenceInit DEF Init, PresenceAtWork
<1>2. PresenceAtWork => Reachable
  BY PresenceHolds DEF PresenceAtWork, Reachable
<1> QED BY <1>1, <1>2, PresenceAtWorkStep, PTL DEF Spec

-----------------------------------------------------------------------------
(* Kyc: v1 is role, v2 is status, v3 is row, v4 is files, v5 is call, v6   *)
(* is passed, v7 is mixed.                                                 *)

FileRow   == [key : Keys, kept : BOOLEAN]
ReviewRow == [at : K!Phases, file : 0..MaxFiles, docs : [Keys -> 0..MaxFiles], todo : SUBSET Checks, alone : BOOLEAN]
KycRow    == [exists : BOOLEAN, docs : [Keys -> 0..MaxFiles], results : [Checks -> {"none", "verified", "failed"}],
              by : {"nobody", "reviewer", "auto"}]
KeyOf(h)  == v4[v5[h].file].key
\* Documents name files of their key.
Named(docs) == \A k \in Keys : docs[k] <= Len(v4) /\ (docs[k] # 0 => v4[docs[k]].key = k)

\* Documents name files, and a client has none.
FilesKnown ==
    /\ Named(v3.docs)
    /\ \A h \in K!Calls :
          /\ v5[h].file <= Len(v4)
          /\ v5[h].file # 0 <=> v5[h].at \in {"merge", "replace", "drop"}
          /\ v5[h].at \in {"submit", "complete", "replace"} => Named(v5[h].docs)
          /\ v5[h].at = "replace" => v5[h].docs[KeyOf(h)] = v5[h].file
          /\ v5[h].at \in {"finalize", "complete"} => v1 = "client"
          /\ v5[h].at = "complete" => \A k \in Keys : v5[h].docs[k] = 0
          /\ v1 = "client" => h \notin K!Writing
    /\ v1 = "client" => \A k \in Keys : v3.docs[k] = 0

\* What stands behind a decision that is still to be written.
DecisionsFounded ==
    /\ \A c \in Checks : v3.results[c] = "verified" => c \in v6
    /\ \A h \in K!Calls : /\ v5[h].at \in {"complete", "approve"} => K!Required \subseteq v6
                          /\ v5[h].at = "judge" /\ v5[h].alone => v2 # "verified"

\* A call that writes documents knows those of the row, unless it uploads the key or the key is mixed.
DocumentsAsRead ==
    /\ \A h \in K!Writing :
          /\ v5[h].alone => K!Writing = {h}
          /\ v5[h].file # 0 /\ KeyOf(h) \notin v7 => v5[h].alone
          /\ v5[h].file # 0 /\ v5[h].alone => v4[v5[h].file].kept
          /\ v5[h].at = "drop" /\ v5[h].alone => v3.docs[KeyOf(h)] = v5[h].file
          /\ v5[h].at \in {"submit", "replace"} =>
                \A k \in Keys \ v7 : v5[h].docs[k] = v3.docs[k] \/ (v5[h].at = "replace" /\ k = KeyOf(h))
    /\ K!DocumentsStored

KycInv == K!TypeOK /\ FilesKnown /\ DecisionsFounded /\ DocumentsAsRead

LEMMA KycTyped ==
    ASSUME KycInv
    PROVE  /\ v3 \in KycRow /\ v3.docs \in [Keys -> 0..MaxFiles] /\ v3.results \in [Checks -> {"none", "verified", "failed"}]
           /\ v5 \in [K!Calls -> ReviewRow] /\ \A h \in K!Calls : v5[h] \in ReviewRow
           /\ v4 \in Seq(FileRow) /\ Len(v4) \in Nat /\ Len(v4) <= MaxFiles
           /\ DOMAIN v4 = 1..Len(v4) /\ \A i \in DOMAIN v4 : v4[i] \in FileRow
           /\ v1 \in Roles /\ v2 \in K!Status /\ v6 \subseteq Checks /\ v7 \subseteq Keys
           /\ K!NoCall \in ReviewRow /\ K!NoDocs \in [Keys -> 0..MaxFiles]
<1>1. v4 \in Seq(FileRow) /\ Len(v4) <= MaxFiles
  BY DEF KycInv, K!TypeOK, FileRow
<1>2. Len(v4) \in Nat /\ DOMAIN v4 = 1..Len(v4) /\ \A i \in DOMAIN v4 : v4[i] \in FileRow
  BY <1>1
<1>3. v3 \in KycRow
  BY DEF KycInv, K!TypeOK, KycRow
<1>4. v3.docs \in [Keys -> 0..MaxFiles] /\ v3.results \in [Checks -> {"none", "verified", "failed"}]
  BY <1>3 DEF KycRow
<1>5. K!NoCall \in ReviewRow /\ K!NoDocs \in [Keys -> 0..MaxFiles]
  BY KycAssumption DEF K!NoCall, K!NoDocs, ReviewRow, K!Phases
<1> QED BY <1>1, <1>2, <1>3, <1>4, <1>5 DEF KycInv, K!TypeOK, ReviewRow

LEMMA KycInit == K!Init => KycInv
<1> SUFFICES ASSUME K!Init PROVE KycInv
  OBVIOUS
<1>1. v4 \in Seq(FileRow) /\ Len(v4) = 0
  BY EmptySeq DEF K!Init
<1>2. K!NoCall \in ReviewRow /\ K!NoDocs \in [Keys -> 0..MaxFiles]
  BY KycAssumption DEF K!NoCall, K!NoDocs, ReviewRow, K!Phases
<1>3. K!TypeOK
  <2>1. v3 \in KycRow
    BY <1>2 DEF K!Init, KycRow
  <2>2. v5 \in [K!Calls -> ReviewRow]
    BY <1>2 DEF K!Init
  <2> QED BY <1>1, <2>1, <2>2, KycAssumption DEF K!Init, K!TypeOK, ReviewRow, KycRow, FileRow, K!Status
<1>4. \A h \in K!Calls : v5[h].at = "none" /\ v5[h].file = 0 /\ h \notin K!Writing
  BY DEF K!Init, K!NoCall, K!Writing
<1>5. \A k \in Keys : v3.docs[k] = 0
  BY DEF K!Init, K!NoDocs
<1>6. FilesKnown
  BY <1>1, <1>4, <1>5 DEF FilesKnown, Named
<1>7. DecisionsFounded
  BY <1>4 DEF K!Init, DecisionsFounded
<1>8. DocumentsAsRead
  BY <1>4, <1>5 DEF DocumentsAsRead, K!DocumentsStored, K!Writing
<1> QED BY <1>3, <1>6, <1>7, <1>8 DEF KycInv

\* Steps of one call that leave documents and files alone.
LEMMA KycElsewhere ==
    ASSUME KycInv, NEW h \in K!Calls, NEW c \in ReviewRow, K!Goes(h, c), UNCHANGED <<v1, v4, v7>>,
           v3' \in KycRow, v3'.docs = v3.docs,
           c.at \in {"none", "record", "finalize", "approve", "judge"} \/ (c.at = "complete" /\ c.docs = v3.docs),
           c.at \in {"finalize", "complete"} => v1 = "client", c.file = 0
    PROVE  /\ FilesKnown' /\ DocumentsAsRead' /\ v5' \in [K!Calls -> ReviewRow]
           /\ v5'[h] = c /\ \A g \in K!Calls \ {h} : v5'[g] = v5[g]
<1>1. v5' \in [K!Calls -> ReviewRow] /\ v5'[h] = c /\ \A g \in K!Calls \ {h} : v5'[g] = v5[g]
  BY KycTyped DEF K!Goes
<1>2. K!Writing' = K!Writing \ {h} /\ h \notin K!Writing'
  BY <1>1 DEF K!Writing
<1>3. \A g \in K!Calls \ {h} : KeyOf(g)' = KeyOf(g)
  BY <1>1 DEF KeyOf
<1>4. FilesKnown'
  <2>1. FilesKnown
    BY DEF KycInv
  <2>2. Len(v4) \in Nat /\ Len(v4') = Len(v4)
    BY KycTyped
  <2> QED BY <1>1, <1>2, <1>3, <2>1, <2>2 DEF FilesKnown, Named
<1>5. DocumentsAsRead'
  <2>1. DocumentsAsRead
    BY DEF KycInv
  <2>2. K!DocumentsStored'
    BY <2>1 DEF DocumentsAsRead, K!DocumentsStored
  <2> SUFFICES ASSUME NEW g \in K!Writing'
               PROVE  /\ v5'[g].alone => K!Writing' = {g}
                      /\ v5'[g].file # 0 /\ KeyOf(g)' \notin v7' => v5'[g].alone
                      /\ v5'[g].file # 0 /\ v5'[g].alone => v4'[v5'[g].file].kept
                      /\ v5'[g].at = "drop" /\ v5'[g].alone => v3'.docs[KeyOf(g)'] = v5'[g].file
                      /\ v5'[g].at \in {"submit", "replace"} =>
                            \A k \in Keys \ v7' : \/ v5'[g].docs[k] = v3'.docs[k]
                                                  \/ v5'[g].at = "replace" /\ k = KeyOf(g)'
    BY <2>2 DEF DocumentsAsRead
  <2>3. g \in K!Writing /\ g # h /\ v5'[g] = v5[g] /\ KeyOf(g)' = KeyOf(g)
    BY <1>1, <1>2, <1>3 DEF K!Writing
  <2>4. v5[g].alone => K!Writing = {g}
    BY <2>1, <2>3 DEF DocumentsAsRead
  <2> QED BY <1>2, <2>1, <2>3, <2>4 DEF DocumentsAsRead
<1> QED BY <1>1, <1>4, <1>5

\* Steps that are over with a call, or let it go on to a decision.
LEMMA KycOther ==
    ASSUME KycInv, NEW h \in K!Calls, NEW c \in ReviewRow, K!Goes(h, c), UNCHANGED <<v1, v4, v7, v2>>,
           v3' \in KycRow, v3'.docs = v3.docs, v6 \subseteq v6', v6' \subseteq Checks,
           c.at \in {"none", "record", "finalize"} \/ (c.at = "complete" /\ c.docs = v3.docs /\ K!Required \subseteq v6)
               \/ (c.at = "judge" /\ v2 # "verified"),
           c.at \in {"finalize", "complete"} => v1 = "client", c.file = 0,
           \A k \in Checks : v3'.results[k] = "verified" => k \in v6'
    PROVE  KycInv'
<1>1. /\ FilesKnown' /\ DocumentsAsRead' /\ v5' \in [K!Calls -> ReviewRow]
      /\ v5'[h] = c /\ \A g \in K!Calls \ {h} : v5'[g] = v5[g]
  BY KycElsewhere
<1>2. K!TypeOK'
  BY <1>1 DEF KycInv, K!TypeOK, ReviewRow, KycRow, K!Calls
<1>3. DecisionsFounded'
  BY <1>1 DEF KycInv, DecisionsFounded, K!Required
<1> QED BY <1>1, <1>2, <1>3 DEF KycInv

LEMMA KycNoCall ==
    K!NoCall.at = "none" /\ K!NoCall.file = 0 /\ K!NoCall.docs = K!NoDocs /\ K!NoCall.todo = {} /\ K!NoCall.alone = TRUE
BY DEF K!NoCall

LEMMA KycRecorded ==
    ASSUME KycInv, NEW c \in Checks, NEW result \in K!Answers, K!Recorded(c, result)
    PROVE  /\ v3' \in KycRow /\ v3'.docs = v3.docs
           /\ \A k \in Checks : v3'.results[k] = IF k = c THEN result ELSE v3.results[k]
<1>1. v3 \in KycRow /\ v3.results \in [Checks -> {"none", "verified", "failed"}]
  BY KycTyped
<1>2. [v3.results EXCEPT ![c] = result] \in [Checks -> {"none", "verified", "failed"}]
  BY <1>1 DEF K!Answers
<1>3. v3' = [v3 EXCEPT !.exists = TRUE, !.results = [v3.results EXCEPT ![c] = result]]
  BY <1>1 DEF K!Recorded, KycRow
<1> QED BY <1>1, <1>2, <1>3 DEF KycRow

LEMMA KycCheck ==
    ASSUME KycInv, NEW h \in Hands, NEW c \in Checks, NEW result \in K!Answers, K!Check(h, c, result)
    PROVE  KycInv'
<1>1. /\ K!Recorded(c, result) /\ UNCHANGED <<v1, v2, v4, v7>> /\ h \in K!Calls
      /\ v6' = IF result = "verified" THEN v6 \union {c} ELSE v6
      /\ v5[h] = K!NoCall
  BY DEF K!Check, K!Calls, K!Free
<1>2. /\ v3' \in KycRow /\ v3'.docs = v3.docs
      /\ \A k \in Checks : v3'.results[k] = IF k = c THEN result ELSE v3.results[k]
  BY <1>1, KycRecorded
<1>3. v6 \subseteq v6' /\ v6' \subseteq Checks
  BY <1>1, KycTyped
<1>4. \A k \in Checks : v3'.results[k] = "verified" => k \in v6'
  BY <1>1, <1>2 DEF KycInv, DecisionsFounded
<1>5. PICK r \in ReviewRow : K!Goes(h, r) /\ (r.at = "none" \/ (r.at = "finalize" /\ v1 = "client")) /\ r.file = 0
  <2>1. CASE v1 = "client"
    <3> DEFINE r == [K!NoCall EXCEPT !.at = "finalize"]
    <3>1. r \in ReviewRow /\ r.at = "finalize" /\ r.file = 0
      BY KycTyped, KycNoCall DEF ReviewRow, K!Phases
    <3>2. K!Goes(h, r)
      BY <2>1 DEF K!Check
    <3> QED BY <2>1, <3>1, <3>2
  <2>2. CASE v1 # "client"
    <3>1. K!Goes(h, K!NoCall)
      BY <1>1, <2>2, KycTyped DEF K!Check, K!Goes
    <3> QED BY <3>1, KycTyped, KycNoCall
  <2> QED BY <2>1, <2>2
<1> QED BY <1>1, <1>2, <1>3, <1>4, <1>5, KycOther

LEMMA KycRecord ==
    ASSUME KycInv, NEW h \in Hands,
           K!RecordNext(h) \/ \E found \in K!Found : K!Digilocker(h, found)
    PROVE  KycInv'
<1> USE DEF K!Calls
<1>1. CASE \E found \in K!Found : K!Digilocker(h, found)
  <2>1. PICK found \in K!Found : K!Digilocker(h, found)
    BY <1>1
  <2> DEFINE c == [K!NoCall EXCEPT !.at = "record", !.todo = found]
  <2>2. found \subseteq Checks
    BY DEF K!Found, K!Required
  <2>3. c \in ReviewRow /\ c.at = "record" /\ c.file = 0
    BY <2>2, KycTyped, KycNoCall DEF ReviewRow, K!Phases
  <2>4. K!Goes(h, c) /\ UNCHANGED <<v1, v2, v3, v4, v6, v7>>
    BY <2>1 DEF K!Digilocker
  <2> HIDE DEF c
  <2>5. /\ v3' \in KycRow /\ v3'.docs = v3.docs /\ v6 \subseteq v6' /\ v6' \subseteq Checks
        /\ \A k \in Checks : v3'.results[k] = "verified" => k \in v6'
    BY <2>4, KycTyped DEF KycInv, DecisionsFounded
  <2> QED BY <2>3, <2>4, <2>5, KycOther
<1>2. CASE K!RecordNext(h)
  <2>1. PICK c \in v5[h].todo :
           /\ K!Recorded(c, "verified") /\ v6' = v6 \union {c}
           /\ IF v5[h].todo # {c} THEN K!Goes(h, [v5[h] EXCEPT !.todo = @ \ {c}])
              ELSE IF v1 = "client" THEN K!Goes(h, [K!NoCall EXCEPT !.at = "finalize"]) ELSE K!Ends(h)
    BY <1>2 DEF K!RecordNext
  <2>2. UNCHANGED <<v1, v2, v4, v7>> /\ v5[h].at = "record" /\ v5[h] \in ReviewRow /\ c \in Checks
        /\ v5[h].file = 0
    BY <1>2, <2>1, KycTyped DEF K!RecordNext, K!At, ReviewRow, KycInv, FilesKnown
  <2>3. /\ v3' \in KycRow /\ v3'.docs = v3.docs
        /\ \A k \in Checks : v3'.results[k] = IF k = c THEN "verified" ELSE v3.results[k]
    BY <2>1, <2>2, KycRecorded DEF K!Answers
  <2>4. /\ v6 \subseteq v6' /\ v6' \subseteq Checks
        /\ \A k \in Checks : v3'.results[k] = "verified" => k \in v6'
    BY <2>1, <2>2, <2>3, KycTyped DEF KycInv, DecisionsFounded
  <2>5. PICK r \in ReviewRow : /\ K!Goes(h, r) /\ r.file = 0
                               /\ r.at \in {"none", "record"} \/ (r.at = "finalize" /\ v1 = "client")
    <3>1. CASE v5[h].todo # {c}
      <4> DEFINE r == [v5[h] EXCEPT !.todo = @ \ {c}]
      <4>1. r \in ReviewRow /\ r.at = "record" /\ r.file = 0
        BY <2>2 DEF ReviewRow
      <4>2. K!Goes(h, r)
        BY <2>1, <3>1
      <4> QED BY <4>1, <4>2
    <3>2. CASE v5[h].todo = {c} /\ v1 = "client"
      <4> DEFINE r == [K!NoCall EXCEPT !.at = "finalize"]
      <4>1. r \in ReviewRow /\ r.at = "finalize" /\ r.file = 0
        BY KycTyped, KycNoCall DEF ReviewRow, K!Phases
      <4>2. K!Goes(h, r)
        BY <2>1, <3>2
      <4> QED BY <3>2, <4>1, <4>2
    <3>3. CASE v5[h].todo = {c} /\ v1 # "client"
      <4>1. K!Goes(h, K!NoCall)
        BY <2>1, <3>3 DEF K!Ends
      <4> QED BY <4>1, KycTyped, KycNoCall
    <3> QED BY <3>1, <3>2, <3>3
  <2> QED BY <2>2, <2>3, <2>4, <2>5, KycOther
<1> QED BY <1>1, <1>2

LEMMA KycGoesOn ==
    ASSUME KycInv, NEW h \in K!Calls, K!FinalizeClient(h) \/ K!ReviewRequest(h) \/ K!Fail(h)
    PROVE  KycInv'
<1>1. UNCHANGED <<v1, v2, v3, v4, v6, v7>>
  BY DEF K!FinalizeClient, K!ReviewRequest, K!Fail
<1>2. PICK c \in ReviewRow :
         /\ K!Goes(h, c) /\ c.file = 0
         /\ \/ c.at = "none"
            \/ c.at = "complete" /\ c.docs = v3.docs /\ K!AllVerified /\ v1 = "client"
            \/ c.at = "judge" /\ v2 # "verified"
  <2>1. CASE K!ReviewRequest(h)
    <3> DEFINE c == [K!NoCall EXCEPT !.at = "judge"]
    <3>1. c \in ReviewRow /\ c.at = "judge" /\ c.file = 0
      BY KycTyped, KycNoCall DEF ReviewRow, K!Phases
    <3>2. K!Goes(h, c) /\ v2 # "verified"
      BY <2>1 DEF K!ReviewRequest, K!Reviewable
    <3> QED BY <3>1, <3>2
  <2>2. CASE K!FinalizeClient(h) /\ K!AllVerified
    <3> DEFINE c == [K!NoCall EXCEPT !.at = "complete", !.docs = v3.docs]
    <3>1. c \in ReviewRow /\ c.at = "complete" /\ c.file = 0 /\ c.docs = v3.docs
      BY KycTyped, KycNoCall DEF ReviewRow, K!Phases
    <3>2. K!Goes(h, c) /\ v1 = "client"
      BY <2>2 DEF K!FinalizeClient, K!At, KycInv, FilesKnown
    <3> QED BY <2>2, <3>1, <3>2
  <2>3. CASE K!Fail(h) \/ (K!FinalizeClient(h) /\ ~K!AllVerified)
    <3>1. K!Goes(h, K!NoCall)
      BY <2>3 DEF K!FinalizeClient, K!Fail, K!Ends
    <3> QED BY <3>1, KycTyped, KycNoCall
  <2> QED BY <2>1, <2>2, <2>3
<1>3. K!AllVerified => K!Required \subseteq v6
  BY DEF K!AllVerified, K!Required, KycInv, DecisionsFounded
<1>4. /\ v3' \in KycRow /\ v3'.docs = v3.docs /\ v6 \subseteq v6' /\ v6' \subseteq Checks
      /\ \A k \in Checks : v3'.results[k] = "verified" => k \in v6'
  BY <1>1, KycTyped DEF KycInv, DecisionsFounded
<1> QED BY <1>1, <1>2, <1>3, <1>4, KycOther

\* A decision: the other calls stay as they are, but for reviews that had begun.
LEMMA KycDecided ==
    ASSUME KycInv, NEW h \in K!Calls, v5[h].at \in {"approve", "judge"}, K!Decides(h),
           UNCHANGED <<v1, v4, v6, v7>>, v2' \in K!Status,
           v3' \in KycRow, v3'.docs = v3.docs, v3'.results = v3.results
    PROVE  KycInv'
<1>1. \A g \in K!Calls : v5'[g] = IF g = h THEN K!NoCall
                                  ELSE IF v5[g].at = "judge" THEN [v5[g] EXCEPT !.alone = FALSE] ELSE v5[g]
  BY DEF K!Decides
<1>2. \A g \in K!Calls : /\ v5'[g] \in ReviewRow
                         /\ g # h => /\ v5'[g].at = v5[g].at /\ v5'[g].file = v5[g].file
                                     /\ v5'[g].docs = v5[g].docs
                                     /\ v5[g].at = "judge" => ~v5'[g].alone
                                     /\ v5[g].at # "judge" => v5'[g] = v5[g]
  <2> TAKE g \in K!Calls
  <2>1. v5[g] \in ReviewRow /\ K!NoCall \in ReviewRow
    BY KycTyped
  <2> QED BY <1>1, <2>1 DEF ReviewRow
<1>3. v5'[h].at = "none" /\ v5'[h].file = 0
  BY <1>1, KycNoCall
<1>4. v5' \in [K!Calls -> ReviewRow]
  BY <1>2 DEF K!Decides
<1>5. K!TypeOK'
  BY <1>4 DEF KycInv, K!TypeOK, ReviewRow, KycRow, K!Calls
<1>6. K!Writing' = K!Writing /\ h \notin K!Writing /\ K!Writing \subseteq K!Calls
  BY <1>2, <1>3 DEF K!Writing
<1>7. \A g \in K!Calls \ {h} : KeyOf(g)' = KeyOf(g)
  BY <1>2 DEF KeyOf
<1>8. FilesKnown'
  <2>1. FilesKnown /\ Len(v4) \in Nat /\ Len(v4') = Len(v4)
    BY KycTyped DEF KycInv
  <2> QED BY <1>2, <1>3, <1>6, <1>7, <2>1 DEF FilesKnown, Named
<1>9. DecisionsFounded'
  BY <1>2, <1>3 DEF KycInv, DecisionsFounded, K!Required
<1>10. DocumentsAsRead'
  <2>1. DocumentsAsRead
    BY DEF KycInv
  <2>2. \A g \in K!Writing : g # h /\ v5'[g] = v5[g] /\ KeyOf(g)' = KeyOf(g)
    BY <1>2, <1>6, <1>7 DEF K!Writing
  <2> QED BY <1>6, <2>1, <2>2 DEF DocumentsAsRead, K!DocumentsStored
<1> QED BY <1>5, <1>8, <1>9, <1>10 DEF KycInv

LEMMA KycDecision ==
    ASSUME KycInv, NEW h \in K!Calls, K!AutoVerify(h) \/ \E decision \in K!Decisions : K!Review(h, decision)
    PROVE  KycInv'
<1>1. /\ v5[h].at \in {"approve", "judge"} /\ K!Decides(h) /\ UNCHANGED <<v1, v4, v6, v7>>
      /\ v2' \in K!Status
  BY DEF K!AutoVerify, K!Review, K!Decisions, K!At, K!Status
<1>2. PICK by \in {"nobody", "reviewer", "auto"} : v3' = [v3 EXCEPT !.by = by]
  <2>1. v3 \in KycRow
    BY KycTyped
  <2>2. CASE K!AutoVerify(h)
    BY <2>2 DEF K!AutoVerify
  <2>3. CASE \E decision \in K!Decisions : K!Review(h, decision)
    <3>1. v3' = [v3 EXCEPT !.by = IF v3.exists THEN "reviewer" ELSE v3.by] /\ v3.by \in {"nobody", "reviewer", "auto"}
      BY <2>1, <2>3 DEF K!Review, KycRow
    <3> QED BY <3>1
  <2> QED BY <2>2, <2>3
<1>3. v3' \in KycRow /\ v3'.docs = v3.docs /\ v3'.results = v3.results
  BY <1>2, KycTyped DEF KycRow
<1> QED BY <1>1, <1>3, KycDecided

\* A call that writes documents begins, with the documents of the row or a file of its own.
LEMMA KycBegun ==
    ASSUME KycInv, NEW h \in K!Calls, K!Free(h), v1 # "client", NEW c \in ReviewRow, NEW keys \in SUBSET Keys,
           K!Begins(h, c, keys), UNCHANGED <<v1, v2, v3, v6>>,
           v4' \in Seq(FileRow), Len(v4') <= MaxFiles, Len(v4') >= Len(v4),
           \A i \in DOMAIN v4 : v4'[i] = v4[i],
           \/ c.at = "submit" /\ c.file = 0 /\ c.docs = v3.docs
           \/ c.at = "merge" /\ c.file = Len(v4) + 1 /\ Len(v4') = Len(v4) + 1
              /\ v4'[c.file].kept /\ v4'[c.file].key \in keys
    PROVE  KycInv'
<1>1. /\ Len(v4) \in Nat /\ Len(v4') \in Nat /\ DOMAIN v4 = 1..Len(v4)
      /\ \A i \in DOMAIN v4 : v4[i].key \in Keys
  BY KycTyped, LenProperties DEF FileRow
<1>2. \A g \in K!Calls : /\ v5[g] \in ReviewRow /\ v5[g].file \in Nat /\ v5[g].file <= Len(v4)
                         /\ v5[g].file # 0 => v5[g].file \in DOMAIN v4
                         /\ g \in K!Writing <=> v5[g].at \in {"merge", "submit", "replace", "drop"}
  BY <1>1, KycTyped DEF KycInv, FilesKnown, ReviewRow, K!Writing
<1>3. h \notin K!Writing /\ K!Writing \subseteq K!Calls
  BY KycNoCall DEF K!Free, K!Writing
<1>4. \A g \in K!Calls : v5'[g] = IF g = h THEN [c EXCEPT !.alone = K!Writing = {}]
                                  ELSE IF g \in K!Writing THEN [v5[g] EXCEPT !.alone = FALSE] ELSE v5[g]
  BY DEF K!Begins
<1>5. \A g \in K!Calls \ {h} : /\ v5'[g] \in ReviewRow /\ v5'[g].at = v5[g].at /\ v5'[g].file = v5[g].file
                               /\ v5'[g].docs = v5[g].docs /\ (g \in K!Writing => ~v5'[g].alone)
                               /\ g \notin K!Writing => v5'[g] = v5[g]
  <2> TAKE g \in K!Calls \ {h}
  <2>1. v5'[g] = IF g \in K!Writing THEN [v5[g] EXCEPT !.alone = FALSE] ELSE v5[g]
    BY <1>4
  <2>2. v5[g] \in ReviewRow
    BY <1>2
  <2>3. CASE g \in K!Writing
    BY <2>1, <2>2, <2>3 DEF ReviewRow
  <2>4. CASE g \notin K!Writing
    BY <2>1, <2>2, <2>4
  <2> QED BY <2>3, <2>4
<1>6. /\ v5'[h] \in ReviewRow /\ v5'[h].at = c.at /\ v5'[h].file = c.file /\ v5'[h].docs = c.docs
      /\ v5'[h].alone <=> K!Writing = {}
  <2> DEFINE w == K!Writing = {}
  <2>1. v5'[h] = [c EXCEPT !.alone = w] /\ w \in BOOLEAN
    BY <1>4
  <2> HIDE DEF w
  <2>2. v5'[h] \in ReviewRow /\ v5'[h].at = c.at /\ v5'[h].file = c.file /\ v5'[h].docs = c.docs /\ v5'[h].alone = w
    BY <2>1 DEF ReviewRow
  <2> QED BY <2>2 DEF w
<1>7. v5' \in [K!Calls -> ReviewRow]
  BY <1>5, <1>6 DEF K!Begins
<1>8. K!Writing' = K!Writing \union {h}
  BY <1>2, <1>5, <1>6 DEF K!Writing
<1>9. /\ v7 \subseteq v7' /\ v7' \subseteq Keys
      /\ \A g \in K!Writing : v5[g].file # 0 => KeyOf(g) \in v7'
      /\ K!Writing # {} => keys \subseteq v7'
  <2>1. v7' = IF K!Writing = {} THEN v7 ELSE v7 \union keys \union K!KeysOf(K!Writing)
    BY DEF K!Begins
  <2>2. K!KeysOf(K!Writing) \subseteq Keys /\ \A g \in K!Writing : v5[g].file # 0 => KeyOf(g) \in K!KeysOf(K!Writing)
    BY <1>1, <1>2, <1>3 DEF K!KeysOf, KeyOf
  <2> QED BY <2>1, <2>2, KycTyped
<1>10. K!TypeOK'
  BY <1>7, <1>9 DEF KycInv, K!TypeOK, ReviewRow, KycRow, FileRow, K!Calls
<1>11. \A docs \in [Keys -> 0..MaxFiles] : Named(docs) => Named(docs)'
  BY <1>1, KycAssumption DEF Named
<1>12. \A g \in K!Calls \ {h} : v5[g].file # 0 => KeyOf(g)' = KeyOf(g)
  BY <1>2, <1>5 DEF KeyOf
<1>13. FilesKnown'
  <2>1. FilesKnown
    BY DEF KycInv
  <2>2. Named(v3.docs)'
    BY <1>11, <2>1, KycTyped DEF FilesKnown
  <2>3. \A g \in K!Calls \ {h} :
          /\ v5'[g].file <= Len(v4')
          /\ v5'[g].file # 0 <=> v5'[g].at \in {"merge", "replace", "drop"}
          /\ v5'[g].at \in {"submit", "complete", "replace"} => Named(v5[g].docs)'
          /\ v5'[g].at = "replace" => v5'[g].docs[KeyOf(g)'] = v5'[g].file
          /\ v5'[g].at \notin {"finalize", "complete"}
    <3> TAKE g \in K!Calls \ {h}
    <3>1. v5[g].docs \in [Keys -> 0..MaxFiles]
      BY <1>2 DEF ReviewRow
    <3>2. v5[g].at \in {"submit", "complete", "replace"} => Named(v5[g].docs)'
      <4> SUFFICES ASSUME v5[g].at \in {"submit", "complete", "replace"} PROVE Named(v5[g].docs)'
        OBVIOUS
      <4>1. Named(v5[g].docs) /\ v5'[g].docs = v5[g].docs
        BY <1>5, <2>1 DEF FilesKnown
      <4>2. \A k \in Keys : v5[g].docs[k] <= Len(v4') /\ (v5[g].docs[k] # 0 => v4'[v5[g].docs[k]].key = k)
        BY <1>1, <3>1, <4>1, KycAssumption DEF Named
      <4> QED BY <4>1, <4>2 DEF Named
    <3> QED BY <1>1, <1>2, <1>5, <1>12, <2>1, <3>2 DEF FilesKnown
  <2>4. /\ v5'[h].file <= Len(v4')
        /\ v5'[h].file # 0 <=> v5'[h].at \in {"merge", "replace", "drop"}
        /\ v5'[h].at \in {"submit", "complete", "replace"} => Named(v5[h].docs)'
        /\ v5'[h].at \notin {"finalize", "complete", "replace"}
    <3>1. CASE c.at = "submit"
      <4>1. v5'[h].docs = v3'.docs
        BY <1>6, <3>1
      <4>2. Named(v5[h].docs)'
        BY <2>2, <4>1 DEF Named
      <4> QED BY <1>1, <1>6, <3>1, <4>2
    <3>2. CASE c.at # "submit"
      BY <1>1, <1>6, <3>2
    <3> QED BY <3>1, <3>2
  <2>5. v1' # "client" /\ \A g \in K!Calls : g = h \/ g \in K!Calls \ {h}
    OBVIOUS
  <2> QED BY <2>2, <2>3, <2>4, <2>5 DEF FilesKnown
<1>14. DecisionsFounded'
  BY <1>2, <1>5, <1>6 DEF KycInv, DecisionsFounded, K!Required
<1>15. DocumentsAsRead'
  <2>1. DocumentsAsRead /\ FilesKnown
    BY DEF KycInv
  <2>2. K!DocumentsStored'
    <3> SUFFICES ASSUME NEW k \in Keys \ v7', v3.docs[k] # 0 PROVE v4'[v3.docs[k]].kept
      BY DEF K!DocumentsStored
    <3>1. v4[v3.docs[k]].kept
      BY <1>9, <2>1 DEF DocumentsAsRead, K!DocumentsStored
    <3>2. v3.docs[k] \in DOMAIN v4
      BY <1>1, <2>1, KycTyped DEF FilesKnown, Named
    <3> QED BY <3>1, <3>2
  <2>3. \A g \in K!Writing' :
          /\ v5'[g].alone => K!Writing' = {g}
          /\ v5'[g].file # 0 /\ KeyOf(g)' \notin v7' => v5'[g].alone
          /\ v5'[g].file # 0 /\ v5'[g].alone => v4'[v5'[g].file].kept
          /\ v5'[g].at = "drop" /\ v5'[g].alone => v3'.docs[KeyOf(g)'] = v5'[g].file
          /\ v5'[g].at \in {"submit", "replace"} =>
                \A k \in Keys \ v7' : v5'[g].docs[k] = v3'.docs[k] \/ (v5'[g].at = "replace" /\ k = KeyOf(g)')
    <3> TAKE g \in K!Writing'
    <3>1. CASE g = h
      <4>1. v5'[h].file # 0 => KeyOf(h)' \in keys
        BY <1>6 DEF KeyOf
      <4> QED BY <1>6, <1>8, <1>9, <3>1, <4>1
    <3>2. CASE g # h
      <4>1. g \in K!Writing /\ ~v5'[g].alone /\ g \in K!Calls \ {h}
        BY <1>3, <1>5, <1>8, <3>2
      <4>2. v5'[g].file # 0 => KeyOf(g)' \in v7'
        BY <1>5, <1>9, <1>12, <4>1
      <4>3. v5'[g].at = "replace" => KeyOf(g)' = KeyOf(g)
        BY <1>5, <1>12, <2>1, <4>1 DEF FilesKnown
      <4> QED BY <1>5, <1>9, <2>1, <4>1, <4>2, <4>3 DEF DocumentsAsRead
    <3> QED BY <3>1, <3>2
  <2> QED BY <2>2, <2>3 DEF DocumentsAsRead
<1> QED BY <1>10, <1>13, <1>14, <1>15 DEF KycInv

LEMMA KycBegin ==
    ASSUME KycInv, NEW h \in Hands, K!Submit(h) \/ \E k \in Keys : K!Upload(h, k)
    PROVE  KycInv'
<1>1. h \in K!Calls /\ v1 # "client" /\ K!Free(h) /\ UNCHANGED <<v1, v2, v3, v6>>
  BY DEF K!Submit, K!Upload, K!Calls
<1>2. CASE K!Submit(h)
  <2> DEFINE c == [K!NoCall EXCEPT !.at = "submit", !.docs = v3.docs]
  <2>1. c \in ReviewRow /\ c.at = "submit" /\ c.file = 0 /\ c.docs = v3.docs
    BY KycTyped, KycNoCall DEF ReviewRow, K!Phases
  <2>2. K!Begins(h, c, {}) /\ v4' = v4
    BY <1>2 DEF K!Submit
  <2> HIDE DEF c
  <2>3. /\ v4' \in Seq(FileRow) /\ Len(v4') <= MaxFiles /\ Len(v4') >= Len(v4)
        /\ \A i \in DOMAIN v4 : v4'[i] = v4[i]
    BY <2>2, KycTyped
  <2> QED BY <1>1, <2>1, <2>2, <2>3, KycBegun
<1>3. CASE \E k \in Keys : K!Upload(h, k)
  <2>1. PICK k \in Keys : K!Upload(h, k)
    BY <1>3
  <2> DEFINE c == [K!NoCall EXCEPT !.at = "merge", !.file = Len(v4) + 1]
             f == [key |-> k, kept |-> TRUE]
  <2>2. Len(v4) \in Nat /\ Len(v4) < MaxFiles /\ Len(v4) + 1 \in 0..MaxFiles
    BY <2>1, KycTyped, KycAssumption DEF K!Upload
  <2>3. c \in ReviewRow /\ c.at = "merge" /\ c.file = Len(v4) + 1
    BY <2>2, KycTyped, KycNoCall DEF ReviewRow, K!Phases
  <2>4. f \in FileRow /\ f.key = k /\ f.kept
    BY DEF FileRow
  <2>5. K!Begins(h, c, {k}) /\ v4' = Append(v4, f)
    BY <2>1 DEF K!Upload
  <2> HIDE DEF c, f
  <2>6. /\ v4' \in Seq(FileRow) /\ Len(v4') = Len(v4) + 1 /\ v4'[Len(v4) + 1] = f
        /\ \A i \in DOMAIN v4 : v4'[i] = v4[i]
    BY <2>4, <2>5, KycTyped, Appended
  <2>7. Len(v4') <= MaxFiles /\ Len(v4') >= Len(v4)
    BY <2>2, <2>6
  <2>8. v4'[c.file].kept /\ v4'[c.file].key \in {k}
    BY <2>3, <2>4, <2>6
  <2> QED BY <1>1, <2>3, <2>5, <2>6, <2>7, <2>8, KycBegun
<1> QED BY <1>2, <1>3

\* What is known of a call and its file.
LEMMA KycFile ==
    ASSUME KycInv, NEW g \in K!Calls
    PROVE  /\ v5[g] \in ReviewRow /\ v5[g].file \in Nat /\ v5[g].file <= Len(v4)
           /\ v5[g].docs \in [Keys -> 0..MaxFiles]
           /\ v5[g].file # 0 <=> v5[g].at \in {"merge", "replace", "drop"}
           /\ v5[g].file # 0 => v5[g].file \in DOMAIN v4 /\ KeyOf(g) \in Keys
           /\ g \in K!Writing <=> v5[g].at \in {"merge", "submit", "replace", "drop"}
           /\ g \in K!Writing => v1 # "client"
<1>1. v5[g] \in ReviewRow /\ Len(v4) \in Nat /\ DOMAIN v4 = 1..Len(v4)
      /\ \A i \in DOMAIN v4 : v4[i] \in FileRow
  BY KycTyped
<1>2. /\ v5[g].file \in Nat /\ v5[g].file <= Len(v4) /\ v5[g].docs \in [Keys -> 0..MaxFiles]
      /\ v5[g].file # 0 <=> v5[g].at \in {"merge", "replace", "drop"}
  BY <1>1, KycAssumption DEF KycInv, FilesKnown, ReviewRow
<1>3. v5[g].file # 0 => v5[g].file \in DOMAIN v4 /\ KeyOf(g) \in Keys
  <2> SUFFICES ASSUME v5[g].file # 0 PROVE v5[g].file \in DOMAIN v4 /\ KeyOf(g) \in Keys
    OBVIOUS
  <2> DEFINE i == v5[g].file
  <2>1. i \in Nat /\ i # 0 /\ i <= Len(v4)
    BY <1>2
  <2>2. i \in 1..Len(v4)
    BY <1>1, <2>1
  <2>3. i \in DOMAIN v4
    BY <1>1, <2>2
  <2> HIDE DEF i
  <2>4. v4[i].key \in Keys
    BY <1>1, <2>3 DEF FileRow
  <2> QED BY <2>3, <2>4 DEF KeyOf, i
<1>4. g \in K!Writing <=> v5[g].at \in {"merge", "submit", "replace", "drop"}
  BY DEF K!Writing
<1>5. g \in K!Writing => v1 # "client"
  BY DEF KycInv, FilesKnown
<1> QED BY <1>1, <1>2, <1>3, <1>4, <1>5

LEMMA KycMerge ==
    ASSUME KycInv, NEW h \in K!Calls, K!Merge(h)
    PROVE  KycInv'
<1> DEFINE n == v5[h].file
           docs == [v3.docs EXCEPT ![v4[n].key] = n]
           c == [v5[h] EXCEPT !.at = "replace", !.docs = docs]
<1>1. v5[h].at = "merge" /\ K!Goes(h, c) /\ UNCHANGED <<v1, v2, v3, v4, v6, v7>>
  BY DEF K!Merge, K!At
<1>2. /\ v5[h] \in ReviewRow /\ n \in Nat /\ n <= Len(v4) /\ n # 0 /\ KeyOf(h) \in Keys
      /\ h \in K!Writing /\ v1 # "client"
  BY <1>1, KycFile
<1>3. /\ docs \in [Keys -> 0..MaxFiles] /\ docs[KeyOf(h)] = n
      /\ \A k \in Keys \ {KeyOf(h)} : docs[k] = v3.docs[k]
  <2>1. v3.docs \in [Keys -> 0..MaxFiles] /\ n \in 0..MaxFiles
    BY <1>2, KycTyped, KycAssumption
  <2> QED BY <1>2, <2>1 DEF KeyOf
<1>4. Named(docs)
  BY <1>2, <1>3 DEF Named, KycInv, FilesKnown, KeyOf
<1>5. c \in ReviewRow /\ c.at = "replace" /\ c.file = n /\ c.docs = docs /\ c.alone = v5[h].alone
  <2> HIDE DEF docs
  <2> QED BY <1>2, <1>3 DEF ReviewRow, K!Phases
<1> HIDE DEF c, docs
<1>6. v5' \in [K!Calls -> ReviewRow] /\ v5'[h] = c /\ \A g \in K!Calls \ {h} : v5'[g] = v5[g]
  BY <1>1, <1>5, KycTyped DEF K!Goes
<1>7. K!Writing' = K!Writing
  BY <1>1, <1>5, <1>6 DEF K!Writing
<1>8. \A g \in K!Calls : KeyOf(g)' = KeyOf(g)
  BY <1>1, <1>5, <1>6 DEF KeyOf
<1>9. K!TypeOK'
  BY <1>1, <1>6 DEF KycInv, K!TypeOK, ReviewRow, KycRow, K!Calls
<1>10. FilesKnown'
  <2>1. FilesKnown /\ v1' # "client" /\ Len(v4') = Len(v4)
    BY <1>1, <1>2 DEF KycInv
  <2>2. \A g \in K!Calls \ {h} :
          /\ v5'[g].file <= Len(v4')
          /\ v5'[g].file # 0 <=> v5'[g].at \in {"merge", "replace", "drop"}
          /\ v5'[g].at \in {"submit", "complete", "replace"} => Named(v5[g].docs)'
          /\ v5'[g].at = "replace" => v5'[g].docs[KeyOf(g)'] = v5'[g].file
          /\ v5'[g].at \notin {"finalize", "complete"}
    BY <1>1, <1>2, <1>6, <1>8, <2>1 DEF FilesKnown, Named
  <2>3. /\ v5'[h].file <= Len(v4')
        /\ v5'[h].file # 0 <=> v5'[h].at \in {"merge", "replace", "drop"}
        /\ v5'[h].at \in {"submit", "complete", "replace"} => Named(v5[h].docs)'
        /\ v5'[h].at = "replace" => v5'[h].docs[KeyOf(h)'] = v5'[h].file
        /\ v5'[h].at \notin {"finalize", "complete"}
    <3>1. Named(v5[h].docs)'
      BY <1>1, <1>4, <1>5, <1>6 DEF Named
    <3> QED BY <1>1, <1>2, <1>3, <1>5, <1>6, <1>8, <3>1
  <2>4. Named(v3.docs)'
    BY <1>1, <2>1 DEF FilesKnown, Named
  <2>5. \A g \in K!Calls : g = h \/ g \in K!Calls \ {h}
    OBVIOUS
  <2> QED BY <2>1, <2>2, <2>3, <2>4, <2>5 DEF FilesKnown
<1>11. DecisionsFounded'
  BY <1>1, <1>5, <1>6 DEF KycInv, DecisionsFounded, K!Required
<1>12. DocumentsAsRead'
  <2>1. DocumentsAsRead
    BY DEF KycInv
  <2>2. \A g \in K!Writing \ {h} : v5'[g] = v5[g]
    BY <1>6 DEF K!Writing
  <2>3. /\ v5'[h].alone => K!Writing' = {h}
        /\ KeyOf(h) \notin v7 => v5'[h].alone
        /\ v5'[h].alone => v4'[v5'[h].file].kept
        /\ \A k \in Keys \ v7 : v5'[h].docs[k] = v3.docs[k] \/ k = KeyOf(h)
    BY <1>1, <1>2, <1>3, <1>5, <1>6, <1>7, <2>1 DEF DocumentsAsRead
  <2>4. \A g \in K!Writing : KeyOf(g)' = KeyOf(g)
    BY <1>8 DEF K!Writing
  <2>5. K!DocumentsStored'
    BY <1>1, <2>1 DEF DocumentsAsRead, K!DocumentsStored
  <2>6. \A g \in K!Writing' :
          /\ v5'[g].alone => K!Writing' = {g}
          /\ v5'[g].file # 0 /\ KeyOf(g)' \notin v7' => v5'[g].alone
          /\ v5'[g].file # 0 /\ v5'[g].alone => v4'[v5'[g].file].kept
          /\ v5'[g].at = "drop" /\ v5'[g].alone => v3'.docs[KeyOf(g)'] = v5'[g].file
          /\ v5'[g].at \in {"submit", "replace"} =>
                \A k \in Keys \ v7' : v5'[g].docs[k] = v3'.docs[k] \/ (v5'[g].at = "replace" /\ k = KeyOf(g)')
    <3> TAKE g \in K!Writing'
    <3>1. CASE g = h
      BY <1>1, <1>2, <1>5, <1>6, <1>8, <2>3, <3>1
    <3>2. CASE g # h
      <4>1. g \in K!Writing /\ v5'[g] = v5[g] /\ KeyOf(g)' = KeyOf(g)
        BY <1>7, <2>2, <2>4, <3>2
      <4> QED BY <1>1, <1>7, <2>1, <4>1 DEF DocumentsAsRead
    <3> QED BY <3>1, <3>2
  <2> QED BY <2>5, <2>6 DEF DocumentsAsRead
<1> QED BY <1>9, <1>10, <1>11, <1>12 DEF KycInv

LEMMA KycUpsert ==
    ASSUME KycInv, NEW h \in K!Calls, K!Upsert(h)
    PROVE  KycInv'
<1>1. /\ v5[h].at \in {"submit", "complete", "replace"} /\ v2' = "submitted"
      /\ v3' = [v3 EXCEPT !.exists = TRUE, !.docs = v5[h].docs, !.by = "nobody"]
      /\ UNCHANGED <<v1, v4, v6, v7>>
  BY DEF K!Upsert
<1>2. v5[h] \in ReviewRow /\ v5[h].docs \in [Keys -> 0..MaxFiles]
  BY KycFile
<1>3. v3' \in KycRow /\ v3'.docs = v5[h].docs /\ v3'.results = v3.results
  BY <1>1, <1>2, KycTyped DEF KycRow
<1>4. K!AllVerified => K!Required \subseteq v6
  BY DEF K!AllVerified, K!Required, KycInv, DecisionsFounded
<1>5. PICK c \in ReviewRow :
         /\ K!Goes(h, c)
         /\ \/ v5[h].at = "replace" /\ c.at = "drop" /\ c.file = v5[h].file /\ c.alone = v5[h].alone
            \/ v5[h].at # "replace" /\ c.at = "approve" /\ c.file = 0 /\ K!Required \subseteq v6
            \/ v5[h].at # "replace" /\ c.at = "none" /\ c.file = 0
  <2>1. CASE v5[h].at = "replace"
    <3> DEFINE c == [v5[h] EXCEPT !.at = "drop"]
    <3>1. c \in ReviewRow /\ c.at = "drop" /\ c.file = v5[h].file /\ c.alone = v5[h].alone
      BY <1>2 DEF ReviewRow, K!Phases
    <3>2. K!Goes(h, c)
      BY <2>1 DEF K!Upsert, K!At
    <3> QED BY <2>1, <3>1, <3>2
  <2>2. CASE v5[h].at # "replace" /\ (K!At(h, "complete") \/ (K!At(h, "submit") /\ K!AllVerified))
    <3> DEFINE c == [K!NoCall EXCEPT !.at = "approve"]
    <3>1. c \in ReviewRow /\ c.at = "approve" /\ c.file = 0
      BY KycTyped, KycNoCall DEF ReviewRow, K!Phases
    <3>2. K!Goes(h, c)
      BY <2>2 DEF K!Upsert, K!At
    <3>3. K!Required \subseteq v6
      BY <1>4, <2>2 DEF K!At, KycInv, DecisionsFounded
    <3> QED BY <2>2, <3>1, <3>2, <3>3
  <2>3. CASE v5[h].at # "replace" /\ ~(K!At(h, "complete") \/ (K!At(h, "submit") /\ K!AllVerified))
    <3>1. K!Goes(h, K!NoCall)
      BY <2>3 DEF K!Upsert, K!At, K!Ends
    <3> QED BY <2>3, <3>1, KycTyped, KycNoCall
  <2> QED BY <2>1, <2>2, <2>3
<1>6. v5' \in [K!Calls -> ReviewRow] /\ v5'[h] = c /\ \A g \in K!Calls \ {h} : v5'[g] = v5[g]
  BY <1>5, KycTyped DEF K!Goes
<1>7. K!Writing' = IF v5[h].at = "replace" THEN K!Writing ELSE K!Writing \ {h}
  BY <1>5, <1>6 DEF K!Writing
<1>8. \A g \in K!Calls \ {h} : KeyOf(g)' = KeyOf(g)
  BY <1>1, <1>6 DEF KeyOf
<1>9. v5[h].at = "replace" => KeyOf(h)' = KeyOf(h)
  BY <1>1, <1>5, <1>6 DEF KeyOf
<1>10. K!TypeOK'
  BY <1>1, <1>3, <1>6 DEF KycInv, K!TypeOK, ReviewRow, KycRow, K!Calls, K!Status
<1>11. FilesKnown'
  <2>1. FilesKnown /\ Len(v4') = Len(v4)
    BY <1>1 DEF KycInv
  <2>2. Named(v3.docs)'
    BY <1>1, <1>3, <2>1 DEF FilesKnown, Named
  <2>3. v1' = "client" => \A k \in Keys : v3'.docs[k] = 0
    <3>1. v1 = "client" => v5[h].at = "complete"
      BY <1>1, KycFile
    <3> QED BY <1>1, <1>3, <2>1, <3>1 DEF FilesKnown
  <2>4. \A g \in K!Calls \ {h} :
          /\ v5'[g].file <= Len(v4')
          /\ v5'[g].file # 0 <=> v5'[g].at \in {"merge", "replace", "drop"}
          /\ v5'[g].at \in {"submit", "complete", "replace"} => Named(v5[g].docs)'
          /\ v5'[g].at = "replace" => v5'[g].docs[KeyOf(g)'] = v5'[g].file
          /\ v5'[g].at \in {"finalize", "complete"} => v1' = "client"
          /\ v5'[g].at = "complete" => \A k \in Keys : v5'[g].docs[k] = 0
    BY <1>1, <1>6, <1>8, <2>1 DEF FilesKnown, Named
  <2>5. \A g \in K!Calls : v1' = "client" => g \notin K!Writing'
    BY <1>1, <1>7, <2>1 DEF FilesKnown
  <2>6. /\ v5'[h].file <= Len(v4')
        /\ v5'[h].file # 0 <=> v5'[h].at \in {"merge", "replace", "drop"}
        /\ v5'[h].at \notin {"finalize", "complete", "submit", "replace"}
    <3>1. Len(v4) \in Nat /\ v5[h].file <= Len(v4) /\ (v5[h].at = "replace" => v5[h].file # 0)
      BY KycFile, KycTyped
    <3> QED BY <1>1, <1>5, <1>6, <3>1
  <2>7. \A g \in K!Calls : g = h \/ g \in K!Calls \ {h}
    OBVIOUS
  <2> QED BY <2>2, <2>3, <2>4, <2>5, <2>6, <2>7 DEF FilesKnown
<1>12. DecisionsFounded'
  BY <1>1, <1>3, <1>5, <1>6 DEF KycInv, DecisionsFounded, K!Required
<1>13. DocumentsAsRead'
  <2>1. DocumentsAsRead /\ FilesKnown
    BY DEF KycInv
  <2>2. v5[h].at # "complete" => h \in K!Writing
    BY <1>1, KycFile
  <2>3. v5[h].at = "complete" => K!Writing = {} /\ \A k \in Keys : v5[h].docs[k] = 0
    BY <2>1, KycFile DEF FilesKnown, K!Writing
  <2>4. v5[h].at = "replace" => /\ v5[h].docs[KeyOf(h)] = v5[h].file /\ v5[h].file # 0 /\ KeyOf(h) \in Keys
                                /\ KeyOf(h) \notin v7 => v5[h].alone
                                /\ v5[h].alone => v4[v5[h].file].kept /\ K!Writing = {h}
    BY <2>1, <2>2, KycFile DEF DocumentsAsRead, FilesKnown
  <2>5. K!DocumentsStored'
    <3> SUFFICES ASSUME NEW k \in Keys \ v7, v5[h].docs[k] # 0 PROVE v4[v5[h].docs[k]].kept
      BY <1>1, <1>3 DEF K!DocumentsStored
    <3>1. CASE v5[h].docs[k] = v3.docs[k]
      BY <2>1, <3>1 DEF DocumentsAsRead, K!DocumentsStored
    <3>2. CASE v5[h].docs[k] # v3.docs[k]
      <4>1. v5[h].at = "replace" /\ k = KeyOf(h)
        BY <1>1, <2>1, <2>2, <2>3, <3>2 DEF DocumentsAsRead
      <4> QED BY <2>4, <4>1
    <3> QED BY <3>1, <3>2
  <2>6. \A g \in K!Writing' :
          /\ v5'[g].alone => K!Writing' = {g}
          /\ v5'[g].file # 0 /\ KeyOf(g)' \notin v7' => v5'[g].alone
          /\ v5'[g].file # 0 /\ v5'[g].alone => v4'[v5'[g].file].kept
          /\ v5'[g].at = "drop" /\ v5'[g].alone => v3'.docs[KeyOf(g)'] = v5'[g].file
          /\ v5'[g].at \in {"submit", "replace"} =>
                \A k \in Keys \ v7' : v5'[g].docs[k] = v3'.docs[k] \/ (v5'[g].at = "replace" /\ k = KeyOf(g)')
    <3> TAKE g \in K!Writing'
    <3>1. CASE g = h
      <4>1. v5[h].at = "replace"
        BY <1>7, <3>1
      <4>2. c.at = "drop" /\ c.file = v5[h].file /\ c.alone = v5[h].alone
        BY <1>5, <4>1
      <4> QED BY <1>1, <1>3, <1>6, <1>7, <1>9, <2>4, <3>1, <4>1, <4>2
    <3>2. CASE g # h
      <4>1. g \in K!Writing /\ g \in K!Calls /\ v5'[g] = v5[g] /\ KeyOf(g)' = KeyOf(g) /\ h \in K!Writing
        BY <1>6, <1>7, <1>8, <2>2, <2>3, <3>2 DEF K!Writing
      <4>2. ~v5[g].alone /\ ~v5[h].alone
        BY <2>1, <3>2, <4>1 DEF DocumentsAsRead
      <4>3. \A k \in Keys \ v7 : v5[h].docs[k] = v3.docs[k]
        BY <1>1, <2>1, <2>3, <2>4, <4>1, <4>2 DEF DocumentsAsRead
      <4> QED BY <1>1, <1>3, <2>1, <4>1, <4>2, <4>3 DEF DocumentsAsRead
    <3> QED BY <3>1, <3>2
  <2> QED BY <2>5, <2>6 DEF DocumentsAsRead
<1> QED BY <1>10, <1>11, <1>12, <1>13 DEF KycInv

LEMMA KycDrop ==
    ASSUME KycInv, NEW h \in K!Calls, K!DropOthers(h)
    PROVE  KycInv'
<1> DEFINE n == v5[h].file
           k == v4[n].key
<1>1. /\ v5[h].at = "drop" /\ UNCHANGED <<v1, v2, v3, v6>> /\ K!Goes(h, K!NoCall)
      /\ v4' = [i \in DOMAIN v4 |-> IF v4[i].key = k /\ i # n
                   THEN [v4[i] EXCEPT !.kept = FALSE] ELSE v4[i]]
      /\ v7' = IF v5[h].alone THEN v7 \ {k} ELSE v7
  BY DEF K!DropOthers, K!Ends, K!At
<1>2. n \in DOMAIN v4 /\ k \in Keys /\ k = KeyOf(h) /\ h \in K!Writing /\ v1 # "client"
  BY <1>1, KycFile DEF KeyOf
<1>3. \A i \in DOMAIN v4 : /\ v4[i] \in FileRow /\ v4'[i] \in FileRow /\ v4'[i].key = v4[i].key
                           /\ v4[i].key # k \/ i = n => v4'[i] = v4[i]
  <2> TAKE i \in DOMAIN v4
  <2>1. v4[i] \in FileRow
    BY KycTyped
  <2>2. v4'[i] = IF v4[i].key = k /\ i # n THEN [v4[i] EXCEPT !.kept = FALSE] ELSE v4[i]
    BY <1>1
  <2> QED BY <2>1, <2>2 DEF FileRow
<1>4. v4' \in Seq(FileRow) /\ Len(v4') = Len(v4) /\ DOMAIN v4' = DOMAIN v4
  <2>1. v4' = [i \in DOMAIN v4 |-> v4'[i]] /\ v4 \in Seq(FileRow)
    BY <1>1, KycTyped
  <2> QED BY <1>3, <2>1, Rewritten
<1> HIDE DEF n, k
<1>5. v5' \in [K!Calls -> ReviewRow] /\ v5'[h] = K!NoCall /\ \A g \in K!Calls \ {h} : v5'[g] = v5[g]
  BY <1>1, KycTyped DEF K!Goes
<1>6. K!Writing' = K!Writing \ {h}
  BY <1>5, KycNoCall DEF K!Writing
<1>7. \A g \in K!Calls \ {h} : v5[g].file # 0 => KeyOf(g)' = KeyOf(g) /\ v5[g].file \in DOMAIN v4
  BY <1>3, <1>5, KycFile DEF KeyOf
<1>8. v7' \subseteq v7 /\ v7 \subseteq Keys
  BY <1>1, KycTyped
<1>9. K!TypeOK'
  BY <1>1, <1>4, <1>5, <1>8, KycTyped DEF KycInv, K!TypeOK, ReviewRow, KycRow, FileRow, K!Calls
<1>10. \A docs \in [Keys -> 0..MaxFiles] : Named(docs) => Named(docs)'
  <2> SUFFICES ASSUME NEW docs \in [Keys -> 0..MaxFiles], Named(docs), NEW j \in Keys
               PROVE  docs[j] <= Len(v4') /\ (docs[j] # 0 => v4'[docs[j]].key = j)
    BY DEF Named
  <2>1. docs[j] <= Len(v4) /\ (docs[j] # 0 => v4[docs[j]].key = j) /\ docs[j] \in 0..MaxFiles
    BY DEF Named
  <2>2. docs[j] # 0 => docs[j] \in DOMAIN v4
    BY <2>1, KycTyped, KycAssumption
  <2> QED BY <1>3, <1>4, <2>1, <2>2
<1>11. FilesKnown'
  <2>1. FilesKnown /\ v1' # "client"
    BY <1>1, <1>2 DEF KycInv
  <2>2. Named(v3.docs)'
    BY <1>1, <1>10, <2>1, KycTyped DEF FilesKnown
  <2>3. \A g \in K!Calls \ {h} :
          /\ v5'[g].file <= Len(v4')
          /\ v5'[g].file # 0 <=> v5'[g].at \in {"merge", "replace", "drop"}
          /\ v5'[g].at \in {"submit", "complete", "replace"} => Named(v5[g].docs)'
          /\ v5'[g].at = "replace" => v5'[g].docs[KeyOf(g)'] = v5'[g].file
          /\ v5'[g].at \notin {"finalize", "complete"}
    <3> TAKE g \in K!Calls \ {h}
    <3>1. v5'[g] = v5[g] /\ v5[g].docs \in [Keys -> 0..MaxFiles]
      BY <1>5, KycFile
    <3>2. v5[g].at \in {"submit", "complete", "replace"} => Named(v5[g].docs)'
      <4> SUFFICES ASSUME v5[g].at \in {"submit", "complete", "replace"} PROVE Named(v5[g].docs)'
        OBVIOUS
      <4> DEFINE docs == v5[g].docs
      <4>1. docs \in [Keys -> 0..MaxFiles] /\ Named(docs)
        BY <2>1, <3>1 DEF FilesKnown
      <4>2. \A j \in Keys : docs[j] <= Len(v4') /\ (docs[j] # 0 => v4'[docs[j]].key = j)
        BY <1>10, <4>1 DEF Named
      <4> QED BY <3>1, <4>2 DEF Named
    <3>3. v5[g].at = "replace" => v5[g].file # 0 /\ KeyOf(g)' = KeyOf(g)
      BY <1>7, KycFile
    <3>4. v5[g].at \notin {"finalize", "complete"}
      BY <1>2, <2>1 DEF FilesKnown
    <3>5. v5'[g].file <= Len(v4')
      BY <1>4, <3>1, KycFile
    <3>6. v5[g].file # 0 <=> v5[g].at \in {"merge", "replace", "drop"}
      BY KycFile
    <3> QED BY <2>1, <3>1, <3>2, <3>3, <3>4, <3>5, <3>6 DEF FilesKnown
  <2>4. v5'[h].file = 0 /\ v5'[h].at = "none" /\ 0 <= Len(v4')
    BY <1>4, <1>5, KycTyped, KycNoCall
  <2>5. \A g \in K!Calls : g = h \/ g \in K!Calls \ {h}
    OBVIOUS
  <2> QED BY <2>1, <2>2, <2>3, <2>4, <2>5 DEF FilesKnown
<1>12. DecisionsFounded'
  BY <1>1, <1>5, KycNoCall DEF KycInv, DecisionsFounded, K!Required
<1>13. DocumentsAsRead'
  <2>1. DocumentsAsRead /\ FilesKnown
    BY DEF KycInv
  <2>2. /\ v5[h].alone => K!Writing = {h} /\ v3.docs[k] = n
        /\ k \notin v7 => v5[h].alone
        /\ v5[h].alone => v4[n].kept
    BY <1>1, <1>2, <2>1, KycFile DEF DocumentsAsRead, n
  <2>3. K!DocumentsStored'
    <3> SUFFICES ASSUME NEW j \in Keys \ v7', v3.docs[j] # 0 PROVE v4'[v3.docs[j]].kept
      BY <1>1 DEF K!DocumentsStored
    <3>1. v3.docs[j] \in DOMAIN v4 /\ v4[v3.docs[j]].key = j
      BY <2>1, KycTyped, KycAssumption DEF FilesKnown, Named
    <3>2. CASE j = k
      <4>1. v5[h].alone
        BY <1>1, <2>2, <3>2
      <4> QED BY <1>2, <1>3, <2>2, <3>2, <4>1
    <3>3. CASE j # k
      <4>1. j \notin v7
        BY <1>1, <3>3
      <4>2. v4[v3.docs[j]].kept
        BY <2>1, <4>1 DEF DocumentsAsRead, K!DocumentsStored
      <4> QED BY <1>3, <3>1, <3>3, <4>2
    <3> QED BY <3>2, <3>3
  <2>4. \A g \in K!Writing' :
          /\ v5'[g].alone => K!Writing' = {g}
          /\ v5'[g].file # 0 /\ KeyOf(g)' \notin v7' => v5'[g].alone
          /\ v5'[g].file # 0 /\ v5'[g].alone => v4'[v5'[g].file].kept
          /\ v5'[g].at = "drop" /\ v5'[g].alone => v3'.docs[KeyOf(g)'] = v5'[g].file
          /\ v5'[g].at \in {"submit", "replace"} =>
                \A j \in Keys \ v7' : v5'[g].docs[j] = v3'.docs[j] \/ (v5'[g].at = "replace" /\ j = KeyOf(g)')
    <3> TAKE g \in K!Writing'
    <3>1. g \in K!Writing /\ g # h /\ g \in K!Calls /\ v5'[g] = v5[g]
      BY <1>5, <1>6 DEF K!Writing
    <3>2. ~v5[g].alone /\ ~v5[h].alone
      BY <1>2, <2>1, <3>1 DEF DocumentsAsRead
    <3>3. v7' = v7
      BY <1>1, <3>2
    <3>4. (v5[g].file # 0 => KeyOf(g)' = KeyOf(g)) /\ (v5[g].at = "replace" => v5[g].file # 0)
      BY <1>7, <3>1, KycFile
    <3> QED BY <1>1, <2>1, <3>1, <3>2, <3>3, <3>4 DEF DocumentsAsRead
  <2> QED BY <2>3, <2>4 DEF DocumentsAsRead
<1> QED BY <1>9, <1>11, <1>12, <1>13 DEF KycInv

LEMMA KycBoot ==
    ASSUME KycInv, K!Boot
    PROVE  KycInv'
<1>1. /\ v5' = [g \in K!Calls |-> K!NoCall] /\ UNCHANGED <<v1, v3, v4, v6, v7>>
      /\ v2' \in K!Status
  BY KycTyped DEF K!Boot, K!Status
<1>2. v5' \in [K!Calls -> ReviewRow] /\ \A g \in K!Calls : v5'[g] = K!NoCall
  BY <1>1, KycTyped
<1>3. K!Writing' = {}
  BY <1>2, KycNoCall DEF K!Writing
<1>4. K!TypeOK'
  BY <1>1, <1>2 DEF KycInv, K!TypeOK, ReviewRow, KycRow, K!Calls
<1>5. FilesKnown'
  <2>1. FilesKnown /\ Len(v4) \in Nat
    BY KycTyped DEF KycInv
  <2> QED BY <1>1, <1>2, <1>3, <2>1, KycNoCall DEF FilesKnown, Named
<1>6. DecisionsFounded'
  BY <1>1, <1>2, KycNoCall DEF KycInv, DecisionsFounded
<1>7. DocumentsAsRead'
  BY <1>1, <1>3 DEF KycInv, DocumentsAsRead, K!DocumentsStored
<1> QED BY <1>4, <1>5, <1>6, <1>7 DEF KycInv

LEMMA KycStep == KycInv /\ [K!Next]_(K!vars) => KycInv'
<1> SUFFICES ASSUME KycInv, [K!Next]_(K!vars) PROVE KycInv'
  OBVIOUS
<1>1. CASE UNCHANGED K!vars
  BY <1>1 DEF K!vars, KycInv, K!TypeOK, FilesKnown, Named, DecisionsFounded, DocumentsAsRead, K!DocumentsStored,
              KeyOf, K!Writing, K!Required
<1>2. CASE \E h \in Hands : \/ \E c \in Checks, result \in K!Answers : K!Check(h, c, result)
                            \/ \E found \in K!Found : K!Digilocker(h, found)
                            \/ \E k \in Keys : K!Upload(h, k)
                            \/ K!RecordNext(h) \/ K!FinalizeClient(h) \/ K!Submit(h) \/ K!Merge(h) \/ K!Upsert(h)
                            \/ K!AutoVerify(h) \/ K!DropOthers(h) \/ K!Fail(h)
  <2> Hands \subseteq K!Calls
    BY DEF K!Calls
  <2> QED BY <1>2, KycCheck, KycRecord, KycGoesOn, KycBegin, KycMerge, KycUpsert, KycDecision, KycDrop
<1>3. CASE \E h \in Crew : \/ K!ReviewRequest(h) \/ K!Fail(h)
                           \/ \E decision \in K!Decisions : K!Review(h, decision)
  <2> Crew \subseteq K!Calls
    BY DEF K!Calls
  <2> QED BY <1>3, KycGoesOn, KycDecision
<1>4. CASE K!Boot
  BY <1>4, KycBoot
<1> QED BY <1>1, <1>2, <1>3, <1>4 DEF K!Next

LEMMA KycHolds == KycInv => K!DocumentsStored
BY DEF KycInv, DocumentsAsRead

LEMMA KycDecides == KycInv /\ [K!Next]_(K!vars) => [K!Decided]_(K!vars)
<1> SUFFICES ASSUME KycInv, K!Next PROVE K!Decided
  OBVIOUS
<1>1. \A h \in K!Calls : /\ v5[h] \in ReviewRow /\ (v5[h].at = "approve" => K!Required \subseteq v6)
                         /\ v5[h].at = "judge" /\ v5[h].alone => v2 # "verified"
  BY KycTyped DEF KycInv, DecisionsFounded
<1>2. CASE \E h \in Hands : K!AutoVerify(h)
  BY <1>1, <1>2 DEF K!AutoVerify, K!Decided, K!At, K!Calls
<1>3. CASE \E h \in Crew, decision \in K!Decisions : K!Review(h, decision)
  <2>1. PICK h \in Crew, decision \in K!Decisions : K!Review(h, decision)
    BY <1>3
  <2>2. v5[h].at = "judge" /\ v5'[h] = K!NoCall /\ h \in K!Calls
    BY <2>1 DEF K!Review, K!At, K!Decides, K!Calls
  <2>3. v2 = "verified" => ~v5[h].alone
    BY <1>1, <2>2
  <2> QED BY <2>2, <2>3 DEF K!Decided, K!At
<1>4. CASE K!Boot
  BY <1>4 DEF K!Boot, K!Decided
<1>5. CASE \E h \in Hands : K!Upsert(h)
  BY <1>5 DEF K!Upsert, K!Decided
<1>6. CASE UNCHANGED v2
  BY <1>6 DEF K!Decided
<1>7. \/ \E h \in Hands : K!AutoVerify(h) \/ K!Upsert(h)
      \/ \E h \in Crew, decision \in K!Decisions : K!Review(h, decision)
      \/ K!Boot \/ UNCHANGED v2
  BY DEF K!Next, K!Check, K!Digilocker, K!Upload, K!RecordNext, K!FinalizeClient, K!Submit, K!Merge,
       K!DropOthers, K!Fail, K!ReviewRequest
<1> QED BY <1>2, <1>3, <1>4, <1>5, <1>6, <1>7

-----------------------------------------------------------------------------
\* What is known while kyc is at work.
KycAtWork == part = "kyc" => KycInv

LEMMA KycAtWorkStep == KycAtWork /\ [Next]_vars => KycAtWork'
<1> SUFFICES ASSUME KycInv, part = "kyc", [Next]_vars PROVE KycInv'
  BY DEF KycAtWork, Next, vars
<1>1. [K!Next]_(K!vars)
  BY DEF Next, vars, K!vars
<1> QED BY <1>1, KycStep

\* A document of the submission is a file that is kept, unless the key was uploaded beside another
\* call that writes documents (uploadKycDocument, upsertSubmission, deleteOtherFiles).
THEOREM SubmittedIsStored == Spec => []DocumentsStored
<1>1. Init => KycAtWork
  BY KycInit DEF Init, KycAtWork
<1>2. KycAtWork => DocumentsStored
  BY KycHolds DEF KycAtWork, DocumentsStored
<1> QED BY <1>1, <1>2, KycAtWorkStep, PTL DEF Spec

\* An account becomes verified by a reviewer, or when every check its role requires has passed at some
\* time, and what is verified is rejected only by a review that began before (assertReviewable,
\* maybeAutoFinalizeClientKyc, submitKyc).
THEOREM VerifiedForAReason == Spec => DecisionsHold
<1>1. Init => KycAtWork
  BY KycInit DEF Init, KycAtWork
<1>2. KycAtWork /\ [Next]_vars => [part = "kyc" => K!Decided]_vars
  <2> SUFFICES ASSUME KycAtWork, Next, part = "kyc", vars' # vars PROVE K!Decided
    OBVIOUS
  <2>1. KycInv /\ K!Next
    BY DEF KycAtWork, Next
  <2>2. K!Decided \/ UNCHANGED K!vars
    BY <2>1, KycDecides
  <2>3. ~UNCHANGED K!vars
    BY DEF Next, vars, K!vars
  <2> QED BY <2>2, <2>3
<1> QED BY <1>1, <1>2, KycAtWorkStep, PTL DEF Spec, DecisionsHold
=============================================================================
