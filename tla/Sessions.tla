---------------------------- MODULE Sessions ----------------------------
(***************************************************************************)
(* The sessions of one driver's account: one-time passwords, refresh and   *)
(* access tokens, the rule that a second login is refused while the first  *)
(* device is in use, and the ways a session ends.  Time is counted in      *)
(* seconds, the precision of a token's issue time.                         *)
(*                                                                         *)
(* A device runs one handler at a time; `call` is what it has in flight    *)
(* between two awaits.                                                     *)
(***************************************************************************)
EXTENDS Integers, Sequences, FiniteSets

CONSTANTS
    Devices,
    StaleAfter,              \* STALE_SESSION_MS
    AccessLife, RefreshLife, \* JWT_EXPIRES_IN, expiryDays
    OtpLife,                 \* OTP_EXPIRY_MINUTES, and the window of countRecent
    OtpLimit,                \* at most this many in that window
    Mixes,                   \* the calls a behaviour is made of
    MaxClock, MaxTokens, MaxOtps, MaxResets    \* bounds

VARIABLES
    mix,           \* the calls made, chosen at the start
    clock,
    account,       \* users: status, last_active_at, sessions_valid_after (0: NULL)
    tokens,        \* refresh_tokens, with the reset that preceded their login
    otps,          \* otps of the account's phone
    device,        \* what a device keeps: its refresh token and its access token
    call,          \* what a device has in flight
    resetting,     \* forceLogoutUser is between its two updates
    resets         \* history: how often every token was revoked at once

vars == <<mix, clock, account, tokens, otps, device, call, resetting, resets>>

Status   == {"active", "blocked", "inactive"}
NoCall   == [at |-> "none", n |-> 0, seen |-> 0]
SignedOut == [refresh |-> 0, access |-> 0]
Phases   == {"none", "create", "revoke", "renew", "clear", "insert", "use", "activate",
             "spend", "close"}

TypeOK ==
    /\ mix \in Mixes /\ clock \in 1..MaxClock
    /\ account \in [status : Status, lastActive : 0..MaxClock, validAfter : 0..MaxClock]
    /\ tokens \in Seq([at : 1..MaxClock, revoked : BOOLEAN, since : 0..MaxResets,
                       raced : BOOLEAN])
    /\ otps \in Seq([at : 1..MaxClock, used : BOOLEAN])
    /\ device \in [Devices -> [refresh : 0..MaxTokens, access : 0..MaxClock]]
    /\ call \in [Devices -> [at : Phases, n : Nat, seen : 0..MaxResets]]
    /\ resetting \in BOOLEAN /\ resets \in 0..MaxResets

Init ==
    /\ mix \in Mixes /\ clock = 1
    /\ account = [status |-> "active", lastActive |-> 0, validAfter |-> 0]
    /\ tokens = <<>> /\ otps = <<>>
    /\ device = [d \in Devices |-> SignedOut]
    /\ call = [d \in Devices |-> NoCall]
    /\ resetting = FALSE /\ resets = 0

-----------------------------------------------------------------------------
Free(d)        == call[d] = NoCall
At(d, phase)   == call[d].at = phase
Goes(d, phase) == call' = [call EXCEPT ![d].at = phase]
Starts(d, phase, n) ==
    call' = [call EXCEPT ![d] = [at |-> phase, n |-> n, seen |-> resets]]
Ends(d)        == call' = [call EXCEPT ![d] = NoCall]

\* RefreshTokenModel.findValid, findActiveForUser.
Valid(i) == /\ i \in DOMAIN tokens /\ ~tokens[i].revoked
            /\ clock < tokens[i].at + RefreshLife

\* rejectIfActiveSession: a session blocks while it has been used lately.
Blocking == /\ \E i \in DOMAIN tokens : Valid(i)
            /\ account.lastActive # 0 /\ clock - account.lastActive <= StaleAfter

\* authenticate: the access token is not expired and not older than the reset.
Accepted(d) == /\ device[d].access # 0 /\ clock < device[d].access + AccessLife
               /\ account.status = "active"
               /\ device[d].access >= account.validAfter

\* A new pair of tokens.
Issue(d, since, raced) ==
    /\ Len(tokens) < MaxTokens
    /\ tokens' = Append(tokens, [at |-> clock, revoked |-> FALSE, since |-> since,
                                 raced |-> raced])
    /\ device' = [device EXCEPT ![d] = [refresh |-> Len(tokens) + 1, access |-> clock]]

RevokeAll(ts) == [i \in DOMAIN ts |-> [ts[i] EXCEPT !.revoked = TRUE]]

-----------------------------------------------------------------------------
(* Logging in, renewing, logging out                                       *)

\* login, googleSignIn, firebasePhoneLogin up to rejectIfActiveSession.
LoginRequest(d) ==
    /\ "login" \in mix /\ Free(d) /\ account.status = "active" /\ ~Blocking
    /\ Starts(d, "create", 0)
    /\ UNCHANGED <<mix, clock, account, tokens, otps, device, resetting, resets>>

\* A login by Firebase marks the phone verified, which activates the account.
CreateSession(d) ==
    /\ At(d, "create")
    /\ Issue(d, resets, FALSE)
    /\ \/ UNCHANGED account
       \/ account' = [account EXCEPT !.status = "active"]
    /\ Ends(d)
    /\ UNCHANGED <<mix, clock, otps, resetting, resets>>

\* refreshToken refuses a blocked account, not an inactive one.
RefreshRequest(d) ==
    /\ "refresh" \in mix /\ Free(d) /\ Valid(device[d].refresh) /\ account.status # "blocked"
    /\ Starts(d, "revoke", device[d].refresh)
    /\ UNCHANGED <<mix, clock, account, tokens, otps, device, resetting, resets>>

RevokeOld(d) ==
    /\ At(d, "revoke")
    /\ tokens' = [tokens EXCEPT ![call[d].n].revoked = TRUE]
    /\ Goes(d, "renew")
    /\ UNCHANGED <<mix, clock, account, otps, device, resetting, resets>>

\* A token renewed across a reset was found before it and is stored after it.
Renew(d) ==
    /\ At(d, "renew")
    /\ LET old == tokens[call[d].n]
       IN  Issue(d, old.since, old.raced \/ call[d].seen # resets)
    /\ Ends(d)
    /\ UNCHANGED <<mix, clock, account, otps, resetting, resets>>

\* Any authenticated request; the heartbeat is not awaited and may fail.
Request(d) ==
    /\ Free(d) /\ Accepted(d)
    /\ account' = [account EXCEPT !.lastActive = clock]
    /\ UNCHANGED <<mix, clock, tokens, otps, device, call, resetting, resets>>

\* logout, of this device or of all of them.
Logout(d) ==
    /\ "logout" \in mix /\ Free(d) /\ Accepted(d)
    /\ \/ /\ tokens' = [i \in DOMAIN tokens |-> IF i = device[d].refresh
                           THEN [tokens[i] EXCEPT !.revoked = TRUE] ELSE tokens[i]]
          /\ UNCHANGED resets
       \/ /\ resets < MaxResets /\ resets' = resets + 1
          /\ tokens' = RevokeAll(tokens)
    /\ device' = [device EXCEPT ![d] = SignedOut]
    /\ UNCHANGED <<mix, clock, account, otps, call, resetting>>

-----------------------------------------------------------------------------
(* One-time passwords                                                      *)

Recent    == {i \in DOMAIN otps : otps[i].at + OtpLife > clock}
Usable(i) == i \in Recent /\ ~otps[i].used

\* countRecent, as sendOtp and forgotPassword compare it.
BelowLimit == Cardinality(Recent) < OtpLimit

SendOtpRequest(d) ==
    /\ "otp" \in mix /\ Free(d) /\ BelowLimit /\ account.status # "blocked"
    /\ Starts(d, "clear", 0)
    /\ UNCHANGED <<mix, clock, account, tokens, otps, device, resetting, resets>>

\* OtpModel.create: the earlier ones are invalidated, then one is inserted.
ClearOtps(d) ==
    /\ At(d, "clear")
    /\ otps' = [i \in DOMAIN otps |-> [otps[i] EXCEPT !.used = TRUE]]
    /\ Goes(d, "insert")
    /\ UNCHANGED <<mix, clock, account, tokens, device, resetting, resets>>

InsertOtp(d) ==
    /\ At(d, "insert") /\ Len(otps) < MaxOtps
    /\ otps' = Append(otps, [at |-> clock, used |-> FALSE])
    /\ Ends(d)
    /\ UNCHANGED <<mix, clock, account, tokens, device, resetting, resets>>

\* verifyOtp and resetPassword: findValid.
OtpRequest(d) ==
    /\ "otp" \in mix /\ Free(d)
    /\ \E i \in DOMAIN otps, phase \in {"use", "spend"} : Usable(i) /\ Starts(d, phase, i)
    /\ UNCHANGED <<mix, clock, account, tokens, otps, device, resetting, resets>>

UseOtp(d) ==
    /\ call[d].at \in {"use", "spend"}
    /\ otps' = [otps EXCEPT ![call[d].n].used = TRUE]
    /\ Goes(d, IF At(d, "use") THEN "activate" ELSE "close")
    /\ UNCHANGED <<mix, clock, account, tokens, device, resetting, resets>>

\* UserModel.verifyPhone activates the account, whatever its status was.
ActivateByOtp(d) ==
    /\ At(d, "activate")
    /\ account' = [account EXCEPT !.status = "active"]
    /\ IF Blocking THEN Ends(d) ELSE Goes(d, "create")
    /\ UNCHANGED <<mix, clock, tokens, otps, device, resetting, resets>>

\* resetPassword revokes the refresh tokens; access tokens live out their time.
ResetPassword(d) ==
    /\ At(d, "close") /\ resets < MaxResets
    /\ tokens' = RevokeAll(tokens) /\ resets' = resets + 1
    /\ Ends(d)
    /\ UNCHANGED <<mix, clock, account, otps, device, resetting>>

-----------------------------------------------------------------------------
(* The administrator, or the broker for his driver                         *)

\* Bug: access tokens are refused from now on, refresh tokens still renew.
ForceLogoutRequestKeeps ==
    /\ "force" \in mix /\ ~resetting /\ resets < MaxResets
    /\ resetting' = TRUE /\ resets' = resets + 1
    /\ UNCHANGED <<mix, clock, account, tokens, otps, device, call>>
\* forceLogoutUser, forceLogoutDriver: two updates, each awaited.
ForceLogoutRequest ==
    /\ "force" \in mix /\ ~resetting /\ resets < MaxResets
    /\ resetting' = TRUE /\ resets' = resets + 1
    /\ tokens' = RevokeAll(tokens)
    /\ UNCHANGED <<mix, clock, account, otps, device, call>>

MarkSessionsReset ==
    /\ resetting /\ resetting' = FALSE
    /\ account' = [account EXCEPT !.validAfter = clock]
    /\ UNCHANGED <<mix, clock, tokens, otps, device, call, resets>>

\* updateUserStatus, deleteUser.
SetStatus(s) ==
    /\ "status" \in mix /\ s # account.status
    /\ account' = [account EXCEPT !.status = s]
    /\ UNCHANGED <<mix, clock, tokens, otps, device, call, resetting, resets>>

Tick ==
    /\ clock < MaxClock /\ clock' = clock + 1
    /\ UNCHANGED <<mix, account, tokens, otps, device, call, resetting, resets>>

Next ==
    \/ \E d \in Devices :
          \/ LoginRequest(d) \/ CreateSession(d) \/ RefreshRequest(d) \/ RevokeOld(d)
          \/ Renew(d) \/ Request(d) \/ Logout(d) \/ SendOtpRequest(d) \/ ClearOtps(d)
          \/ InsertOtp(d) \/ OtpRequest(d) \/ UseOtp(d) \/ ActivateByOtp(d)
          \/ ResetPassword(d)
    \/ ForceLogoutRequest \/ MarkSessionsReset \/ Tick
    \/ \E s \in Status : SetStatus(s)

Spec == Init /\ [][Next]_vars
-----------------------------------------------------------------------------
\* When every session has been ended at once, by the administrator, by a new password or
\* by a logout of all devices, a token that still renews belongs to a later login, or was
\* being renewed at that very moment (revokeAllForUser, refreshToken).
RevokedForGood ==
    \A i \in DOMAIN tokens : Valid(i) => tokens[i].since = resets \/ tokens[i].raced
=============================================================================
