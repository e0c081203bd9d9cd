------------------------------ MODULE Sessions ------------------------------
(***************************************************************************)
(* Refresh tokens and trusted devices of one customer, as TokenService,    *)
(* DeviceService and AuthService keep them.                                *)
(*                                                                         *)
(* A request is a sequence of single statements on two tables, no two of   *)
(* them in one transaction and with argon2 awaited in between, so that     *)
(* requests interleave at every statement.  Tokens are presented by the    *)
(* browser that was given them, whole: the hash of a token is not          *)
(* modelled, the rows it finds are.                                        *)
(***************************************************************************)
EXTENDS Integers, Sequences, FiniteSets, FiniteSetsExt

CONSTANTS Requests,    \* HTTP requests, each served once
          Devices,     \* identifiers a trusted device can be given
          MaxTokens,   \* tokens issued in a behaviour
          Signals,     \* what may happen beside the requests
          NoDevice     \* a session on a device that is not trusted

SessionsAssumption ==
  /\ MaxTokens \in Nat
  /\ NoDevice \notin Devices
  /\ Signals \subseteq {"expiry", "status", "device"}

VARIABLES token,    \* refresh_tokens, in the order of their insertion
          device,   \* device[d]: "none", "trusted" or "revoked"
          active,   \* users.status = 'active'
          req       \* req[r]: what request r still has to do

vars == <<token, device, active, req>>

Token == [device : Devices \cup {NoDevice},
          revokedAt : Nat,          \* 0 is null; later stamps are larger
          expired : BOOLEAN,
          rotatedFrom : Nat, rotatedTo : Nat]   \* 0 is null

\* From where a request stands: the token it presented or chose as rotatedFrom
\* (0: none), and the device of the session.
Points == {"idle", "revoke", "revokeAll", "audit", "find", "insert", "link", "touch", "done"}
Kinds == {"none", "refresh", "logout", "trusted", "otp"}
Replies == {"none", "ok", "refused", "reuse"}
Request == [pc : Points, call : Kinds, device : Devices \cup {NoDevice},
            presented : Nat, from : Nat, new : Nat, reply : Replies]

Fresh == [pc |-> "idle", call |-> "none", device |-> NoDevice,
          presented |-> 0, from |-> 0, new |-> 0, reply |-> "none"]

\* The trusted_devices row of a device: none, trusted, or revoked.
DeviceStates == {"none", "trusted", "revoked"}

Tokens == DOMAIN token
\* The tokens a browser can still use.
Live == {t \in Tokens : token[t].revokedAt = 0 /\ ~token[t].expired}

\* The rows that revokeAllForDevice updates: the device's, or else the user's.
Scope(d) == {t \in Tokens : d = NoDevice \/ token[t].device = d}

\* Date.now(): later than every stamp so far.
Now == 1 + Max({token[t].revokedAt : t \in Tokens} \cup {0})

\* The answer with the token has been sent.
Delivered(t) == \A r \in Requests : ~(req[r].pc = "link" /\ req[r].new = t)

Init ==
  /\ token = << >>
  /\ device = [d \in Devices |-> "none"]
  /\ active = TRUE
  /\ req = [r \in Requests |-> Fresh]

-----------------------------------------------------------------------------
Begin(r) == req[r].pc = "idle"

\* The requests being served.
Serving == {r \in Requests : req[r].pc \notin {"idle", "done"}}

Goto(r, pc) == req' = [req EXCEPT ![r].pc = pc]
Answer(r, reply) == req' = [req EXCEPT ![r].pc = "done", ![r].reply = reply]

\* verifyRefreshToken, from one read of the row: every check is made on what
\* was read, and argon2 awaited before the next statement.
Verify(r, call, t, next) ==
  LET row == token[t]
      at(pc, reply) == req' = [req EXCEPT ![r] =
        [Fresh EXCEPT !.pc = pc, !.call = call, !.presented = t,
                      !.device = row.device, !.reply = reply]]
  IN
  /\ Begin(r)
  /\ Delivered(t)
  /\ CASE row.revokedAt # 0 -> at("revokeAll", "reuse")
       [] row.revokedAt = 0 /\ row.expired -> at("done", "refused")
       [] row.revokedAt = 0 /\ ~row.expired /\ row.rotatedTo # 0 -> at("revokeAll", "reuse")
       [] OTHER -> at(next, "none")
  /\ UNCHANGED <<token, device, active>>

\* POST /auth/refresh; the user was read with the token.
Refresh(r, t) == Verify(r, "refresh", t, IF active THEN "revoke" ELSE "revokeAll")

\* POST /auth/logout.
Logout(r, t) == Verify(r, "logout", t, "revoke")

\* revokeRefreshToken, of the token presented.
Revoke(r) ==
  /\ req[r].pc = "revoke"
  /\ token' = [token EXCEPT ![req[r].presented].revokedAt = Now]
  /\ IF req[r].call = "refresh" THEN Goto(r, "find") ELSE Answer(r, "ok")
  /\ UNCHANGED <<device, active>>

\* handleReuse, and refreshTokens for an account that is not active.
RevokeAllForDevice(r) ==
  /\ req[r].pc = "revokeAll"
  /\ token' = [t \in Tokens |-> IF t \in Scope(req[r].device)
                                THEN [token[t] EXCEPT !.revokedAt = Now] ELSE token[t]]
  /\ Goto(r, "audit")
  /\ UNCHANGED <<device, active>>

\* The login_audit row is saved, then the error thrown.
Audit(r) ==
  /\ req[r].pc = "audit"
  /\ Answer(r, IF req[r].reply = "reuse" THEN "reuse" ELSE "refused")
  /\ UNCHANGED <<token, device, active>>

-----------------------------------------------------------------------------
\* verifyOtp after its code was accepted, without or with trustDevice.
OtpAccepted(r, d) ==
  /\ Begin(r)
  /\ active
  /\ d # NoDevice => device[d] = "none"
  /\ device' = IF d = NoDevice THEN device ELSE [device EXCEPT ![d] = "trusted"]
  /\ req' = [req EXCEPT ![r] = [Fresh EXCEPT !.pc = "find", !.call = "otp", !.device = d]]
  /\ UNCHANGED <<token, active>>

\* login with a device token: validateTrustedDevice reads the row...
ValidateTrustedDevice(r, d) ==
  /\ Begin(r)
  /\ active
  /\ device[d] = "trusted"
  /\ req' = [req EXCEPT ![r] = [Fresh EXCEPT !.pc = "touch", !.call = "trusted", !.device = d]]
  /\ UNCHANGED <<token, device, active>>

\* ...and saves the entity with a new lastUsedAt: TypeORM writes every column
\* that now differs from the row, revoked_at among them.
TouchDevice(r) ==
  /\ req[r].pc = "touch"
  /\ device' = [device EXCEPT ![req[r].device] = "trusted"]
  /\ Goto(r, "find")
  /\ UNCHANGED <<token, active>>

\* Faulty: the latest token of the device, revoked or not.
FindLatest(r) ==
  LET d == req[r].device
      of == {t \in Tokens : d # NoDevice /\ token[t].device = d} IN
  /\ req[r].pc = "find"
  /\ req' = [req EXCEPT ![r].pc = "insert", ![r].from = Max(of \cup {0})]
  /\ UNCHANGED <<token, device, active>>

\* issueRefreshToken: the device's most recently revoked token, if any...
FindLatestRevoked(r) ==
  LET d == req[r].device
      revoked == {t \in Tokens : d # NoDevice /\ token[t].device = d
                                 /\ token[t].revokedAt # 0}
      latest == {t \in revoked : \A u \in revoked : token[u].revokedAt <= token[t].revokedAt}
  IN
  /\ req[r].pc = "find"
  /\ \E t \in IF latest = {} THEN {0} ELSE latest :
        req' = [req EXCEPT ![r].pc = "insert", ![r].from = t]
  /\ UNCHANGED <<token, device, active>>

\* ...the new row...
InsertToken(r) ==
  LET new == Len(token) + 1 IN
  /\ req[r].pc = "insert"
  /\ new <= MaxTokens
  /\ token' = Append(token, [device |-> req[r].device, revokedAt |-> 0, expired |-> FALSE,
                             rotatedFrom |-> req[r].from, rotatedTo |-> 0])
  /\ req' = IF req[r].from # 0
            THEN [req EXCEPT ![r].pc = "link", ![r].new = new]
            ELSE [req EXCEPT ![r].pc = "done", ![r].new = new, ![r].reply = "ok"]
  /\ UNCHANGED <<device, active>>

\* ...and its id in the row it follows, before the answer.
LinkToken(r) ==
  /\ req[r].pc = "link"
  /\ token' = [token EXCEPT ![req[r].from].rotatedTo = req[r].new]
  /\ Answer(r, "ok")
  /\ UNCHANGED <<device, active>>

-----------------------------------------------------------------------------
\* Time passes the expiresAt of a token.
Expire(t) ==
  /\ "expiry" \in Signals
  /\ ~token[t].expired
  /\ token' = [token EXCEPT ![t].expired = TRUE]
  /\ UNCHANGED <<device, active, req>>

\* An administrator disables the account or enables it again.
SetStatus ==
  /\ "status" \in Signals
  /\ active' = ~active
  /\ UNCHANGED <<token, device, req>>

\* DELETE /me/devices/:id.
RevokeDeviceForUser(d) ==
  /\ "device" \in Signals
  /\ device[d] # "none"
  /\ device' = [device EXCEPT ![d] = "revoked"]
  /\ UNCHANGED <<token, active, req>>

Next ==
  \/ \E r \in Requests :
       \/ \E t \in Tokens : Refresh(r, t) \/ Logout(r, t)
       \/ \E d \in Devices \cup {NoDevice} : OtpAccepted(r, d)
       \/ \E d \in Devices : ValidateTrustedDevice(r, d)
       \/ Revoke(r) \/ RevokeAllForDevice(r) \/ Audit(r)
       \/ TouchDevice(r) \/ FindLatestRevoked(r) \/ InsertToken(r) \/ LinkToken(r)
  \/ \E t \in Tokens : Expire(t)
  \/ SetStatus
  \/ \E d \in Devices : RevokeDeviceForUser(d)

Spec == Init /\ [][Next]_vars

-----------------------------------------------------------------------------
SessionsTypeOK ==
  /\ token \in Seq(Token) /\ Len(token) <= MaxTokens
  /\ device \in [Devices -> DeviceStates]
  /\ active \in BOOLEAN
  /\ req \in [Requests -> Request]
  /\ \A t \in Tokens : token[t].rotatedFrom < t /\ token[t].rotatedTo \in 0 .. Len(token)

(***************************************************************************)
(* A token that has a successor is revoked, at any interleaving: the check *)
(* of revokedAt alone refuses a token that was rotated, and the check of   *)
(* rotatedTo after argon2 is a second net.                                 *)
(***************************************************************************)
RotatedIsRevoked == \A t \in Tokens : token[t].rotatedTo # 0 => token[t].revokedAt # 0

(***************************************************************************)
(* Requests that do not overlap exchange tokens one for one: a device (or  *)
(* the untrusted browsers together) has no more live tokens than sign-ins. *)
(***************************************************************************)
SignIns(d) == {r \in Requests : req[r].call \in {"otp", "trusted"} /\ req[r].device = d
                                /\ req[r].new # 0}

LiveWithinSignIns ==
  \A d \in Devices \cup {NoDevice} :
     Cardinality({t \in Live : token[t].device = d}) <= Cardinality(SignIns(d))

(***************************************************************************)
(* A refresh on a trusted device that overlaps nothing links the token it  *)
(* gives to the token it was given, which is linked to it or to the token  *)
(* of a later sign-in on the device.                                       *)
(***************************************************************************)
SuccessorLinked ==
  \A r \in Requests :
     (req[r].call = "refresh" /\ req[r].reply = "ok" /\ req[r].device # NoDevice) =>
        /\ token[req[r].new].rotatedFrom = req[r].presented
        /\ token[req[r].presented].rotatedTo >= req[r].new

(***************************************************************************)
(* auth-system-design.md:46: "Detect reuse -> revoke session chain and     *)
(* force OTP login".  When a request is answered that a token was reused,  *)
(* no token of its device (or, without a device, of the user) is live.     *)
(***************************************************************************)
ReuseEndsSession ==
  \A r \in Requests :
    (req[r].pc = "audit" /\ req'[r].reply = "reuse" /\ req'[r].pc = "done")
       => Scope(req[r].device) \cap Live = {}

(***************************************************************************)
(* auth-system-design.md:56: "revoke device_token_hash".  A device that    *)
(* its owner revoked is not trusted again.                                 *)
(***************************************************************************)
RevokedDeviceStays ==
  [][\A d \in Devices : device[d] = "revoked" => device'[d] = "revoked"]_vars

(***************************************************************************)
(* auth-system-design.md:56: "invalidate refresh tokens for that device".  *)
(* While nothing is being served, a revoked device has no live token.      *)
(***************************************************************************)
RevokedDeviceSignedOut ==
  (\A r \in Requests : req[r].pc \in {"idle", "done"}) =>
     \A d \in Devices : device[d] = "revoked" => \A t \in Live : token[t].device # d
=============================================================================
