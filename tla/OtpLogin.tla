------------------------------ MODULE OtpLogin ------------------------------
(***************************************************************************)
(* Signing in with a one-time code: AuthService.login, resendOtp and       *)
(* verifyOtp, OtpService and the rate limits they consume, for one         *)
(* customer.                                                               *)
(*                                                                         *)
(* Time is counted in units of the resend cooldown.  A code is abstracted  *)
(* to whether the customer types the code of the row or another one.       *)
(* Verification reads the otp_codes row, awaits argon2, and saves the      *)
(* entity it read: TypeORM writes every column that then differs.          *)
(***************************************************************************)
EXTENDS Integers, Sequences, FiniteSets

CONSTANTS Requests,     \* HTTP requests, each served once
          MaxTime,      \* when the clock stops
          Ttl,          \* how long a code is valid
          MaxAttempts,  \* otp_codes.max_attempts
          Limit,        \* sign-ins and mails accepted per Window
          Window,
          VerifyLimit,  \* verifications accepted per code
          Faults        \* "status", "mail": what may go wrong

OtpAssumption ==
  /\ {MaxTime, Ttl, MaxAttempts, Limit, Window, VerifyLimit} \subseteq Nat
  /\ Faults \subseteq {"status", "mail"}

VARIABLES now,      \* the clock
          otp,      \* otp_codes, in the order of their insertion
          bucket,   \* bucket[k]: the calls that consumed rate limit k
          active,   \* users.status = 'active'
          req       \* req[r]: what request r still has to do

vars == <<now, otp, bucket, active, req>>

\* login:user:<email> and otp_send:email:<email>.  A member is named by its
\* millisecond, in which no other call is assumed to consume the limit; by tells
\* apart those of one tick.
Buckets == {"login", "send"}
Member == [by : Requests, at : Nat]

\* tries: the calls that consumed otp_verify:req:<id>, whose window is longer
\* than Ttl; so none leaves it while the code is valid.
Otp == [sentAt : Nat, attempts : Nat, used : BOOLEAN, tries : Nat]

Points == {"idle", "send", "create", "mail", "check", "enter", "done"}
Kinds == {"none", "login", "resend", "verify"}
\* limited: when the rate limit of mails let the request pass.
\* trustDevice, and whether the browser named its platform and time zone.
Trusts == {"no", "yes", "unnamed"}
Request == [pc : Points, call : Kinds, otp : Nat, right : BOOLEAN, trust : Trusts,
            attempts : Nat, active : BOOLEAN, limited : Nat, reply : {"none", "ok", "refused", "invalid"}]

Fresh == [pc |-> "idle", call |-> "none", otp |-> 0, right |-> FALSE, trust |-> "no",
          attempts |-> 0, active |-> FALSE, limited |-> 0, reply |-> "none"]

Otps == DOMAIN otp

\* verifyOtp: not used, not expired, attempts left.
Valid(o) == ~otp[o].used /\ now <= otp[o].sentAt + Ttl /\ otp[o].attempts < MaxAttempts

Init ==
  /\ now = 0
  /\ otp = << >>
  /\ bucket = [k \in Buckets |-> {}]
  /\ active = TRUE
  /\ req = [r \in Requests |-> Fresh]

-----------------------------------------------------------------------------
Begin(r) == req[r].pc = "idle"

\* The requests being served.
Serving == {r \in Requests : req[r].pc \notin {"idle", "done"}}

\* The codes a customer has: their rows have been mailed.
Mailed(o) == \E r \in Requests : req[r].otp = o /\ req[r].call \in {"login", "resend"}
                                 /\ req[r].reply = "ok"

Answer(r, reply) == req' = [req EXCEPT ![r].pc = "done", ![r].reply = reply]

\* zremrangebyscore: the calls still in the window.
Within(calls) == {m \in calls : m.at > now - Window}

Record(r, k) == bucket' = [bucket EXCEPT ![k] = Within(@) \cup {[by |-> r, at |-> now]}]

\* Faulty: the call itself is not counted.
ConsumeBefore(r, k) == Record(r, k) /\ Cardinality(Within(bucket[k])) <= Limit

\* RateLimitService.consume: the call is recorded, then counted.
Consume(r, k) == Record(r, k) /\ Cardinality(bucket'[k]) <= Limit

\* ...and refused: it has been recorded all the same.
ConsumeRefused(r, k) == Record(r, k) /\ Cardinality(bucket'[k]) > Limit

\* POST /auth/login without a trusted device.
Login(r) ==
  /\ Begin(r)
  /\ \/ /\ Consume(r, "login")
        /\ req' = [req EXCEPT ![r] = [Fresh EXCEPT !.call = "login",
             !.pc = IF active THEN "send" ELSE "done",
             !.reply = IF active THEN "none" ELSE "refused"]]
     \/ /\ ConsumeRefused(r, "login")
        /\ req' = [req EXCEPT ![r] = [Fresh EXCEPT !.call = "login", !.pc = "done",
                                                   !.reply = "refused"]]
  /\ UNCHANGED <<now, otp, active>>

\* POST /auth/otp/resend, for the row of an earlier code in whatever state.
ResendOtp(r, o) ==
  /\ Begin(r)
  /\ Mailed(o)
  /\ req' = [req EXCEPT ![r] = [Fresh EXCEPT !.call = "resend",
       !.pc = IF active THEN "send" ELSE "done",
       !.reply = IF active THEN "none" ELSE "refused"]]
  /\ UNCHANGED <<now, otp, bucket, active>>

\* createAndSendLoginOtp: the rate limit, and the user read again.
CreateAndSendLoginOtp(r) ==
  /\ req[r].pc = "send"
  /\ \/ /\ Consume(r, "send")
        /\ IF active THEN req' = [req EXCEPT ![r].pc = "create", ![r].limited = now]
           ELSE Answer(r, "refused")
     \/ ConsumeRefused(r, "send") /\ Answer(r, "refused")
  /\ UNCHANGED <<now, otp, active>>

CreateOtp(r) ==
  /\ req[r].pc = "create"
  /\ otp' = Append(otp, [sentAt |-> now, attempts |-> 0, used |-> FALSE, tries |-> 0])
  /\ req' = [req EXCEPT ![r].pc = "mail", ![r].otp = Len(otp) + 1]
  /\ UNCHANGED <<now, bucket, active>>

\* sendLoginOtpEmail; when it fails the row stays, its code known to nobody.
SendLoginOtpEmail(r) ==
  /\ req[r].pc = "mail"
  /\ \/ Answer(r, "ok")
     \/ "mail" \in Faults /\ Answer(r, "refused")
  /\ UNCHANGED <<now, otp, bucket, active>>

-----------------------------------------------------------------------------
\* POST /auth/otp/verify: the rate limit of the code, then its row.
VerifyRead(r, o, right, trust) ==
  LET accepted == otp[o].tries < VerifyLimit /\ Valid(o) IN
  /\ Begin(r)
  /\ Mailed(o)
  /\ otp' = [otp EXCEPT ![o].tries = @ + 1]
  /\ req' = [req EXCEPT ![r] =
       [Fresh EXCEPT !.call = "verify", !.otp = o, !.right = right, !.trust = trust,
          !.attempts = otp[o].attempts, !.active = active,
          !.pc = IF accepted THEN "check" ELSE "done",
          !.reply = IF accepted THEN "none" ELSE "invalid"]]
  /\ UNCHANGED <<now, bucket, active>>

\* After argon2: the entity read is saved with one more attempt, and used_at
\* set if the code was right, or else still null.
VerifySave(r) ==
  LET q == req[r] IN
  /\ q.pc = "check"
  /\ otp' = [otp EXCEPT ![q.otp].attempts = q.attempts + 1, ![q.otp].used = q.right]
  /\ IF q.right THEN req' = [req EXCEPT ![r].pc = "enter"] ELSE Answer(r, "refused")
  /\ UNCHANGED <<now, bucket, active>>

\* The rest of verifyOtp: the status read with the row, the fingerprint of a
\* device to be trusted, and the tokens (module Sessions).
Enter(r) ==
  /\ req[r].pc = "enter"
  /\ Answer(r, IF req[r].active /\ req[r].trust # "unnamed" THEN "ok" ELSE "refused")
  /\ UNCHANGED <<now, otp, bucket, active>>

Tick ==
  /\ now < MaxTime
  /\ now' = now + 1
  /\ UNCHANGED <<otp, bucket, active, req>>

SetStatus ==
  /\ "status" \in Faults
  /\ active' = ~active
  /\ UNCHANGED <<now, otp, bucket, req>>

Next ==
  \/ \E r \in Requests :
       \/ Login(r)
       \/ \E o \in Otps : ResendOtp(r, o)
       \/ \E o \in Otps, right \in BOOLEAN, trust \in Trusts : VerifyRead(r, o, right, trust)
       \/ CreateAndSendLoginOtp(r) \/ CreateOtp(r) \/ SendLoginOtpEmail(r)
       \/ VerifySave(r) \/ Enter(r)
  \/ Tick
  \/ SetStatus

Spec == Init /\ [][Next]_vars

-----------------------------------------------------------------------------
OtpTypeOK ==
  /\ now \in 0 .. MaxTime
  /\ otp \in Seq(Otp)
  /\ \A o \in Otps : otp[o].attempts <= MaxAttempts /\ otp[o].sentAt <= now
  /\ bucket \in [Buckets -> SUBSET Member]
  /\ active \in BOOLEAN
  /\ req \in [Requests -> Request]

(***************************************************************************)
(* However logins and resends overlap, no more of them than the limit get  *)
(* past the rate limit of mails, to create and send a code, in any window. *)
(***************************************************************************)
SendsWithinLimit ==
  \A t \in 0 .. now : Cardinality({r \in Requests :
     /\ req[r].call \in {"login", "resend"} /\ req[r].otp # 0
     /\ req[r].limited \in t .. t + Window - 1}) <= Limit

(***************************************************************************)
(* otp.service.ts:109: "This code is single-use"; :93: "This code works    *)
(* for one login only".  At most one verification accepts a code.          *)
(***************************************************************************)
Verifications(o) == {r \in Requests : req[r].call = "verify" /\ req[r].otp = o
                                      /\ req[r].reply # "invalid"}

SingleUse ==
  \A o \in Otps : Cardinality({r \in Verifications(o) : req[r].right /\ req[r].reply = "ok"}) <= 1

(***************************************************************************)
(* auth-system-design.md:42: "check not used/expired, attempts<max. If     *)
(* fail: attempts++".  No more wrong codes are compared with a row than    *)
(* its attempts allow.                                                     *)
(***************************************************************************)
WrongWithinAttempts ==
  \A o \in Otps : Cardinality({r \in Verifications(o) : ~req[r].right}) <= MaxAttempts

(***************************************************************************)
(* A code that was used signed its customer in, unless the account was not *)
(* active or the browser could not be named: those two answers cost the    *)
(* customer the code.                                                      *)
(***************************************************************************)
UsedMeansSignedIn ==
  \A o \in Otps : otp[o].used =>
     \E r \in Verifications(o) :
        /\ req[r].right
        /\ req[r].pc = "enter" \/ req[r].reply = "ok"
           \/ ~req[r].active \/ req[r].trust = "unnamed"

(***************************************************************************)
(* auth-system-design.md:51: "Allow resend only if previous OTP expired or *)
(* cooldown passed (60s)".                                                 *)
(***************************************************************************)
ResendCooldown ==
  \A o \in Otps : o > 1 => otp[o].sentAt > otp[o - 1].sentAt
=============================================================================
