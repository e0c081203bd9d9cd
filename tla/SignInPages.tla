----------------------------- MODULE SignInPages -----------------------------
(***************************************************************************)
(* The pages of one browser tab that sign a customer in (Login.tsx,        *)
(* Otp.tsx, Register.tsx), the guards of their routes (ProtectedRoute.tsx) *)
(* and the sign-in request that AuthProvider keeps for them, against a     *)
(* server that mails a code for each request it accepts.  The provider     *)
(* outlives the pages: an answer is heard by it after the page that asked  *)
(* has gone, and moves the browser to where the answer leads.              *)
(*                                                                         *)
(* How long a code is valid, the number of its attempts and the limits of  *)
(* mails are those of OtpLogin; here the server refuses as it likes, and a *)
(* code for being used or another request's.  The countdown runs in units  *)
(* of the clock.                                                           *)
(***************************************************************************)
EXTENDS Integers, Sequences, FiniteSets, FiniteSetsExt

CONSTANTS Requests,   \* calls that the tab makes
          Cooldown,   \* where the countdown begins, 60 in the code
          MaxTime     \* bound on the time

SignInAssumption == Cooldown \in Nat \ {0} /\ MaxTime \in Nat

VARIABLES steady,       \* no answer is lost, and no page left while it waits for one
          now,
          page, auth,   \* where the browser is, and whether it is signed in
          pending,      \* the sign-in request to enter a code for, 0 for none
          left,         \* secondsLeft
          said,         \* what the page says
          call,         \* the calls
          codes,        \* the codes that were mailed
          registered    \* a registration request was stored

tabVars == <<page, auth, pending, left, said>>
vars == <<steady, now, tabVars, call, codes, registered>>

Kinds == {"login", "verify", "resend", "register"}
Pages == {"login", "register", "otp", "dashboard"}
Answers == {"none", "refused", "tokens", "code", "stored"}

\* by: who hears the answer; id: the request a code is for; good: whether the
\* newest code was typed, unused.
Call == [at : {"none", "sent", "served", "over"}, kind : Kinds, by : {"page", "app", "nobody"},
         id : Nat, typed : Nat, answer : Answers, new : Nat, good : BOOLEAN]
NoCall == [at |-> "none", kind |-> "login", by |-> "nobody", id |-> 0, typed |-> 0,
           answer |-> "none", new |-> 0, good |-> FALSE]
Code == [sentAt : Nat, resent : BOOLEAN, used : BOOLEAN]

Quiet == [what |-> "nothing", by |-> NoCall]

SignInTypeOK ==
  /\ steady \in BOOLEAN
  /\ now \in 0 .. MaxTime
  /\ page \in Pages /\ auth \in BOOLEAN
  /\ pending \in 0 .. Len(codes) /\ left \in 0 .. Cooldown
  /\ said.what \in {"nothing", "resent", "not resent", "invalid", "not sent", "requested", "not requested"}
  /\ said.by \in Call
  /\ call \in [Requests -> Call] /\ codes \in Seq(Code) /\ registered \in BOOLEAN
  /\ (page = "dashboard") = auth
  /\ page = "otp" => pending # 0

Init ==
  /\ steady \in BOOLEAN
  /\ now = 0 /\ page \in {"login", "register"} /\ auth = FALSE
  /\ pending = 0 /\ left = 0 /\ said = Quiet
  /\ call = [r \in Requests |-> NoCall] /\ codes = << >> /\ registered = FALSE

-----------------------------------------------------------------------------
(* Routes                                                                  *)

UnderWay(r) == call[r].at \in {"sent", "served"}
Busy(kind) == \E r \in Requests : UnderWay(r) /\ call[r].by = "page" /\ call[r].kind = kind

\* Where the guards let one go: GuestRoute and OtpRoute.
Land(p, signedIn, request) ==
  IF signedIn THEN "dashboard"
  ELSE IF p = "dashboard" \/ (p = "otp" /\ request = 0) THEN "login" ELSE p

\* The page of the code begins its countdown.
Mount == left' = Cooldown

\* The browser goes to p; the calls that are left lose their page, not the app.
Go(p, signedIn, request, others) ==
  LET to == Land(p, signedIn, request)
  IN /\ auth' = signedIn /\ pending' = request /\ page' = to
     /\ IF to = page /\ p = page
        THEN UNCHANGED <<left, said>> /\ call' = others
        ELSE /\ said' = Quiet
             /\ IF to = "otp" THEN Mount ELSE left' = 0
             /\ call' = [r \in Requests |->
                  IF others[r].by = "page" THEN [others[r] EXCEPT !.by = "app"] ELSE others[r]]

Visit(p) ==
  /\ ~auth /\ p \in {"login", "register", "otp"} /\ p # page
  /\ steady => \A r \in Requests : ~UnderWay(r)
  /\ Go(p, auth, pending, call)
  /\ UNCHANGED <<now, codes, registered>>

Logout ==
  /\ auth /\ \A r \in Requests : ~UnderWay(r)
  /\ Go("login", FALSE, 0, call)
  /\ UNCHANGED <<now, codes, registered>>

\* Only the tokens, which this module leaves out, outlive a reload.
Reload ==
  /\ ~steady /\ ~auth
  /\ page' = Land(page, FALSE, 0) /\ pending' = 0 /\ left' = 0 /\ said' = Quiet
  /\ call' = [r \in Requests |-> [call[r] EXCEPT !.by = "nobody"]]
  /\ UNCHANGED <<now, auth, codes, registered>>

-----------------------------------------------------------------------------
(* What the pages ask for                                                  *)

Send(r, kind, id, typed) ==
  /\ call[r].at = "none"
  /\ call' = [call EXCEPT ![r] = [NoCall EXCEPT !.at = "sent", !.kind = kind, !.by = "page", !.id = id, !.typed = typed]]
  /\ said' = Quiet
  /\ UNCHANGED <<now, page, auth, pending, left, codes, registered>>

Login(r) == page = "login" /\ ~Busy("login") /\ Send(r, "login", 0, 0)
Register(r) == page = "register" /\ ~Busy("register") /\ Send(r, "register", 0, 0)
Verify(r, c) == page = "otp" /\ ~Busy("verify") /\ Send(r, "verify", pending, c)

DisabledResend == left > 0

Resend(r) == page = "otp" /\ ~DisabledResend /\ ~Busy("resend") /\ Send(r, "resend", pending, 0)

Tick ==
  /\ now < MaxTime /\ now' = now + 1
  /\ left' = IF page = "otp" THEN Max({left - 1, 0}) ELSE left
  /\ UNCHANGED <<page, auth, pending, said, call, codes, registered>>

-----------------------------------------------------------------------------
(* The server                                                              *)

Served(r, answer, new, good) ==
  call' = [call EXCEPT ![r].at = "served", ![r].answer = answer, ![r].new = new, ![r].good = good]

Refuse(r) ==
  /\ call[r].at = "sent" /\ call[r].kind # "verify"
  /\ Served(r, "refused", 0, FALSE)
  /\ UNCHANGED <<now, tabVars, codes, registered>>

\* A code is mailed for a sign-in or a resend.
MailCode(r) ==
  /\ call[r].at = "sent" /\ call[r].kind \in {"login", "resend"}
  /\ codes' = Append(codes, [sentAt |-> now, resent |-> call[r].kind = "resend", used |-> FALSE])
  /\ Served(r, "code", Len(codes'), FALSE)
  /\ UNCHANGED <<now, tabVars, registered>>

\* A trusted device needs no code.
TrustedLogin(r) ==
  /\ call[r].at = "sent" /\ call[r].kind = "login"
  /\ Served(r, "tokens", 0, FALSE)
  /\ UNCHANGED <<now, tabVars, codes, registered>>

ServeVerify(r) ==
  LET c == call[r].typed
      right == c = call[r].id /\ ~codes[c].used
  IN /\ call[r].at = "sent" /\ call[r].kind = "verify"
     /\ codes' = IF right THEN [codes EXCEPT ![c].used = TRUE] ELSE codes
     /\ Served(r, IF right THEN "tokens" ELSE "refused", 0, c = Len(codes) /\ ~codes[c].used)
     /\ UNCHANGED <<now, tabVars, registered>>

ServeRegister(r) ==
  /\ call[r].at = "sent" /\ call[r].kind = "register"
  /\ registered' = TRUE /\ Served(r, "stored", 0, FALSE)
  /\ UNCHANGED <<now, tabVars, codes>>

-----------------------------------------------------------------------------
(* The answers                                                             *)

Over(r) == [call EXCEPT ![r].at = "over"]
Says(r, what) == said' = IF call[r].by = "page" THEN [what |-> what, by |-> call[r]] ELSE said

\* Faulty: a resent code is entered for the request of the first.
NextPendingFirst(r) == IF call[r].kind = "resend" THEN pending ELSE call[r].new

\* setPendingOtpRequestId of login and resendOtp.
NextPending(r) == call[r].new

\* login and verifyOtp: the provider, then the page it goes to.
SignedIn(r) ==
  /\ call[r].at = "served" /\ call[r].by # "nobody" /\ call[r].answer = "tokens"
  /\ Go("dashboard", TRUE, 0, Over(r))
  /\ UNCHANGED <<now, codes, registered>>

CodeMailed(r) ==
  /\ call[r].at = "served" /\ call[r].by # "nobody" /\ call[r].answer = "code" /\ call[r].kind = "login"
  /\ Go("otp", auth, NextPending(r), Over(r))
  /\ UNCHANGED <<now, codes, registered>>

Resent(r) ==
  /\ call[r].at = "served" /\ call[r].by # "nobody" /\ call[r].answer = "code" /\ call[r].kind = "resend"
  /\ pending' = NextPending(r) /\ call' = Over(r)
  /\ left' = IF call[r].by = "page" THEN Cooldown ELSE left
  /\ Says(r, "resent")
  /\ UNCHANGED <<now, page, auth, codes, registered>>

Registered(r) ==
  /\ call[r].at = "served" /\ call[r].by # "nobody" /\ call[r].answer = "stored"
  /\ call' = Over(r) /\ Says(r, "requested")
  /\ UNCHANGED <<now, page, auth, pending, left, codes, registered>>

Failure == [login |-> "not sent", verify |-> "invalid", resend |-> "not resent", register |-> "not requested"]

\* The catch of each page.
Fails(r) ==
  /\ call[r].by # "nobody"
  /\ \/ call[r].at = "served" /\ call[r].answer = "refused"
     \/ ~steady /\ call[r].at = "served"
  /\ call' = Over(r) /\ Says(r, Failure[call[r].kind])
  /\ UNCHANGED <<now, page, auth, pending, left, codes, registered>>

Step ==
  \/ Tick \/ Logout \/ Reload
  \/ \E p \in Pages : Visit(p)
  \/ \E r \in Requests :
       \/ Login(r) \/ Register(r) \/ Resend(r)
       \/ \E c \in DOMAIN codes : Verify(r, c)
       \/ Refuse(r) \/ MailCode(r) \/ TrustedLogin(r) \/ ServeVerify(r) \/ ServeRegister(r)
       \/ SignedIn(r) \/ CodeMailed(r) \/ Resent(r) \/ Registered(r) \/ Fails(r)

Next == Step /\ UNCHANGED steady

Spec == Init /\ [][Next]_vars

-----------------------------------------------------------------------------
(* Properties                                                              *)

\* A code is entered for the request of the last that was mailed, when nothing
\* is under way (AuthProvider.tsx:137-139, 173-174).
PendingIsNewest ==
  (steady /\ pending # 0 /\ \A r \in Requests : ~UnderWay(r)) => pending = Len(codes)

\* "Resend available in" (Otp.tsx:119): a code is resent no sooner than the
\* countdown allows after the one before.
MailsAreSpaced ==
  steady => \A i \in 2 .. Len(codes) : codes[i].resent => codes[i].sentAt - codes[i - 1].sentAt >= Cooldown

\* "OTP resent." (Otp.tsx:74) and "Your request has been sent." (Register.tsx:25)
\* are said of what the server has done.
SaidIsDone ==
  /\ said.what = "resent" => said.by.new \in DOMAIN codes /\ codes[said.by.new].resent
  /\ said.what = "requested" => registered

\* "Invalid or expired code." (Otp.tsx:60) is not said of the newest code, unused.
RefusedIsInvalid == said.what = "invalid" => ~said.by.good

\* "Could not resend code." (Otp.tsx:78) is said when none was mailed.
FailedNotSent == said.what = "not resent" => said.by.answer # "code"
=============================================================================
