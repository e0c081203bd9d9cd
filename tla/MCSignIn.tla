------------------------------ MODULE MCSignIn ------------------------------
(***************************************************************************)
(* How people get an account and get into it: one-time codes, refresh      *)
(* tokens and trusted devices, registrations and their review, the         *)
(* accounts the staff edit, and the pages of the browser that sign in.     *)
(*                                                                         *)
(* They share no variables, so a run checks them side by side: one part,   *)
(* chosen at the beginning, acts, and the others stay as they are.  A part *)
(* is a component and how much of what it is asked for overlaps: in the    *)
(* parts called alone it serves one request at a time.                     *)
(***************************************************************************)
EXTENDS UserAccounts, TLC

CONSTANTS Parts,       \* the parts a run lets act
          Overlap,     \* Overlap[p]: requests that part p serves at once
          None         \* null

\* Of one-time codes.
CONSTANTS CodeTime, Ttl, MaxAttempts, Limit, Window, VerifyLimit
\* Of refresh tokens and registrations.
CONSTANTS Devices, MaxTokens, MaxCrashes
\* Of the pages, and of those that are left or lose an answer.
CONSTANTS Cooldown, PageTime, HastyTime, HastyCalls

Symmetry == Permutations(Calls)

MCOpening == [u \in Users |-> 1]

CodeParts == {"codes", "codes alone"}
SessionParts == {"sessions", "sessions alone"}
RegistrationParts == {"registrations", "registrations alone"}
AccountParts == {"adjustments", "accounts alone", "accounts at once"}
AllParts == CodeParts \cup SessionParts \cup RegistrationParts \cup AccountParts \cup {"pages"}

Alone == {"codes alone", "sessions alone", "registrations alone", "accounts alone"}

MCOverlap == [p \in AllParts |-> CASE p \in Alone -> 1
                                   [] p \in {"registrations", "adjustments"} -> 3
                                   [] OTHER -> 2]

ASSUME SignInAssumption ==
  /\ Parts \subseteq AllParts
  /\ \A p \in Alone : Overlap[p] = 1
  /\ IsFiniteSet(Calls)
  /\ UserAccountsAssumption

VARIABLE part    \* the part that acts in this behaviour

-----------------------------------------------------------------------------
VARIABLES otpNow, otpOtp, otpBucket, otpActive, otpReq

Codes == INSTANCE OtpLogin WITH
  Requests <- Calls, MaxTime <- CodeTime, Faults <- {"status", "mail"},
  now <- otpNow, otp <- otpOtp, bucket <- otpBucket, active <- otpActive,
  req <- otpReq
ASSUME CodesAssumption == Codes!OtpAssumption

VARIABLES sessionToken, sessionDevice, sessionActive, sessionReq

Tokens == INSTANCE Sessions WITH
  Requests <- Calls, NoDevice <- None, Signals <- {"expiry", "status", "device"},
  token <- sessionToken, device <- sessionDevice, active <- sessionActive,
  req <- sessionReq
ASSUME TokensAssumption == Tokens!SessionsAssumption

VARIABLES registrationUser, registrationProfile, registrationRequests,
          registrationCall, registrationCrashes

Registrations == INSTANCE Registration WITH
  Emails <- Users, NoEmail <- None, user <- registrationUser,
  profile <- registrationProfile, requests <- registrationRequests,
  call <- registrationCall, crashes <- registrationCrashes
ASSUME RegistrationsAssumption == Registrations!RegistrationAssumption

VARIABLES formSteady, formNow, formPage, formAuth, formPending, formLeft,
          formSaid, formCall, formCodes, formRegistered

Form == INSTANCE SignInPages WITH
  Requests <- Calls, MaxTime <- PageTime, steady <- formSteady,
  now <- formNow, page <- formPage, auth <- formAuth, pending <- formPending,
  left <- formLeft, said <- formSaid, call <- formCall, codes <- formCodes,
  registered <- formRegistered
ASSUME FormAssumption == Form!SignInAssumption

codeVars == <<otpNow, otpOtp, otpBucket, otpActive, otpReq>>
sessionVars == <<sessionToken, sessionDevice, sessionActive, sessionReq>>
registrationVars == <<registrationUser, registrationProfile, registrationRequests,
                      registrationCall, registrationCrashes>>
formVars == <<formSteady, formNow, formPage, formAuth, formPending, formLeft,
              formSaid, formCall, formCodes, formRegistered>>
vars == <<part, codeVars, sessionVars, registrationVars, uaVars, formVars>>

-----------------------------------------------------------------------------
\* The variables of the parts that do not act are None.
Init ==
  /\ part \in Parts
  /\ IF part \in CodeParts THEN Codes!Init
     ELSE /\ otpNow = None /\ otpOtp = None /\ otpBucket = None
          /\ otpActive = None /\ otpReq = None
  /\ IF part \in SessionParts THEN Tokens!Init
     ELSE /\ sessionToken = None /\ sessionDevice = None
          /\ sessionActive = None /\ sessionReq = None
  /\ IF part \in RegistrationParts THEN Registrations!Init
     ELSE /\ registrationUser = None /\ registrationProfile = None
          /\ registrationRequests = None /\ registrationCall = None
          /\ registrationCrashes = None
  /\ IF part \in AccountParts THEN AccountsInit
     ELSE /\ balance = None /\ ledger = None /\ status = None
          /\ audits = None /\ signedIn = None /\ call = None
  /\ IF part = "pages" THEN Form!Init
     ELSE /\ formSteady = None /\ formNow = None /\ formPage = None
          /\ formAuth = None /\ formPending = None /\ formLeft = None
          /\ formSaid = None /\ formCall = None /\ formCodes = None
          /\ formRegistered = None

\* What the part serves is not more than it may.
Fits(serving) == Cardinality(serving) <= Overlap[part]

CodesStep ==
  /\ part \in CodeParts /\ Codes!Next /\ Fits(Codes!Serving')
  /\ UNCHANGED <<sessionVars, registrationVars, uaVars, formVars>>

SessionsStep ==
  /\ part \in SessionParts /\ Tokens!Next /\ Fits(Tokens!Serving')
  /\ UNCHANGED <<codeVars, registrationVars, uaVars, formVars>>

RegistrationsStep ==
  /\ part \in RegistrationParts /\ Registrations!Next
  /\ Fits(Registrations!Serving')
  /\ UNCHANGED <<codeVars, sessionVars, uaVars, formVars>>

\* Among adjustments no status is changed.
AccountsStep ==
  /\ part \in AccountParts /\ AccountsNext /\ Fits(Serving')
  /\ part = "adjustments" => \A c \in Calls : call'[c].pc # "saving"
  /\ UNCHANGED <<codeVars, sessionVars, registrationVars, formVars>>

\* A tab that loses answers and leaves pages is followed for less long.
PagesStep ==
  /\ part = "pages" /\ Form!Next
  /\ ~formSteady => /\ formNow' <= HastyTime
                    /\ Cardinality({r \in Calls : formCall'[r].at # "none"}) <= HastyCalls
  /\ UNCHANGED <<codeVars, sessionVars, registrationVars, uaVars>>

Next ==
  /\ CodesStep \/ SessionsStep \/ RegistrationsStep \/ AccountsStep \/ PagesStep
  /\ UNCHANGED part

Spec == Init /\ [][Next]_vars

-----------------------------------------------------------------------------
(* Properties                                                              *)

SignInTypeOK ==
  /\ part \in AllParts
  /\ part \in CodeParts => Codes!OtpTypeOK
  /\ part \in SessionParts => Tokens!SessionsTypeOK
  /\ part \in RegistrationParts => Registrations!RegistrationTypeOK
  /\ part \in AccountParts => AccountsTypeOK
  /\ part = "pages" => Form!SignInTypeOK

(***************************************************************************)
(* What may happen once happens once.  A token that was rotated is not     *)
(* live any more, whatever overlaps.  If requests do not overlap, a code   *)
(* signs in once, a device has as many live tokens as it signed in, at     *)
(* most, and an address has one pending registration.                      *)
(***************************************************************************)
OncePerSignIn ==
  /\ part \in SessionParts => Tokens!RotatedIsRevoked
  /\ part = "codes alone" => Codes!SingleUse
  /\ part = "sessions alone" => Tokens!LiveWithinSignIns
  /\ part = "registrations alone" => Registrations!OnePending

(***************************************************************************)
(* Limits hold, whatever overlaps: mails of codes per window, and on the   *)
(* page the pause between two of them; wrong guesses of a code, if its     *)
(* verifications do not overlap.                                           *)
(***************************************************************************)
LimitsKept ==
  /\ part \in CodeParts => Codes!SendsWithinLimit
  /\ part = "codes alone" => Codes!WrongWithinAttempts
  /\ part = "pages" => Form!MailsAreSpaced

(***************************************************************************)
(* Rows written in separate statements agree.  A code is used only by a    *)
(* verification that went on to sign in; a token names its predecessor and *)
(* successor; a registration that was answered is listed, and only a crash *)
(* leaves a user without a profile; the status of an account follows the   *)
(* review of its only request; the audit of an adjustment matches a row of *)
(* the ledger; the ledger ends in the balance, unless a change of the      *)
(* status overlaps an adjustment, and the audits add up, if nothing does.  *)
(***************************************************************************)
RowsAgree ==
  /\ part \in CodeParts => Codes!UsedMeansSignedIn
  /\ part = "sessions alone" => Tokens!SuccessorLinked
  /\ part \in RegistrationParts =>
       Registrations!RegisteredIsListed /\ Registrations!ProfilesComplete
  /\ part = "registrations alone" => Registrations!StatusFollowsReview
  /\ part \in AccountParts => AuditsMatchLedger
  /\ part \in {"adjustments", "accounts alone"} => LedgerBacksBalance
  /\ part = "accounts alone" => AuditsAddUp

(***************************************************************************)
(* The page asks for the newest code that was mailed, unless answers are   *)
(* lost or pages left, and says of a mail or a registration only what the  *)
(* server did.                                                             *)
(***************************************************************************)
PageFollowsServer ==
  part = "pages" => Form!PendingIsNewest /\ Form!SaidIsDone

(***************************************************************************)
(* No step gives back what was taken away.  When a request is answered     *)
(* that its token was reused, no token of its device is live, if requests  *)
(* do not overlap; a registration never undoes a review.                   *)
(***************************************************************************)
TakenAwayStays == [][
  /\ part = "sessions alone" => Tokens!ReuseEndsSession
  /\ part \in RegistrationParts =>
       Registrations!ReviewsOutlastRegistrations]_vars
=============================================================================
