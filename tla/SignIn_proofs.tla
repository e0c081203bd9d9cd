--------------------------- MODULE SignIn_proofs ----------------------------
(***************************************************************************)
(* Signing in, proved for any number of requests, users, mails, devices    *)
(* and tokens: registrations, the accounts the staff edit, the pages of a  *)
(* browser that sign in, one-time codes, refresh tokens, and with them     *)
(* what a run of MCSignIn checks of all the parts.  One invariant of each  *)
(* part is kept by every step of the whole: it says where each request     *)
(* stands, what that tells of the rows, and, in a part that is alone, that *)
(* nothing was written since the request read.                             *)
(*                                                                         *)
(*   - Registrations: a user without a profile is just being given one, and*)
(*     the status of a user follows the only request there is, or the      *)
(*     review that is about to write it.                                   *)
(*   - Accounts: the balance and status that an adjustment or an edit has  *)
(*     read are still those of the row, so writing them over loses nothing.*)
(*   - Pages: a steady tab has one call of a kind under way, of the page it*)
(*     is on; the last code mailed is the one it holds or is in the answer *)
(*     under way; and the countdown ends no sooner than the cooldown after *)
(*     that mail.                                                          *)
(*   - One-time codes: a call that a rate limit let pass is in its bucket  *)
(*     while it is in the window, so no window holds more mails than it    *)
(*     may; and without overlap the attempts of a code count every wrong   *)
(*     guess, and a right one leaves it used.                              *)
(*   - Refresh tokens: a request follows a revoked token, so what was      *)
(*     rotated is revoked; without overlap, the token presented is the last*)
(*     of all that was revoked, so it is the one the new token follows; and*)
(*     until that is issued its device has one live token less than it may.*)
(***************************************************************************)
EXTENDS MCSignIn, BalanceService_proofs, FiniteSetTheorems, WellFoundedInduction

-----------------------------------------------------------------------------
\* A request served, and no other, in a part that is alone.
OneAtATime(serving) == part \in Alone => \A x, y \in serving : x = y

(* A part that is alone serves one request at a time.                      *)
LEMMA FitsAlone ==
  ASSUME NEW S \in SUBSET Calls, Fits(S)
  PROVE  OneAtATime(S)
<1> SUFFICES ASSUME part \in Alone, NEW x \in S, NEW y \in S, x # y
             PROVE  FALSE
  BY DEF OneAtATime
<1>1. IsFiniteSet(S) /\ Cardinality(S) \in Nat /\ Cardinality(S) <= 1
  BY SignInAssumption, FS_Subset, FS_CardinalityType DEF Fits
<1>2. Cardinality({x, y}) = 2
  <2>1. IsFiniteSet({x}) /\ Cardinality({x}) = 1
    BY FS_Singleton
  <2>2. {x, y} = {x} \cup {y} /\ y \notin {x}
    OBVIOUS
  <2>3. Cardinality({x} \cup {y}) = Cardinality({x}) + 1
    BY <2>1, <2>2, FS_AddElement
  <2> QED
    BY <2>1, <2>2, <2>3
<1>3. Cardinality({x, y}) <= Cardinality(S)
  BY <1>1, FS_Subset
<1> QED
  BY <1>1, <1>2, <1>3

(* A set that one element joins.                                           *)
LEMMA OneMore ==
  ASSUME NEW S, NEW T, NEW e, IsFiniteSet(S), T = S \/ T = S \cup {e}
  PROVE  /\ IsFiniteSet(T) /\ Cardinality(S) \in Nat /\ Cardinality(T) \in Nat
         /\ Cardinality(T) <= Cardinality(S) + 1
         /\ \A n \in Nat : Cardinality(S) <= n => Cardinality(T) <= n + 1
<1>1. CASE T = S
  BY <1>1, FS_CardinalityType
<1>2. CASE T = S \cup {e}
  <2>1. /\ IsFiniteSet(S \cup {e})
        /\ Cardinality(S \cup {e}) = IF e \in S THEN Cardinality(S) ELSE Cardinality(S) + 1
    BY FS_AddElement
  <2>2. Cardinality(S) \in Nat
    BY FS_CardinalityType
  <2>3. Cardinality(T) = Cardinality(S) \/ Cardinality(T) = Cardinality(S) + 1
    BY <1>2, <2>1
  <2>4. IsFiniteSet(T)
    BY <1>2, <2>1
  <2>5. Cardinality(T) \in Nat /\ Cardinality(T) <= Cardinality(S) + 1
    BY <2>2, <2>3
  <2>6. ASSUME NEW n \in Nat, Cardinality(S) <= n
        PROVE  Cardinality(T) <= n + 1
    BY <2>2, <2>3, <2>6
  <2> QED
    BY <2>2, <2>4, <2>5, <2>6
<1> QED
  BY <1>1, <1>2

-----------------------------------------------------------------------------
(* Registrations                                                           *)

\* A call that has begun is of an address, past finding or making a user there
\* is one, and a review is of a request.
CallShape(q, users, list) ==
  /\ q.pc \notin {"idle", "dead"} => q.email \in Users
  /\ q.pc \in {"insertProfile", "findRequest", "insertRequest"} => users[q.email] # "none"
  /\ q.pc \in {"saveRequest", "updateStatus"} =>
       q.request \in DOMAIN list /\ list[q.request].email = q.email /\ q.decision # "pending"

\* A registration that was answered is in the list.
Listed(q, list) == q.pc = "registered" => \E i \in DOMAIN list : list[i].email = q.email

RegistrationShape ==
  /\ \A c \in Calls : CallShape(registrationCall[c], registrationUser, registrationRequests)
  /\ \A i \in DOMAIN registrationRequests :
       registrationUser[registrationRequests[i].email] # "none"

\* A user without a profile is being given one.
ProfilesUnderWay ==
  registrationCrashes = 0 =>
    \A e \in Users : (registrationUser[e] # "none" /\ e \notin registrationProfile) =>
      \E c \in Calls : registrationCall[c].pc = "insertProfile" /\ registrationCall[c].email = e

Only(i) ==
  \A j \in DOMAIN registrationRequests \ {i} :
     registrationRequests[j].email # registrationRequests[i].email

\* The status of the user is that of the review, or is being made so.
Followed(i) ==
  LET q == registrationRequests[i] IN
    \/ q.state = "pending"
    \/ q.state = "approved" /\ registrationUser[q.email] = "active"
    \/ q.state = "rejected" /\ registrationUser[q.email] = "rejected"
    \/ \E c \in Calls : registrationCall[c].pc = "updateStatus" /\ registrationCall[c].request = i

\* With nothing in between, a request is inserted where none is pending, and the
\* status of a user follows what the review has saved.
RegistrationAlone ==
  part = "registrations alone" =>
    /\ \A c \in Calls : registrationCall[c].pc = "insertRequest" =>
         Registrations!Pending(registrationCall[c].email) = {}
    /\ \A c \in Calls : registrationCall[c].pc = "updateStatus" =>
         registrationRequests[registrationCall[c].request].state = registrationCall[c].decision
    /\ \A e \in Users : \A i, j \in Registrations!Pending(e) : i = j
    /\ registrationCrashes = 0 =>
         \A i \in DOMAIN registrationRequests : Only(i) => Followed(i)

RegistrationInv ==
  part \in RegistrationParts =>
    /\ Registrations!RegistrationTypeOK /\ OneAtATime(Registrations!Serving)
    /\ RegistrationShape /\ Registrations!RegisteredIsListed
    /\ ProfilesUnderWay /\ RegistrationAlone

(* What the rows of registrations are.                                     *)
LEMMA RegistrationRows ==
  ASSUME Registrations!RegistrationTypeOK
  PROVE  /\ registrationUser \in [Users -> Registrations!UserStatuses]
         /\ registrationProfile \subseteq {e \in Users : registrationUser[e] # "none"}
         /\ registrationRequests \in Seq(Registrations!RegistrationRequest)
         /\ Len(registrationRequests) \in Nat
         /\ DOMAIN registrationRequests = 1 .. Len(registrationRequests)
         /\ \A i \in DOMAIN registrationRequests :
              /\ registrationRequests[i] \in Registrations!RegistrationRequest
              /\ registrationRequests[i].email \in Users
              /\ registrationRequests[i].state \in Registrations!States
         /\ registrationCrashes \in 0 .. MaxCrashes /\ MaxCrashes \in Nat
<1>1. /\ registrationUser \in [Users -> Registrations!UserStatuses]
      /\ registrationProfile \subseteq {e \in Users : registrationUser[e] # "none"}
      /\ registrationRequests \in Seq(Registrations!RegistrationRequest)
      /\ registrationCrashes \in 0 .. MaxCrashes /\ MaxCrashes \in Nat
  BY RegistrationsAssumption DEF Registrations!RegistrationTypeOK,
                                 Registrations!RegistrationAssumption
<1>2. /\ Len(registrationRequests) \in Nat
      /\ DOMAIN registrationRequests = 1 .. Len(registrationRequests)
      /\ \A i \in DOMAIN registrationRequests :
              registrationRequests[i] \in Registrations!RegistrationRequest
  BY <1>1
<1>3. \A i \in DOMAIN registrationRequests :
              /\ registrationRequests[i].email \in Users
              /\ registrationRequests[i].state \in Registrations!States
  BY <1>2 DEF Registrations!RegistrationRequest
<1> QED
  BY <1>1, <1>2, <1>3

(* What a call of a registration is.                                       *)
LEMMA RegistrationCalls ==
  ASSUME Registrations!RegistrationTypeOK, NEW c \in Calls
  PROVE  /\ registrationCall \in [Calls -> Registrations!CallState]
         /\ registrationCall[c] \in Registrations!CallState
         /\ registrationCall[c].pc \in Registrations!Points
         /\ registrationCall[c].email \in Users \cup {None}
         /\ registrationCall[c].request \in Nat
         /\ registrationCall[c].decision \in Registrations!States
<1>1. registrationCall \in [Calls -> Registrations!CallState]
  BY DEF Registrations!RegistrationTypeOK
<1>2. registrationCall[c] \in Registrations!CallState
  BY <1>1
<1> QED
  BY <1>1, <1>2 DEF Registrations!CallState

(* A call goes on to its next statement.                                   *)
LEMMA GotoCall ==
  ASSUME Registrations!RegistrationTypeOK, NEW c \in Calls,
         NEW pc \in Registrations!Points,
         Registrations!Goto(c, pc)
  PROVE  /\ registrationCall' \in [Calls -> Registrations!CallState]
         /\ \A x \in Calls \ {c} : registrationCall'[x] = registrationCall[x]
         /\ registrationCall'[c].pc = pc
         /\ registrationCall'[c].email = registrationCall[c].email
         /\ registrationCall'[c].request = registrationCall[c].request
         /\ registrationCall'[c].decision = registrationCall[c].decision
<1>1. registrationCall' = [registrationCall EXCEPT ![c] = [registrationCall[c] EXCEPT !.pc = pc]]
  BY DEF Registrations!Goto
<1>2. /\ registrationCall \in [Calls -> Registrations!CallState]
      /\ registrationCall[c] \in Registrations!CallState
  BY RegistrationCalls
<1>3. [registrationCall[c] EXCEPT !.pc = pc] \in Registrations!CallState
  BY <1>2 DEF Registrations!CallState
<1>4. /\ [registrationCall[c] EXCEPT !.pc = pc].pc = pc
      /\ [registrationCall[c] EXCEPT !.pc = pc].email = registrationCall[c].email
      /\ [registrationCall[c] EXCEPT !.pc = pc].request = registrationCall[c].request
      /\ [registrationCall[c] EXCEPT !.pc = pc].decision = registrationCall[c].decision
  BY <1>2 DEF Registrations!CallState
<1> QED
  BY <1>1, <1>2, <1>3, <1>4

(* The steps of a call, and a crash: where the call goes, and that the     *)
(* others stay.                                                            *)
LEMMA RegistrationMoves ==
  ASSUME Registrations!RegistrationTypeOK, NEW c \in Calls
  PROVE  /\ \A e \in Users : Registrations!Register(c, e) =>
              /\ registrationCall' \in [Calls -> Registrations!CallState]
              /\ \A x \in Calls \ {c} : registrationCall'[x] = registrationCall[x]
              /\ registrationCall'[c].email = e
              /\ registrationCall'[c].pc = IF registrationUser[e] = "none" THEN "insertUser" ELSE "findRequest"
         /\ \A e \in Users : Registrations!UpdateUserRole(c, e) =>
              /\ registrationCall' \in [Calls -> Registrations!CallState]
              /\ \A x \in Calls \ {c} : registrationCall'[x] = registrationCall[x]
              /\ registrationCall'[c].email = e /\ registrationCall'[c].pc = "done"
         /\ \A i \in DOMAIN registrationRequests, d \in {"approved", "rejected"} :
              Registrations!ReviewRegistration(c, i, d) =>
              /\ registrationCall' \in [Calls -> Registrations!CallState]
              /\ \A x \in Calls \ {c} : registrationCall'[x] = registrationCall[x]
              /\ registrationCall'[c] = [pc |-> "saveRequest", email |-> registrationRequests[i].email,
                                         request |-> i, decision |-> d]
<1>1. /\ registrationCall \in [Calls -> Registrations!CallState]
      /\ registrationCall[c] \in Registrations!CallState
  BY RegistrationCalls
<1>m. ASSUME NEW q \in Registrations!CallState,
             registrationCall' = [registrationCall EXCEPT ![c] = q]
      PROVE  /\ registrationCall' \in [Calls -> Registrations!CallState]
             /\ registrationCall'[c] = q
             /\ \A x \in Calls \ {c} : registrationCall'[x] = registrationCall[x]
  BY <1>1, <1>m
<1>f. ASSUME NEW e \in Users, NEW pc \in Registrations!Points
      PROVE  /\ [registrationCall[c] EXCEPT !.email = e, !.pc = pc] \in Registrations!CallState
             /\ [registrationCall[c] EXCEPT !.email = e, !.pc = pc].email = e
             /\ [registrationCall[c] EXCEPT !.email = e, !.pc = pc].pc = pc
  BY <1>1 DEF Registrations!CallState
<1>p. {"insertUser", "findRequest", "done", "saveRequest"} \subseteq Registrations!Points
  BY DEF Registrations!Points
<1>2. ASSUME NEW e \in Users, Registrations!Register(c, e)
      PROVE  /\ registrationCall' \in [Calls -> Registrations!CallState]
             /\ \A x \in Calls \ {c} : registrationCall'[x] = registrationCall[x]
             /\ registrationCall'[c].email = e
             /\ registrationCall'[c].pc = IF registrationUser[e] = "none" THEN "insertUser" ELSE "findRequest"
  <2> DEFINE pc == IF registrationUser[e] = "none" THEN "insertUser" ELSE "findRequest"
  <2>1. pc \in Registrations!Points
    BY <1>p
  <2>2. registrationCall' = [registrationCall EXCEPT ![c] =
                               [registrationCall[c] EXCEPT !.email = e, !.pc = pc]]
    BY <1>1, <1>2 DEF Registrations!Register
  <2> HIDE DEF pc
  <2>3. registrationCall'[c].email = e /\ registrationCall'[c].pc = pc
    BY <1>m, <1>f, <2>1, <2>2
  <2> QED
    BY <1>m, <1>f, <2>1, <2>2, <2>3 DEF pc
<1>3. ASSUME NEW e \in Users, Registrations!UpdateUserRole(c, e)
      PROVE  /\ registrationCall' \in [Calls -> Registrations!CallState]
             /\ \A x \in Calls \ {c} : registrationCall'[x] = registrationCall[x]
             /\ registrationCall'[c].email = e /\ registrationCall'[c].pc = "done"
  <2>2. registrationCall' = [registrationCall EXCEPT ![c] =
                               [registrationCall[c] EXCEPT !.email = e, !.pc = "done"]]
    BY <1>1, <1>3 DEF Registrations!UpdateUserRole
  <2> QED
    BY <1>m, <1>f, <1>p, <2>2
<1>4. ASSUME NEW i \in DOMAIN registrationRequests, NEW d \in {"approved", "rejected"},
             Registrations!ReviewRegistration(c, i, d)
      PROVE  /\ registrationCall' \in [Calls -> Registrations!CallState]
             /\ \A x \in Calls \ {c} : registrationCall'[x] = registrationCall[x]
             /\ registrationCall'[c] = [pc |-> "saveRequest", email |-> registrationRequests[i].email,
                                         request |-> i, decision |-> d]
  <2>1. registrationRequests[i].email \in Users /\ i \in Nat
    BY RegistrationRows
  <2>2. [pc |-> "saveRequest", email |-> registrationRequests[i].email, request |-> i, decision |-> d]
           \in Registrations!CallState
    BY <1>p, <2>1 DEF Registrations!CallState, Registrations!States
  <2>3. registrationCall' = [registrationCall EXCEPT ![c] =
           [pc |-> "saveRequest", email |-> registrationRequests[i].email, request |-> i, decision |-> d]]
    BY <1>4 DEF Registrations!ReviewRegistration
  <2> QED
    BY <1>m, <2>2, <2>3
<1> QED
  BY <1>2, <1>3, <1>4

(* A crash ends the calls that are served.                                 *)
LEMMA CrashCalls ==
  ASSUME Registrations!RegistrationTypeOK, Registrations!Crash
  PROVE  /\ registrationCall' \in [Calls -> Registrations!CallState]
         /\ \A x \in Calls :
              \/ registrationCall'[x] = registrationCall[x] /\ registrationCall[x].pc \in Registrations!Finished
              \/ registrationCall'[x].pc = "dead"
         /\ registrationCrashes' \in 0 .. MaxCrashes /\ registrationCrashes' # 0
<1>1. \A x \in Calls : registrationCall[x] \in Registrations!CallState
  BY RegistrationCalls
<1>2. ASSUME NEW q \in Registrations!CallState
      PROVE  /\ [q EXCEPT !.pc = "dead"] \in Registrations!CallState
             /\ [q EXCEPT !.pc = "dead"].pc = "dead"
  BY DEF Registrations!CallState, Registrations!Points
<1>3. registrationCall' = [x \in Calls |-> IF registrationCall[x].pc \in Registrations!Finished
                             THEN registrationCall[x] ELSE [registrationCall[x] EXCEPT !.pc = "dead"]]
  BY DEF Registrations!Crash
<1>4. registrationCrashes' \in 0 .. MaxCrashes /\ registrationCrashes' # 0
  <2>1. registrationCrashes \in Nat /\ MaxCrashes \in Nat /\ registrationCrashes < MaxCrashes
        /\ registrationCrashes' = registrationCrashes + 1
    BY RegistrationRows DEF Registrations!Crash
  <2> QED
    BY <2>1
<1>5. ASSUME NEW x \in Calls
      PROVE  /\ registrationCall'[x] \in Registrations!CallState
             /\ \/ registrationCall'[x] = registrationCall[x] /\ registrationCall[x].pc \in Registrations!Finished
                \/ registrationCall'[x].pc = "dead"
  BY <1>1, <1>2, <1>3
<1> QED
  BY <1>3, <1>4, <1>5

(* Which steps write a user (auth.service.ts).                             *)
LEMMA UserWriters ==
  ASSUME Registrations!Next
  PROVE  \/ UNCHANGED registrationUser
         \/ \E c \in Calls : Registrations!InsertUser(c) \/ Registrations!UpdateStatus(c)
<1>1. ASSUME NEW c \in Calls, NEW e \in Users,
             Registrations!Register(c, e) \/ Registrations!UpdateUserRole(c, e)
      PROVE  UNCHANGED registrationUser
  BY <1>1 DEF Registrations!Register, Registrations!UpdateUserRole
<1>2. ASSUME NEW c \in Calls, NEW i, NEW d, Registrations!ReviewRegistration(c, i, d)
      PROVE  UNCHANGED registrationUser
  BY <1>2 DEF Registrations!ReviewRegistration
<1>3. ASSUME NEW c \in Calls,
             \/ Registrations!InsertProfile(c) \/ Registrations!FindRequest(c)
             \/ Registrations!InsertRequest(c) \/ Registrations!SaveDecision(c)
      PROVE  UNCHANGED registrationUser
  BY <1>3 DEF Registrations!InsertProfile, Registrations!FindRequest,
              Registrations!InsertRequest, Registrations!SaveDecision
<1>4. ASSUME Registrations!Crash
      PROVE  UNCHANGED registrationUser
  BY <1>4 DEF Registrations!Crash
<1> QED
  BY <1>1, <1>2, <1>3, <1>4 DEF Registrations!Next

(* Which steps write a request (auth.service.ts, admin.service.ts).        *)
LEMMA RequestWriters ==
  ASSUME Registrations!Next
  PROVE  \/ UNCHANGED registrationRequests
         \/ \E c \in Calls : Registrations!InsertRequest(c) \/ Registrations!SaveDecision(c)
<1>1. ASSUME NEW c \in Calls, NEW e \in Users,
             Registrations!Register(c, e) \/ Registrations!UpdateUserRole(c, e)
      PROVE  UNCHANGED registrationRequests
  BY <1>1 DEF Registrations!Register, Registrations!UpdateUserRole
<1>2. ASSUME NEW c \in Calls, NEW i, NEW d, Registrations!ReviewRegistration(c, i, d)
      PROVE  UNCHANGED registrationRequests
  BY <1>2 DEF Registrations!ReviewRegistration
<1>3. ASSUME NEW c \in Calls,
             \/ Registrations!InsertUser(c) \/ Registrations!InsertProfile(c)
             \/ Registrations!FindRequest(c) \/ Registrations!UpdateStatus(c)
      PROVE  UNCHANGED registrationRequests
  BY <1>3 DEF Registrations!InsertUser, Registrations!InsertProfile,
              Registrations!FindRequest, Registrations!UpdateStatus
<1>4. ASSUME Registrations!Crash
      PROVE  UNCHANGED registrationRequests
  BY <1>4 DEF Registrations!Crash
<1> QED
  BY <1>1, <1>2, <1>3, <1>4 DEF Registrations!Next

(* An address that has a user keeps one, and one that gets a user is new,  *)
(* or has the status of a review.                                          *)
LEMMA UsersStay ==
  ASSUME Registrations!RegistrationTypeOK, RegistrationShape, Registrations!Next
  PROVE  /\ registrationUser' \in [Users -> Registrations!UserStatuses]
         /\ \A e \in Users : registrationUser[e] # "none" => registrationUser'[e] # "none"
         /\ \A e \in Users : registrationUser'[e] # registrationUser[e] =>
              \/ \E c \in Calls : /\ Registrations!InsertUser(c) /\ registrationCall[c].email = e
                                  /\ registrationUser[e] = "none"
                                  /\ registrationUser'[e] = "pending"
              \/ \E c \in Calls : /\ Registrations!UpdateStatus(c) /\ registrationCall[c].email = e
                                  /\ registrationUser[e] # "none"
                                  /\ registrationUser'[e] = IF registrationCall[c].decision = "approved"
                                                            THEN "active" ELSE "rejected"
<1>1. registrationUser \in [Users -> Registrations!UserStatuses]
  BY RegistrationRows
<1>2. ASSUME NEW c \in Calls, Registrations!InsertUser(c)
      PROVE  /\ registrationUser' \in [Users -> Registrations!UserStatuses]
             /\ \A e \in Users : registrationUser'[e] # registrationUser[e] =>
                  /\ registrationCall[c].email = e
                  /\ registrationUser[e] = "none" /\ registrationUser'[e] = "pending"
  <2>1. \/ registrationUser' = registrationUser
        \/ /\ registrationUser[registrationCall[c].email] = "none"
           /\ registrationUser' = [registrationUser EXCEPT ![registrationCall[c].email] = "pending"]
    BY <1>2 DEF Registrations!InsertUser
  <2>2. registrationCall[c].email \in Users
    BY <1>2 DEF Registrations!InsertUser, RegistrationShape, CallShape
  <2> QED
    BY <1>1, <2>1, <2>2 DEF Registrations!UserStatuses
<1>3. ASSUME NEW c \in Calls, Registrations!UpdateStatus(c)
      PROVE  /\ registrationUser' \in [Users -> Registrations!UserStatuses]
             /\ \A e \in Users : registrationUser'[e] # registrationUser[e] =>
                  /\ registrationCall[c].email = e /\ registrationUser[e] # "none"
                  /\ registrationUser'[e] = IF registrationCall[c].decision = "approved"
                                            THEN "active" ELSE "rejected"
  <2>1. registrationUser' = [registrationUser EXCEPT ![registrationCall[c].email] =
                               IF registrationCall[c].decision = "approved" THEN "active" ELSE "rejected"]
    BY <1>3 DEF Registrations!UpdateStatus
  <2>2. /\ registrationCall[c].email \in Users
        /\ registrationUser[registrationCall[c].email] # "none"
    BY <1>3 DEF Registrations!UpdateStatus, RegistrationShape, CallShape
  <2> QED
    BY <1>1, <2>1, <2>2 DEF Registrations!UserStatuses
<1>4. CASE UNCHANGED registrationUser
  BY <1>1, <1>4
<1>5. CASE \E c \in Calls : Registrations!InsertUser(c)
  <2>1. PICK c \in Calls : Registrations!InsertUser(c)
    BY <1>5
  <2> QED
    BY <1>2, <2>1
<1>6. CASE \E c \in Calls : Registrations!UpdateStatus(c)
  <2>1. PICK c \in Calls : Registrations!UpdateStatus(c)
    BY <1>6
  <2> QED
    BY <1>3, <2>1
<1> QED
  BY <1>4, <1>5, <1>6, UserWriters

(* The list of requests grows at its end, and a row changes its state only.*)
LEMMA RequestsStay ==
  ASSUME Registrations!RegistrationTypeOK, RegistrationShape, NEW c \in Calls
  PROVE  /\ Registrations!InsertRequest(c) =>
              /\ registrationRequests' \in Seq(Registrations!RegistrationRequest)
              /\ Len(registrationRequests') = Len(registrationRequests) + 1
              /\ registrationRequests'[Len(registrationRequests) + 1].email = registrationCall[c].email
              /\ registrationRequests'[Len(registrationRequests) + 1].state = "pending"
              /\ \A i \in DOMAIN registrationRequests : registrationRequests'[i] = registrationRequests[i]
         /\ Registrations!SaveDecision(c) =>
              /\ registrationRequests' \in Seq(Registrations!RegistrationRequest)
              /\ Len(registrationRequests') = Len(registrationRequests)
              /\ registrationCall[c].request \in DOMAIN registrationRequests
              /\ registrationRequests'[registrationCall[c].request].state = registrationCall[c].decision
              /\ registrationRequests'[registrationCall[c].request].email = registrationCall[c].email
              /\ registrationRequests[registrationCall[c].request].email = registrationCall[c].email
              /\ \A i \in DOMAIN registrationRequests \ {registrationCall[c].request} :
                    registrationRequests'[i] = registrationRequests[i]
<1> DEFINE k == registrationCall[c].request
           old == registrationRequests
           new == registrationRequests'
<1>1. /\ old \in Seq(Registrations!RegistrationRequest) /\ Len(old) \in Nat /\ DOMAIN old = 1 .. Len(old)
      /\ \A i \in DOMAIN old : old[i] \in Registrations!RegistrationRequest
  BY RegistrationRows
<1>2. CASE Registrations!InsertRequest(c)
  <2> DEFINE row == [email |-> registrationCall[c].email, state |-> "pending"]
  <2>1. new = Append(old, row)
    BY <1>2 DEF Registrations!InsertRequest
  <2>2. /\ row \in Registrations!RegistrationRequest
        /\ row.email = registrationCall[c].email
        /\ row.state = "pending"
    BY <1>2 DEF Registrations!InsertRequest, Registrations!RegistrationRequest,
                Registrations!States, RegistrationShape, CallShape
  <2>3. ~Registrations!SaveDecision(c)
    BY <1>2 DEF Registrations!InsertRequest, Registrations!SaveDecision
  <2> HIDE DEF row, old, new
  <2>4. /\ new \in Seq(Registrations!RegistrationRequest) /\ Len(new) = Len(old) + 1
        /\ new[Len(old) + 1] = row /\ \A i \in DOMAIN old : new[i] = old[i]
    BY <1>1, <2>1, <2>2
  <2> QED
    BY <2>2, <2>3, <2>4 DEF old, new
<1>3. CASE Registrations!SaveDecision(c)
  <2> DEFINE row == [old[k] EXCEPT !.state = registrationCall[c].decision]
  <2>1. k \in DOMAIN old /\ old[k].email = registrationCall[c].email
    BY <1>3 DEF Registrations!SaveDecision, RegistrationShape, CallShape
  <2>2. new = [old EXCEPT ![k] = row]
    BY <1>3 DEF Registrations!SaveDecision
  <2>3. registrationCall[c].decision \in Registrations!States
    BY RegistrationCalls
  <2>4. row \in Registrations!RegistrationRequest /\ row.email = old[k].email
        /\ row.state = registrationCall[c].decision
    BY <1>1, <2>1, <2>3 DEF Registrations!RegistrationRequest
  <2>5. ~Registrations!InsertRequest(c)
    BY <1>3 DEF Registrations!InsertRequest, Registrations!SaveDecision
  <2> HIDE DEF row, old, new, k
  <2>6. /\ new \in Seq(Registrations!RegistrationRequest) /\ Len(new) = Len(old)
        /\ new[k] = row /\ \A i \in DOMAIN old \ {k} : new[i] = old[i]
    BY <1>1, <2>1, <2>2, <2>4
  <2> QED
    BY <2>1, <2>4, <2>5, <2>6 DEF old, new, k
<1> QED
  BY <1>2, <1>3

(* Every request keeps its place and its address.                          *)
LEMMA RequestsGrow ==
  ASSUME Registrations!RegistrationTypeOK, RegistrationShape, Registrations!Next
  PROVE  /\ registrationRequests' \in Seq(Registrations!RegistrationRequest)
         /\ DOMAIN registrationRequests \subseteq DOMAIN registrationRequests'
         /\ \A i \in DOMAIN registrationRequests :
              registrationRequests'[i].email = registrationRequests[i].email
         /\ \A i \in DOMAIN registrationRequests' :
              /\ registrationRequests'[i].email \in Users
              /\ registrationUser'[registrationRequests'[i].email] # "none"
<1>1. /\ registrationRequests \in Seq(Registrations!RegistrationRequest)
      /\ Len(registrationRequests) \in Nat
      /\ DOMAIN registrationRequests = 1 .. Len(registrationRequests)
      /\ \A i \in DOMAIN registrationRequests : registrationRequests[i].email \in Users
  BY RegistrationRows
<1>2. \A i \in DOMAIN registrationRequests : registrationUser'[registrationRequests[i].email] # "none"
  BY <1>1, UsersStay DEF RegistrationShape
<1>3. CASE UNCHANGED registrationRequests
  BY <1>1, <1>2, <1>3
<1>4. ASSUME NEW c \in Calls, Registrations!InsertRequest(c)
      PROVE  /\ registrationRequests' \in Seq(Registrations!RegistrationRequest)
             /\ DOMAIN registrationRequests' = DOMAIN registrationRequests \cup {Len(registrationRequests) + 1}
             /\ registrationRequests'[Len(registrationRequests) + 1].email = registrationCall[c].email
             /\ \A i \in DOMAIN registrationRequests : registrationRequests'[i] = registrationRequests[i]
             /\ registrationCall[c].email \in Users
             /\ registrationUser'[registrationCall[c].email] # "none"
  <2>1. /\ registrationCall[c].email \in Users
        /\ registrationUser[registrationCall[c].email] # "none"
    BY <1>4 DEF Registrations!InsertRequest, RegistrationShape, CallShape
  <2>2. /\ registrationRequests' \in Seq(Registrations!RegistrationRequest)
        /\ Len(registrationRequests') = Len(registrationRequests) + 1
        /\ registrationRequests'[Len(registrationRequests) + 1].email = registrationCall[c].email
        /\ \A i \in DOMAIN registrationRequests : registrationRequests'[i] = registrationRequests[i]
    BY <1>4, RequestsStay
  <2>3. DOMAIN registrationRequests' = 1 .. Len(registrationRequests) + 1
    BY <2>2
  <2> QED
    BY <1>1, <2>1, <2>2, <2>3, UsersStay
<1>5. CASE \E c \in Calls : Registrations!InsertRequest(c)
  BY <1>2, <1>1, <1>4, <1>5
<1>6. ASSUME NEW c \in Calls, Registrations!SaveDecision(c)
      PROVE  /\ registrationRequests' \in Seq(Registrations!RegistrationRequest)
             /\ DOMAIN registrationRequests' = DOMAIN registrationRequests
             /\ \A i \in DOMAIN registrationRequests :
                  registrationRequests'[i].email = registrationRequests[i].email
  <2>1. /\ registrationRequests' \in Seq(Registrations!RegistrationRequest)
        /\ Len(registrationRequests') = Len(registrationRequests)
        /\ registrationRequests'[registrationCall[c].request].email =
             registrationRequests[registrationCall[c].request].email
        /\ \A i \in DOMAIN registrationRequests \ {registrationCall[c].request} :
              registrationRequests'[i] = registrationRequests[i]
    BY <1>6, RequestsStay
  <2>2. DOMAIN registrationRequests' = DOMAIN registrationRequests
    BY <1>1, <2>1
  <2> QED
    BY <2>1, <2>2
<1>7. CASE \E c \in Calls : Registrations!SaveDecision(c)
  BY <1>2, <1>1, <1>6, <1>7
<1> QED
  BY <1>3, <1>5, <1>7, RequestWriters

(* What a call of a registration goes on to is of an address, a user and a *)
(* request that are there, and the answer is given when it is listed.      *)
LEMMA RegistrationCallsKept ==
  ASSUME Registrations!RegistrationTypeOK, RegistrationShape,
         Registrations!RegisteredIsListed,
         Registrations!Next
  PROVE  /\ registrationCall' \in [Calls -> Registrations!CallState]
         /\ \A x \in Calls : /\ CallShape(registrationCall'[x], registrationUser', registrationRequests')
                             /\ Listed(registrationCall'[x], registrationRequests')
<1> DEFINE Good(q) == CallShape(q, registrationUser', registrationRequests') /\ Listed(q, registrationRequests')
           Goal == /\ registrationCall' \in [Calls -> Registrations!CallState]
                   /\ \A x \in Calls : Good(registrationCall'[x])
<1>u. \A e \in Users : registrationUser[e] # "none" => registrationUser'[e] # "none"
  BY UsersStay
<1>l. /\ DOMAIN registrationRequests \subseteq DOMAIN registrationRequests'
      /\ \A i \in DOMAIN registrationRequests : registrationRequests'[i].email = registrationRequests[i].email
  BY RequestsGrow
<1>g. ASSUME NEW x \in Calls
      PROVE  Good(registrationCall[x])
  <2>1. CallShape(registrationCall[x], registrationUser, registrationRequests)
    BY DEF RegistrationShape
  <2>2. CallShape(registrationCall[x], registrationUser', registrationRequests')
    BY <1>u, <1>l, <2>1 DEF CallShape
  <2>3. Listed(registrationCall[x], registrationRequests')
    BY <1>l DEF Listed, Registrations!RegisteredIsListed
  <2> QED
    BY <2>2, <2>3
<1>p. {"error", "insertProfile", "findRequest", "insertRequest", "registered", "updateStatus", "done"}
         \subseteq Registrations!Points
  BY DEF Registrations!Points
<1>m. ASSUME NEW c \in Calls, NEW pc \in Registrations!Points, Registrations!Goto(c, pc),
             pc # "idle", pc # "dead", pc # "saveRequest", registrationCall[c].pc \notin {"idle", "dead"},
             pc \in {"insertProfile", "findRequest", "insertRequest"} =>
               registrationUser'[registrationCall[c].email] # "none",
             pc = "updateStatus" => registrationCall[c].pc = "saveRequest",
             pc = "registered" => \E i \in DOMAIN registrationRequests' :
                                     registrationRequests'[i].email = registrationCall[c].email
      PROVE  Goal
  <2>1. /\ registrationCall' \in [Calls -> Registrations!CallState]
        /\ \A x \in Calls \ {c} : registrationCall'[x] = registrationCall[x]
        /\ registrationCall'[c].pc = pc
        /\ registrationCall'[c].email = registrationCall[c].email
        /\ registrationCall'[c].request = registrationCall[c].request
        /\ registrationCall'[c].decision = registrationCall[c].decision
    BY <1>m, GotoCall
  <2>2. CallShape(registrationCall[c], registrationUser', registrationRequests')
    BY <1>g
  <2>3. Good(registrationCall'[c])
    BY <1>m, <2>1, <2>2 DEF CallShape, Listed
  <2> HIDE DEF Good
  <2> QED
    BY <1>g, <2>1, <2>3
<1>1. ASSUME NEW c \in Calls, NEW e \in Users, Registrations!Register(c, e)
      PROVE  Goal
  <2>1. /\ registrationCall' \in [Calls -> Registrations!CallState]
        /\ \A x \in Calls \ {c} : registrationCall'[x] = registrationCall[x]
        /\ registrationCall'[c].email = e
        /\ registrationCall'[c].pc = IF registrationUser[e] = "none" THEN "insertUser" ELSE "findRequest"
    BY <1>1, RegistrationMoves
  <2>2. Good(registrationCall'[c])
    BY <1>u, <2>1 DEF CallShape, Listed
  <2> HIDE DEF Good
  <2> QED
    BY <1>g, <2>1, <2>2
<1>2. ASSUME NEW c \in Calls, NEW e \in Users, Registrations!UpdateUserRole(c, e)
      PROVE  Goal
  <2>1. /\ registrationCall' \in [Calls -> Registrations!CallState]
        /\ \A x \in Calls \ {c} : registrationCall'[x] = registrationCall[x]
        /\ registrationCall'[c].email = e /\ registrationCall'[c].pc = "done"
    BY <1>2, RegistrationMoves
  <2>2. Good(registrationCall'[c])
    BY <2>1 DEF CallShape, Listed
  <2> HIDE DEF Good
  <2> QED
    BY <1>g, <2>1, <2>2
<1>3. ASSUME NEW c \in Calls, NEW i \in DOMAIN registrationRequests,
             NEW d \in {"approved", "rejected"},
             Registrations!ReviewRegistration(c, i, d)
      PROVE  Goal
  <2>1. /\ registrationCall' \in [Calls -> Registrations!CallState]
        /\ \A x \in Calls \ {c} : registrationCall'[x] = registrationCall[x]
        /\ registrationCall'[c] = [pc |-> "saveRequest", email |-> registrationRequests[i].email,
                                   request |-> i, decision |-> d]
    BY <1>3, RegistrationMoves
  <2>2. /\ registrationCall'[c].pc = "saveRequest" /\ registrationCall'[c].request = i
        /\ registrationCall'[c].email = registrationRequests[i].email
        /\ registrationCall'[c].decision = d
    BY <2>1
  <2>3. registrationRequests[i].email \in Users
    BY RegistrationRows
  <2>4. Good(registrationCall'[c])
    BY <1>l, <2>2, <2>3 DEF CallShape, Listed
  <2> HIDE DEF Good
  <2> QED
    BY <1>g, <2>1, <2>4
<1> HIDE DEF Goal
<1>4. ASSUME NEW c \in Calls, Registrations!InsertUser(c)
      PROVE  Goal
  <2>1. registrationCall[c].pc = "insertUser"
    BY <1>4 DEF Registrations!InsertUser
  <2>2. CASE Registrations!Goto(c, "error")
    BY <1>m, <1>p, <2>1, <2>2
  <2>3. CASE Registrations!Goto(c, "insertProfile") /\
             registrationUser' = [registrationUser EXCEPT ![registrationCall[c].email] = "pending"]
    <3>1. registrationUser'[registrationCall[c].email] # "none"
      BY <2>1, <2>3, RegistrationRows DEF RegistrationShape, CallShape
    <3> QED
      BY <1>m, <1>p, <2>1, <2>3, <3>1
  <2> QED
    BY <1>4, <2>2, <2>3 DEF Registrations!InsertUser
<1>5. ASSUME NEW c \in Calls, Registrations!InsertProfile(c)
      PROVE  Goal
  <2>1. registrationCall[c].pc = "insertProfile"
    BY <1>5 DEF Registrations!InsertProfile
  <2>2. registrationUser'[registrationCall[c].email] # "none"
    BY <1>u, <2>1 DEF RegistrationShape, CallShape
  <2>3. Registrations!Goto(c, "error") \/ Registrations!Goto(c, "findRequest")
    BY <1>5 DEF Registrations!InsertProfile
  <2> QED
    BY <1>m, <1>p, <2>1, <2>2, <2>3
<1>6. ASSUME NEW c \in Calls, Registrations!FindRequest(c)
      PROVE  Goal
  <2>1. registrationCall[c].pc = "findRequest"
    BY <1>6 DEF Registrations!FindRequest
  <2>2. registrationUser'[registrationCall[c].email] # "none"
    BY <1>u, <2>1 DEF RegistrationShape, CallShape
  <2>3. CASE Registrations!Pending(registrationCall[c].email) = {}
    <3>1. Registrations!Goto(c, "insertRequest")
      BY <1>6, <2>3 DEF Registrations!FindRequest
    <3> QED
      BY <1>m, <1>p, <2>1, <2>2, <3>1
  <2>4. CASE Registrations!Pending(registrationCall[c].email) # {}
    <3>1. Registrations!Goto(c, "registered")
      BY <1>6, <2>4 DEF Registrations!FindRequest
    <3>2. \E i \in DOMAIN registrationRequests' : registrationRequests'[i].email = registrationCall[c].email
      BY <1>l, <2>4 DEF Registrations!Pending
    <3> QED
      BY <1>m, <1>p, <2>1, <3>1, <3>2
  <2> QED
    BY <2>3, <2>4
<1>7. ASSUME NEW c \in Calls, Registrations!InsertRequest(c)
      PROVE  Goal
  <2>1. registrationCall[c].pc = "insertRequest" /\ Registrations!Goto(c, "registered")
    BY <1>7 DEF Registrations!InsertRequest
  <2>2. /\ registrationRequests' \in Seq(Registrations!RegistrationRequest)
        /\ Len(registrationRequests') = Len(registrationRequests) + 1
        /\ registrationRequests'[Len(registrationRequests) + 1].email = registrationCall[c].email
    BY <1>7, RequestsStay
  <2>3. Len(registrationRequests) + 1 \in DOMAIN registrationRequests'
    <3>1. Len(registrationRequests) \in Nat
      BY RegistrationRows
    <3> QED
      BY <2>2, <3>1
  <2>4. \E i \in DOMAIN registrationRequests' : registrationRequests'[i].email = registrationCall[c].email
    BY <2>2, <2>3
  <2> QED
    BY <1>m, <1>p, <2>1, <2>4
<1>8. ASSUME NEW c \in Calls, Registrations!SaveDecision(c)
      PROVE  Goal
  <2>1. registrationCall[c].pc = "saveRequest" /\ Registrations!Goto(c, "updateStatus")
    BY <1>8 DEF Registrations!SaveDecision
  <2> QED
    BY <1>m, <1>p, <2>1
<1>9. ASSUME NEW c \in Calls, Registrations!UpdateStatus(c)
      PROVE  Goal
  <2>1. registrationCall[c].pc = "updateStatus" /\ Registrations!Goto(c, "done")
    BY <1>9 DEF Registrations!UpdateStatus
  <2> QED
    BY <1>m, <1>p, <2>1
<1>10. ASSUME Registrations!Crash
       PROVE  Goal
  <2>1. /\ registrationCall' \in [Calls -> Registrations!CallState]
        /\ \A x \in Calls : registrationCall'[x] = registrationCall[x] \/ registrationCall'[x].pc = "dead"
    BY <1>10, CrashCalls
  <2>2. ASSUME NEW q, q.pc = "dead"
        PROVE  Good(q)
    BY <2>2 DEF CallShape, Listed
  <2> HIDE DEF Good
  <2> QED
    BY <1>g, <2>1, <2>2 DEF Goal
<1>11. Goal
  BY <1>1, <1>2, <1>3, <1>4, <1>5, <1>6, <1>7, <1>8, <1>9, <1>10 DEF Registrations!Next
<1> QED
  BY <1>11 DEF Goal

(* Of a step that is not a crash, what it does to the crashes and to the   *)
(* profiles.                                                               *)
LEMMA ProfileWriters ==
  ASSUME Registrations!Next
  PROVE  \/ Registrations!Crash /\ UNCHANGED registrationProfile
         \/ /\ UNCHANGED registrationCrashes
            /\ \/ UNCHANGED registrationProfile
               \/ \E c \in Calls : /\ Registrations!InsertProfile(c)
                                   /\ registrationProfile' = registrationProfile \cup {registrationCall[c].email}
               \/ \E c \in Calls, e \in Users :
                     /\ Registrations!UpdateUserRole(c, e) /\ registrationUser[e] # "none"
                     /\ registrationProfile' = registrationProfile \cup {e}
<1>1. ASSUME NEW c \in Calls, NEW e \in Users, Registrations!Register(c, e)
      PROVE  UNCHANGED <<registrationProfile, registrationCrashes>>
  BY <1>1 DEF Registrations!Register
<1>2. ASSUME NEW c \in Calls, NEW i, NEW d, Registrations!ReviewRegistration(c, i, d)
      PROVE  UNCHANGED <<registrationProfile, registrationCrashes>>
  BY <1>2 DEF Registrations!ReviewRegistration
<1>3. ASSUME NEW c \in Calls,
             \/ Registrations!InsertUser(c) \/ Registrations!FindRequest(c)
             \/ Registrations!InsertRequest(c)
             \/ Registrations!SaveDecision(c)
             \/ Registrations!UpdateStatus(c)
      PROVE  UNCHANGED <<registrationProfile, registrationCrashes>>
  BY <1>3 DEF Registrations!InsertUser, Registrations!FindRequest,
              Registrations!InsertRequest, Registrations!SaveDecision,
              Registrations!UpdateStatus
<1>4. ASSUME NEW c \in Calls, NEW e \in Users, Registrations!UpdateUserRole(c, e)
      PROVE  /\ UNCHANGED registrationCrashes /\ registrationUser[e] # "none"
             /\ registrationProfile' = registrationProfile \cup {e}
  BY <1>4 DEF Registrations!UpdateUserRole
<1>5. ASSUME NEW c \in Calls, Registrations!InsertProfile(c)
      PROVE  /\ UNCHANGED registrationCrashes
             /\ registrationProfile' = registrationProfile \cup {registrationCall[c].email}
  BY <1>5 DEF Registrations!InsertProfile
<1>6. Registrations!Crash => UNCHANGED registrationProfile
  BY DEF Registrations!Crash
<1> QED
  BY <1>1, <1>2, <1>3, <1>4, <1>5, <1>6 DEF Registrations!Next

(* The rows of registrations stay well formed (auth.service.ts).           *)
LEMMA RegistrationTyped ==
  ASSUME Registrations!RegistrationTypeOK, RegistrationShape,
         Registrations!RegisteredIsListed,
         Registrations!Next
  PROVE  /\ Registrations!RegistrationTypeOK' /\ RegistrationShape'
         /\ Registrations!RegisteredIsListed'
<1>1. /\ registrationCall' \in [Calls -> Registrations!CallState]
      /\ \A x \in Calls : /\ CallShape(registrationCall'[x], registrationUser', registrationRequests')
                          /\ Listed(registrationCall'[x], registrationRequests')
  BY RegistrationCallsKept
<1>2. /\ registrationUser' \in [Users -> Registrations!UserStatuses]
      /\ \A e \in Users : registrationUser[e] # "none" => registrationUser'[e] # "none"
  BY UsersStay
<1>3. /\ registrationRequests' \in Seq(Registrations!RegistrationRequest)
      /\ \A i \in DOMAIN registrationRequests' : registrationUser'[registrationRequests'[i].email] # "none"
  BY RequestsGrow
<1>4. registrationCrashes' \in 0 .. MaxCrashes
  BY ProfileWriters, RegistrationRows, CrashCalls
<1>5. registrationProfile' \subseteq {e \in Users : registrationUser'[e] # "none"}
  <2>1. registrationProfile \subseteq {e \in Users : registrationUser[e] # "none"}
    BY RegistrationRows
  <2>2. ASSUME NEW c \in Calls, Registrations!InsertProfile(c)
        PROVE  /\ registrationCall[c].email \in Users
               /\ registrationUser[registrationCall[c].email] # "none"
    BY <2>2 DEF Registrations!InsertProfile, RegistrationShape, CallShape
  <2> QED
    BY <1>2, <2>1, <2>2, ProfileWriters
<1>6. Registrations!RegistrationTypeOK'
  BY <1>1, <1>2, <1>3, <1>4, <1>5 DEF Registrations!RegistrationTypeOK
<1>7. RegistrationShape'
  BY <1>1, <1>3 DEF RegistrationShape
<1>8. Registrations!RegisteredIsListed'
  BY <1>1 DEF Registrations!RegisteredIsListed, Listed
<1> QED
  BY <1>6, <1>7, <1>8

(* A user without a profile is being given one, unless a process died      *)
(* (auth.service.ts: the user and the profile are two statements).         *)
LEMMA ProfilesUnderWayKept ==
  ASSUME Registrations!RegistrationTypeOK, RegistrationShape, ProfilesUnderWay,
         Registrations!Next
  PROVE  ProfilesUnderWay'
<1> SUFFICES ASSUME registrationCrashes' = 0, NEW e \in Users,
                    registrationUser'[e] # "none", e \notin registrationProfile'
             PROVE  \E c \in Calls : registrationCall'[c].pc = "insertProfile" /\ registrationCall'[c].email = e
  BY DEF ProfilesUnderWay
<1>1. ~Registrations!Crash
  BY CrashCalls
<1>2. registrationCrashes = 0 /\ e \notin registrationProfile
  BY <1>1, ProfileWriters
<1>p. {"error", "insertProfile", "findRequest", "insertRequest", "registered", "updateStatus", "done"}
         \subseteq Registrations!Points
  BY DEF Registrations!Points
<1>3. CASE registrationUser[e] # "none"
  <2>1. PICK b \in Calls :
           registrationCall[b].pc = "insertProfile" /\ registrationCall[b].email = e
    BY <1>2, <1>3 DEF ProfilesUnderWay
  <2>2. ASSUME NEW c \in Calls, Registrations!InsertProfile(c)
        PROVE  registrationCall'[b] = registrationCall[b]
    <3>1. registrationProfile' = registrationProfile \cup {registrationCall[c].email}
      BY <2>2 DEF Registrations!InsertProfile
    <3>2. c # b
      BY <2>1, <3>1
    <3>3. Registrations!Goto(c, "error") \/ Registrations!Goto(c, "findRequest")
      BY <2>2 DEF Registrations!InsertProfile
    <3> QED
      BY <1>p, <3>2, <3>3, GotoCall
  <2>3. ASSUME NEW c \in Calls, NEW f \in Users,
               Registrations!Register(c, f) \/ Registrations!UpdateUserRole(c, f)
        PROVE  registrationCall'[b] = registrationCall[b]
    <3>1. c # b
      BY <2>1, <2>3 DEF Registrations!Register, Registrations!UpdateUserRole,
                        Registrations!Begin
    <3> QED
      BY <2>3, <3>1, RegistrationMoves
  <2>4. ASSUME NEW c \in Calls, NEW i \in DOMAIN registrationRequests,
               NEW d \in {"approved", "rejected"},
               Registrations!ReviewRegistration(c, i, d)
        PROVE  registrationCall'[b] = registrationCall[b]
    <3>1. c # b
      BY <2>1, <2>4 DEF Registrations!ReviewRegistration, Registrations!Begin
    <3> QED
      BY <2>4, <3>1, RegistrationMoves
  <2>5. ASSUME NEW c \in Calls,
               \/ Registrations!InsertUser(c) \/ Registrations!FindRequest(c)
               \/ Registrations!InsertRequest(c)
               \/ Registrations!SaveDecision(c)
               \/ Registrations!UpdateStatus(c)
        PROVE  registrationCall'[b] = registrationCall[b]
    <3>1. /\ registrationCall[c].pc # "insertProfile"
          /\ \E pc \in Registrations!Points : Registrations!Goto(c, pc)
      BY <1>p, <2>5 DEF Registrations!InsertUser, Registrations!FindRequest,
                        Registrations!InsertRequest, Registrations!SaveDecision,
                        Registrations!UpdateStatus
    <3>2. c # b
      BY <2>1, <3>1
    <3> QED
      BY <3>1, <3>2, GotoCall
  <2>6. registrationCall'[b] = registrationCall[b]
    BY <1>1, <2>2, <2>3, <2>4, <2>5 DEF Registrations!Next
  <2> QED
    BY <2>1, <2>6
<1>4. CASE registrationUser[e] = "none"
  <2>1. PICK c \in Calls : Registrations!InsertUser(c) /\ registrationCall[c].email = e
    BY <1>4, UsersStay
  <2>2. Registrations!Goto(c, "insertProfile")
    BY <1>4, <2>1 DEF Registrations!InsertUser
  <2>3. registrationCall'[c].pc = "insertProfile" /\ registrationCall'[c].email = e
    BY <1>p, <2>1, <2>2, GotoCall
  <2> QED
    BY <2>3
<1> QED
  BY <1>3, <1>4

(* The steps that neither list a request nor review one leave what is      *)
(* known of calls that do not overlap.                                     *)
LEMMA RegistrationsUndisturbed ==
  ASSUME Registrations!RegistrationTypeOK, RegistrationAlone,
         part = "registrations alone", part' = part,
         registrationRequests' = registrationRequests,
         \A i \in DOMAIN registrationRequests :
           registrationUser'[registrationRequests[i].email] = registrationUser[registrationRequests[i].email],
         \A x \in Calls : registrationCall'[x].pc = "insertRequest" =>
           Registrations!Pending(registrationCall'[x].email) = {},
         \A x \in Calls : registrationCall'[x].pc = "updateStatus" => registrationCall'[x] = registrationCall[x],
         registrationCrashes' = 0 =>
           /\ registrationCrashes = 0
           /\ \A x \in Calls : registrationCall[x].pc = "updateStatus" => registrationCall'[x] = registrationCall[x]
  PROVE  RegistrationAlone'
<1>a. /\ \A c \in Calls : registrationCall[c].pc = "updateStatus" =>
           registrationRequests[registrationCall[c].request].state = registrationCall[c].decision
      /\ \A e \in Users : \A i, j \in Registrations!Pending(e) : i = j
      /\ registrationCrashes = 0 => \A i \in DOMAIN registrationRequests : Only(i) => Followed(i)
  BY DEF RegistrationAlone
<1>1. \A c \in Calls : registrationCall'[c].pc = "insertRequest" =>
        Registrations!Pending(registrationCall[c].email)' = {}
  BY DEF Registrations!Pending
<1>2. \A c \in Calls : registrationCall'[c].pc = "updateStatus" =>
        registrationRequests'[registrationCall'[c].request].state = registrationCall'[c].decision
  BY <1>a
<1>3. \A e \in Users : \A i, j \in Registrations!Pending(e)' : i = j
  <2>1. ASSUME NEW e \in Users
        PROVE  Registrations!Pending(e)' = Registrations!Pending(e)
    BY DEF Registrations!Pending
  <2> QED
    BY <1>a, <2>1
<1>4. ASSUME registrationCrashes' = 0, NEW i \in DOMAIN registrationRequests', Only(i)'
      PROVE  Followed(i)'
  <2>1. i \in DOMAIN registrationRequests /\ Only(i)
    BY <1>4 DEF Only
  <2>2. Followed(i)
    BY <1>a, <1>4, <2>1
  <2> QED
    BY <1>4, <2>1, <2>2 DEF Followed
<1> QED
  BY <1>1, <1>2, <1>3, <1>4 DEF RegistrationAlone

(* The places of a list.                                                   *)
LEMMA PlacesOf ==
  ASSUME NEW S, NEW s \in Seq(S)
  PROVE  DOMAIN s = 1 .. Len(s)
OBVIOUS

(* The place that is added to a list.                                      *)
LEMMA PlaceAdded ==
  ASSUME NEW n \in Nat
  PROVE  1 .. (n + 1) = (1 .. n) \cup {n + 1} /\ n + 1 \notin 1 .. n
OBVIOUS

(* One call at a time: a request is inserted when no other of the address  *)
(* is pending, and the status of the user follows the review               *)
(* (auth.service.ts, admin.service.ts).                                    *)
LEMMA RegistrationAloneKept ==
  ASSUME Registrations!RegistrationTypeOK, RegistrationShape, RegistrationAlone,
         part' = part,
         part = "registrations alone", \A x, y \in Registrations!Serving : x = y, Registrations!Next
  PROVE  RegistrationAlone'
<1>a. /\ \A c \in Calls : registrationCall[c].pc = "insertRequest" =>
           Registrations!Pending(registrationCall[c].email) = {}
      /\ \A c \in Calls : registrationCall[c].pc = "updateStatus" =>
           registrationRequests[registrationCall[c].request].state = registrationCall[c].decision
      /\ \A e \in Users : \A i, j \in Registrations!Pending(e) : i = j
      /\ registrationCrashes = 0 => \A i \in DOMAIN registrationRequests : Only(i) => Followed(i)
  BY DEF RegistrationAlone
<1>p. {"error", "insertProfile", "findRequest", "insertRequest", "registered", "updateStatus", "done"}
         \subseteq Registrations!Points
  BY DEF Registrations!Points
<1>r. /\ Len(registrationRequests) \in Nat
      /\ DOMAIN registrationRequests = 1 .. Len(registrationRequests)
  BY RegistrationRows
<1>o. ASSUME NEW c \in Calls,
             registrationCall[c].pc \in {"insertRequest", "saveRequest", "updateStatus"},
             NEW x \in Calls \ {c}
      PROVE  registrationCall[x].pc \notin {"insertRequest", "updateStatus"}
  BY <1>o DEF Registrations!Serving, Registrations!Finished
<1>k. ASSUME NEW c \in Calls,
             \A x \in Calls \ {c} : registrationCall'[x] = registrationCall[x],
             registrationRequests' = registrationRequests,
             registrationCall[c].pc # "updateStatus", registrationCall'[c].pc # "updateStatus",
             registrationCall'[c].pc = "insertRequest" =>
               Registrations!Pending(registrationCall'[c].email) = {},
             \A i \in DOMAIN registrationRequests :
               registrationUser'[registrationRequests[i].email] = registrationUser[registrationRequests[i].email],
             registrationCrashes' = registrationCrashes
      PROVE  RegistrationAlone'
  <2>1. \A x \in Calls : registrationCall'[x].pc = "insertRequest" =>
           Registrations!Pending(registrationCall'[x].email) = {}
    BY <1>a, <1>k
  <2>2. /\ \A x \in Calls : registrationCall'[x].pc = "updateStatus" => registrationCall'[x] = registrationCall[x]
        /\ \A x \in Calls : registrationCall[x].pc = "updateStatus" => registrationCall'[x] = registrationCall[x]
    BY <1>k
  <2> QED
    BY <1>k, <2>1, <2>2, RegistrationsUndisturbed
<1>1. ASSUME NEW c \in Calls, NEW e \in Users,
             Registrations!Register(c, e) \/ Registrations!UpdateUserRole(c, e)
      PROVE  RegistrationAlone'
  <2>1. /\ registrationRequests' = registrationRequests /\ registrationUser' = registrationUser
        /\ registrationCrashes' = registrationCrashes /\ registrationCall[c].pc = "idle"
    BY <1>1 DEF Registrations!Register, Registrations!UpdateUserRole,
                Registrations!Begin
  <2>2. /\ \A x \in Calls \ {c} : registrationCall'[x] = registrationCall[x]
        /\ registrationCall'[c].pc \in {"insertUser", "findRequest", "done"}
    BY <1>1, RegistrationMoves
  <2> QED
    BY <1>k, <2>1, <2>2
<1>2. ASSUME NEW c \in Calls, NEW i \in DOMAIN registrationRequests,
             NEW d \in {"approved", "rejected"},
             Registrations!ReviewRegistration(c, i, d)
      PROVE  RegistrationAlone'
  <2>1. /\ registrationRequests' = registrationRequests /\ registrationUser' = registrationUser
        /\ registrationCrashes' = registrationCrashes /\ registrationCall[c].pc = "idle"
    BY <1>2 DEF Registrations!ReviewRegistration, Registrations!Begin
  <2> DEFINE q == [pc |-> "saveRequest", email |-> registrationRequests[i].email,
                   request |-> i, decision |-> d]
  <2>2. q.pc = "saveRequest"
    OBVIOUS
  <2>3. /\ \A x \in Calls \ {c} : registrationCall'[x] = registrationCall[x]
        /\ registrationCall'[c] = q
    BY <1>2, RegistrationMoves
  <2> HIDE DEF q
  <2>4. registrationCall'[c].pc = "saveRequest"
    BY <2>2, <2>3
  <2> QED
    BY <1>k, <2>1, <2>3, <2>4
<1>3. ASSUME NEW c \in Calls, Registrations!InsertUser(c)
      PROVE  RegistrationAlone'
  <2>1. /\ registrationRequests' = registrationRequests /\ registrationCrashes' = registrationCrashes
        /\ registrationCall[c].pc = "insertUser"
        /\ Registrations!Goto(c, "error") \/ Registrations!Goto(c, "insertProfile")
    BY <1>3 DEF Registrations!InsertUser
  <2>2. /\ \A x \in Calls \ {c} : registrationCall'[x] = registrationCall[x]
        /\ registrationCall'[c].pc \in {"error", "insertProfile"}
    BY <1>p, <2>1, GotoCall
  <2>3. ASSUME NEW i \in DOMAIN registrationRequests
        PROVE  registrationUser'[registrationRequests[i].email] = registrationUser[registrationRequests[i].email]
    <3>1. /\ registrationRequests[i].email \in Users
          /\ registrationUser[registrationRequests[i].email] # "none"
      BY RegistrationRows DEF RegistrationShape
    <3>2. ASSUME NEW x \in Calls, Registrations!UpdateStatus(x)
          PROVE  FALSE
      <4>1. registrationCall[x].pc = "updateStatus"
        BY <3>2 DEF Registrations!UpdateStatus
      <4>2. x \in Registrations!Serving /\ c \in Registrations!Serving
        BY <2>1, <4>1 DEF Registrations!Serving, Registrations!Finished
      <4>3. x = c
        BY <4>2
      <4> QED
        BY <2>1, <4>1, <4>3
    <3> QED
      BY <3>1, <3>2, UsersStay
  <2> QED
    BY <1>k, <2>1, <2>2, <2>3
<1>4. ASSUME NEW c \in Calls, Registrations!InsertProfile(c)
      PROVE  RegistrationAlone'
  <2>1. /\ registrationRequests' = registrationRequests /\ registrationCrashes' = registrationCrashes
        /\ registrationCall[c].pc = "insertProfile"
        /\ registrationUser' = registrationUser
        /\ Registrations!Goto(c, "error") \/ Registrations!Goto(c, "findRequest")
    BY <1>4 DEF Registrations!InsertProfile
  <2>2. /\ \A x \in Calls \ {c} : registrationCall'[x] = registrationCall[x]
        /\ registrationCall'[c].pc \in {"error", "findRequest"}
    BY <1>p, <2>1, GotoCall
  <2> QED
    BY <1>k, <2>1, <2>2
<1>5. ASSUME NEW c \in Calls, Registrations!FindRequest(c)
      PROVE  RegistrationAlone'
  <2>1. /\ registrationRequests' = registrationRequests /\ registrationCrashes' = registrationCrashes
        /\ registrationCall[c].pc = "findRequest" /\ registrationUser' = registrationUser
        /\ \/ Registrations!Goto(c, "registered")
           \/ Registrations!Goto(c, "insertRequest") /\ Registrations!Pending(registrationCall[c].email) = {}
    BY <1>5 DEF Registrations!FindRequest
  <2>2. /\ \A x \in Calls \ {c} : registrationCall'[x] = registrationCall[x]
        /\ registrationCall'[c].email = registrationCall[c].email
        /\ \/ registrationCall'[c].pc = "registered"
           \/ registrationCall'[c].pc = "insertRequest" /\ Registrations!Pending(registrationCall[c].email) = {}
    BY <1>p, <2>1, GotoCall
  <2> QED
    BY <1>k, <2>1, <2>2
<1>6. ASSUME Registrations!Crash
      PROVE  RegistrationAlone'
  <2>1. /\ registrationRequests' = registrationRequests
        /\ registrationUser' = registrationUser
    BY <1>6 DEF Registrations!Crash
  <2>2. /\ \A x \in Calls : registrationCall'[x].pc \notin {"insertRequest", "updateStatus"}
        /\ registrationCrashes' # 0
    BY <1>6, CrashCalls DEF Registrations!Finished
  <2> QED
    BY <2>1, <2>2, RegistrationsUndisturbed
<1>7. ASSUME NEW c \in Calls, Registrations!InsertRequest(c)
      PROVE  RegistrationAlone'
  <2> DEFINE n == Len(registrationRequests) + 1
  <2>1. /\ registrationCall[c].pc = "insertRequest" /\ Registrations!Goto(c, "registered")
        /\ registrationUser' = registrationUser
        /\ registrationCrashes' = registrationCrashes
    BY <1>7 DEF Registrations!InsertRequest
  <2>2. /\ DOMAIN registrationRequests' = DOMAIN registrationRequests \cup {n} /\ n \notin DOMAIN registrationRequests
        /\ registrationRequests'[n].email = registrationCall[c].email
        /\ registrationRequests'[n].state = "pending"
        /\ \A i \in DOMAIN registrationRequests : registrationRequests'[i] = registrationRequests[i]
    <3>1. /\ registrationRequests' \in Seq(Registrations!RegistrationRequest)
          /\ Len(registrationRequests') = n
          /\ registrationRequests'[n].email = registrationCall[c].email
          /\ registrationRequests'[n].state = "pending"
          /\ \A i \in DOMAIN registrationRequests : registrationRequests'[i] = registrationRequests[i]
      BY <1>7, RequestsStay
    <3>2. DOMAIN registrationRequests' = 1 .. n
      BY <3>1, PlacesOf
    <3>3. /\ 1 .. n = DOMAIN registrationRequests \cup {n}
          /\ n \notin DOMAIN registrationRequests
      BY <1>r, PlaceAdded
    <3> HIDE DEF n
    <3> QED
      BY <3>1, <3>2, <3>3
  <2> HIDE DEF n
  <2>3. \A x \in Calls : /\ registrationCall'[x].pc \notin {"insertRequest", "updateStatus"}
                         /\ registrationCall[x].pc # "updateStatus"
    <3>1. /\ registrationCall'[c].pc = "registered"
          /\ registrationCall[c].pc = "insertRequest"
      BY <1>p, <2>1, GotoCall
    <3>2. ASSUME NEW x \in Calls \ {c}
          PROVE  /\ registrationCall'[x].pc \notin {"insertRequest", "updateStatus"}
                 /\ registrationCall[x].pc # "updateStatus"
      BY <1>p, <1>o, <2>1, <3>2, GotoCall
    <3> QED
      BY <3>1, <3>2
  <2>4. ASSUME NEW e \in Users, NEW i \in Registrations!Pending(e)',
               NEW j \in Registrations!Pending(e)'
        PROVE  i = j
    <3>1. /\ i \in DOMAIN registrationRequests' /\ registrationRequests'[i].email = e
          /\ registrationRequests'[i].state = "pending"
          /\ j \in DOMAIN registrationRequests' /\ registrationRequests'[j].email = e
          /\ registrationRequests'[j].state = "pending"
      BY DEF Registrations!Pending
    <3>2. ASSUME NEW k \in DOMAIN registrationRequests,
                 registrationRequests'[k].email = e,
                 registrationRequests'[k].state = "pending"
          PROVE  k \in Registrations!Pending(e) /\ e # registrationCall[c].email
      <4>1. k \in Registrations!Pending(e)
        BY <2>2, <3>2 DEF Registrations!Pending
      <4> QED
        BY <1>a, <2>1, <4>1
    <3> QED
      BY <1>a, <2>2, <3>1, <3>2
  <2>5. ASSUME registrationCrashes' = 0, NEW i \in DOMAIN registrationRequests', Only(i)'
        PROVE  Followed(i)'
    <3>1. CASE i = n
      BY <2>2, <3>1 DEF Followed
    <3>2. CASE i \in DOMAIN registrationRequests
      <4>1. Only(i)
        BY <2>2, <2>5, <3>2 DEF Only
      <4>2. Followed(i)
        BY <1>a, <2>1, <2>5, <3>2, <4>1
      <4> QED
        BY <2>1, <2>2, <2>3, <3>2, <4>2 DEF Followed
    <3> QED
      BY <2>2, <3>1, <3>2
  <2> QED
    BY <2>3, <2>4, <2>5 DEF RegistrationAlone
<1>8. ASSUME NEW c \in Calls, Registrations!SaveDecision(c)
      PROVE  RegistrationAlone'
  <2> DEFINE k == registrationCall[c].request
  <2>1. /\ registrationCall[c].pc = "saveRequest" /\ Registrations!Goto(c, "updateStatus")
        /\ registrationUser' = registrationUser
        /\ registrationCrashes' = registrationCrashes
    BY <1>8 DEF Registrations!SaveDecision
  <2>2. /\ DOMAIN registrationRequests' = DOMAIN registrationRequests /\ k \in DOMAIN registrationRequests
        /\ registrationRequests'[k].state = registrationCall[c].decision
        /\ registrationRequests'[k].email = registrationRequests[k].email
        /\ \A i \in DOMAIN registrationRequests \ {k} : registrationRequests'[i] = registrationRequests[i]
    <3>1. /\ registrationRequests' \in Seq(Registrations!RegistrationRequest)
          /\ Len(registrationRequests') = Len(registrationRequests)
          /\ k \in DOMAIN registrationRequests
          /\ registrationRequests'[k].state = registrationCall[c].decision
          /\ registrationRequests'[k].email = registrationRequests[k].email
          /\ \A i \in DOMAIN registrationRequests \ {k} : registrationRequests'[i] = registrationRequests[i]
      BY <1>8, RequestsStay
    <3>2. DOMAIN registrationRequests' = 1 .. Len(registrationRequests)
      BY <3>1, PlacesOf
    <3> HIDE DEF k
    <3> QED
      BY <1>r, <3>1, <3>2
  <2>3. registrationCall[c].decision # "pending"
    BY <2>1 DEF RegistrationShape, CallShape
  <2> HIDE DEF k
  <2>4. /\ \A x \in Calls \ {c} : /\ registrationCall'[x] = registrationCall[x]
                                  /\ registrationCall[x].pc \notin {"insertRequest", "updateStatus"}
        /\ registrationCall'[c].pc = "updateStatus" /\ registrationCall'[c].request = k
        /\ registrationCall'[c].decision = registrationCall[c].decision
    BY <1>p, <1>o, <2>1, GotoCall DEF k
  <2>5. ASSUME NEW e \in Users, NEW i \in Registrations!Pending(e)',
               NEW j \in Registrations!Pending(e)'
        PROVE  i = j
    <3>1. i \in Registrations!Pending(e) /\ j \in Registrations!Pending(e)
      BY <2>2, <2>3 DEF Registrations!Pending
    <3> QED
      BY <1>a, <3>1
  <2>6. ASSUME registrationCrashes' = 0, NEW i \in DOMAIN registrationRequests', Only(i)'
        PROVE  Followed(i)'
    <3>1. CASE i = k
      BY <2>4, <3>1 DEF Followed
    <3>2. CASE i # k
      <4>1. /\ i \in DOMAIN registrationRequests
            /\ registrationRequests'[i] = registrationRequests[i]
        BY <2>2, <3>2
      <4>2. \A j \in DOMAIN registrationRequests : registrationRequests'[j].email = registrationRequests[j].email
        BY <2>2
      <4>3. Only(i)
        BY <2>2, <2>6, <4>1, <4>2 DEF Only
      <4>4. Followed(i)
        BY <1>a, <2>1, <2>6, <4>1, <4>3
      <4>5. \A x \in Calls : registrationCall[x].pc # "updateStatus"
        BY <2>1, <2>4
      <4> QED
        BY <2>1, <4>1, <4>4, <4>5 DEF Followed
    <3> QED
      BY <3>1, <3>2
  <2>7. \A x \in Calls : registrationCall'[x].pc = "updateStatus" =>
          registrationRequests'[registrationCall'[x].request].state = registrationCall'[x].decision
    BY <2>2, <2>4
  <2>8. \A x \in Calls : registrationCall'[x].pc # "insertRequest"
    BY <2>4
  <2> QED
    BY <2>5, <2>6, <2>7, <2>8 DEF RegistrationAlone
<1>9. ASSUME NEW c \in Calls, Registrations!UpdateStatus(c)
      PROVE  RegistrationAlone'
  <2> DEFINE k == registrationCall[c].request
             e == registrationCall[c].email
             new == IF registrationCall[c].decision = "approved" THEN "active" ELSE "rejected"
  <2>1. /\ registrationCall[c].pc = "updateStatus" /\ Registrations!Goto(c, "done")
        /\ registrationUser' = [registrationUser EXCEPT ![e] = new]
        /\ registrationRequests' = registrationRequests
        /\ registrationCrashes' = registrationCrashes
    BY <1>9 DEF Registrations!UpdateStatus
  <2>2. /\ k \in DOMAIN registrationRequests /\ registrationRequests[k].email = e /\ e \in Users
        /\ registrationCall[c].decision \in {"approved", "rejected"}
        /\ registrationRequests[k].state = registrationCall[c].decision
    <3>1. /\ k \in DOMAIN registrationRequests /\ registrationRequests[k].email = e /\ e \in Users
          /\ registrationCall[c].decision # "pending"
      BY <2>1 DEF RegistrationShape, CallShape
    <3>2. registrationCall[c].decision \in {"pending", "approved", "rejected"}
      BY RegistrationCalls DEF Registrations!States
    <3> QED
      BY <1>a, <2>1, <3>1, <3>2
  <2>3. /\ registrationUser'[e] = new
        /\ \A f \in Users \ {e} : registrationUser'[f] = registrationUser[f]
    BY <2>1, <2>2, RegistrationRows
  <2>4. \A x \in Calls : /\ registrationCall'[x].pc \notin {"insertRequest", "updateStatus"}
                         /\ registrationCall[x].pc = "updateStatus" => x = c
    <3>1. registrationCall'[c].pc = "done"
      BY <1>p, <2>1, GotoCall
    <3>2. ASSUME NEW x \in Calls \ {c}
          PROVE  /\ registrationCall'[x].pc \notin {"insertRequest", "updateStatus"}
                 /\ registrationCall[x].pc # "updateStatus"
      BY <1>p, <1>o, <2>1, <3>2, GotoCall
    <3> QED
      BY <3>1, <3>2
  <2>5. ASSUME registrationCrashes' = 0, NEW i \in DOMAIN registrationRequests', Only(i)'
        PROVE  Followed(i)'
    <3>1. CASE i = k
      BY <2>1, <2>2, <2>3, <3>1 DEF Followed
    <3>2. CASE i # k
      <4>1. i \in DOMAIN registrationRequests /\ Only(i)
        BY <2>1, <2>5 DEF Only
      <4>2. Followed(i)
        BY <1>a, <2>1, <2>5, <4>1
      <4>3. registrationRequests[i].email \in Users \ {e}
        BY <2>2, <3>2, <4>1, RegistrationRows DEF Only
      <4> HIDE DEF k, e
      <4>4. \A x \in Calls : ~(registrationCall[x].pc = "updateStatus" /\ registrationCall[x].request = i)
        BY <2>4, <3>2 DEF k
      <4> QED
        BY <2>1, <2>3, <4>1, <4>2, <4>3, <4>4 DEF Followed
    <3> QED
      BY <3>1, <3>2
  <2>6. ASSUME NEW f \in Users, NEW i \in Registrations!Pending(f)',
               NEW j \in Registrations!Pending(f)'
        PROVE  i = j
    <3>1. i \in Registrations!Pending(f) /\ j \in Registrations!Pending(f)
      BY <2>1 DEF Registrations!Pending
    <3> QED
      BY <1>a, <3>1
  <2> QED
    BY <2>4, <2>5, <2>6 DEF RegistrationAlone
<1> QED
  BY <1>1, <1>2, <1>3, <1>4, <1>5, <1>6, <1>7, <1>8, <1>9 DEF Registrations!Next

(* What registrations promise follows.                                     *)
LEMMA RegistrationProperties ==
  ASSUME RegistrationInv, part \in RegistrationParts
  PROVE  /\ Registrations!RegistrationTypeOK /\ Registrations!RegisteredIsListed
         /\ Registrations!ProfilesComplete
         /\ part = "registrations alone" => Registrations!StatusFollowsReview /\ Registrations!OnePending
<1>1. /\ Registrations!RegistrationTypeOK /\ Registrations!RegisteredIsListed
      /\ ProfilesUnderWay /\ RegistrationAlone
  BY DEF RegistrationInv
<1>2. Registrations!ProfilesComplete
  <2>1. ASSUME registrationCrashes = 0, NEW e \in Users, registrationUser[e] # "none",
               ~Registrations!Served(e)
        PROVE  e \in registrationProfile
    <3>1. \A c \in Calls : registrationCall[c].pc = "insertProfile" => c \in Registrations!Serving
      BY DEF Registrations!Serving, Registrations!Finished
    <3> QED
      BY <1>1, <2>1, <3>1 DEF ProfilesUnderWay, Registrations!Served
  <2> QED
    BY <2>1 DEF Registrations!ProfilesComplete
<1>3. ASSUME part = "registrations alone"
      PROVE  Registrations!StatusFollowsReview
  <2>1. ASSUME Registrations!Serving = {}, NEW c \in Calls
        PROVE  registrationCall[c].pc # "updateStatus"
    BY <2>1 DEF Registrations!Serving, Registrations!Finished
  <2>2. ASSUME Registrations!Serving = {}, registrationCrashes = 0,
               NEW i \in DOMAIN registrationRequests, Only(i)
        PROVE  \/ registrationRequests[i].state = "pending"
               \/ registrationRequests[i].state = "approved"
                  /\ registrationUser[registrationRequests[i].email] = "active"
               \/ registrationRequests[i].state = "rejected"
                  /\ registrationUser[registrationRequests[i].email] = "rejected"
    <3>1. Followed(i)
      BY <1>1, <1>3, <2>2 DEF RegistrationAlone
    <3> QED
      BY <2>1, <2>2, <3>1 DEF Followed
  <2> QED
    BY <2>2 DEF Registrations!StatusFollowsReview, Only
<1>4. ASSUME part = "registrations alone", NEW e \in Users
      PROVE  Registrations!Cardinality(Registrations!Pending(e)) <= 1
  <2> DEFINE S == Registrations!Pending(e)
  <2>1. \A i, j \in S : i = j
    BY <1>1, <1>4 DEF RegistrationAlone
  <2> HIDE DEF S
  <2>2. S = {} \/ \E x : S = {x}
    BY <2>1
  <2>3. Cardinality({}) = 0
    BY FS_EmptySet
  <2>4. ASSUME NEW x, S = {x}
        PROVE  Cardinality(S) <= 1
    BY <2>4, FS_Singleton
  <2>5. Cardinality(S) <= 1
    BY <2>2, <2>3, <2>4
  <2>6. Registrations!Cardinality(S) = Cardinality(S)
    BY DEF Registrations!Cardinality, Cardinality
  <2> QED
    BY <2>5, <2>6 DEF S
<1> QED
  BY <1>1, <1>2, <1>3, <1>4 DEF Registrations!OnePending

(* Nobody has registered when the part begins.                             *)
LEMMA RegistrationBegin ==
  ASSUME Init
  PROVE  RegistrationInv
<1> SUFFICES ASSUME part \in RegistrationParts
             PROVE  /\ Registrations!RegistrationTypeOK
                    /\ OneAtATime(Registrations!Serving)
                    /\ RegistrationShape /\ Registrations!RegisteredIsListed
                    /\ ProfilesUnderWay /\ RegistrationAlone
  BY DEF RegistrationInv
<1> DEFINE idle == [pc |-> "idle", email |-> None, request |-> 0, decision |-> "pending"]
<1>1. /\ registrationUser = [e \in Users |-> "none"] /\ registrationProfile = {}
      /\ registrationRequests = << >> /\ registrationCrashes = 0
      /\ registrationCall = [c \in Calls |-> idle]
  BY DEF Init, Registrations!Init
<1>2. idle \in Registrations!CallState /\ idle.pc = "idle"
  BY DEF Registrations!CallState, Registrations!Points, Registrations!States
<1> HIDE DEF idle
<1>3. \A c \in Calls : registrationCall[c] = idle /\ registrationCall[c].pc = "idle"
  BY <1>1, <1>2
<1>4. /\ DOMAIN registrationRequests = {}
      /\ registrationRequests \in Seq(Registrations!RegistrationRequest)
  BY <1>1
<1>5. Registrations!RegistrationTypeOK
  <2>1. registrationUser \in [Users -> Registrations!UserStatuses]
    BY <1>1 DEF Registrations!UserStatuses
  <2>2. registrationCall \in [Calls -> Registrations!CallState]
    BY <1>1, <1>2
  <2>3. registrationCrashes \in 0 .. MaxCrashes
    BY <1>1, RegistrationsAssumption DEF Registrations!RegistrationAssumption
  <2> QED
    BY <1>1, <1>4, <2>1, <2>2, <2>3 DEF Registrations!RegistrationTypeOK
<1>6. OneAtATime(Registrations!Serving)
  BY <1>3 DEF OneAtATime, Registrations!Serving, Registrations!Finished
<1>7. RegistrationShape /\ Registrations!RegisteredIsListed
  BY <1>3, <1>4 DEF RegistrationShape, CallShape, Registrations!RegisteredIsListed
<1>8. ProfilesUnderWay
  BY <1>1 DEF ProfilesUnderWay
<1>9. RegistrationAlone
  BY <1>3, <1>4 DEF RegistrationAlone, Registrations!Pending
<1> QED
  BY <1>5, <1>6, <1>7, <1>8, <1>9

(* The steps of registrations keep what is known of them.                  *)
LEMMA RegistrationKept ==
  ASSUME RegistrationInv, [Next]_vars
  PROVE  RegistrationInv'
<1>0. part' = part
  BY DEF Next, vars
<1>1. CASE UNCHANGED registrationVars
  <2>1. /\ registrationUser' = registrationUser /\ registrationProfile' = registrationProfile
        /\ registrationRequests' = registrationRequests
        /\ registrationCall' = registrationCall
        /\ registrationCrashes' = registrationCrashes
    BY <1>1 DEF registrationVars
  <2>2. Registrations!RegistrationTypeOK' = Registrations!RegistrationTypeOK
    BY <2>1 DEF Registrations!RegistrationTypeOK
  <2>3. OneAtATime(Registrations!Serving)' = OneAtATime(Registrations!Serving)
        /\ RegistrationShape' = RegistrationShape
    BY <1>0, <2>1 DEF OneAtATime, Registrations!Serving, RegistrationShape
  <2>4. Registrations!RegisteredIsListed' = Registrations!RegisteredIsListed
        /\ ProfilesUnderWay' = ProfilesUnderWay
    BY <2>1 DEF Registrations!RegisteredIsListed, ProfilesUnderWay
  <2>5. RegistrationAlone' = RegistrationAlone
    BY <1>0, <2>1 DEF RegistrationAlone, Registrations!Pending, Only, Followed
  <2> QED
    BY <1>0, <2>2, <2>3, <2>4, <2>5 DEF RegistrationInv
<1>2. CASE RegistrationsStep
  <2>1. /\ part \in RegistrationParts /\ Registrations!Next /\ Fits(Registrations!Serving')
        /\ Registrations!RegistrationTypeOK /\ OneAtATime(Registrations!Serving)
        /\ RegistrationShape /\ Registrations!RegisteredIsListed
        /\ ProfilesUnderWay /\ RegistrationAlone
    BY <1>2 DEF RegistrationsStep, RegistrationInv
  <2>2. /\ Registrations!RegistrationTypeOK' /\ RegistrationShape'
        /\ Registrations!RegisteredIsListed'
    BY <2>1, RegistrationTyped
  <2>3. OneAtATime(Registrations!Serving)'
    <3>1. Registrations!Serving' \in SUBSET Calls
      BY DEF Registrations!Serving
    <3>2. OneAtATime(Registrations!Serving')
      BY <2>1, <3>1, FitsAlone
    <3> QED
      BY <1>0, <3>2 DEF OneAtATime
  <2>4. ProfilesUnderWay'
    BY <2>1, ProfilesUnderWayKept
  <2>5. RegistrationAlone'
    <3>1. CASE part = "registrations alone"
      <4>1. \A x, y \in Registrations!Serving : x = y
        BY <2>1, <3>1 DEF OneAtATime, Alone
      <4> QED
        BY <1>0, <2>1, <3>1, <4>1, RegistrationAloneKept
    <3>2. CASE part # "registrations alone"
      BY <1>0, <3>2 DEF RegistrationAlone
    <3> QED
      BY <3>1, <3>2
  <2> QED
    BY <2>2, <2>3, <2>4, <2>5 DEF RegistrationInv
<1> QED
  BY <1>1, <1>2 DEF Next, vars, CodesStep, SessionsStep, AccountsStep, PagesStep

(* No registration undoes a review.                                        *)
LEMMA RegistrationTakesNothing ==
  ASSUME RegistrationInv, [Next]_vars, part \in RegistrationParts
  PROVE  Registrations!ReviewsOutlastRegistrations
<1>1. CASE UNCHANGED registrationUser
  BY <1>1 DEF Registrations!ReviewsOutlastRegistrations
<1>2. CASE RegistrationsStep
  <2>1. Registrations!Next /\ Registrations!RegistrationTypeOK /\ RegistrationShape
    BY <1>2 DEF RegistrationsStep, RegistrationInv
  <2>2. ASSUME NEW c \in Calls, Registrations!UpdateStatus(c)
        PROVE  \E i \in DOMAIN registrationRequests :
                  registrationRequests[i].email = registrationCall[c].email
    BY <2>1, <2>2 DEF Registrations!UpdateStatus, RegistrationShape, CallShape
  <2>3. ASSUME NEW e \in Users, registrationUser'[e] # registrationUser[e]
        PROVE  \/ registrationUser[e] = "none" /\ registrationUser'[e] = "pending"
               \/ /\ registrationUser'[e] = "active"
                  /\ \E i \in DOMAIN registrationRequests : registrationRequests[i].email = e
               \/ registrationUser'[e] = "rejected"
    BY <2>1, <2>2, <2>3, UsersStay
  <2> QED
    BY <2>3 DEF Registrations!ReviewsOutlastRegistrations
<1> QED
  BY <1>1, <1>2 DEF Next, vars, registrationVars, CodesStep, SessionsStep, AccountsStep,
                    PagesStep

-----------------------------------------------------------------------------
(* Accounts                                                                *)

\* What a call has read is still so.
ReadsStand ==
  \A c \in Calls :
    /\ call[c].pc = "adjusting" => call[c].before = balance[call[c].user]
    /\ call[c].pc = "saving" => call[c].balance = balance[call[c].user]

\* Nothing is written between what a call reads and what it writes, if none
\* overlap.
AccountsInv ==
  part \in AccountParts =>
    /\ AccountsTypeOK /\ OneAtATime(Serving) /\ AuditsMatchLedger
    /\ part = "adjustments" => \A c \in Calls : call[c].pc # "saving"
    /\ part \in {"adjustments", "accounts alone"} => LedgerBacksBalance
    /\ part = "accounts alone" => AuditsAddUp /\ ReadsStand

(* What a call of the staff has read.                                      *)
LEMMA AccountCalls ==
  ASSUME AccountsTypeOK, NEW c \in Calls
  PROVE  /\ call[c] \in CallStates
         /\ call[c].pc \in {"idle", "done", "adjusting", "revoking", "saving"}
         /\ call[c].pc \in {"adjusting", "revoking", "saving"} => call[c].user \in Users
         /\ call[c].pc = "adjusting" => call[c].change \in Int /\ call[c].before \in Nat
         /\ call[c].pc = "saving" => call[c].status \in AccountStatuses /\ call[c].balance \in Nat
<1>1. call[c] \in CallStates
  BY DEF AccountsTypeOK
<1> QED
  BY <1>1 DEF CallStates

(* The accounts as they were opened.                                       *)
LEMMA AccountsBegin ==
  ASSUME Init
  PROVE  AccountsInv
<1> SUFFICES ASSUME part \in AccountParts
             PROVE  AccountsInv
  BY DEF AccountsInv
<1>1. /\ MoneyInit /\ status = [u \in Users |-> "active"] /\ audits = {} /\ signedIn = Users
      /\ call = [c \in Calls |-> [pc |-> "idle"]]
  BY DEF Init, AccountsInit
<1>2. MoneyTypeOK /\ LedgerBacksBalance
  BY <1>1, MoneyInitBacked
<1>3. \A c \in Calls : call[c] \in CallStates /\ call[c].pc = "idle"
  BY <1>1 DEF CallStates
<1>4. AccountsTypeOK
  BY <1>1, <1>2, <1>3 DEF AccountsTypeOK, AccountStatuses
<1>5. OneAtATime(Serving)
  BY <1>3 DEF OneAtATime, Serving
<1>6. AuditsMatchLedger /\ AuditsAddUp
  BY <1>1 DEF AuditsMatchLedger, AuditsAddUp
<1> QED
  BY <1>2, <1>3, <1>4, <1>5, <1>6 DEF AccountsInv, ReadsStand

(* What adjustUserCredit commits is one transaction of BalanceService.     *)
LEMMA AdjustmentCommits ==
  ASSUME AccountsTypeOK, NEW c \in Calls, AdjustCommit(c)
  PROVE  /\ MoneyTypeOK' /\ (LedgerBacksBalance => LedgerBacksBalance')
         /\ \/ UNCHANGED audits /\ UNCHANGED moneyVars
            \/ /\ audits' = audits \cup
                    {[user |-> call[c].user, change |-> call[c].change, before |-> call[c].before,
                      after |-> balance[call[c].user] + call[c].change]}
               /\ balance[call[c].user] + call[c].change \in Nat
               /\ \E i \in DOMAIN ledger'[call[c].user] :
                    /\ ledger'[call[c].user][i].amount = call[c].change
                    /\ ledger'[call[c].user][i].after = balance[call[c].user] + call[c].change
               /\ \A u \in Users : \A i \in DOMAIN ledger[u] :
                    i \in DOMAIN ledger'[u] /\ ledger'[u][i] = ledger[u][i]
<1> DEFINE u == call[c].user
           d == call[c].change
           row == RowOf(NoOrder, d, balance[u] + d)
<1>1. call[c].pc = "adjusting" /\ MoneyTypeOK
  BY DEF AdjustCommit, AccountsTypeOK
<1>2. u \in Users /\ d \in Int
  BY <1>1, AccountCalls
<1>3. /\ balance[u] \in Nat
      /\ ledger \in [Users -> Seq(LedgerRow)]
      /\ ledger[u] \in Seq(LedgerRow)
  BY <1>1, <1>2 DEF MoneyTypeOK
<1>5. CASE ~(balance[u] + d >= 0)
  <2>1. UNCHANGED audits /\ UNCHANGED moneyVars
    BY <1>5 DEF AdjustCommit
  <2>2. MoneyNext
    BY <2>1 DEF MoneyNext
  <2> QED
    BY <1>1, <2>1, <2>2, MoneyNextTyped, MoneyNextBacks
<1>6. CASE balance[u] + d >= 0
  <2>1. /\ ApplyChange(u, d, NoOrder)
        /\ audits' = audits \cup {[user |-> u, change |-> d, before |-> call[c].before,
                                   after |-> balance[u] + d]}
    BY <1>6 DEF AdjustCommit
  <2>2. MoneyNext
    BY <1>1, <1>2, <1>6, <2>1, ApplyChangeIsMoneyNext
  <2>3. balance[u] + d \in Nat
    BY <1>2, <1>3, <1>6
  <2>4. row \in LedgerRow /\ row.amount = d /\ row.after = balance[u] + d
    BY <1>2, <2>3 DEF RowOf, LedgerRow
  <2>5. ledger' = [ledger EXCEPT ![u] = @ \o <<row>>]
    BY <2>1 DEF ApplyChange, PostRows
  <2> HIDE DEF row
  <2>6. /\ ledger'[u] = ledger[u] \o <<row>>
        /\ \A v \in Users \ {u} : ledger'[v] = ledger[v]
    BY <1>2, <1>3, <2>5
  <2>7. <<row>> \in Seq(LedgerRow) /\ Len(<<row>>) = 1 /\ <<row>>[1] = row
    BY <2>4
  <2>8. /\ DOMAIN ledger[u] = 1 .. Len(ledger[u]) /\ Len(ledger[u]) \in Nat
        /\ DOMAIN ledger'[u] = 1 .. Len(ledger[u]) + 1
        /\ ledger'[u][Len(ledger[u]) + 1] = row
        /\ \A i \in DOMAIN ledger[u] : ledger'[u][i] = ledger[u][i]
    BY <1>3, <2>6, <2>7
  <2>9. /\ Len(ledger[u]) + 1 \in DOMAIN ledger'[u]
        /\ \A i \in DOMAIN ledger[u] : i \in DOMAIN ledger'[u]
    BY <2>8
  <2>10. \A v \in Users : \A i \in DOMAIN ledger[v] :
           i \in DOMAIN ledger'[v] /\ ledger'[v][i] = ledger[v][i]
    BY <2>6, <2>8, <2>9
  <2>11. MoneyTypeOK' /\ (LedgerBacksBalance => LedgerBacksBalance')
    BY <1>1, <2>2, MoneyNextTyped, MoneyNextBacks
  <2> HIDE DEF u, d
  <2>12. \E i \in DOMAIN ledger'[u] : ledger'[u][i].amount = d /\ ledger'[u][i].after = balance[u] + d
    BY <2>4, <2>8, <2>9
  <2> QED
    BY <2>1, <2>2, <2>3, <2>10, <2>11, <2>12 DEF u, d
<1> QED
  BY <1>5, <1>6

(* The audits stay those of rows of the ledger (admin.service.ts:209-230). *)
LEMMA AuditsStayMatched ==
  ASSUME AccountsTypeOK, AuditsMatchLedger, NEW c \in Calls, AdjustCommit(c)
  PROVE  AuditsMatchLedger' /\ audits' \subseteq AuditRow
<1> DEFINE new == [user |-> call[c].user, change |-> call[c].change, before |-> call[c].before,
                   after |-> balance[call[c].user] + call[c].change]
<1>1. call[c].pc = "adjusting" /\ audits \subseteq AuditRow
  BY DEF AdjustCommit, AccountsTypeOK
<1>2. CASE UNCHANGED audits /\ UNCHANGED moneyVars
  BY <1>1, <1>2 DEF AuditsMatchLedger, moneyVars
<1>3. CASE /\ audits' = audits \cup {new}
           /\ balance[call[c].user] + call[c].change \in Nat
           /\ \E i \in DOMAIN ledger'[call[c].user] :
                 /\ ledger'[call[c].user][i].amount = call[c].change
                 /\ ledger'[call[c].user][i].after = balance[call[c].user] + call[c].change
           /\ \A u \in Users : \A i \in DOMAIN ledger[u] :
                i \in DOMAIN ledger'[u] /\ ledger'[u][i] = ledger[u][i]
  <2>1. call[c].user \in Users /\ call[c].change \in Int /\ call[c].before \in Nat
    BY <1>1, AccountCalls
  <2>2. new \in AuditRow
    BY <1>3, <2>1 DEF AuditRow
  <2>3. \E i \in DOMAIN ledger'[new.user] :
           ledger'[new.user][i].amount = new.change /\ ledger'[new.user][i].after = new.after
    BY <1>3
  <2> HIDE DEF new
  <2>4. ASSUME NEW a \in audits
        PROVE  \E i \in DOMAIN ledger'[a.user] :
                  ledger'[a.user][i].amount = a.change /\ ledger'[a.user][i].after = a.after
    <3>1. a.user \in Users
      BY <1>1 DEF AuditRow
    <3>2. PICK i \in DOMAIN ledger[a.user] :
             ledger[a.user][i].amount = a.change /\ ledger[a.user][i].after = a.after
      BY DEF AuditsMatchLedger
    <3> QED
      BY <1>3, <3>1, <3>2
  <2> QED
    BY <1>1, <1>3, <2>2, <2>3, <2>4 DEF AuditsMatchLedger
<1> QED
  BY <1>2, <1>3, AdjustmentCommits

(* What a step of the accounts does to the calls and to the rows: the      *)
(* types stay, and so do the audits' rows of the ledger.                   *)
LEMMA AccountsTyped ==
  ASSUME AccountsTypeOK, AuditsMatchLedger, AccountsNext
  PROVE  AccountsTypeOK' /\ AuditsMatchLedger'
<1> DEFINE Goal == AccountsTypeOK' /\ AuditsMatchLedger'
<1>t. /\ MoneyTypeOK /\ status \in [Users -> AccountStatuses] /\ audits \subseteq AuditRow
      /\ signedIn \subseteq Users /\ call \in [Calls -> CallStates]
  BY DEF AccountsTypeOK
<1>m. ASSUME NEW c \in Calls, NEW q \in CallStates, call' = [call EXCEPT ![c] = q]
      PROVE  call' \in [Calls -> CallStates]
  BY <1>t, <1>m
<1>d. [pc |-> "done"] \in CallStates
  BY DEF CallStates
<1>u. UNCHANGED moneyVars => MoneyTypeOK'
  BY <1>t DEF MoneyTypeOK, moneyVars
<1>a. UNCHANGED moneyVars /\ UNCHANGED audits => AuditsMatchLedger'
  BY DEF AuditsMatchLedger, moneyVars
<1>1. ASSUME NEW c \in Calls, NEW u \in Users, NEW change \in Int,
             AdjustRead(c, u, change)
      PROVE  Goal
  <2>1. balance[u] \in Nat
    BY <1>t DEF MoneyTypeOK
  <2>2. [pc |-> "adjusting", user |-> u, change |-> change, before |-> balance[u]] \in CallStates
    BY <2>1 DEF CallStates
  <2>3. /\ call' = [call EXCEPT ![c] = [pc |-> "adjusting", user |-> u, change |-> change, before |-> balance[u]]]
        /\ UNCHANGED moneyVars
        /\ status' = status
        /\ audits' = audits
        /\ signedIn' = signedIn
    BY <1>1 DEF AdjustRead
  <2> QED
    BY <1>t, <1>m, <1>u, <1>a, <2>2, <2>3 DEF AccountsTypeOK
<1>2. ASSUME NEW c \in Calls, NEW u \in Users, NEW s \in AccountStatuses,
             StatusRead(c, u, s)
      PROVE  Goal
  <2>1. balance[u] \in Nat
    BY <1>t DEF MoneyTypeOK
  <2>2. [pc |-> "saving", user |-> u, status |-> s, balance |-> balance[u]] \in CallStates
    BY <2>1 DEF CallStates
  <2>3. /\ call' = [call EXCEPT ![c] = [pc |-> "saving", user |-> u, status |-> s, balance |-> balance[u]]]
        /\ UNCHANGED moneyVars
        /\ status' = status
        /\ audits' = audits
        /\ signedIn' = signedIn
    BY <1>2 DEF StatusRead
  <2> QED
    BY <1>t, <1>m, <1>u, <1>a, <2>2, <2>3 DEF AccountsTypeOK
<1>3. ASSUME NEW c \in Calls, AdjustCommit(c)
      PROVE  Goal
  <2>1. /\ call' = [call EXCEPT ![c] = [pc |-> "done"]]
        /\ status' = status /\ signedIn' = signedIn
    BY <1>3 DEF AdjustCommit, Return
  <2>3. MoneyTypeOK'
    BY <1>3, AdjustmentCommits
  <2>2. AuditsMatchLedger' /\ audits' \subseteq AuditRow
    BY <1>3, AuditsStayMatched
  <2> QED
    BY <1>t, <1>m, <1>d, <2>1, <2>2, <2>3 DEF AccountsTypeOK
<1>4. ASSUME NEW c \in Calls, StatusSave(c)
      PROVE  Goal
  <2>1. /\ call[c].pc = "saving" /\ status' = [status EXCEPT ![call[c].user] = call[c].status]
        /\ balance' = [balance EXCEPT ![call[c].user] = call[c].balance]
        /\ call' = [call EXCEPT ![c] = [pc |-> "revoking", user |-> call[c].user]]
        /\ ledger' = ledger /\ audits' = audits /\ signedIn' = signedIn
    BY <1>4 DEF StatusSave
  <2>2. /\ call[c].user \in Users
        /\ call[c].status \in AccountStatuses
        /\ call[c].balance \in Nat
    BY <2>1, AccountCalls
  <2>3. [pc |-> "revoking", user |-> call[c].user] \in CallStates
    BY <2>2 DEF CallStates
  <2>4. MoneyTypeOK' /\ status' \in [Users -> AccountStatuses]
    BY <1>t, <2>1, <2>2 DEF MoneyTypeOK
  <2>5. AuditsMatchLedger'
    BY <2>1 DEF AuditsMatchLedger
  <2> QED
    BY <1>t, <1>m, <2>1, <2>3, <2>4, <2>5 DEF AccountsTypeOK
<1>5. ASSUME NEW c \in Calls, StatusRevoke(c)
      PROVE  Goal
  <2>1. /\ signedIn' = signedIn \ {call[c].user} /\ call' = [call EXCEPT ![c] = [pc |-> "done"]]
        /\ UNCHANGED moneyVars /\ status' = status /\ audits' = audits
    BY <1>5 DEF StatusRevoke, Return
  <2> QED
    BY <1>t, <1>m, <1>d, <1>u, <1>a, <2>1 DEF AccountsTypeOK
<1> HIDE DEF Goal
<1>6. \A a \in Changes : a \in Int /\ 0 - a \in Int
  BY SignInAssumption DEF UserAccountsAssumption
<1>7. Goal
  BY <1>1, <1>2, <1>3, <1>4, <1>5, <1>6 DEF AccountsNext
<1> QED
  BY <1>7 DEF Goal

(* Steps that leave the money alone, or post it through BalanceService,    *)
(* leave the ledger backing the balance.                                   *)
LEMMA AccountsBacked ==
  ASSUME AccountsTypeOK, LedgerBacksBalance, AccountsNext,
         \A c \in Calls : StatusSave(c) => call[c].balance = balance[call[c].user]
  PROVE  LedgerBacksBalance'
<1>t. balance \in [Users -> Nat]
  BY DEF AccountsTypeOK, MoneyTypeOK
<1>u. balance' = balance /\ ledger' = ledger => LedgerBacksBalance'
  BY DEF LedgerBacksBalance, CL!Balanced, Statement
<1>1. ASSUME NEW c \in Calls, NEW u, NEW change, AdjustRead(c, u, change)
      PROVE  LedgerBacksBalance'
  BY <1>u, <1>1 DEF AdjustRead, moneyVars
<1>2. ASSUME NEW c \in Calls, NEW u, NEW s, StatusRead(c, u, s)
      PROVE  LedgerBacksBalance'
  BY <1>u, <1>2 DEF StatusRead, moneyVars
<1>3. ASSUME NEW c \in Calls, AdjustCommit(c)
      PROVE  LedgerBacksBalance'
  BY <1>3, AdjustmentCommits
<1>4. ASSUME NEW c \in Calls, StatusSave(c)
      PROVE  LedgerBacksBalance'
  <2>1. call[c].balance = balance[call[c].user]
    BY <1>4
  <2>2. balance' = [balance EXCEPT ![call[c].user] = call[c].balance] /\ ledger' = ledger
    BY <1>4 DEF StatusSave
  <2>3. balance' = balance
    BY <1>t, <2>1, <2>2
  <2> QED
    BY <1>u, <2>2, <2>3
<1>5. ASSUME NEW c \in Calls, StatusRevoke(c)
      PROVE  LedgerBacksBalance'
  BY <1>u, <1>5 DEF StatusRevoke, moneyVars
<1> QED
  BY <1>1, <1>2, <1>3, <1>4, <1>5 DEF AccountsNext

(* One call at a time: what it read when it began is so when it writes     *)
(* (admin.service.ts:209-230).                                             *)
LEMMA ReadsStandKept ==
  ASSUME AccountsTypeOK, ReadsStand, \A x, y \in Serving : x = y, \A x,
         y \in Serving' : x = y,
         AccountsNext, AuditsAddUp
  PROVE  ReadsStand' /\ AuditsAddUp'
<1> DEFINE Goal == ReadsStand' /\ AuditsAddUp'
<1>t. /\ call \in [Calls -> CallStates] /\ balance \in [Users -> Nat]
      /\ \A c \in Calls : /\ call[c].pc = "adjusting" => call[c].before = balance[call[c].user]
                          /\ call[c].pc = "saving" => call[c].balance = balance[call[c].user]
      /\ \A a \in audits : a.before + a.change = a.after
  BY DEF AccountsTypeOK, MoneyTypeOK, ReadsStand, AuditsAddUp
<1>o. ASSUME NEW c \in Calls, call'[c].pc \in {"adjusting", "saving"},
             NEW x \in Calls \ {c}
      PROVE  call'[x].pc \notin {"adjusting", "saving"}
  BY <1>o DEF Serving
<1>p. ASSUME NEW c \in Calls, call[c].pc \in {"adjusting", "saving", "revoking"},
             NEW x \in Calls \ {c}
      PROVE  call[x].pc \notin {"adjusting", "saving"}
  BY <1>p DEF Serving
<1>u. UNCHANGED audits => AuditsAddUp'
  BY <1>t DEF AuditsAddUp
<1>1. ASSUME NEW c \in Calls, NEW u, NEW change, AdjustRead(c, u, change)
      PROVE  Goal
  <2>1. /\ call' = [call EXCEPT ![c] = [pc |-> "adjusting", user |-> u, change |-> change, before |-> balance[u]]]
        /\ balance' = balance /\ audits' = audits
    BY <1>1 DEF AdjustRead, moneyVars
  <2>2. /\ call'[c].pc = "adjusting" /\ call'[c].user = u /\ call'[c].before = balance[u]
    BY <1>t, <2>1
  <2>3. \A x \in Calls \ {c} : call'[x].pc \notin {"adjusting", "saving"}
    BY <1>o, <2>2
  <2> QED
    BY <1>u, <2>1, <2>2, <2>3 DEF ReadsStand
<1>2. ASSUME NEW c \in Calls, NEW u, NEW s, StatusRead(c, u, s)
      PROVE  Goal
  <2>1. /\ call' = [call EXCEPT ![c] = [pc |-> "saving", user |-> u, status |-> s, balance |-> balance[u]]]
        /\ balance' = balance /\ audits' = audits
    BY <1>2 DEF StatusRead, moneyVars
  <2>2. /\ call'[c].pc = "saving" /\ call'[c].user = u /\ call'[c].balance = balance[u]
    BY <1>t, <2>1
  <2>3. \A x \in Calls \ {c} : call'[x].pc \notin {"adjusting", "saving"}
    BY <1>o, <2>2
  <2> QED
    BY <1>u, <2>1, <2>2, <2>3 DEF ReadsStand
<1>w. ASSUME NEW c \in Calls, call[c].pc \in {"adjusting", "saving", "revoking"}, NEW q,
             call' = [call EXCEPT ![c] = q], q.pc \notin {"adjusting", "saving"}
      PROVE  ReadsStand'
  <2>1. \A x \in Calls : call'[x].pc \notin {"adjusting", "saving"}
    <3>1. \A x \in Calls \ {c} : call'[x] = call[x]
      BY <1>t, <1>w
    <3>2. call'[c] = q
      BY <1>t, <1>w
    <3> QED
      BY <1>p, <1>w, <3>1, <3>2
  <2> QED
    BY <2>1 DEF ReadsStand
<1>3. ASSUME NEW c \in Calls, AdjustCommit(c)
      PROVE  Goal
  <2> DEFINE new == [user |-> call[c].user, change |-> call[c].change, before |-> call[c].before,
                     after |-> balance[call[c].user] + call[c].change]
  <2>1. call[c].pc = "adjusting" /\ call' = [call EXCEPT ![c] = [pc |-> "done"]]
    BY <1>3 DEF AdjustCommit, Return
  <2>2. ReadsStand'
    BY <1>w, <2>1
  <2>3. audits' = audits \/ audits' = audits \cup {new}
    BY <1>3 DEF AdjustCommit
  <2>4. new.before + new.change = new.after
    BY <1>t, <2>1
  <2> HIDE DEF new
  <2> QED
    BY <1>t, <2>2, <2>3, <2>4 DEF AuditsAddUp
<1>4. ASSUME NEW c \in Calls, StatusSave(c)
      PROVE  Goal
  <2>1. /\ call[c].pc = "saving" /\ audits' = audits
        /\ call' = [call EXCEPT ![c] = [pc |-> "revoking", user |-> call[c].user]]
    BY <1>4 DEF StatusSave
  <2> QED
    BY <1>u, <1>w, <2>1
<1>5. ASSUME NEW c \in Calls, StatusRevoke(c)
      PROVE  Goal
  <2>1. /\ call[c].pc = "revoking" /\ audits' = audits
        /\ call' = [call EXCEPT ![c] = [pc |-> "done"]]
    BY <1>5 DEF StatusRevoke, Return
  <2> QED
    BY <1>u, <1>w, <2>1
<1> HIDE DEF Goal
<1>6. Goal
  BY <1>1, <1>2, <1>3, <1>4, <1>5 DEF AccountsNext
<1> QED
  BY <1>6 DEF Goal

(* The steps of the accounts keep what is known of them.                   *)
LEMMA AccountsKept ==
  ASSUME AccountsInv, [Next]_vars
  PROVE  AccountsInv'
<1>0. part' = part
  BY DEF Next, vars
<1>1. CASE UNCHANGED uaVars
  <2>1. /\ balance' = balance /\ ledger' = ledger /\ status' = status
        /\ audits' = audits /\ signedIn' = signedIn /\ call' = call
    BY <1>1 DEF uaVars
  <2>2. AccountsTypeOK' = AccountsTypeOK
    BY <2>1 DEF AccountsTypeOK, MoneyTypeOK
  <2>3. OneAtATime(Serving)' = OneAtATime(Serving) /\ ReadsStand' = ReadsStand
    BY <1>0, <2>1 DEF OneAtATime, Serving, ReadsStand
  <2>4. AuditsMatchLedger' = AuditsMatchLedger /\ AuditsAddUp' = AuditsAddUp
    BY <2>1 DEF AuditsMatchLedger, AuditsAddUp
  <2>5. LedgerBacksBalance' = LedgerBacksBalance
    BY <2>1 DEF LedgerBacksBalance, CL!Balanced, Statement
  <2>6. (\A c \in Calls : call'[c].pc # "saving") = (\A c \in Calls : call[c].pc # "saving")
    BY <2>1
  <2> QED
    BY <1>0, <2>2, <2>3, <2>4, <2>5, <2>6 DEF AccountsInv
<1>2. CASE AccountsStep
  <2>1. /\ part \in AccountParts /\ AccountsNext /\ Fits(Serving')
        /\ part = "adjustments" => \A c \in Calls : call'[c].pc # "saving"
        /\ AccountsTypeOK /\ OneAtATime(Serving) /\ AuditsMatchLedger
        /\ part = "adjustments" => \A c \in Calls : call[c].pc # "saving"
        /\ part \in {"adjustments", "accounts alone"} => LedgerBacksBalance
        /\ part = "accounts alone" => AuditsAddUp /\ ReadsStand
    BY <1>2 DEF AccountsStep, AccountsInv
  <2>2. AccountsTypeOK' /\ AuditsMatchLedger'
    BY <2>1, AccountsTyped
  <2>3. OneAtATime(Serving)'
    <3>1. Serving' \in SUBSET Calls
      BY DEF Serving
    <3>2. OneAtATime(Serving')
      BY <2>1, <3>1, FitsAlone
    <3> QED
      BY <1>0, <3>2 DEF OneAtATime
  <2>4. ASSUME part \in {"adjustments", "accounts alone"}
        PROVE  LedgerBacksBalance'
    <3>1. \A c \in Calls : StatusSave(c) => call[c].balance = balance[call[c].user]
      BY <2>1, <2>4 DEF StatusSave, ReadsStand
    <3> QED
      BY <2>1, <2>4, <3>1, AccountsBacked
  <2>5. ASSUME part = "accounts alone"
        PROVE  AuditsAddUp' /\ ReadsStand'
    <3>1. (\A x, y \in Serving : x = y) /\ (\A x, y \in Serving' : x = y)
      BY <1>0, <2>1, <2>3, <2>5 DEF OneAtATime, Alone
    <3> QED
      BY <2>1, <2>5, <3>1, ReadsStandKept
  <2> QED
    BY <1>0, <2>1, <2>2, <2>3, <2>4, <2>5 DEF AccountsInv
<1> QED
  BY <1>1, <1>2 DEF Next, vars, CodesStep, SessionsStep, RegistrationsStep, PagesStep

-----------------------------------------------------------------------------
(* Pages                                                                   *)

\* What an answer says is what the server did.
FormShape(c, sent, stored) ==
  /\ c.at # "none" /\ c.kind = "verify" => c.typed \in DOMAIN sent
  /\ c.answer = "code" => /\ c.kind \in {"login", "resend"}
                          /\ c.new \in DOMAIN sent
                          /\ c.kind = "resend" => sent[c.new].resent
  /\ c.answer = "tokens" => c.kind \in {"login", "verify"}
  /\ c.answer = "stored" => c.kind = "register" /\ stored
  /\ c.at \in {"none", "sent"} => c.answer = "none"

PagesShape ==
  /\ \A r \in Calls : FormShape(formCall[r], formCodes, formRegistered)
  /\ \A i \in DOMAIN formCodes : formCodes[i].sentAt <= formNow

Awaited(c) == c.at \in {"sent", "served"}
Told(c) == c.at = "served" /\ c.answer = "code"
Asked(c) == c.at = "sent" /\ c.kind = "resend"

\* Where the browser is while it waits for a call.
Fitting(c, p) ==
  \/ c.by = "page" /\ c.kind = p
  \/ c.by = "page" /\ p = "otp" /\ c.kind \in {"verify", "resend"}
  \/ c.by = "app" /\ p = "dashboard" /\ c.kind = "resend"

\* A steady tab has one call of a kind under way, of the page it is on, or the
\* resend of a code when the one before it signed in meanwhile.
PagesCalm ==
  formSteady =>
    /\ \A r \in Calls : Awaited(formCall[r]) => Fitting(formCall[r], formPage)
    /\ \A r, s \in Calls : Awaited(formCall[r]) /\ Awaited(formCall[s])
                           /\ formCall[r].kind = formCall[s].kind => r = s

\* The time at which the next code may be asked for.
Spaced(time) == Len(formCodes) # 0 /\ time >= Cooldown + formCodes[Len(formCodes)].sentAt

\* The last code that was mailed is the one the page has, or is on its way to
\* it; and until the next may be asked for, the countdown runs.
PagesNewest ==
  formSteady =>
    /\ \A r \in Calls : Told(formCall[r]) => formCall[r].new = Len(formCodes)
    /\ formPending # 0 => formPending = Len(formCodes) \/ \E r \in Calls : Told(formCall[r])
    /\ formPage = "otp" /\ (\A r \in Calls : ~Told(formCall[r])) => Spaced(formLeft + formNow)
    /\ \A r \in Calls : Asked(formCall[r]) => Spaced(formNow)

PagesInv ==
  part = "pages" =>
    /\ Form!SignInTypeOK /\ PagesShape /\ Form!SaidIsDone
    /\ PagesCalm /\ PagesNewest /\ Form!MailsAreSpaced

(* What the bounds of the pages are.                                       *)
LEMMA FormNumbers == Cooldown \in Nat /\ Cooldown > 0 /\ PageTime \in Nat
BY FormAssumption DEF Form!SignInAssumption

(* Of two numbers, the countdown takes the larger (Otp.tsx).               *)
LEMMA FormMax ==
  ASSUME NEW i \in Int
  PROVE  Form!Max({i, 0}) = IF i >= 0 THEN i ELSE 0
<1> DEFINE m == IF i >= 0 THEN i ELSE 0
<1>1. m \in {i, 0} /\ \A y \in {i, 0} : m >= y
  OBVIOUS
<1>2. \A x \in {i, 0} : (\A y \in {i, 0} : x >= y) => x = m
  OBVIOUS
<1> HIDE DEF m
<1> QED
  BY <1>1, <1>2 DEF Form!Max, m

(* What the codes that were mailed are.                                    *)
LEMMA FormRows ==
  ASSUME Form!SignInTypeOK
  PROVE  /\ formCodes \in Seq(Form!Code) /\ Len(formCodes) \in Nat
         /\ DOMAIN formCodes = 1 .. Len(formCodes)
         /\ \A i \in DOMAIN formCodes : /\ formCodes[i] \in Form!Code /\ formCodes[i].sentAt \in Nat
                                        /\ formCodes[i].resent \in BOOLEAN
                                        /\ formCodes[i].used \in BOOLEAN
         /\ formNow \in 0 .. PageTime /\ formNow \in Nat
         /\ formCall \in [Calls -> Form!Call]
<1>1. /\ formCodes \in Seq(Form!Code) /\ Len(formCodes) \in Nat
      /\ DOMAIN formCodes = 1 .. Len(formCodes)
      /\ \A i \in DOMAIN formCodes : formCodes[i] \in Form!Code
      /\ formNow \in 0 .. PageTime /\ formNow \in Nat
      /\ formCall \in [Calls -> Form!Call]
  <2>1. /\ formCodes \in Seq(Form!Code)
        /\ formNow \in 0 .. PageTime
        /\ formCall \in [Calls -> Form!Call]
    BY DEF Form!SignInTypeOK
  <2> QED
    BY <2>1, FormNumbers
<1> QED
  BY <1>1 DEF Form!Code

(* What a call is.                                                         *)
LEMMA FormCalls ==
  ASSUME Form!SignInTypeOK, NEW r \in Calls
  PROVE  /\ formCall[r] \in Form!Call
         /\ formCall[r].at \in {"none", "sent", "served", "over"}
         /\ formCall[r].kind \in Form!Kinds
         /\ formCall[r].by \in {"page", "app", "nobody"} /\ formCall[r].typed \in Nat
         /\ formCall[r].answer \in Form!Answers /\ formCall[r].new \in Nat
<1>1. formCall[r] \in Form!Call
  BY DEF Form!SignInTypeOK
<1> QED
  BY <1>1 DEF Form!Call

(* Which steps mail a code or use one.                                     *)
LEMMA FormWriters ==
  ASSUME Form!Step
  PROVE  \/ UNCHANGED formCodes
         \/ \E r \in Calls : Form!MailCode(r) \/ Form!ServeVerify(r)
<1>1. ASSUME NEW r \in Calls,
             \/ Form!Login(r)
             \/ Form!Register(r)
             \/ Form!Resend(r)
             \/ \E c \in DOMAIN formCodes : Form!Verify(r, c)
      PROVE  UNCHANGED formCodes
  BY <1>1 DEF Form!Login, Form!Register, Form!Resend, Form!Verify, Form!Send
<1>2. ASSUME NEW r \in Calls,
             Form!Refuse(r) \/ Form!TrustedLogin(r) \/ Form!ServeRegister(r)
      PROVE  UNCHANGED formCodes
  BY <1>2 DEF Form!Refuse, Form!TrustedLogin, Form!ServeRegister
<1>3. ASSUME NEW r \in Calls,
             Form!SignedIn(r) \/ Form!CodeMailed(r) \/ Form!Resent(r) \/ Form!Registered(r) \/ Form!Fails(r)
      PROVE  UNCHANGED formCodes
  BY <1>3 DEF Form!SignedIn, Form!CodeMailed, Form!Resent, Form!Registered, Form!Fails
<1>4. ASSUME NEW p \in Form!Pages, Form!Visit(p)
      PROVE  UNCHANGED formCodes
  BY <1>4 DEF Form!Visit
<1>5. ASSUME Form!Tick \/ Form!Logout \/ Form!Reload
      PROVE  UNCHANGED formCodes
  BY <1>5 DEF Form!Tick, Form!Logout, Form!Reload
<1> QED
  BY <1>1, <1>2, <1>3, <1>4, <1>5 DEF Form!Step

(* The row of a code that is mailed.                                       *)
LEMMA MailAppends ==
  ASSUME Form!SignInTypeOK, NEW r \in Calls, Form!MailCode(r)
  PROVE  /\ formCodes' \in Seq(Form!Code) /\ Len(formCodes') = Len(formCodes) + 1
         /\ \A i \in DOMAIN formCodes : formCodes'[i] = formCodes[i]
         /\ formCodes'[Len(formCodes')].sentAt = formNow
         /\ formCodes'[Len(formCodes')].resent = (formCall[r].kind = "resend")
         /\ formNow' = formNow
<1> DEFINE code == [sentAt |-> formNow, resent |-> formCall[r].kind = "resend", used |-> FALSE]
<1>1. formCodes' = Append(formCodes, code) /\ formNow' = formNow
  BY DEF Form!MailCode
<1>2. /\ code \in Form!Code
      /\ code.sentAt = formNow
      /\ code.resent = (formCall[r].kind = "resend")
  BY FormRows DEF Form!Code
<1> HIDE DEF code
<1> QED
  BY <1>1, <1>2, FormRows

(* A verification changes no code but by using it.                         *)
LEMMA VerifyMarks ==
  ASSUME Form!SignInTypeOK, PagesShape, NEW r \in Calls, Form!ServeVerify(r)
  PROVE  /\ formCodes' \in Seq(Form!Code) /\ Len(formCodes') = Len(formCodes)
         /\ \A i \in DOMAIN formCodes : /\ formCodes'[i].sentAt = formCodes[i].sentAt
                                        /\ formCodes'[i].resent = formCodes[i].resent
<1> DEFINE c == formCall[r].typed
<1>1. c \in DOMAIN formCodes
  BY DEF Form!ServeVerify, PagesShape, FormShape
<1>2. CASE formCodes' = formCodes
  BY <1>2, FormRows
<1>3. CASE formCodes' = [formCodes EXCEPT ![c].used = TRUE]
  <2> HIDE DEF c
  <2>1. [formCodes[c] EXCEPT !.used = TRUE] \in Form!Code
    BY <1>1, FormRows DEF Form!Code
  <2>2. /\ [formCodes[c] EXCEPT !.used = TRUE].sentAt = formCodes[c].sentAt
        /\ [formCodes[c] EXCEPT !.used = TRUE].resent = formCodes[c].resent
    BY <1>1, FormRows DEF Form!Code
  <2>3. \A i \in DOMAIN formCodes :
          formCodes'[i] = IF i = c THEN [formCodes[c] EXCEPT !.used = TRUE] ELSE formCodes[i]
    BY <1>3
  <2>4. formCodes' \in Seq(Form!Code) /\ Len(formCodes') = Len(formCodes)
    BY <1>1, <1>3, <2>1, FormRows
  <2> QED
    BY <2>2, <2>3, <2>4
<1> QED
  BY <1>2, <1>3 DEF Form!ServeVerify

(* The codes that were mailed stay, and a code that is mailed joins them   *)
(* at the time.                                                            *)
LEMMA FormCodesGrow ==
  ASSUME Form!SignInTypeOK, PagesShape, Form!Step
  PROVE  /\ formCodes' \in Seq(Form!Code) /\ Len(formCodes') \in Nat
         /\ DOMAIN formCodes' = 1 .. Len(formCodes')
         /\ Len(formCodes') >= Len(formCodes)
         /\ DOMAIN formCodes \subseteq DOMAIN formCodes'
         /\ \A i \in DOMAIN formCodes : /\ formCodes'[i].sentAt = formCodes[i].sentAt
                                        /\ formCodes'[i].resent = formCodes[i].resent
         /\ formNow' \in 0 .. PageTime /\ formNow' >= formNow
         /\ \A i \in DOMAIN formCodes' : formCodes'[i].sentAt <= formNow'
<1>n. formNow' \in 0 .. PageTime /\ formNow' >= formNow
  <2>1. CASE Form!Tick
    <3>1. formNow < PageTime /\ formNow' = formNow + 1
      BY <2>1 DEF Form!Tick
    <3> QED
      BY <3>1, FormRows, FormNumbers
  <2>2. CASE UNCHANGED formNow
    BY <2>2, FormRows
  <2>3. ASSUME NEW r \in Calls,
               \/ Form!Login(r)
               \/ Form!Register(r)
               \/ Form!Resend(r)
               \/ \E c \in DOMAIN formCodes : Form!Verify(r, c)
        PROVE  UNCHANGED formNow
    BY <2>3 DEF Form!Login, Form!Register, Form!Resend, Form!Verify, Form!Send
  <2>4. ASSUME NEW r \in Calls,
               \/ Form!Refuse(r) \/ Form!TrustedLogin(r) \/ Form!ServeRegister(r)
                                \/ Form!MailCode(r) \/ Form!ServeVerify(r)
        PROVE  UNCHANGED formNow
    BY <2>4 DEF Form!Refuse, Form!TrustedLogin, Form!ServeRegister, Form!MailCode,
                Form!ServeVerify
  <2>5. ASSUME NEW r \in Calls,
               Form!SignedIn(r) \/ Form!CodeMailed(r) \/ Form!Resent(r) \/ Form!Registered(r) \/ Form!Fails(r)
        PROVE  UNCHANGED formNow
    BY <2>5 DEF Form!SignedIn, Form!CodeMailed, Form!Resent, Form!Registered, Form!Fails
  <2>6. ASSUME NEW p \in Form!Pages, Form!Visit(p)
        PROVE  UNCHANGED formNow
    BY <2>6 DEF Form!Visit
  <2>7. ASSUME Form!Logout \/ Form!Reload
        PROVE  UNCHANGED formNow
    BY <2>7 DEF Form!Logout, Form!Reload
  <2> QED
    BY <2>1, <2>2, <2>3, <2>4, <2>5, <2>6, <2>7 DEF Form!Step
<1>s. \A i \in DOMAIN formCodes : formCodes[i].sentAt <= formNow /\ formCodes[i].sentAt \in Nat
  BY FormRows DEF PagesShape
<1>1. CASE UNCHANGED formCodes
  BY <1>1, <1>n, <1>s, FormRows
<1>2. ASSUME NEW r \in Calls, Form!MailCode(r)
      PROVE  /\ formCodes' \in Seq(Form!Code) /\ Len(formCodes') = Len(formCodes) + 1
             /\ \A i \in DOMAIN formCodes : formCodes'[i] = formCodes[i]
             /\ \A i \in DOMAIN formCodes' : formCodes'[i].sentAt <= formNow'
  <2>1. /\ formCodes' \in Seq(Form!Code) /\ Len(formCodes') = Len(formCodes) + 1
        /\ \A i \in DOMAIN formCodes : formCodes'[i] = formCodes[i]
        /\ formCodes'[Len(formCodes')].sentAt = formNow /\ formNow' = formNow
    BY <1>2, MailAppends
  <2>2. DOMAIN formCodes' = 1 .. Len(formCodes) + 1
    BY <2>1, FormRows
  <2>3. \A i \in DOMAIN formCodes' : i \in DOMAIN formCodes \/ i = Len(formCodes')
    BY <2>1, <2>2, FormRows
  <2> QED
    BY <2>1, <2>3, <1>s, FormRows
<1>3. ASSUME NEW r \in Calls, Form!ServeVerify(r)
      PROVE  /\ formCodes' \in Seq(Form!Code) /\ Len(formCodes') = Len(formCodes)
             /\ \A i \in DOMAIN formCodes : /\ formCodes'[i].sentAt = formCodes[i].sentAt
                                            /\ formCodes'[i].resent = formCodes[i].resent
             /\ \A i \in DOMAIN formCodes' : formCodes'[i].sentAt <= formNow'
  <2>1. /\ formCodes' \in Seq(Form!Code) /\ Len(formCodes') = Len(formCodes)
        /\ \A i \in DOMAIN formCodes : /\ formCodes'[i].sentAt = formCodes[i].sentAt
                                       /\ formCodes'[i].resent = formCodes[i].resent
    BY <1>3, VerifyMarks
  <2>2. DOMAIN formCodes' = DOMAIN formCodes
    BY <2>1, FormRows
  <2> QED
    BY <2>1, <2>2, <1>n, <1>s, FormRows
<1>4. CASE \E r \in Calls : Form!MailCode(r)
  BY <1>2, <1>4, <1>n, FormRows
<1>5. CASE \E r \in Calls : Form!ServeVerify(r)
  BY <1>3, <1>5, <1>n, FormRows
<1> QED
  BY <1>1, <1>4, <1>5, FormWriters

(* What becomes of the calls when the browser goes to another page.        *)
LEMMA GoCalls ==
  ASSUME NEW p, NEW signed, NEW request, NEW others, Form!Go(p, signed, request, others)
  PROVE  \/ formCall' = others
         \/ formCall' = [x \in Calls |-> IF others[x].by = "page" THEN [others[x] EXCEPT !.by = "app"]
                                         ELSE others[x]]
BY DEF Form!Go

(* A registration that was stored stays.                                   *)
LEMMA RegisteredStays ==
  ASSUME Form!SignInTypeOK, Form!Step
  PROVE  formRegistered' \in BOOLEAN /\ (formRegistered => formRegistered')
<1>0. formRegistered \in BOOLEAN
  BY DEF Form!SignInTypeOK
<1>1. ASSUME NEW r \in Calls,
             \/ Form!Login(r)
             \/ Form!Register(r)
             \/ Form!Resend(r)
             \/ \E c \in DOMAIN formCodes : Form!Verify(r, c)
      PROVE  UNCHANGED formRegistered
  BY <1>1 DEF Form!Login, Form!Register, Form!Resend, Form!Verify, Form!Send
<1>2. ASSUME NEW r \in Calls, \/ Form!Refuse(r) \/ Form!TrustedLogin(r)
                              \/ Form!MailCode(r) \/ Form!ServeVerify(r)
      PROVE  UNCHANGED formRegistered
  BY <1>2 DEF Form!Refuse, Form!TrustedLogin, Form!MailCode, Form!ServeVerify
<1>3. ASSUME NEW r \in Calls,
             Form!SignedIn(r) \/ Form!CodeMailed(r) \/ Form!Resent(r) \/ Form!Registered(r) \/ Form!Fails(r)
      PROVE  UNCHANGED formRegistered
  BY <1>3 DEF Form!SignedIn, Form!CodeMailed, Form!Resent, Form!Registered, Form!Fails
<1>4. ASSUME NEW p \in Form!Pages, Form!Visit(p)
      PROVE  UNCHANGED formRegistered
  BY <1>4 DEF Form!Visit
<1>5. ASSUME Form!Tick \/ Form!Logout \/ Form!Reload
      PROVE  UNCHANGED formRegistered
  BY <1>5 DEF Form!Tick, Form!Logout, Form!Reload
<1>6. ASSUME NEW r \in Calls, Form!ServeRegister(r)
      PROVE  formRegistered' = TRUE
  BY <1>6 DEF Form!ServeRegister
<1> QED
  BY <1>0, <1>1, <1>2, <1>3, <1>4, <1>5, <1>6 DEF Form!Step

(* The calls stay well formed, and an answer says what the server did.     *)
LEMMA FormCallsTyped ==
  ASSUME Form!SignInTypeOK, PagesShape, Form!Step
  PROVE  /\ formCall' \in [Calls -> Form!Call]
         /\ \A r \in Calls : FormShape(formCall'[r], formCodes', formRegistered')
<1> DEFINE Good(c) == c \in Form!Call /\ FormShape(c, formCodes', formRegistered')
           Goal == formCall' \in [Calls -> Form!Call] /\ \A x \in Calls : Good(formCall'[x])
<1>t. formCall \in [Calls -> Form!Call]
  BY FormRows
<1>g. \A x \in Calls : Good(formCall[x])
  <2>1. \A i \in DOMAIN formCodes : i \in DOMAIN formCodes' /\ formCodes'[i].resent = formCodes[i].resent
    BY FormCodesGrow
  <2>2. formRegistered => formRegistered'
    BY RegisteredStays
  <2> QED
    BY <2>1, <2>2, <1>t DEF PagesShape, FormShape
<1>o. ASSUME NEW c, Good(c)
      PROVE  /\ c.at = "served" => Good([c EXCEPT !.at = "over"])
             /\ Good([c EXCEPT !.by = "app"]) /\ Good([c EXCEPT !.by = "nobody"])
  BY <1>o DEF FormShape, Form!Call
<1>m. ASSUME NEW r \in Calls, NEW q, Good(q), formCall' = [formCall EXCEPT ![r] = q]
      PROVE  Goal
  <2> HIDE DEF Good
  <2>1. q \in Form!Call
    BY <1>m DEF Good
  <2>2. formCall' \in [Calls -> Form!Call]
    BY <1>m, <1>t, <2>1
  <2>3. \A x \in Calls : formCall'[x] = IF x = r THEN q ELSE formCall[x]
    BY <1>m, <1>t
  <2> QED
    BY <1>m, <1>g, <2>2, <2>3
<1>v. ASSUME NEW others \in [Calls -> Form!Call], \A x \in Calls : Good(others[x]),
             NEW p, NEW signed, NEW request, Form!Go(p, signed, request, others)
      PROVE  Goal
  <2>1. CASE formCall' = others
    BY <1>v, <2>1
  <2>2. CASE formCall' = [x \in Calls |-> IF others[x].by = "page" THEN [others[x] EXCEPT !.by = "app"]
                                          ELSE others[x]]
    <3> HIDE DEF Good
    <3>1. \A x \in Calls : Good(formCall'[x])
      BY <1>o, <1>v, <2>2
    <3>2. formCall' \in [Calls -> Form!Call]
      BY <3>1, <2>2 DEF Good
    <3> QED
      BY <3>1, <3>2
  <2> QED
    BY <1>v, <2>1, <2>2, GoCalls
<1>w. ASSUME NEW r \in Calls, formCall[r].at = "served"
      PROVE  /\ Form!Over(r) \in [Calls -> Form!Call]
             /\ \A x \in Calls : Good(Form!Over(r)[x])
  <2> DEFINE q == [formCall[r] EXCEPT !.at = "over"]
  <2>1. Form!Over(r) = [formCall EXCEPT ![r] = q]
    BY <1>t DEF Form!Over
  <2>2. Good(q)
    BY <1>g, <1>o, <1>w
  <2> HIDE DEF q, Good
  <2>3. q \in Form!Call
    BY <2>2 DEF Good
  <2> QED
    BY <1>g, <1>t, <2>1, <2>2, <2>3
<1> HIDE DEF Good
<1>1. ASSUME NEW r \in Calls, NEW kind \in Form!Kinds, NEW id \in Nat, NEW typed \in Nat,
             kind = "verify" => typed \in DOMAIN formCodes', Form!Send(r, kind, id, typed)
      PROVE  Goal
  <2> DEFINE q == [Form!NoCall EXCEPT !.at = "sent", !.kind = kind, !.by = "page", !.id = id, !.typed = typed]
  <2>1. formCall' = [formCall EXCEPT ![r] = q]
    BY <1>1 DEF Form!Send
  <2>2. Good(q)
    BY <1>1 DEF Good, FormShape, Form!NoCall, Form!Call, Form!Kinds, Form!Answers
  <2> HIDE DEF q
  <2> QED
    BY <1>m, <2>1, <2>2
<1>2. ASSUME NEW r \in Calls, NEW answer \in {"refused", "code", "tokens", "stored"},
             NEW new \in Nat,
             NEW good \in BOOLEAN, Form!Served(r, answer, new, good),
             formCall[r].at = "sent",
             answer = "code" => /\ formCall[r].kind \in {"login", "resend"}
                                /\ new \in DOMAIN formCodes'
                                /\ formCall[r].kind = "resend" => formCodes'[new].resent,
             answer = "tokens" => formCall[r].kind \in {"login", "verify"},
             answer = "stored" => formCall[r].kind = "register" /\ formRegistered'
      PROVE  Goal
  <2> DEFINE q == [formCall[r] EXCEPT !.at = "served", !.answer = answer, !.new = new, !.good = good]
  <2>1. formCall' = [formCall EXCEPT ![r] = q]
    BY <1>2, <1>t DEF Form!Served
  <2>2. Good(formCall[r])
    BY <1>g
  <2>3. Good(q)
    BY <1>2, <2>2 DEF Good, FormShape, Form!Call, Form!Answers
  <2> HIDE DEF q
  <2> QED
    BY <1>m, <2>1, <2>3
<1>3. ASSUME NEW r \in Calls,
             \/ Form!Login(r)
             \/ Form!Register(r)
             \/ Form!Resend(r)
             \/ \E c \in DOMAIN formCodes : Form!Verify(r, c)
      PROVE  Goal
  <2>1. formPending \in Nat
    <3>1. formPending \in 0 .. Len(formCodes)
      BY DEF Form!SignInTypeOK
    <3> QED
      BY <3>1, FormRows
  <2>2. \A c \in DOMAIN formCodes : c \in Nat /\ c \in DOMAIN formCodes'
    BY FormRows, FormCodesGrow
  <2> QED
    BY <1>1, <1>3, <2>1, <2>2 DEF Form!Login, Form!Register, Form!Resend, Form!Verify,
                                  Form!Kinds
<1>4. ASSUME NEW r \in Calls,
             Form!Refuse(r) \/ Form!TrustedLogin(r) \/ Form!ServeRegister(r)
      PROVE  Goal
  <2>1. CASE Form!Refuse(r)
    BY <1>2, <2>1 DEF Form!Refuse
  <2>2. CASE Form!TrustedLogin(r)
    BY <1>2, <2>2 DEF Form!TrustedLogin
  <2>3. CASE Form!ServeRegister(r)
    <3>1. /\ formCall[r].at = "sent" /\ formCall[r].kind = "register"
          /\ Form!Served(r, "stored", 0, FALSE)
      BY <2>3 DEF Form!ServeRegister
    <3>2. formRegistered'
      BY <2>3 DEF Form!ServeRegister
    <3> QED
      BY <1>2, <3>1, <3>2
  <2> QED
    BY <1>4, <2>1, <2>2, <2>3
<1>5. ASSUME NEW r \in Calls, Form!MailCode(r)
      PROVE  Goal
  <2>1. Len(formCodes') \in Nat /\ Len(formCodes') \in DOMAIN formCodes'
    <3>1. Len(formCodes') = Len(formCodes) + 1
      BY <1>5, MailAppends
    <3> QED
      BY <3>1, FormRows, FormCodesGrow
  <2>3. formCodes'[Len(formCodes')].resent = (formCall[r].kind = "resend")
    BY <1>5, MailAppends
  <2>2. /\ formCall[r].at = "sent" /\ formCall[r].kind \in {"login", "resend"}
        /\ Form!Served(r, "code", Len(formCodes'), FALSE)
    BY <1>5 DEF Form!MailCode
  <2> QED
    BY <1>2, <2>1, <2>2, <2>3
<1>6. ASSUME NEW r \in Calls, Form!ServeVerify(r)
      PROVE  Goal
  <2> DEFINE c == formCall[r].typed
             right == c = formCall[r].id /\ ~formCodes[c].used
             good == c = Len(formCodes) /\ ~formCodes[c].used
             answer == IF right THEN "tokens" ELSE "refused"
  <2>1. /\ formCall[r].at = "sent"
        /\ formCall[r].kind = "verify"
        /\ Form!Served(r, answer, 0, good)
    BY <1>6 DEF Form!ServeVerify
  <2>2. answer \in {"refused", "tokens"} /\ good \in BOOLEAN
    OBVIOUS
  <2> HIDE DEF answer, good
  <2> QED
    BY <1>2, <2>1, <2>2
<1>7. ASSUME NEW r \in Calls, Form!SignedIn(r) \/ Form!CodeMailed(r)
      PROVE  Goal
  BY <1>7, <1>v, <1>w DEF Form!SignedIn, Form!CodeMailed
<1>8. ASSUME NEW r \in Calls, Form!Resent(r) \/ Form!Registered(r) \/ Form!Fails(r)
      PROVE  Goal
  <2>1. formCall[r].at = "served" /\ formCall' = Form!Over(r)
    BY <1>8 DEF Form!Resent, Form!Registered, Form!Fails
  <2> QED
    BY <1>w, <2>1
<1>9. ASSUME NEW p \in Form!Pages, Form!Visit(p)
      PROVE  Goal
  BY <1>9, <1>g, <1>t, <1>v DEF Form!Visit
<1>10. ASSUME Form!Logout
      PROVE  Goal
  BY <1>10, <1>g, <1>t, <1>v DEF Form!Logout
<1>11. ASSUME Form!Reload
      PROVE  Goal
  <2>1. formCall' = [x \in Calls |-> [formCall[x] EXCEPT !.by = "nobody"]]
    BY <1>11 DEF Form!Reload
  <2>2. \A x \in Calls : Good(formCall'[x])
    BY <1>g, <1>o, <2>1
  <2>3. formCall' \in [Calls -> Form!Call]
    BY <2>1, <2>2 DEF Good
  <2> QED
    BY <2>2, <2>3
<1>12. ASSUME Form!Tick
      PROVE  Goal
  BY <1>12, <1>g, <1>t DEF Form!Tick
<1> HIDE DEF Goal
<1>13. Goal
  BY <1>3, <1>4, <1>5, <1>6, <1>7, <1>8, <1>9, <1>10, <1>11, <1>12 DEF Form!Step
<1> QED
  BY <1>13 DEF Goal, Good

(* Where the browser is and what its page says stay well formed, and of    *)
(* what the server did it says no more (Otp.tsx:74, Register.tsx:25).      *)
LEMMA TabKept ==
  ASSUME Form!SignInTypeOK, PagesShape, Form!SaidIsDone, Form!Step
  PROVE  /\ formPage' \in Form!Pages /\ formAuth' \in BOOLEAN
         /\ formPending' \in 0 .. Len(formCodes') /\ formLeft' \in 0 .. Cooldown
         /\ formSaid'.what \in {"nothing", "resent", "not resent", "invalid", "not sent",
                                "requested", "not requested"}
         /\ formSaid'.by \in Form!Call
         /\ (formPage' = "dashboard") = formAuth'
         /\ formPage' = "otp" => formPending' # 0
         /\ Form!SaidIsDone'
<1> DEFINE Place == /\ formPage' \in Form!Pages /\ formAuth' \in BOOLEAN
                    /\ formPending' \in 0 .. Len(formCodes')
                    /\ (formPage' = "dashboard") = formAuth'
                    /\ formPage' = "otp" => formPending' # 0
           Saying == /\ formSaid'.what \in {"nothing", "resent", "not resent", "invalid", "not sent",
                                            "requested", "not requested"}
                     /\ formSaid'.by \in Form!Call
                     /\ Form!SaidIsDone'
           Countdown == formLeft' \in 0 .. Cooldown
<1>t. /\ formPage \in Form!Pages /\ formAuth \in BOOLEAN
      /\ formPending \in 0 .. Len(formCodes) /\ formLeft \in 0 .. Cooldown
      /\ formSaid.what \in {"nothing", "resent", "not resent", "invalid", "not sent",
                            "requested", "not requested"}
      /\ formSaid.by \in Form!Call
      /\ (formPage = "dashboard") = formAuth
      /\ formPage = "otp" => formPending # 0
  BY DEF Form!SignInTypeOK
<1>c. /\ Len(formCodes) \in Nat /\ Len(formCodes') \in Nat /\ Len(formCodes') >= Len(formCodes)
      /\ \A i \in DOMAIN formCodes : i \in DOMAIN formCodes' /\ formCodes'[i].resent = formCodes[i].resent
  BY FormRows, FormCodesGrow
<1>a. formLeft \in 0 .. Cooldown /\ formLeft - 1 \in Int /\ Cooldown \in Nat
  <2>1. formLeft \in 0 .. Cooldown
    BY DEF Form!SignInTypeOK
  <2> QED
    BY <2>1, FormNumbers
<1>b. /\ formPending \in 0 .. Len(formCodes') /\ 0 \in 0 .. Len(formCodes')
      /\ \A i \in DOMAIN formCodes : i \in 0 .. Len(formCodes') /\ i # 0
  <2>1. formPending \in 0 .. Len(formCodes)
    BY DEF Form!SignInTypeOK
  <2>2. /\ Len(formCodes) \in Nat /\ Len(formCodes') \in Nat /\ Len(formCodes') >= Len(formCodes)
        /\ DOMAIN formCodes = 1 .. Len(formCodes)
    BY FormRows, FormCodesGrow
  <2> QED
    BY <2>1, <2>2
<1>s. ASSUME UNCHANGED formSaid
      PROVE  Saying
  <2>1. formSaid.what = "resent" => formSaid.by.new \in DOMAIN formCodes /\ formCodes[formSaid.by.new].resent
    BY DEF Form!SaidIsDone
  <2>2. formSaid.what = "requested" => formRegistered'
    BY RegisteredStays DEF Form!SaidIsDone
  <2> QED
    BY <1>s, <1>t, <1>c, <2>1, <2>2 DEF Form!SaidIsDone
<1>q. ASSUME formSaid' = Form!Quiet
      PROVE  Saying
  BY <1>q DEF Form!Quiet, Form!NoCall, Form!Call, Form!Kinds, Form!Answers,
              Form!SaidIsDone
<1>y. ASSUME NEW r \in Calls, NEW what, Form!Says(r, what),
             \/ what = "resent" /\ formCall[r].answer = "code" /\ formCall[r].kind = "resend"
             \/ what = "requested" /\ formCall[r].answer = "stored"
             \/ what \in {"not resent", "invalid", "not sent", "not requested"}
      PROVE  Saying
  <2>1. CASE formSaid' = formSaid
    BY <1>s, <2>1
  <2>2. CASE formSaid' = [what |-> what, by |-> formCall[r]]
    <3>1. formSaid'.what = what /\ formSaid'.by = formCall[r] /\ formCall[r] \in Form!Call
      BY <2>2, FormCalls
    <3>2. FormShape(formCall[r], formCodes, formRegistered)
      BY DEF PagesShape
    <3>3. what = "resent" => formCall[r].new \in DOMAIN formCodes' /\ formCodes'[formCall[r].new].resent
      BY <1>c, <1>y, <3>2 DEF FormShape
    <3>4. what = "requested" => formRegistered'
      <4>1. what = "requested" => formRegistered
        BY <1>y, <3>2 DEF FormShape
      <4> QED
        BY <4>1, RegisteredStays
    <3> QED
      BY <1>y, <3>1, <3>3, <3>4 DEF Form!SaidIsDone
  <2> QED
    BY <1>y, <2>1, <2>2 DEF Form!Says
<1>p. ASSUME UNCHANGED <<formPage, formAuth, formPending>>
      PROVE  Place
  BY <1>p, <1>t, <1>b
<1>g. ASSUME NEW p \in Form!Pages, NEW signed \in BOOLEAN,
             NEW request \in 0 .. Len(formCodes'),
             NEW others, Form!Go(p, signed, request, others)
      PROVE  Place /\ Saying /\ Countdown
  <2>1. Place
    BY <1>g DEF Form!Go, Form!Land, Form!Pages
  <2>2. Saying
    BY <1>g, <1>s, <1>q DEF Form!Go
  <2>3. formLeft' = formLeft \/ formLeft' = 0 \/ formLeft' = Cooldown
    BY <1>g DEF Form!Go, Form!Mount
  <2>4. Countdown
    BY <1>a, <2>3
  <2> QED
    BY <2>1, <2>2, <2>4
<1>l. ASSUME UNCHANGED formLeft
      PROVE  Countdown
  BY <1>l, <1>t
<1> DEFINE Goal == Place /\ Saying /\ Countdown
<1> HIDE DEF Place, Saying, Countdown
<1>1. ASSUME NEW r \in Calls,
             \/ Form!Login(r)
             \/ Form!Register(r)
             \/ Form!Resend(r)
             \/ \E c \in DOMAIN formCodes : Form!Verify(r, c)
      PROVE  Goal
  <2>1. UNCHANGED <<formPage, formAuth, formPending, formLeft>> /\ formSaid' = Form!Quiet
    BY <1>1 DEF Form!Login, Form!Register, Form!Resend, Form!Verify, Form!Send
  <2> QED
    BY <1>p, <1>q, <1>l, <2>1
<1>2. ASSUME NEW r \in Calls,
             \/ Form!Refuse(r) \/ Form!TrustedLogin(r) \/ Form!ServeRegister(r)
                              \/ Form!MailCode(r) \/ Form!ServeVerify(r)
      PROVE  Goal
  <2>1. UNCHANGED <<formPage, formAuth, formPending, formLeft, formSaid>>
    BY <1>2 DEF Form!Refuse, Form!TrustedLogin, Form!ServeRegister, Form!MailCode,
                Form!ServeVerify, Form!tabVars
  <2> QED
    BY <1>p, <1>s, <1>l, <2>1
<1>3. ASSUME NEW r \in Calls, Form!SignedIn(r)
      PROVE  Goal
  BY <1>3, <1>g, <1>b DEF Form!SignedIn, Form!Pages
<1>n. ASSUME NEW r \in Calls, formCall[r].answer = "code"
      PROVE  formCall[r].new \in 0 .. Len(formCodes') /\ formCall[r].new # 0
  <2>1. formCall[r].new \in DOMAIN formCodes
    BY <1>n DEF PagesShape, FormShape
  <2> QED
    BY <1>b, <2>1
<1>4. ASSUME NEW r \in Calls, Form!CodeMailed(r)
      PROVE  Goal
  <2>1. formCall[r].new \in 0 .. Len(formCodes') /\ formAuth \in BOOLEAN
    BY <1>4, <1>n, <1>t DEF Form!CodeMailed
  <2>2. Form!Go("otp", formAuth, formCall[r].new, Form!Over(r))
    BY <1>4 DEF Form!CodeMailed, Form!NextPending
  <2> QED
    BY <1>g, <2>1, <2>2 DEF Form!Pages
<1>5. ASSUME NEW r \in Calls, Form!Resent(r)
      PROVE  Goal
  <2>1. /\ formCall[r].answer = "code" /\ formCall[r].kind = "resend" /\ Form!Says(r, "resent")
        /\ formPage' = formPage /\ formAuth' = formAuth /\ formPending' = formCall[r].new
        /\ formLeft' = formLeft \/ formLeft' = Cooldown
    BY <1>5 DEF Form!Resent, Form!NextPending
  <2>2. Place
    BY <1>n, <1>t, <2>1 DEF Place
  <2>3. Countdown
    BY <1>a, <2>1 DEF Countdown
  <2> QED
    BY <1>y, <2>1, <2>2, <2>3
<1>6. ASSUME NEW r \in Calls, Form!Registered(r)
      PROVE  Goal
  <2>1. /\ formCall[r].answer = "stored" /\ Form!Says(r, "requested")
        /\ UNCHANGED <<formPage, formAuth, formPending, formLeft>>
    BY <1>6 DEF Form!Registered
  <2> QED
    BY <1>p, <1>l, <1>y, <2>1
<1>7. ASSUME NEW r \in Calls, Form!Fails(r)
      PROVE  Goal
  <2>1. /\ Form!Says(r, Form!Failure[formCall[r].kind])
        /\ UNCHANGED <<formPage, formAuth, formPending, formLeft>>
    BY <1>7 DEF Form!Fails
  <2>2. Form!Failure[formCall[r].kind] \in {"not resent", "invalid", "not sent", "not requested"}
    <3>1. formCall[r].kind \in {"login", "verify", "resend", "register"}
      BY FormCalls DEF Form!Kinds
    <3>2. /\ Form!Failure["login"] = "not sent" /\ Form!Failure["verify"] = "invalid"
          /\ Form!Failure["resend"] = "not resent"
          /\ Form!Failure["register"] = "not requested"
      BY DEF Form!Failure
    <3> QED
      BY <3>1, <3>2
  <2> QED
    BY <1>p, <1>l, <1>y, <2>1, <2>2
<1>8. ASSUME NEW p \in Form!Pages, Form!Visit(p)
      PROVE  Goal
  BY <1>8, <1>g, <1>b, <1>t DEF Form!Visit
<1>9. ASSUME Form!Logout
      PROVE  Goal
  BY <1>9, <1>g, <1>b DEF Form!Logout, Form!Pages
<1>10. ASSUME Form!Reload
       PROVE  Goal
  <2>1. /\ formPage' = Form!Land(formPage, FALSE, 0) /\ formPending' = 0 /\ formLeft' = 0
        /\ formSaid' = Form!Quiet /\ formAuth' = formAuth /\ ~formAuth
    BY <1>10 DEF Form!Reload
  <2>2. Place
    BY <1>t, <1>b, <2>1 DEF Place, Form!Land, Form!Pages
  <2>3. Countdown
    BY <2>1, FormNumbers DEF Countdown
  <2> QED
    BY <1>q, <2>1, <2>2, <2>3
<1>11. ASSUME Form!Tick
       PROVE  Goal
  <2>1. /\ UNCHANGED <<formPage, formAuth, formPending, formSaid>>
        /\ formLeft' = formLeft \/ formLeft' = Form!Max({formLeft - 1, 0})
    BY <1>11 DEF Form!Tick
  <2>3. Form!Max({formLeft - 1, 0}) = IF formLeft - 1 >= 0 THEN formLeft - 1 ELSE 0
    BY <1>a, FormMax
  <2>4. Countdown
    BY <1>a, <2>1, <2>3 DEF Countdown
  <2> QED
    BY <1>p, <1>s, <2>1, <2>4
<1> HIDE DEF Goal
<1>12. Goal
  BY <1>1, <1>2, <1>3, <1>4, <1>5, <1>6, <1>7, <1>8, <1>9, <1>10, <1>11 DEF Form!Step
<1> QED
  BY <1>12 DEF Goal, Place, Saying, Countdown

(* What becomes of a call that the server answers.                         *)
LEMMA ServedCall ==
  ASSUME Form!SignInTypeOK, NEW r \in Calls, NEW answer, NEW new, NEW good,
         Form!Served(r, answer, new, good)
  PROVE  /\ formCall'[r].at = "served"
         /\ formCall'[r].answer = answer
         /\ formCall'[r].new = new
         /\ formCall'[r].kind = formCall[r].kind /\ formCall'[r].by = formCall[r].by
         /\ \A x \in Calls \ {r} : formCall'[x] = formCall[x]
<1>1. formCall \in [Calls -> Form!Call] /\ formCall[r] \in Form!Call
  BY FormCalls, FormRows
<1>2. formCall'[r] = [formCall[r] EXCEPT !.at = "served", !.answer = answer, !.new = new, !.good = good]
  BY <1>1 DEF Form!Served
<1>3. \A x \in Calls \ {r} : formCall'[x] = formCall[x]
  BY <1>1 DEF Form!Served
<1> QED
  BY <1>1, <1>2, <1>3 DEF Form!Call

(* ...and of one that the page has heard of.                               *)
LEMMA OverCall ==
  ASSUME Form!SignInTypeOK, NEW r \in Calls
  PROVE  /\ Form!Over(r) \in [Calls -> Form!Call] /\ Form!Over(r)[r].at = "over"
         /\ \A x \in Calls \ {r} : Form!Over(r)[x] = formCall[x]
<1> DEFINE q == [formCall[r] EXCEPT !.at = "over"]
<1>1. formCall \in [Calls -> Form!Call] /\ formCall[r] \in Form!Call
  BY FormCalls, FormRows
<1>2. q \in Form!Call /\ q.at = "over"
  BY <1>1 DEF Form!Call
<1>3. Form!Over(r) = [formCall EXCEPT ![r] = q]
  BY <1>1 DEF Form!Over
<1> HIDE DEF q
<1> QED
  BY <1>1, <1>2, <1>3

(* A page that is left hands its calls to nobody, and otherwise they go on
   as they were (router of the pages).                                     *)
LEMMA GoneCalls ==
  ASSUME NEW p, NEW signed, NEW request, NEW others \in [Calls -> Form!Call],
         Form!Go(p, signed, request, others), NEW x \in Calls
  PROVE  /\ formCall'[x].at = others[x].at /\ formCall'[x].kind = others[x].kind
         /\ formCall'[x].answer = others[x].answer /\ formCall'[x].new = others[x].new
         /\ formCall'[x].by = others[x].by \/ (formCall'[x].by = "app" /\ others[x].by = "page")
<1>1. others[x] \in Form!Call
  OBVIOUS
<1>2. \/ formCall'[x] = others[x]
      \/ formCall'[x] = [others[x] EXCEPT !.by = "app"] /\ others[x].by = "page"
  BY GoCalls
<1> QED
  BY <1>1, <1>2 DEF Form!Call

(* What a page asks for.                                                   *)
LEMMA SentCall ==
  ASSUME Form!SignInTypeOK, NEW r \in Calls, NEW kind, NEW id, NEW typed,
         Form!Send(r, kind, id, typed)
  PROVE  /\ formCall'[r].at = "sent"
         /\ formCall'[r].kind = kind
         /\ formCall'[r].by = "page"
         /\ formCall[r].at = "none"
         /\ \A x \in Calls \ {r} : formCall'[x] = formCall[x]
<1>1. formCall \in [Calls -> Form!Call]
  BY FormRows
<1>2. formCall'[r] = [Form!NoCall EXCEPT !.at = "sent", !.kind = kind, !.by = "page", !.id = id, !.typed = typed]
  BY <1>1 DEF Form!Send
<1>3. formCall[r].at = "none" /\ \A x \in Calls \ {r} : formCall'[x] = formCall[x]
  BY <1>1 DEF Form!Send
<1>4. formCall'[r].at = "sent" /\ formCall'[r].kind = kind /\ formCall'[r].by = "page"
  BY <1>2 DEF Form!NoCall
<1> QED
  BY <1>3, <1>4

(* A tab that heard of a call and goes to another page waits for the rest. *)
LEMMA LeftCalls ==
  ASSUME Form!SignInTypeOK, NEW r \in Calls, NEW p, NEW signed, NEW request,
         Form!Go(p, signed, request, Form!Over(r)), NEW x \in Calls
  PROVE  IF x = r THEN formCall'[x].at = "over"
         ELSE /\ formCall'[x].at = formCall[x].at /\ formCall'[x].kind = formCall[x].kind
              /\ formCall'[x].answer = formCall[x].answer
              /\ formCall'[x].new = formCall[x].new
<1>1. Form!Over(r) \in [Calls -> Form!Call]
  BY OverCall
<1>2. /\ formCall'[x].at = Form!Over(r)[x].at /\ formCall'[x].kind = Form!Over(r)[x].kind
      /\ formCall'[x].answer = Form!Over(r)[x].answer
      /\ formCall'[x].new = Form!Over(r)[x].new
  BY <1>1, GoneCalls
<1> QED
  BY <1>2, OverCall

(* A steady tab waits for what its page asked for, one call of a kind.     *)
LEMMA PagesCalmKept ==
  ASSUME Form!SignInTypeOK, PagesShape, PagesCalm, Form!Step, formSteady' = formSteady
  PROVE  PagesCalm'
<1> SUFFICES ASSUME formSteady
             PROVE  PagesCalm'
  BY DEF PagesCalm
<1> DEFINE Goal == /\ \A x \in Calls : Awaited(formCall'[x]) => Fitting(formCall'[x], formPage')
                   /\ \A x, y \in Calls : Awaited(formCall'[x]) /\ Awaited(formCall'[y])
                                          /\ formCall'[x].kind = formCall'[y].kind => x = y
<1>c. /\ \A x \in Calls : Awaited(formCall[x]) => Fitting(formCall[x], formPage)
      /\ \A x, y \in Calls : Awaited(formCall[x]) /\ Awaited(formCall[y])
                             /\ formCall[x].kind = formCall[y].kind => x = y
  BY DEF PagesCalm
<1>p. formPage \in Form!Pages
  BY DEF Form!SignInTypeOK
<1>k. ASSUME formPage' = formPage,
             \A x \in Calls : Awaited(formCall'[x]) =>
               /\ Awaited(formCall[x]) /\ formCall'[x].kind = formCall[x].kind
               /\ formCall'[x].by = formCall[x].by
      PROVE  Goal
  BY <1>c, <1>k DEF Fitting
<1>n. ASSUME \A x \in Calls : ~Awaited(formCall'[x])
      PROVE  Goal
  BY <1>n
<1>o. ASSUME NEW r \in Calls, formPage' = formPage, formCall' = Form!Over(r)
      PROVE  Goal
  <2>1. \A x \in Calls : Awaited(formCall'[x]) => formCall'[x] = formCall[x]
    BY <1>o, OverCall DEF Awaited
  <2> HIDE DEF Goal
  <2> QED
    BY <1>k, <1>o, <2>1
<1>v. ASSUME NEW r \in Calls, NEW answer, NEW new, NEW good,
             Form!Served(r, answer, new, good),
             formCall[r].at = "sent", formPage' = formPage
      PROVE  Goal
  <2>1. \A x \in Calls : Awaited(formCall'[x]) =>
               /\ Awaited(formCall[x]) /\ formCall'[x].kind = formCall[x].kind
               /\ formCall'[x].by = formCall[x].by
    BY <1>v, ServedCall DEF Awaited
  <2> HIDE DEF Goal
  <2> QED
    BY <1>k, <1>v, <2>1
<1>s. ASSUME NEW r \in Calls, NEW kind \in Form!Kinds, NEW id, NEW typed,
             Form!Send(r, kind, id, typed), ~Form!Busy(kind),
             kind = formPage \/ (formPage = "otp" /\ kind \in {"verify", "resend"})
      PROVE  Goal
  <2>1. formPage' = formPage /\ formPage # "dashboard"
    BY <1>s DEF Form!Send, Form!Kinds
  <2>2. \A x \in Calls : Awaited(formCall[x]) => formCall[x].by = "page" /\ formCall[x].kind # kind
    BY <1>s, <1>c, <2>1 DEF Fitting, Form!Busy, Form!UnderWay, Awaited
  <2> QED
    BY <1>s, <1>c, <2>1, <2>2, SentCall DEF Fitting
<1> HIDE DEF Goal
<1>1. ASSUME NEW r \in Calls,
             \/ Form!Login(r)
             \/ Form!Register(r)
             \/ Form!Resend(r)
             \/ \E c \in DOMAIN formCodes : Form!Verify(r, c)
      PROVE  Goal
  BY <1>1, <1>s DEF Form!Login, Form!Register, Form!Resend, Form!Verify, Form!Kinds
<1>2. ASSUME NEW r \in Calls,
             \/ Form!Refuse(r) \/ Form!TrustedLogin(r) \/ Form!ServeRegister(r)
                              \/ Form!MailCode(r) \/ Form!ServeVerify(r)
      PROVE  Goal
  <2>1. formCall[r].at = "sent" /\ formPage' = formPage
    BY <1>2 DEF Form!Refuse, Form!TrustedLogin, Form!ServeRegister, Form!MailCode,
                Form!ServeVerify, Form!tabVars
  <2>2. \E answer, new, good : Form!Served(r, answer, new, good)
    BY <1>2 DEF Form!Refuse, Form!TrustedLogin, Form!ServeRegister, Form!MailCode,
                Form!ServeVerify
  <2> QED
    BY <1>v, <2>1, <2>2
<1>3. ASSUME NEW r \in Calls, Form!SignedIn(r)
      PROVE  Goal
  <2>1. /\ formCall[r].at = "served" /\ formCall[r].kind \in {"login", "verify"}
        /\ Form!Go("dashboard", TRUE, 0, Form!Over(r))
    BY <1>3 DEF Form!SignedIn, PagesShape, FormShape
  <2>2. formPage' = "dashboard"
    BY <2>1 DEF Form!Go, Form!Land
  <2>3. Fitting(formCall[r], formPage) /\ formPage \in {"login", "otp"}
    <3>1. Awaited(formCall[r])
      BY <2>1 DEF Awaited
    <3>2. Fitting(formCall[r], formPage)
      BY <1>c, <3>1
    <3> QED
      BY <1>p, <2>1, <3>2 DEF Fitting, Form!Pages
  <2>4. ASSUME NEW x \in Calls, Awaited(formCall'[x])
        PROVE  /\ Awaited(formCall[x]) /\ formCall'[x].kind = formCall[x].kind
               /\ formCall'[x].by = "app" /\ formCall[x].kind = "resend"
    <3>1. x # r /\ Awaited(formCall[x]) /\ formCall'[x].kind = formCall[x].kind
      BY <2>1, <2>4, LeftCalls DEF Awaited
    <3>2. Form!Over(r)[x] = formCall[x]
      BY <3>1, OverCall
    <3>3. formCall[x].by = "page" /\ formCall[x].kind = "resend"
      <4>1. Fitting(formCall[x], formPage) /\ formCall[x].kind # formCall[r].kind
        BY <1>c, <2>1, <3>1 DEF Awaited
      <4>2. formCall[x].kind \in Form!Kinds
        BY FormCalls
      <4> QED
        BY <2>1, <2>3, <4>1, <4>2 DEF Fitting, Form!Kinds
    <3>4. formCall'[x].by = "app"
      <4>1. formCall'[x] = [Form!Over(r)[x] EXCEPT !.by = "app"]
        BY <2>1, <2>2, <2>3, <3>2, <3>3 DEF Form!Go, Form!Land
      <4> QED
        BY <4>1, FormCalls, <3>2 DEF Form!Call
    <3> QED
      BY <3>1, <3>3, <3>4
  <2> QED
    BY <1>c, <2>2, <2>4 DEF Goal, Fitting
<1>4. ASSUME NEW r \in Calls, Form!CodeMailed(r)
      PROVE  Goal
  <2>1. /\ formCall[r].at = "served" /\ formCall[r].kind = "login"
        /\ Form!Go("otp", formAuth, Form!NextPending(r), Form!Over(r))
    BY <1>4 DEF Form!CodeMailed
  <2>2. formPage = "login"
    BY <1>c, <2>1 DEF Awaited, Fitting
  <2>3. \A x \in Calls \ {r} : ~Awaited(formCall[x])
    BY <1>c, <2>1, <2>2 DEF Awaited, Fitting
  <2>4. \A x \in Calls : ~Awaited(formCall'[x])
    BY <2>1, <2>3, LeftCalls DEF Awaited
  <2> QED
    BY <1>n, <2>4
<1>5. ASSUME NEW r \in Calls, Form!Resent(r) \/ Form!Registered(r) \/ Form!Fails(r)
      PROVE  Goal
  BY <1>5, <1>o DEF Form!Resent, Form!Registered, Form!Fails
<1>6. ASSUME NEW p, NEW signed, NEW request, \A x \in Calls : ~Form!UnderWay(x),
             Form!Go(p, signed, request, formCall)
      PROVE  Goal
  BY <1>6, <1>n, FormRows, GoneCalls DEF Form!UnderWay, Awaited
<1>7. ASSUME NEW p \in Form!Pages, Form!Visit(p)
      PROVE  Goal
  BY <1>6, <1>7 DEF Form!Visit
<1>8. ASSUME Form!Logout
      PROVE  Goal
  BY <1>6, <1>8 DEF Form!Logout
<1>9. ASSUME Form!Tick
      PROVE  Goal
  BY <1>9, <1>k DEF Form!Tick
<1>10. ~Form!Reload
  BY DEF Form!Reload
<1>11. Goal
  BY <1>1, <1>2, <1>3, <1>4, <1>5, <1>7, <1>8, <1>9, <1>10 DEF Form!Step
<1> QED
  BY <1>11 DEF Goal, PagesCalm

(* A steady tab has at most one mail under way.                            *)
LEMMA OneMail ==
  ASSUME Form!SignInTypeOK, PagesCalm, formSteady, NEW x \in Calls, NEW y \in Calls,
         Awaited(formCall[x]), formCall[x].kind \in {"login", "resend"},
         Awaited(formCall[y]), formCall[y].kind \in {"login", "resend"}
  PROVE  x = y
<1>1. Fitting(formCall[x], formPage) /\ Fitting(formCall[y], formPage)
  BY DEF PagesCalm
<1>2. formCall[x].kind = formCall[y].kind
  BY <1>1 DEF Fitting
<1> QED
  BY <1>2 DEF PagesCalm

(* A code that was mailed is of a sign-in or a resend.                     *)
LEMMA ToldMails ==
  ASSUME PagesShape, NEW x \in Calls
  PROVE  /\ Told(formCall[x]) =>
              /\ Awaited(formCall[x]) /\ formCall[x].kind \in {"login", "resend"}
              /\ formCall[x].new \in DOMAIN formCodes
         /\ Asked(formCall[x]) => Awaited(formCall[x]) /\ formCall[x].kind = "resend"
BY DEF PagesShape, FormShape, Told, Asked, Awaited

(* The last code is the one the page has or will have, and the next may be *)
(* asked for when the countdown is over (AuthProvider.tsx, Otp.tsx).       *)
LEMMA PagesNewestKept ==
  ASSUME Form!SignInTypeOK, PagesShape, PagesCalm, PagesNewest, Form!Step,
         formSteady' = formSteady
  PROVE  PagesNewest'
<1> SUFFICES ASSUME formSteady
             PROVE  PagesNewest'
  BY DEF PagesNewest
<1> DEFINE Last == formCodes[Len(formCodes)].sentAt
           Ready(time) == Len(formCodes') # 0 /\ time >= Cooldown + formCodes'[Len(formCodes')].sentAt
           Goal == /\ \A x \in Calls : Told(formCall'[x]) => formCall'[x].new = Len(formCodes')
                   /\ formPending' # 0 =>
                        formPending' = Len(formCodes') \/ \E x \in Calls : Told(formCall'[x])
                   /\ formPage' = "otp" /\ (\A x \in Calls : ~Told(formCall'[x])) =>
                        Ready(formLeft' + formNow')
                   /\ \A x \in Calls : Asked(formCall'[x]) => Ready(formNow')
<1>a. /\ \A x \in Calls : Told(formCall[x]) => formCall[x].new = Len(formCodes)
      /\ formPending # 0 => formPending = Len(formCodes) \/ \E x \in Calls : Told(formCall[x])
      /\ formPage = "otp" /\ (\A x \in Calls : ~Told(formCall[x])) => Spaced(formLeft + formNow)
      /\ \A x \in Calls : Asked(formCall[x]) => Spaced(formNow)
  BY DEF PagesNewest
<1>b. /\ Len(formCodes) \in Nat /\ DOMAIN formCodes = 1 .. Len(formCodes)
      /\ formNow \in Nat /\ formNow' \in Nat /\ formNow' >= formNow
  BY FormRows, FormCodesGrow
<1>l. Len(formCodes) # 0 => Last \in Nat /\ Last <= formNow
  <2>1. Len(formCodes) # 0 => Len(formCodes) \in DOMAIN formCodes
    BY <1>b
  <2> QED
    BY <2>1, FormRows DEF PagesShape
<1>p. /\ formPage \in Form!Pages /\ (formPage = "dashboard") = formAuth /\ formPage = "otp" => formPending # 0
      /\ formPending \in 0 .. Len(formCodes) /\ formPending \in Nat
  <2>1. formPending \in 0 .. Len(formCodes)
    BY DEF Form!SignInTypeOK
  <2>2. formPending \in Nat
    BY <2>1, <1>b
  <2> QED
    BY <2>1, <2>2 DEF Form!SignInTypeOK
<1>t. formLeft \in Nat /\ Cooldown \in Nat
  <2>1. formLeft \in 0 .. Cooldown
    BY DEF Form!SignInTypeOK
  <2> QED
    BY <2>1, FormNumbers
<1>r. ASSUME Len(formCodes') = Len(formCodes),
             \A i \in DOMAIN formCodes : formCodes'[i].sentAt = formCodes[i].sentAt,
             NEW time \in Nat, Spaced(time), NEW later \in Nat, later >= time
      PROVE  Ready(later)
  <2>1. Len(formCodes) \in DOMAIN formCodes /\ Last \in Nat
    BY <1>b, <1>l, <1>r DEF Spaced
  <2> QED
    BY <1>r, <1>t, <2>1 DEF Spaced
<1>m. ASSUME Len(formCodes') = Len(formCodes),
             \A i \in DOMAIN formCodes : formCodes'[i].sentAt = formCodes[i].sentAt,
             Len(formCodes) # 0
      PROVE  Ready(Cooldown + formNow')
  <2>1. Len(formCodes) \in DOMAIN formCodes /\ Last \in Nat /\ Last <= formNow
    BY <1>b, <1>l, <1>m
  <2> QED
    BY <1>b, <1>m, <1>t, <2>1
<1> HIDE DEF Last, Ready
<1>k. ASSUME Len(formCodes') = Len(formCodes),
             \A i \in DOMAIN formCodes : formCodes'[i].sentAt = formCodes[i].sentAt,
             \A x \in Calls : Told(formCall'[x]) <=> Told(formCall[x]),
             \A x \in Calls : Told(formCall[x]) => formCall'[x].new = formCall[x].new,
             \A x \in Calls : Asked(formCall'[x]) => Asked(formCall[x]),
             formPending' = formPending \/ formPending' = 0,
             formPage' = "otp" => /\ formPage = "otp" /\ formLeft' \in Nat
                                  /\ formLeft' + formNow' >= formLeft + formNow
      PROVE  Goal
  <2>1. \A x \in Calls : Told(formCall'[x]) => formCall'[x].new = Len(formCodes')
    BY <1>a, <1>k
  <2>2. formPending' # 0 => formPending' = Len(formCodes') \/ \E x \in Calls : Told(formCall'[x])
    BY <1>a, <1>k
  <2>3. ASSUME formPage' = "otp", \A x \in Calls : ~Told(formCall'[x])
        PROVE  Ready(formLeft' + formNow')
    <3>1. Spaced(formLeft + formNow)
      BY <1>a, <1>k, <2>3
    <3>2. formLeft + formNow \in Nat /\ formLeft' + formNow' \in Nat
      BY <1>b, <1>k, <1>t, <2>3
    <3> QED
      BY <1>k, <1>r, <2>3, <3>1, <3>2
  <2>4. ASSUME NEW x \in Calls, Asked(formCall'[x])
        PROVE  Ready(formNow')
    BY <1>a, <1>b, <1>k, <1>r, <2>4
  <2> QED
    BY <2>1, <2>2, <2>3, <2>4
<1> HIDE DEF Goal
<1>j. ASSUME UNCHANGED formLeft
      PROVE  formLeft' \in Nat /\ formLeft' + formNow' >= formLeft + formNow
  <2>1. formLeft' = formLeft /\ formLeft \in Nat
    BY <1>j, <1>t
  <2>2. formNow \in Nat /\ formNow' \in Nat /\ formNow' >= formNow
    BY <1>b
  <2>3. ASSUME NEW l \in Nat, NEW n \in Nat, NEW m \in Nat, m >= n
        PROVE  l + m >= l + n
    BY <2>3
  <2> QED
    BY <2>1, <2>2, <2>3
<1>u. ASSUME UNCHANGED formCodes
      PROVE  /\ Len(formCodes') = Len(formCodes)
             /\ \A i \in DOMAIN formCodes : formCodes'[i].sentAt = formCodes[i].sentAt
  BY <1>u
<1>1. ASSUME NEW r \in Calls, NEW kind, NEW id, NEW typed, Form!Send(r, kind, id, typed),
             kind # "resend"
      PROVE  Goal
  <2>1. /\ UNCHANGED formCodes /\ formPage' = formPage /\ formPending' = formPending
        /\ formLeft' = formLeft /\ formNow' = formNow
    BY <1>1 DEF Form!Send
  <2>2. ASSUME NEW x \in Calls
        PROVE  /\ Told(formCall'[x]) <=> Told(formCall[x])
               /\ Told(formCall[x]) => formCall'[x].new = formCall[x].new
               /\ Asked(formCall'[x]) => Asked(formCall[x])
    BY <1>1, SentCall DEF Told, Asked
  <2> QED
    BY <1>k, <1>j, <1>u, <2>1, <2>2
<1>2. ASSUME NEW r \in Calls, Form!Resend(r)
      PROVE  Goal
  <2>1. /\ formPage = "otp" /\ ~(formLeft > 0) /\ ~Form!Busy("resend")
        /\ Form!Send(r, "resend", formPending, 0)
        /\ UNCHANGED formCodes /\ formPage' = formPage /\ formPending' = formPending
        /\ formLeft' = formLeft /\ formNow' = formNow
    BY <1>2 DEF Form!Resend, Form!DisabledResend, Form!Send
  <2>2. \A x \in Calls : ~Told(formCall[x])
    <3> SUFFICES ASSUME NEW x \in Calls, Told(formCall[x])
                 PROVE  FALSE
      OBVIOUS
    <3>1. Awaited(formCall[x]) /\ formCall[x].kind \in {"login", "resend"}
      BY ToldMails
    <3>2. Fitting(formCall[x], formPage)
      BY <3>1 DEF PagesCalm
    <3> QED
      BY <2>1, <3>1, <3>2 DEF Fitting, Form!Busy, Form!UnderWay, Awaited
  <2>3. Spaced(formNow)
    <3>1. formLeft = 0
      BY <1>t, <2>1
    <3>2. Spaced(formLeft + formNow)
      BY <1>a, <2>1, <2>2
    <3> QED
      BY <1>b, <3>1, <3>2 DEF Spaced
  <2>4. Ready(formNow') /\ Ready(formLeft' + formNow')
    BY <1>b, <1>r, <1>t, <1>u, <2>1, <2>3
  <2>5. \A x \in Calls : ~Told(formCall'[x])
    BY <2>1, <2>2, SentCall DEF Told
  <2> QED
    BY <1>a, <2>1, <2>2, <2>4, <2>5 DEF Goal
<1>3. ASSUME NEW r \in Calls, NEW answer, NEW new, NEW good,
             Form!Served(r, answer, new, good),
             answer # "code", formCall[r].at = "sent",
             Len(formCodes') = Len(formCodes),
             \A i \in DOMAIN formCodes : formCodes'[i].sentAt = formCodes[i].sentAt,
             UNCHANGED <<formPage, formPending, formLeft, formNow>>
      PROVE  Goal
  <2>1. ASSUME NEW x \in Calls
        PROVE  /\ Told(formCall'[x]) <=> Told(formCall[x])
               /\ Told(formCall[x]) => formCall'[x].new = formCall[x].new
               /\ Asked(formCall'[x]) => Asked(formCall[x])
    BY <1>3, ServedCall DEF Told, Asked
  <2> QED
    BY <1>k, <1>j, <1>3, <2>1
<1>4. ASSUME NEW r \in Calls,
             Form!Refuse(r) \/ Form!TrustedLogin(r) \/ Form!ServeRegister(r)
      PROVE  Goal
  <2>1. /\ UNCHANGED <<formCodes, formPage, formPending, formLeft, formNow>> /\ formCall[r].at = "sent"
        /\ \/ Form!Served(r, "refused", 0, FALSE) \/ Form!Served(r, "tokens", 0, FALSE)
           \/ Form!Served(r, "stored", 0, FALSE)
    BY <1>4 DEF Form!Refuse, Form!TrustedLogin, Form!ServeRegister, Form!tabVars
  <2> QED
    BY <1>3, <1>u, <2>1
<1>5. ASSUME NEW r \in Calls, Form!ServeVerify(r)
      PROVE  Goal
  <2>1. UNCHANGED <<formPage, formPending, formLeft, formNow>> /\ formCall[r].at = "sent"
    BY <1>5 DEF Form!ServeVerify, Form!tabVars
  <2>2. \E answer, good : answer # "code" /\ Form!Served(r, answer, 0, good)
    BY <1>5 DEF Form!ServeVerify
  <2>3. /\ Len(formCodes') = Len(formCodes)
        /\ \A i \in DOMAIN formCodes : formCodes'[i].sentAt = formCodes[i].sentAt
    BY <1>5, VerifyMarks
  <2> QED
    BY <1>3, <2>1, <2>2, <2>3
<1>6. ASSUME NEW r \in Calls, Form!MailCode(r)
      PROVE  Goal
  <2>1. /\ formCall[r].at = "sent" /\ formCall[r].kind \in {"login", "resend"}
        /\ Form!Served(r, "code", Len(formCodes'), FALSE)
    BY <1>6 DEF Form!MailCode
  <2>2. ASSUME NEW x \in Calls \ {r}
        PROVE  formCall'[x] = formCall[x] /\ ~Told(formCall'[x]) /\ ~Asked(formCall'[x])
    <3>1. formCall'[x] = formCall[x]
      BY <2>1, ServedCall
    <3>2. ~Told(formCall[x]) /\ ~Asked(formCall[x])
      BY <2>1, OneMail, ToldMails DEF Awaited
    <3> QED
      BY <3>1, <3>2
  <2>3. Told(formCall'[r]) /\ formCall'[r].new = Len(formCodes') /\ ~Asked(formCall'[r])
    BY <2>1, ServedCall DEF Told, Asked
  <2> QED
    BY <2>2, <2>3 DEF Goal
<1>7. ASSUME NEW r \in Calls, Form!SignedIn(r)
      PROVE  Goal
  <2>1. /\ formCall[r].at = "served" /\ formCall[r].answer = "tokens" /\ UNCHANGED formCodes
        /\ Form!Go("dashboard", TRUE, 0, Form!Over(r))
    BY <1>7 DEF Form!SignedIn
  <2>2. formPage' = "dashboard" /\ formPending' = 0
    BY <2>1 DEF Form!Go, Form!Land
  <2>3. ASSUME NEW x \in Calls
        PROVE  /\ Told(formCall'[x]) <=> Told(formCall[x])
               /\ Told(formCall[x]) => formCall'[x].new = formCall[x].new
               /\ Asked(formCall'[x]) => Asked(formCall[x])
    BY <2>1, LeftCalls DEF Told, Asked
  <2> QED
    BY <1>k, <1>u, <2>1, <2>2, <2>3
<1>8. ASSUME NEW r \in Calls, formCall[r].at = "served", formCall[r].answer = "code",
             \A x \in Calls \ {r} : formCall'[x].at = formCall[x].at /\ formCall'[x].kind = formCall[x].kind
                                    /\ formCall'[x].answer = formCall[x].answer,
             formCall'[r].at = "over",
             UNCHANGED formCodes, formPending' = formCall[r].new,
             formPage' = "otp" => formLeft' = Cooldown
      PROVE  Goal
  <2>1. Told(formCall[r]) /\ formCall[r].new \in DOMAIN formCodes
    BY <1>8, ToldMails DEF Told
  <2>2. formPending' = Len(formCodes') /\ Len(formCodes) # 0
    BY <1>a, <1>b, <1>8, <2>1
  <2>3. \A x \in Calls : ~Told(formCall'[x]) /\ ~Asked(formCall'[x])
    <3>1. \A x \in Calls \ {r} : ~Told(formCall[x]) /\ ~Asked(formCall[x])
      BY <2>1, OneMail, ToldMails
    <3> QED
      BY <1>8, <3>1 DEF Told, Asked
  <2>4. Ready(Cooldown + formNow')
    BY <1>m, <1>u, <1>8, <2>2
  <2> QED
    BY <1>8, <2>2, <2>3, <2>4 DEF Goal
<1>9. ASSUME NEW r \in Calls, Form!CodeMailed(r)
      PROVE  Goal
  <2>1. /\ formCall[r].at = "served" /\ formCall[r].answer = "code" /\ formCall[r].kind = "login"
        /\ UNCHANGED formCodes /\ Form!Go("otp", formAuth, formCall[r].new, Form!Over(r))
    BY <1>9 DEF Form!CodeMailed, Form!NextPending
  <2>2. Fitting(formCall[r], formPage)
    BY <2>1 DEF PagesCalm, Awaited
  <2>3. formPage # "otp"
    BY <2>1, <2>2 DEF Fitting
  <2>4. formPending' = formCall[r].new /\ (formPage' = "otp" => formLeft' = Cooldown)
    BY <2>1, <2>3 DEF Form!Go, Form!Mount
  <2>5. \A x \in Calls : IF x = r THEN formCall'[x].at = "over"
                         ELSE /\ formCall'[x].at = formCall[x].at /\ formCall'[x].kind = formCall[x].kind
                              /\ formCall'[x].answer = formCall[x].answer
    BY <2>1, LeftCalls
  <2> QED
    BY <1>8, <2>1, <2>4, <2>5
<1>10. ASSUME NEW r \in Calls, Form!Resent(r)
       PROVE  Goal
  <2>1. /\ formCall[r].at = "served" /\ formCall[r].answer = "code" /\ formCall[r].kind = "resend"
        /\ UNCHANGED <<formCodes, formPage>> /\ formPending' = formCall[r].new
        /\ formCall' = Form!Over(r)
        /\ formCall[r].by = "page" => formLeft' = Cooldown
    BY <1>10 DEF Form!Resent, Form!NextPending
  <2>2. Fitting(formCall[r], formPage)
    BY <2>1 DEF PagesCalm, Awaited
  <2>3. formPage' = "otp" => formLeft' = Cooldown
    BY <2>1, <2>2 DEF Fitting
  <2> QED
    BY <1>8, <2>1, <2>3, OverCall
<1>11. ASSUME NEW r \in Calls, Form!Registered(r) \/ Form!Fails(r)
       PROVE  Goal
  <2>1. /\ UNCHANGED <<formCodes, formPage, formPending, formLeft, formNow>>
        /\ formCall[r].answer # "code" /\ formCall' = Form!Over(r)
    BY <1>11 DEF Form!Registered, Form!Fails
  <2>2. ASSUME NEW x \in Calls
        PROVE  /\ Told(formCall'[x]) <=> Told(formCall[x])
               /\ Told(formCall[x]) => formCall'[x].new = formCall[x].new
               /\ Asked(formCall'[x]) => Asked(formCall[x])
    BY <2>1, OverCall DEF Told, Asked
  <2> QED
    BY <1>k, <1>j, <1>u, <2>1, <2>2
<1>12. ASSUME NEW p, NEW signed, NEW request, \A x \in Calls : ~Form!UnderWay(x),
              Form!Go(p, signed, request, formCall), UNCHANGED formCodes, request \in {0, formPending},
              p = "otp" => formPage # "otp"
       PROVE  Goal
  <2>1. \A x \in Calls : ~Told(formCall[x]) /\ ~Told(formCall'[x]) /\ ~Asked(formCall'[x])
    BY <1>12, FormRows, GoneCalls DEF Form!UnderWay, Told, Asked
  <2>2. formPending' = request /\ formPage' = Form!Land(p, signed, request)
    BY <1>12 DEF Form!Go
  <2>3. formPending' # 0 => formPending' = Len(formCodes')
    BY <1>a, <1>12, <2>1, <2>2
  <2>4. formPage' = "otp" => formLeft' = Cooldown /\ formPending' # 0
    BY <1>12, <2>2 DEF Form!Go, Form!Land, Form!Mount
  <2>5. formPage' = "otp" => Ready(formLeft' + formNow')
    BY <1>b, <1>m, <1>u, <1>12, <2>3, <2>4
  <2> QED
    BY <2>1, <2>3, <2>5 DEF Goal
<1>13. ASSUME NEW p \in Form!Pages, Form!Visit(p)
       PROVE  Goal
  BY <1>12, <1>13 DEF Form!Visit
<1>14. ASSUME Form!Logout
       PROVE  Goal
  BY <1>12, <1>14 DEF Form!Logout
<1>15. ASSUME Form!Tick
       PROVE  Goal
  <2>1. /\ UNCHANGED <<formCodes, formCall, formPage, formPending>> /\ formNow' = formNow + 1
        /\ formPage = "otp" => formLeft' = Form!Max({formLeft - 1, 0})
    BY <1>15 DEF Form!Tick
  <2>2. formLeft - 1 \in Int
    BY <1>t
  <2>3. Form!Max({formLeft - 1, 0}) = IF formLeft - 1 >= 0 THEN formLeft - 1 ELSE 0
    BY <2>2, FormMax
  <2>4. formPage = "otp" => formLeft' \in Nat /\ formLeft' + formNow' >= formLeft + formNow
    BY <1>b, <1>t, <2>1, <2>3
  <2> QED
    BY <1>k, <1>u, <2>1, <2>4
<1>16. ~Form!Reload
  BY DEF Form!Reload
<1>17. ASSUME NEW r \in Calls,
              Form!Login(r) \/ Form!Register(r) \/ \E c \in DOMAIN formCodes : Form!Verify(r, c)
       PROVE  Goal
  BY <1>1, <1>17 DEF Form!Login, Form!Register, Form!Verify
<1>18. Goal
  BY <1>2, <1>4, <1>5, <1>6, <1>7, <1>9, <1>10, <1>11, <1>13, <1>14, <1>15, <1>16, <1>17
    DEF Form!Step
<1> QED
  BY <1>18 DEF Goal, Ready, PagesNewest, Spaced

(* Codes are resent no sooner than the countdown allows (Otp.tsx:119).     *)
LEMMA MailsSpacedKept ==
  ASSUME Form!SignInTypeOK, PagesShape, PagesNewest, Form!MailsAreSpaced, Form!Step,
         formSteady' = formSteady
  PROVE  Form!MailsAreSpaced'
<1> SUFFICES ASSUME formSteady, NEW i \in 2 .. Len(formCodes'), formCodes'[i].resent
             PROVE  formCodes'[i].sentAt - formCodes'[i - 1].sentAt >= Cooldown
  BY DEF Form!MailsAreSpaced
<1>1. /\ Len(formCodes) \in Nat /\ DOMAIN formCodes = 1 .. Len(formCodes)
      /\ \A j \in DOMAIN formCodes : /\ formCodes[j].sentAt \in Nat
                                     /\ formCodes'[j].sentAt = formCodes[j].sentAt
                                     /\ formCodes'[j].resent = formCodes[j].resent
      /\ formNow \in Nat /\ i \in Nat /\ i >= 2
  BY FormRows, FormCodesGrow
<1>2. CASE i <= Len(formCodes)
  <2>1. i \in DOMAIN formCodes /\ i - 1 \in DOMAIN formCodes /\ i \in 2 .. Len(formCodes)
    BY <1>1, <1>2
  <2>2. formCodes[i].resent
    BY <1>1, <2>1
  <2>3. formCodes[i].sentAt - formCodes[i - 1].sentAt >= Cooldown
    BY <2>1, <2>2 DEF Form!MailsAreSpaced
  <2> QED
    BY <1>1, <2>1, <2>3
<1>3. ASSUME NEW r \in Calls, Form!MailCode(r), i > Len(formCodes)
      PROVE  formCodes'[i].sentAt - formCodes'[i - 1].sentAt >= Cooldown
  <2>1. /\ Len(formCodes') = Len(formCodes) + 1
        /\ formCodes'[Len(formCodes')].sentAt = formNow
        /\ formCodes'[Len(formCodes')].resent = (formCall[r].kind = "resend")
    BY <1>3, MailAppends
  <2>2. i = Len(formCodes') /\ i - 1 = Len(formCodes) /\ i - 1 \in DOMAIN formCodes
    BY <1>1, <1>3, <2>1
  <2>3. Asked(formCall[r])
    BY <1>3, <2>1, <2>2 DEF Form!MailCode, Asked
  <2>4. formNow >= Cooldown + formCodes[i - 1].sentAt
    BY <2>2, <2>3 DEF PagesNewest, Spaced
  <2> QED
    BY <1>1, <2>1, <2>2, <2>4, FormNumbers
<1>4. ASSUME \A r \in Calls : ~Form!MailCode(r)
      PROVE  Len(formCodes') = Len(formCodes)
  BY <1>4, FormWriters, VerifyMarks
<1> QED
  BY <1>1, <1>2, <1>3, <1>4

(* What the pages promise follows (AuthProvider.tsx:137-139).              *)
LEMMA PagesProperties ==
  ASSUME PagesInv, part = "pages"
  PROVE  /\ Form!PendingIsNewest
         /\ Form!SaidIsDone
         /\ Form!MailsAreSpaced
         /\ Form!SignInTypeOK
<1>1. PagesNewest /\ Form!SaidIsDone /\ Form!MailsAreSpaced /\ Form!SignInTypeOK
  BY DEF PagesInv
<1>2. ASSUME formSteady, formPending # 0, \A r \in Calls : ~Form!UnderWay(r)
      PROVE  formPending = Len(formCodes)
  <2>1. \A r \in Calls : ~Told(formCall[r])
    BY <1>2 DEF Form!UnderWay, Told
  <2> QED
    BY <1>1, <1>2, <2>1 DEF PagesNewest
<1> QED
  BY <1>1, <1>2 DEF Form!PendingIsNewest

(* Nothing is under way when the tab opens.                                *)
LEMMA PagesBegin ==
  ASSUME Init
  PROVE  PagesInv
<1> SUFFICES ASSUME part = "pages"
             PROVE  /\ Form!SignInTypeOK /\ PagesShape /\ Form!SaidIsDone
                    /\ PagesCalm /\ PagesNewest /\ Form!MailsAreSpaced
  BY DEF PagesInv
<1>1. /\ formSteady \in BOOLEAN /\ formNow = 0 /\ formPage \in {"login", "register"}
      /\ formAuth = FALSE /\ formPending = 0 /\ formLeft = 0 /\ formSaid = Form!Quiet
      /\ formCall = [r \in Calls |-> Form!NoCall]
      /\ formCodes = << >>
      /\ formRegistered = FALSE
  BY DEF Init, Form!Init
<1>2. /\ Form!NoCall \in Form!Call /\ Form!NoCall.at = "none" /\ Form!NoCall.answer = "none"
      /\ Form!NoCall.kind = "login"
  BY DEF Form!NoCall, Form!Call, Form!Kinds, Form!Answers
<1>3. \A r \in Calls : formCall[r] = Form!NoCall
  BY <1>1
<1>4. Len(formCodes) = 0 /\ DOMAIN formCodes = {} /\ formCodes \in Seq(Form!Code)
  BY <1>1
<1>5. formSaid.what = "nothing" /\ formSaid.by = Form!NoCall
  BY <1>1 DEF Form!Quiet
<1>6. Form!SignInTypeOK
  <2>1. /\ formNow \in 0 .. PageTime
        /\ formPending \in 0 .. Len(formCodes)
        /\ formLeft \in 0 .. Cooldown
    BY <1>1, <1>4, FormNumbers
  <2>2. formPage \in Form!Pages /\ formAuth \in BOOLEAN /\ (formPage = "dashboard") = formAuth
        /\ (formPage = "otp" => formPending # 0)
    BY <1>1 DEF Form!Pages
  <2>3. formCall \in [Calls -> Form!Call]
    BY <1>1, <1>2
  <2>4. formSaid.by \in Form!Call /\ formRegistered \in BOOLEAN /\ formSteady \in BOOLEAN
    BY <1>1, <1>2, <1>5
  <2> QED
    BY <1>4, <1>5, <2>1, <2>2, <2>3, <2>4 DEF Form!SignInTypeOK
<1>7. PagesShape
  BY <1>2, <1>3, <1>4 DEF PagesShape, FormShape
<1>8. Form!SaidIsDone
  BY <1>5 DEF Form!SaidIsDone
<1>9. PagesCalm
  BY <1>2, <1>3 DEF PagesCalm, Awaited
<1>10. PagesNewest
  <2>1. \A r \in Calls : ~Told(formCall[r]) /\ ~Asked(formCall[r])
    BY <1>2, <1>3 DEF Told, Asked
  <2>2. formPage # "otp"
    BY <1>1
  <2> QED
    BY <1>1, <2>1, <2>2 DEF PagesNewest
<1>11. Form!MailsAreSpaced
  BY <1>4 DEF Form!MailsAreSpaced
<1> QED
  BY <1>6, <1>7, <1>8, <1>9, <1>10, <1>11

(* The steps of the pages keep what is known of them.                      *)
LEMMA PagesKept ==
  ASSUME PagesInv, [Next]_vars
  PROVE  PagesInv'
<1>0. part' = part
  BY DEF Next, vars
<1>1. CASE UNCHANGED formVars
  <2>1. /\ formSteady' = formSteady /\ formNow' = formNow /\ formPage' = formPage /\ formAuth' = formAuth
        /\ formPending' = formPending /\ formLeft' = formLeft /\ formSaid' = formSaid
        /\ formCall' = formCall
        /\ formCodes' = formCodes
        /\ formRegistered' = formRegistered
    BY <1>1 DEF formVars
  <2>2. Form!SignInTypeOK' = Form!SignInTypeOK
    BY <2>1 DEF Form!SignInTypeOK
  <2>3. PagesShape' = PagesShape /\ Form!SaidIsDone' = Form!SaidIsDone
    BY <2>1 DEF PagesShape, Form!SaidIsDone
  <2>4. PagesCalm' = PagesCalm /\ Form!MailsAreSpaced' = Form!MailsAreSpaced
    BY <2>1 DEF PagesCalm, Form!MailsAreSpaced
  <2>5. PagesNewest' = PagesNewest
    BY <2>1 DEF PagesNewest, Spaced
  <2> QED
    BY <1>0, <2>2, <2>3, <2>4, <2>5 DEF PagesInv
<1>2. CASE PagesStep
  <2>1. /\ part = "pages" /\ Form!Step /\ formSteady' = formSteady
        /\ Form!SignInTypeOK /\ PagesShape /\ Form!SaidIsDone
        /\ PagesCalm /\ PagesNewest /\ Form!MailsAreSpaced
    BY <1>2 DEF PagesStep, PagesInv, Form!Next
  <2>2. Form!SignInTypeOK'
    <3>1. formSteady' \in BOOLEAN
      BY <2>1 DEF Form!SignInTypeOK
    <3>2. formCodes' \in Seq(Form!Code) /\ formNow' \in 0 .. PageTime
      BY <2>1, FormCodesGrow
    <3>3. formRegistered' \in BOOLEAN
      BY <2>1, RegisteredStays
    <3>4. formCall' \in [Calls -> Form!Call]
      BY <2>1, FormCallsTyped
    <3>5. /\ formPage' \in Form!Pages /\ formAuth' \in BOOLEAN
          /\ formPending' \in 0 .. Len(formCodes') /\ formLeft' \in 0 .. Cooldown
          /\ formSaid'.what \in {"nothing", "resent", "not resent", "invalid", "not sent",
                                 "requested", "not requested"}
          /\ formSaid'.by \in Form!Call
          /\ (formPage' = "dashboard") = formAuth'
          /\ formPage' = "otp" => formPending' # 0
      BY <2>1, TabKept
    <3> QED
      BY <3>1, <3>2, <3>3, <3>4, <3>5 DEF Form!SignInTypeOK
  <2>3. PagesShape'
    <3>1. \A i \in DOMAIN formCodes' : formCodes'[i].sentAt <= formNow'
      BY <2>1, FormCodesGrow
    <3>2. \A r \in Calls : FormShape(formCall'[r], formCodes', formRegistered')
      BY <2>1, FormCallsTyped
    <3> QED
      BY <3>1, <3>2 DEF PagesShape
  <2>4. Form!SaidIsDone'
    BY <2>1, TabKept
  <2>5. PagesCalm'
    BY <2>1, PagesCalmKept
  <2>6. PagesNewest'
    BY <2>1, PagesNewestKept
  <2>7. Form!MailsAreSpaced'
    BY <2>1, MailsSpacedKept
  <2> QED
    BY <2>2, <2>3, <2>4, <2>5, <2>6, <2>7 DEF PagesInv
<1> QED
  BY <1>1, <1>2 DEF Next, vars, CodesStep, SessionsStep, RegistrationsStep, AccountsStep

-----------------------------------------------------------------------------
(* One-time codes                                                          *)

\* Where a request stands says what it is and what it has read.
CodeShape(q, otps) ==
  /\ q.call = "verify" => q.otp \in otps
  /\ q.pc = "idle" => q.call = "none"
  /\ q.pc \in {"send", "create", "mail"} => q.call \in {"login", "resend"} /\ q.reply = "none"
  /\ q.pc = "send" => q.otp = 0
  /\ q.pc = "check" => q.call = "verify" /\ q.attempts < MaxAttempts /\ q.reply = "none"
  /\ q.pc = "enter" => q.call = "verify" /\ q.right /\ q.reply = "none"

CodesShape == \A r \in Calls : CodeShape(otpReq[r], Codes!Otps)

\* The requests that the rate limit of mails let pass, and when.
Passed == {r \in Calls : /\ otpReq[r].call \in {"login", "resend"}
                         /\ otpReq[r].pc = "create" \/ otpReq[r].otp # 0}
PassedIn(t) == {r \in Passed : otpReq[r].limited \in t .. t + Window - 1}

\* A request that passed is still counted while it is in the window.
CodesCounted ==
  /\ \A k \in Codes!Buckets : IsFiniteSet(otpBucket[k])
  /\ \A r \in Passed :
        /\ otpReq[r].limited <= otpNow
        /\ otpReq[r].limited > otpNow - Window =>
             [by |-> r, at |-> otpReq[r].limited] \in otpBucket["send"]
  /\ \A t \in Nat : Cardinality(PassedIn(t)) <= Limit

\* The verifications of a code that were compared with it, and those of them
\* that typed another code.
Compares(q, o) == q.call = "verify" /\ q.otp = o /\ q.reply # "invalid" /\ q.pc # "check"
Compared(o) == {r \in Calls : Compares(otpReq[r], o)}
Wrong(o) == {r \in Compared(o) : ~otpReq[r].right}

\* With nothing in between, what a verification read is what it writes over.
CodesAlone ==
  part = "codes alone" =>
    /\ \A r \in Calls : otpReq[r].pc = "check" =>
         /\ otpReq[r].attempts = otpOtp[otpReq[r].otp].attempts
         /\ ~otpOtp[otpReq[r].otp].used
    /\ \A o \in Codes!Otps :
         /\ \A r \in Compared(o) : otpReq[r].right => otpOtp[o].used
         /\ \A r, s \in Compared(o) : otpReq[r].right /\ otpReq[s].right => r = s
         /\ Cardinality(Wrong(o)) <= otpOtp[o].attempts

\* The verification that used the code went on to sign in.
Entered(q, o) ==
  /\ q.call = "verify" /\ q.otp = o /\ q.reply # "invalid" /\ q.right
  /\ q.pc = "enter" \/ q.reply = "ok" \/ ~q.active \/ q.trust = "unnamed"

CodesInv ==
  part \in CodeParts =>
    /\ Codes!OtpTypeOK /\ OneAtATime(Codes!Serving) /\ CodesShape
    /\ CodesCounted /\ CodesAlone /\ Codes!UsedMeansSignedIn

(* The bounds of the limits are numbers.                                   *)
LEMMA CodeNumbers ==
  /\ CodeTime \in Nat /\ Ttl \in Nat /\ MaxAttempts \in Nat
  /\ Limit \in Nat /\ Window \in Nat /\ VerifyLimit \in Nat
BY CodesAssumption DEF Codes!OtpAssumption

(* What the module of the codes counts is counted here.                    *)
LEMMA CodeCardinality ==
  ASSUME NEW S
  PROVE  Codes!Cardinality(S) = Cardinality(S)
BY DEF Codes!Cardinality, Cardinality

(* Consuming a rate limit (rate-limit.service.ts) records a call.          *)
LEMMA RecordTyped ==
  ASSUME Codes!OtpTypeOK, NEW r \in Calls, NEW k \in Codes!Buckets, Codes!Record(r, k)
  PROVE  otpBucket' \in [Codes!Buckets -> SUBSET Codes!Member]
<1>1. otpNow \in Nat
  BY CodeNumbers DEF Codes!OtpTypeOK
<1>2. [by |-> r, at |-> otpNow] \in Codes!Member
  BY <1>1 DEF Codes!Member
<1>3. Codes!Within(otpBucket[k]) \cup {[by |-> r, at |-> otpNow]} \in SUBSET Codes!Member
  BY <1>2 DEF Codes!Within, Codes!OtpTypeOK
<1> QED
  BY <1>3 DEF Codes!Record, Codes!OtpTypeOK

(* What the rows of codes are.                                             *)
LEMMA CodeRows ==
  ASSUME Codes!OtpTypeOK
  PROVE  /\ Len(otpOtp) \in Nat /\ Codes!Otps = 1 .. Len(otpOtp)
         /\ \A o \in Codes!Otps :
              /\ otpOtp[o] \in Codes!Otp
              /\ otpOtp[o].sentAt \in Nat /\ otpOtp[o].attempts \in Nat
              /\ otpOtp[o].used \in BOOLEAN /\ otpOtp[o].tries \in Nat
<1>1. /\ Len(otpOtp) \in Nat /\ Codes!Otps = 1 .. Len(otpOtp)
      /\ \A o \in Codes!Otps : otpOtp[o] \in Codes!Otp
  BY DEF Codes!OtpTypeOK, Codes!Otps
<1> QED
  BY <1>1 DEF Codes!Otp

(* What the fields of a request are.                                       *)
LEMMA CodeRequests ==
  ASSUME Codes!OtpTypeOK, NEW r \in Calls
  PROVE  /\ otpReq[r] \in Codes!Request
         /\ otpReq[r].pc \in Codes!Points /\ otpReq[r].call \in Codes!Kinds
         /\ otpReq[r].otp \in Nat /\ otpReq[r].right \in BOOLEAN
         /\ otpReq[r].attempts \in Nat /\ otpReq[r].active \in BOOLEAN
         /\ otpReq[r].limited \in Nat
<1>1. otpReq[r] \in Codes!Request
  BY DEF Codes!OtpTypeOK
<1> QED
  BY <1>1 DEF Codes!Request

(* The rows and the rate limits stay well formed (otp.service.ts).         *)
LEMMA CodeRowsTyped ==
  ASSUME Codes!OtpTypeOK, CodesShape, Codes!Next
  PROVE  /\ otpNow' \in 0 .. CodeTime /\ otpNow' >= otpNow
         /\ otpOtp' \in Seq(Codes!Otp) /\ Len(otpOtp') >= Len(otpOtp)
         /\ \A o \in Codes!Otps' : otpOtp'[o].attempts <= MaxAttempts /\ otpOtp'[o].sentAt <= otpNow'
         /\ otpBucket' \in [Codes!Buckets -> SUBSET Codes!Member]
         /\ otpActive' \in BOOLEAN
<1> USE CodeNumbers, CodeRows DEF Codes!Otps
<1>t. /\ otpNow \in 0 .. CodeTime /\ otpNow \in Nat
      /\ otpOtp \in Seq(Codes!Otp)
      /\ \A o \in Codes!Otps : otpOtp[o].attempts <= MaxAttempts /\ otpOtp[o].sentAt <= otpNow
      /\ otpBucket \in [Codes!Buckets -> SUBSET Codes!Member]
      /\ otpActive \in BOOLEAN
  BY DEF Codes!OtpTypeOK
<1>b. ASSUME NEW r \in Calls, Codes!Login(r) \/ Codes!CreateAndSendLoginOtp(r)
      PROVE  otpBucket' \in [Codes!Buckets -> SUBSET Codes!Member]
  BY <1>b, <1>t, RecordTyped DEF Codes!Login, Codes!CreateAndSendLoginOtp,
                                 Codes!Consume, Codes!ConsumeRefused, Codes!Buckets
<1>1. ASSUME NEW r \in Calls,
             \/ Codes!Login(r)
             \/ Codes!CreateAndSendLoginOtp(r)
             \/ Codes!SendLoginOtpEmail(r)
             \/ Codes!Enter(r) \/ \E o \in Codes!Otps : Codes!ResendOtp(r, o)
      PROVE  /\ UNCHANGED <<otpNow, otpOtp, otpActive>>
             /\ otpBucket' \in [Codes!Buckets -> SUBSET Codes!Member]
  BY <1>1, <1>b, <1>t DEF Codes!Login, Codes!CreateAndSendLoginOtp,
                          Codes!SendLoginOtpEmail, Codes!Enter, Codes!ResendOtp
<1>2. ASSUME NEW r \in Calls, Codes!CreateOtp(r)
      PROVE  /\ UNCHANGED <<otpNow, otpBucket, otpActive>>
             /\ otpOtp' = Append(otpOtp, [sentAt |-> otpNow, attempts |-> 0, used |-> FALSE, tries |-> 0])
             /\ otpOtp' \in Seq(Codes!Otp)
             /\ \A o \in Codes!Otps' : otpOtp'[o].attempts <= MaxAttempts /\ otpOtp'[o].sentAt <= otpNow
  <2> DEFINE row == [sentAt |-> otpNow, attempts |-> 0, used |-> FALSE, tries |-> 0]
  <2>1. row \in Codes!Otp /\ row.attempts = 0 /\ row.sentAt = otpNow
    BY <1>t DEF Codes!Otp
  <2>2. UNCHANGED <<otpNow, otpBucket, otpActive>> /\ otpOtp' = Append(otpOtp, row)
    BY <1>2 DEF Codes!CreateOtp
  <2> HIDE DEF row
  <2>3. otpOtp' \in Seq(Codes!Otp)
    BY <2>1, <2>2, <1>t
  <2>4. \A o \in 1 .. Len(otpOtp') : o \in Codes!Otps \/ otpOtp'[o] = row
    BY <2>2, <1>t
  <2> QED
    BY <1>t, <2>1, <2>2, <2>3, <2>4 DEF row
<1>3. ASSUME NEW r \in Calls, NEW o \in Codes!Otps, NEW right, NEW trust,
             Codes!VerifyRead(r, o, right, trust)
      PROVE  /\ UNCHANGED <<otpNow, otpBucket, otpActive>>
             /\ otpOtp' \in Seq(Codes!Otp) /\ Len(otpOtp') = Len(otpOtp)
             /\ \A p \in Codes!Otps : otpOtp'[p].attempts <= MaxAttempts /\ otpOtp'[p].sentAt <= otpNow
  <2>1. /\ UNCHANGED <<otpNow, otpBucket, otpActive>>
        /\ otpOtp' = [otpOtp EXCEPT ![o].tries = @ + 1]
    BY <1>3 DEF Codes!VerifyRead
  <2>2. [otpOtp[o] EXCEPT !.tries = @ + 1] \in Codes!Otp
    BY DEF Codes!Otp
  <2> QED
    BY <1>t, <2>1, <2>2
<1>4. ASSUME NEW r \in Calls, Codes!VerifySave(r)
      PROVE  /\ UNCHANGED <<otpNow, otpBucket, otpActive>>
             /\ otpOtp' \in Seq(Codes!Otp) /\ Len(otpOtp') = Len(otpOtp)
             /\ \A p \in Codes!Otps : otpOtp'[p].attempts <= MaxAttempts /\ otpOtp'[p].sentAt <= otpNow
  <2> DEFINE q == otpReq[r]
  <2>1. UNCHANGED <<otpNow, otpBucket, otpActive>>
        /\ otpOtp' = [otpOtp EXCEPT ![q.otp].attempts = q.attempts + 1, ![q.otp].used = q.right]
    BY <1>4 DEF Codes!VerifySave
  <2>2. /\ q.otp \in Codes!Otps
        /\ q.attempts + 1 \in Nat
        /\ q.attempts + 1 <= MaxAttempts
        /\ q.right \in BOOLEAN
    BY <1>4, CodeRequests, SMTT(30) DEF Codes!VerifySave, CodesShape, CodeShape
  <2>3. [otpOtp[q.otp] EXCEPT !.attempts = q.attempts + 1, !.used = q.right] \in Codes!Otp
    BY <2>2 DEF Codes!Otp
  <2> QED
    BY <1>t, <2>1, <2>2, <2>3
<1>5. CASE Codes!Tick
  BY <1>5, <1>t DEF Codes!Tick
<1>6. CASE Codes!SetStatus
  BY <1>6, <1>t DEF Codes!SetStatus
<1> QED
  <2>1. ASSUME NEW r \in Calls, NEW o \in Codes!Otps, NEW right \in BOOLEAN,
               NEW trust \in Codes!Trusts,
               Codes!VerifyRead(r, o, right, trust)
        PROVE  Codes!Otps' = Codes!Otps
    BY <2>1, <1>3
  <2>2. ASSUME NEW r \in Calls, Codes!VerifySave(r)
        PROVE  Codes!Otps' = Codes!Otps
    BY <2>2, <1>4
  <2> QED
    BY <1>t, <1>1, <1>2, <1>3, <1>4, <1>5, <1>6, <2>1, <2>2 DEF Codes!Next

(* The requests stay well formed, and know where they are (auth.service.ts,*)
(* otp.service.ts).                                                        *)
LEMMA CodeRequestsTyped ==
  ASSUME Codes!OtpTypeOK, CodesShape, Codes!Next
  PROVE  otpReq' \in [Calls -> Codes!Request] /\ CodesShape'
<1> DEFINE Good(q) == q \in Codes!Request /\ CodeShape(q, Codes!Otps')
<1>t. /\ otpReq \in [Calls -> Codes!Request] /\ otpNow \in Nat
      /\ otpActive \in BOOLEAN
      /\ \A o \in Codes!Otps' : o \in Nat
      /\ Codes!Otps \subseteq Codes!Otps'
  <2>1. /\ otpReq \in [Calls -> Codes!Request] /\ otpNow \in Nat /\ otpActive \in BOOLEAN
    BY CodeNumbers DEF Codes!OtpTypeOK
  <2>2. /\ Codes!Otps' = 1 .. Len(otpOtp')
        /\ Len(otpOtp') \in Nat
        /\ Len(otpOtp') >= Len(otpOtp)
    BY CodeRowsTyped, CodeRows DEF Codes!Otps
  <2> QED
    BY <2>1, <2>2, CodeRows
<1>g. \A x \in Calls : Good(otpReq[x])
  BY <1>t DEF CodesShape, CodeShape
<1>m. ASSUME NEW r \in Calls, NEW q, Good(q), otpReq' = [otpReq EXCEPT ![r] = q]
      PROVE  otpReq' \in [Calls -> Codes!Request] /\ CodesShape'
  BY <1>m, <1>t, <1>g DEF CodesShape
<1>1. ASSUME NEW r \in Calls, Codes!Login(r)
      PROVE  otpReq' \in [Calls -> Codes!Request] /\ CodesShape'
  <2> DEFINE q == [Codes!Fresh EXCEPT !.call = "login", !.pc = IF otpActive THEN "send" ELSE "done",
                                      !.reply = IF otpActive THEN "none" ELSE "refused"]
             z == [Codes!Fresh EXCEPT !.call = "login", !.pc = "done", !.reply = "refused"]
  <2>1. otpReq' = [otpReq EXCEPT ![r] = q] \/ otpReq' = [otpReq EXCEPT ![r] = z]
    BY <1>1 DEF Codes!Login
  <2>2. Good(q) /\ Good(z)
    BY <1>t DEF Codes!Request, Codes!Points, Codes!Kinds, Codes!Trusts, Codes!Fresh,
                CodeShape
  <2> HIDE DEF q, z, Good
  <2> QED
    BY <2>1, <2>2, <1>m
<1>2. ASSUME NEW r \in Calls, NEW o \in Codes!Otps, Codes!ResendOtp(r, o)
      PROVE  otpReq' \in [Calls -> Codes!Request] /\ CodesShape'
  <2> DEFINE q == [Codes!Fresh EXCEPT !.call = "resend", !.pc = IF otpActive THEN "send" ELSE "done",
                                      !.reply = IF otpActive THEN "none" ELSE "refused"]
  <2>1. otpReq' = [otpReq EXCEPT ![r] = q]
    BY <1>2 DEF Codes!ResendOtp
  <2>2. Good(q)
    BY <1>t DEF Codes!Request, Codes!Points, Codes!Kinds, Codes!Trusts, Codes!Fresh,
                CodeShape
  <2> HIDE DEF q, Good
  <2> QED
    BY <2>1, <2>2, <1>m
<1>3. ASSUME NEW r \in Calls, Codes!CreateAndSendLoginOtp(r)
      PROVE  otpReq' \in [Calls -> Codes!Request] /\ CodesShape'
  <2> DEFINE q == [otpReq[r] EXCEPT !.pc = "create", !.limited = otpNow]
             z == [otpReq[r] EXCEPT !.pc = "done", !.reply = "refused"]
  <2>1. otpReq' = [otpReq EXCEPT ![r] = q] \/ otpReq' = [otpReq EXCEPT ![r] = z]
    BY <1>3, <1>t DEF Codes!CreateAndSendLoginOtp, Codes!Answer
  <2>2. Good(q) /\ Good(z)
    BY <1>3, <1>t, <1>g DEF Codes!CreateAndSendLoginOtp, Codes!Request, Codes!Points,
                            CodeShape
  <2> HIDE DEF q, z, Good
  <2> QED
    BY <2>1, <2>2, <1>m
<1>4. ASSUME NEW r \in Calls, Codes!CreateOtp(r)
      PROVE  otpReq' \in [Calls -> Codes!Request] /\ CodesShape'
  <2> DEFINE q == [otpReq[r] EXCEPT !.pc = "mail", !.otp = Len(otpOtp) + 1]
  <2>1. otpReq' = [otpReq EXCEPT ![r] = q]
    BY <1>4, <1>t DEF Codes!CreateOtp
  <2>2. Len(otpOtp) + 1 \in Nat /\ Good(otpReq[r]) /\ otpReq[r].pc = "create"
    BY <1>4, <1>g, CodeRows DEF Codes!CreateOtp
  <2>3. Good(q)
    BY <2>2 DEF Codes!Request, Codes!Points, CodeShape
  <2> HIDE DEF q, Good
  <2> QED
    BY <2>1, <2>3, <1>m
<1>5. ASSUME NEW r \in Calls, NEW reply \in {"ok", "refused"},
             otpReq[r].pc \in {"mail", "enter"}, Codes!Answer(r, reply)
      PROVE  otpReq' \in [Calls -> Codes!Request] /\ CodesShape'
  <2> DEFINE q == [otpReq[r] EXCEPT !.pc = "done", !.reply = reply]
  <2>1. otpReq' = [otpReq EXCEPT ![r] = q]
    BY <1>5, <1>t DEF Codes!Answer
  <2>2. Good(q)
    BY <1>t, <1>g DEF Codes!Request, Codes!Points, CodeShape
  <2> HIDE DEF q, Good
  <2> QED
    BY <2>1, <2>2, <1>m
<1>6. ASSUME NEW r \in Calls, NEW o \in Codes!Otps, NEW right \in BOOLEAN,
             NEW trust \in Codes!Trusts, Codes!VerifyRead(r, o, right, trust)
      PROVE  otpReq' \in [Calls -> Codes!Request] /\ CodesShape'
  <2> DEFINE accepted == otpOtp[o].tries < VerifyLimit /\ Codes!Valid(o)
             q == [Codes!Fresh EXCEPT !.call = "verify", !.otp = o, !.right = right, !.trust = trust,
                     !.attempts = otpOtp[o].attempts, !.active = otpActive,
                     !.pc = IF accepted THEN "check" ELSE "done",
                     !.reply = IF accepted THEN "none" ELSE "invalid"]
  <2>1. otpReq' = [otpReq EXCEPT ![r] = q]
    BY <1>6 DEF Codes!VerifyRead
  <2>2. accepted => otpOtp[o].attempts < MaxAttempts
    BY DEF Codes!Valid
  <2> HIDE DEF accepted
  <2>3. Good(q)
    <3>1. o \in Nat /\ otpOtp[o].attempts \in Nat /\ o \in Codes!Otps'
      BY <1>t, CodeRows
    <3>2. CASE accepted
      <4>1. q \in Codes!Request /\ q.pc = "check" /\ q.call = "verify" /\ q.otp = o
                              /\ q.attempts = otpOtp[o].attempts /\ q.reply = "none"
        BY <1>t, <3>1, <3>2, ZenonT(60) DEF Codes!Request, Codes!Points, Codes!Kinds, Codes!Trusts, Codes!Fresh
      <4> HIDE DEF q
      <4> QED
        BY <2>2, <3>1, <3>2, <4>1 DEF CodeShape
    <3>3. CASE ~accepted
      BY <2>2, <1>t, <3>1, <3>3, ZenonT(60) DEF Codes!Request, Codes!Points, Codes!Kinds,
                                    Codes!Trusts, Codes!Fresh, CodeShape
    <3> QED
      BY <3>2, <3>3
  <2> HIDE DEF q, Good
  <2> QED
    BY <2>1, <2>3, <1>m
<1>7. ASSUME NEW r \in Calls, Codes!VerifySave(r)
      PROVE  otpReq' \in [Calls -> Codes!Request] /\ CodesShape'
  <2> DEFINE q == [otpReq[r] EXCEPT !.pc = "enter"]
             z == [otpReq[r] EXCEPT !.pc = "done", !.reply = "refused"]
  <2>1. \/ otpReq[r].right /\ otpReq' = [otpReq EXCEPT ![r] = q]
        \/ otpReq' = [otpReq EXCEPT ![r] = z]
    BY <1>7, <1>t DEF Codes!VerifySave, Codes!Answer
  <2>2. (otpReq[r].right => Good(q)) /\ Good(z)
    BY <1>7, <1>t, <1>g DEF Codes!VerifySave, Codes!Request, Codes!Points, CodeShape
  <2> HIDE DEF q, z, Good
  <2> QED
    BY <2>1, <2>2, <1>m
<1>8. CASE Codes!Tick \/ Codes!SetStatus
  BY <1>8, <1>t, <1>g DEF Codes!Tick, Codes!SetStatus, CodesShape
<1> QED
  BY <1>1, <1>2, <1>3, <1>4, <1>5, <1>6, <1>7, <1>8
    DEF Codes!Next, Codes!SendLoginOtpEmail, Codes!Enter

(* A rate limit keeps finitely many calls (rate-limit.service.ts).         *)
LEMMA BucketsFinite ==
  ASSUME Codes!OtpTypeOK, \A k \in Codes!Buckets : IsFiniteSet(otpBucket[k]), Codes!Next
  PROVE  \A k \in Codes!Buckets : IsFiniteSet(otpBucket'[k])
<1>1. ASSUME NEW r \in Calls, NEW k \in Codes!Buckets, Codes!Record(r, k)
      PROVE  \A j \in Codes!Buckets : IsFiniteSet(otpBucket'[j])
  <2>1. IsFiniteSet(Codes!Within(otpBucket[k]))
    BY FS_Subset DEF Codes!Within
  <2>2. IsFiniteSet(Codes!Within(otpBucket[k]) \cup {[by |-> r, at |-> otpNow]})
    BY <2>1, FS_AddElement
  <2> QED
    BY <1>1, <2>2 DEF Codes!Record, Codes!OtpTypeOK
<1>2. ASSUME NEW r \in Calls, Codes!Login(r) \/ Codes!CreateAndSendLoginOtp(r)
      PROVE  \A j \in Codes!Buckets : IsFiniteSet(otpBucket'[j])
  BY <1>1, <1>2 DEF Codes!Login, Codes!CreateAndSendLoginOtp, Codes!Consume,
                    Codes!ConsumeRefused, Codes!Buckets
<1>3. CASE UNCHANGED otpBucket
  BY <1>3
<1> QED
  BY <1>2, <1>3 DEF Codes!Next, Codes!ResendOtp, Codes!CreateOtp,
                    Codes!SendLoginOtpEmail, Codes!VerifyRead, Codes!VerifySave,
                    Codes!Enter, Codes!Tick, Codes!SetStatus

(* A step that lets no request pass, and forgets none that is in the       *)
(* window, keeps the count.                                                *)
LEMMA StillCounted ==
  ASSUME Codes!OtpTypeOK, CodesCounted, otpNow' \in Nat, otpNow' >= otpNow,
         Passed' = Passed, \A r \in Passed : otpReq'[r].limited = otpReq[r].limited,
         \A k \in Codes!Buckets : IsFiniteSet(otpBucket'[k]),
         Codes!Within(otpBucket["send"]) \subseteq otpBucket'["send"]
  PROVE  CodesCounted'
<1>1. otpNow \in Nat /\ Window \in Nat
  BY CodeNumbers DEF Codes!OtpTypeOK
<1>2. \A r \in Passed : r \in Calls /\ otpReq[r].limited \in Nat
  BY CodeRequests DEF Passed
<1>3. ASSUME NEW r \in Passed, otpReq[r].limited > otpNow' - Window
      PROVE  [by |-> r, at |-> otpReq[r].limited] \in otpBucket'["send"]
  <2>1. otpReq[r].limited > otpNow - Window
    BY <1>1, <1>2, <1>3
  <2> QED
    BY <2>1 DEF CodesCounted, Codes!Within
<1>4. ASSUME NEW t \in Nat
      PROVE  PassedIn(t)' = PassedIn(t)
  BY DEF PassedIn
<1>c. \A r \in Passed : otpReq[r].limited <= otpNow
  BY DEF CodesCounted
<1>5. \A r \in Passed' : otpReq'[r].limited <= otpNow'
  BY <1>1, <1>2, <1>c
<1> QED
  BY <1>3, <1>4, <1>5 DEF CodesCounted

(* The request that passes is one of those counted in its window, and they *)
(* are as many as the limit lets be (otp.service.ts:147).                  *)
LEMMA PassesCounted ==
  ASSUME Codes!OtpTypeOK, CodesShape, CodesCounted, NEW r \in Calls,
         otpReq[r].pc = "send",
         Codes!Consume(r, "send"), otpReq' = [otpReq EXCEPT ![r].pc = "create", ![r].limited = otpNow],
         otpNow' = otpNow, \A k \in Codes!Buckets : IsFiniteSet(otpBucket'[k])
  PROVE  CodesCounted'
<1>1. /\ otpNow \in Nat /\ Window \in Nat /\ Limit \in Nat
      /\ "send" \in Codes!Buckets
      /\ otpReq[r].call \in {"login", "resend"} /\ otpReq[r].otp = 0 /\ r \notin Passed
      /\ otpReq \in [Calls -> Codes!Request]
  BY CodeNumbers DEF Codes!OtpTypeOK, CodesShape, CodeShape, Passed, Codes!Buckets
<1>2. \A x \in Passed : x \in Calls /\ otpReq[x].limited \in Nat
  BY CodeRequests DEF Passed
<1>3. /\ otpReq'[r].pc = "create" /\ otpReq'[r].limited = otpNow
      /\ otpReq'[r].call = otpReq[r].call
      /\ \A x \in Calls \ {r} : otpReq'[x] = otpReq[x]
  BY <1>1 DEF Codes!Request
<1>4. Passed' = Passed \cup {r}
  BY <1>1, <1>3 DEF Passed
<1>c. \A x \in Passed : otpReq[x].limited <= otpNow
  BY DEF CodesCounted
<1>b. otpBucket \in [Codes!Buckets -> SUBSET Codes!Member]
  BY DEF Codes!OtpTypeOK
<1>5. /\ otpBucket'["send"] = Codes!Within(otpBucket["send"]) \cup {[by |-> r, at |-> otpNow]}
      /\ Cardinality(otpBucket'["send"]) <= Limit
  <2>1. Codes!Record(r, "send") /\ Cardinality(otpBucket'["send"]) <= Limit
    BY CodeCardinality DEF Codes!Consume
  <2>2. "send" \in Codes!Buckets
    BY <1>1
  <2> QED
    BY <2>1, <2>2, <1>b DEF Codes!Record
<1>6. ASSUME NEW x \in Passed', otpReq'[x].limited > otpNow - Window
      PROVE  [by |-> x, at |-> otpReq'[x].limited] \in otpBucket'["send"]
  BY <1>2, <1>3, <1>4, <1>5, <1>6 DEF CodesCounted, Codes!Within
<1>7. \A x \in Passed' : otpReq'[x].limited <= otpNow /\ otpReq'[x].limited \in Nat
  BY <1>1, <1>2, <1>3, <1>4, <1>c
<1>8. ASSUME NEW t \in Nat
      PROVE  Cardinality(PassedIn(t)') <= Limit
  <2>1. CASE otpNow \notin t .. t + Window - 1
    <3>1. PassedIn(t)' = PassedIn(t)
      <4>1. \A x \in Passed : otpReq'[x].limited = otpReq[x].limited
        BY <1>1, <1>2, <1>3
      <4>2. r \notin PassedIn(t)'
        BY <1>3, <2>1 DEF PassedIn
      <4> QED
        BY <1>4, <4>1, <4>2 DEF PassedIn
    <3> QED
      BY <3>1 DEF CodesCounted
  <2>2. CASE otpNow \in t .. t + Window - 1
    <3> DEFINE f == [x \in PassedIn(t)' |-> [by |-> x, at |-> otpReq'[x].limited]]
    <3>1. \A x \in PassedIn(t)' : [by |-> x, at |-> otpReq'[x].limited] \in otpBucket'["send"]
      <4>1. ASSUME NEW x \in PassedIn(t)'
            PROVE  x \in Passed' /\ otpReq'[x].limited > otpNow - Window
        BY <1>1, <1>7, <2>2, <4>1 DEF PassedIn
      <4> QED
        BY <4>1, <1>6
    <3>2. f \in Injection(PassedIn(t)', otpBucket'["send"])
      <4>1. f \in [PassedIn(t)' -> otpBucket'["send"]]
        BY <3>1
      <4>2. ASSUME NEW x \in PassedIn(t)', NEW y \in PassedIn(t)', f[x] = f[y]
            PROVE  x = y
        <5>1. f[x].by = x /\ f[y].by = y
          OBVIOUS
        <5> QED
          BY <4>2, <5>1
      <4> QED
        BY <4>1, <4>2 DEF Injection, IsInjective
    <3>3. IsFiniteSet(otpBucket'["send"])
      BY <1>1
    <3> HIDE DEF f
    <3>4. Cardinality(PassedIn(t)') <= Cardinality(otpBucket'["send"])
      BY <3>2, <3>3, FS_Injection
    <3>5. IsFiniteSet(PassedIn(t)') /\ Cardinality(PassedIn(t)') \in Nat
          /\ Cardinality(otpBucket'["send"]) \in Nat
      BY <3>2, <3>3, FS_Injection, FS_CardinalityType
    <3> QED
      BY <1>1, <1>5, <3>4, <3>5
  <2> QED
    BY <2>1, <2>2
<1> QED
  BY <1>1, <1>6, <1>7, <1>8 DEF CodesCounted

(* So however sign-ins and resends overlap, the count is kept.             *)
LEMMA CodesCountedKept ==
  ASSUME Codes!OtpTypeOK, CodesShape, CodesCounted, Codes!Next
  PROVE  CodesCounted'
<1>1. /\ otpNow' \in Nat /\ otpNow' >= otpNow /\ otpNow \in Nat
      /\ \A k \in Codes!Buckets : IsFiniteSet(otpBucket'[k])
      /\ otpReq \in [Calls -> Codes!Request]
  BY CodeNumbers, CodeRowsTyped, BucketsFinite DEF CodesCounted, Codes!OtpTypeOK
<1>2. Codes!Within(otpBucket["send"]) \subseteq otpBucket["send"]
  BY DEF Codes!Within
<1>k. ASSUME NEW r \in Calls, \A x \in Calls \ {r} : otpReq'[x] = otpReq[x],
             otpReq'[r].limited = otpReq[r].limited \/ r \notin Passed,
             r \in Passed <=> r \in Passed',
             Codes!Within(otpBucket["send"]) \subseteq otpBucket'["send"]
      PROVE  CodesCounted'
  <2>1. Passed' = Passed
    BY <1>k DEF Passed
  <2>2. \A x \in Passed : otpReq'[x].limited = otpReq[x].limited
    BY <1>k DEF Passed
  <2> QED
    BY <2>1, <2>2, <1>1, <1>k, StillCounted
<1>3. ASSUME NEW r \in Calls, Codes!Login(r)
      PROVE  CodesCounted'
  <2>1. \A x \in Calls \ {r} : otpReq'[x] = otpReq[x]
    BY <1>1, <1>3 DEF Codes!Login
  <2>2. r \notin Passed
    BY <1>3 DEF Codes!Login, Codes!Begin, CodesShape, CodeShape, Passed
  <2>3. otpReq'[r].otp = 0 /\ otpReq'[r].pc # "create"
    BY <1>1, <1>3 DEF Codes!Login, Codes!Fresh
  <2>4. otpBucket'["send"] = otpBucket["send"]
    BY <1>3 DEF Codes!Login, Codes!Consume, Codes!ConsumeRefused, Codes!Record,
                Codes!OtpTypeOK, Codes!Buckets
  <2> QED
    BY <1>2, <1>k, <2>1, <2>2, <2>3, <2>4 DEF Passed
<1>4. ASSUME NEW r \in Calls, NEW o, NEW right, NEW trust,
             Codes!ResendOtp(r, o) \/ Codes!VerifyRead(r, o, right, trust)
      PROVE  CodesCounted'
  <2>1. \A x \in Calls \ {r} : otpReq'[x] = otpReq[x]
    BY <1>1, <1>4 DEF Codes!ResendOtp, Codes!VerifyRead
  <2>2. r \notin Passed
    BY <1>4 DEF Codes!ResendOtp, Codes!VerifyRead, Codes!Begin, CodesShape, CodeShape,
                Passed
  <2>3. \/ otpReq'[r].otp = 0 /\ otpReq'[r].pc # "create"
        \/ otpReq'[r].call = "verify"
    <3>1. CASE Codes!ResendOtp(r, o)
      BY <1>1, <3>1 DEF Codes!ResendOtp, Codes!Fresh
    <3>2. CASE Codes!VerifyRead(r, o, right, trust)
      BY <1>1, <3>2 DEF Codes!VerifyRead, Codes!Fresh
    <3> QED
      BY <1>4, <3>1, <3>2
  <2>4. otpBucket' = otpBucket
    BY <1>4 DEF Codes!ResendOtp, Codes!VerifyRead
  <2> QED
    BY <1>2, <1>k, <2>1, <2>2, <2>3, <2>4 DEF Passed
<1>5. ASSUME NEW r \in Calls, Codes!CreateAndSendLoginOtp(r)
      PROVE  CodesCounted'
  <2>1. CASE /\ Codes!Consume(r, "send")
             /\ otpReq' = [otpReq EXCEPT ![r].pc = "create", ![r].limited = otpNow]
    BY <1>1, <1>5, <2>1, PassesCounted DEF Codes!CreateAndSendLoginOtp
  <2>2. CASE Codes!Answer(r, "refused") /\ Codes!Record(r, "send")
    <3>1. \A x \in Calls \ {r} : otpReq'[x] = otpReq[x]
      BY <1>1, <2>2 DEF Codes!Answer
    <3>2. r \notin Passed
      BY <1>5 DEF Codes!CreateAndSendLoginOtp, CodesShape, CodeShape, Passed
    <3>3. otpReq'[r].otp = 0 /\ otpReq'[r].pc # "create"
      BY <1>1, <1>5, <2>2 DEF Codes!Answer, Codes!CreateAndSendLoginOtp, CodesShape,
                              CodeShape, Codes!Request
    <3>4. Codes!Within(otpBucket["send"]) \subseteq otpBucket'["send"]
      BY <2>2 DEF Codes!Record, Codes!OtpTypeOK, Codes!Buckets
    <3> QED
      BY <1>k, <3>1, <3>2, <3>3, <3>4 DEF Passed
  <2> QED
    BY <1>5, <2>1, <2>2 DEF Codes!CreateAndSendLoginOtp, Codes!Consume,
                            Codes!ConsumeRefused
<1>6. ASSUME NEW r \in Calls, Codes!CreateOtp(r)
      PROVE  CodesCounted'
  <2>1. \A x \in Calls \ {r} : otpReq'[x] = otpReq[x]
    BY <1>1, <1>6 DEF Codes!CreateOtp
  <2>2. /\ otpReq'[r].otp = Len(otpOtp) + 1 /\ Len(otpOtp) + 1 # 0
        /\ otpReq'[r].call = otpReq[r].call /\ otpReq'[r].limited = otpReq[r].limited
    BY <1>1, <1>6, CodeRows DEF Codes!CreateOtp, Codes!Request
  <2>3. otpReq[r].pc = "create" /\ otpBucket' = otpBucket
    BY <1>6 DEF Codes!CreateOtp
  <2> QED
    BY <1>2, <1>k, <2>1, <2>2, <2>3 DEF Passed
<1>7. ASSUME NEW r \in Calls,
             Codes!SendLoginOtpEmail(r) \/ Codes!Enter(r) \/ Codes!VerifySave(r)
      PROVE  CodesCounted'
  <2>1. \A x \in Calls \ {r} : otpReq'[x] = otpReq[x]
    BY <1>1, <1>7 DEF Codes!SendLoginOtpEmail, Codes!Enter, Codes!VerifySave,
                      Codes!Answer
  <2>2. /\ otpReq'[r].otp = otpReq[r].otp /\ otpReq[r].pc # "create" /\ otpReq'[r].pc # "create"
        /\ otpReq'[r].call = otpReq[r].call /\ otpReq'[r].limited = otpReq[r].limited
    BY <1>1, <1>7 DEF Codes!SendLoginOtpEmail, Codes!Enter, Codes!VerifySave,
                      Codes!Answer, Codes!Request
  <2>3. otpBucket' = otpBucket
    BY <1>7 DEF Codes!SendLoginOtpEmail, Codes!Enter, Codes!VerifySave
  <2> QED
    BY <1>2, <1>k, <2>1, <2>2, <2>3 DEF Passed
<1>8. CASE Codes!Tick \/ Codes!SetStatus
  <2>1. otpReq' = otpReq /\ otpBucket' = otpBucket
    BY <1>8 DEF Codes!Tick, Codes!SetStatus
  <2>2. Passed' = Passed /\ \A x \in Passed : otpReq'[x].limited = otpReq[x].limited
    BY <2>1 DEF Passed
  <2> QED
    BY <1>1, <1>2, <2>1, <2>2, StillCounted
<1> QED
  BY <1>3, <1>4, <1>5, <1>6, <1>7, <1>8 DEF Codes!Next

(* A request changes only what is known of itself.                         *)
LEMMA OtherCodeRequests ==
  ASSUME Codes!OtpTypeOK, NEW r \in Calls,
         \/ Codes!Login(r) \/ Codes!CreateAndSendLoginOtp(r) \/ Codes!CreateOtp(r)
         \/ Codes!SendLoginOtpEmail(r) \/ Codes!VerifySave(r) \/ Codes!Enter(r)
         \/ \E o \in Codes!Otps : Codes!ResendOtp(r, o)
         \/ \E o \in Codes!Otps, right \in BOOLEAN, trust \in Codes!Trusts :
              Codes!VerifyRead(r, o, right, trust)
  PROVE  \A x \in Calls \ {r} : otpReq'[x] = otpReq[x]
<1>1. otpReq \in [Calls -> Codes!Request]
  BY DEF Codes!OtpTypeOK
<1>2. CASE Codes!Login(r) \/ Codes!CreateAndSendLoginOtp(r) \/ Codes!CreateOtp(r)
  BY <1>1, <1>2 DEF Codes!Login, Codes!CreateAndSendLoginOtp, Codes!CreateOtp,
                    Codes!Answer
<1>3. CASE Codes!SendLoginOtpEmail(r) \/ Codes!VerifySave(r) \/ Codes!Enter(r)
  BY <1>1, <1>3 DEF Codes!SendLoginOtpEmail, Codes!VerifySave, Codes!Enter, Codes!Answer
<1>4. ASSUME NEW o, Codes!ResendOtp(r, o)
      PROVE  \A x \in Calls \ {r} : otpReq'[x] = otpReq[x]
  BY <1>1, <1>4 DEF Codes!ResendOtp
<1>5. ASSUME NEW o, NEW right, NEW trust, Codes!VerifyRead(r, o, right, trust)
      PROVE  \A x \in Calls \ {r} : otpReq'[x] = otpReq[x]
  BY <1>1, <1>5 DEF Codes!VerifyRead
<1> QED
  BY <1>2, <1>3, <1>4, <1>5

(* Which steps write the rows (otp.service.ts).                            *)
LEMMA CodeWriters ==
  ASSUME Codes!Next
  PROVE  \/ UNCHANGED otpOtp
         \/ \E r \in Calls : Codes!CreateOtp(r) \/ Codes!VerifySave(r)
         \/ \E r \in Calls, p \in Codes!Otps, right \in BOOLEAN, trust \in Codes!Trusts :
              Codes!VerifyRead(r, p, right, trust)
<1>1. ASSUME NEW r \in Calls,
             Codes!Login(r) \/ Codes!CreateAndSendLoginOtp(r) \/ Codes!SendLoginOtpEmail(r) \/ Codes!Enter(r)
      PROVE  UNCHANGED otpOtp
  BY <1>1 DEF Codes!Login, Codes!CreateAndSendLoginOtp, Codes!SendLoginOtpEmail,
              Codes!Enter
<1>2. ASSUME NEW r \in Calls, NEW o, Codes!ResendOtp(r, o)
      PROVE  UNCHANGED otpOtp
  BY <1>2 DEF Codes!ResendOtp
<1>3. CASE Codes!Tick \/ Codes!SetStatus
  BY <1>3 DEF Codes!Tick, Codes!SetStatus
<1> QED
  BY <1>1, <1>2, <1>3 DEF Codes!Next

(* A verification that used its code stays one that did.                   *)
LEMMA EnteredStays ==
  ASSUME Codes!OtpTypeOK, CodesShape, Codes!Next, NEW x \in Calls, NEW o,
         Entered(otpReq[x], o)
  PROVE  Entered(otpReq'[x], o)
<1>1. otpReq \in [Calls -> Codes!Request] /\ otpReq[x] \in Codes!Request
  BY DEF Codes!OtpTypeOK
<1>2. /\ otpReq[x].pc \notin {"idle", "send", "create", "mail", "check"} \/ otpReq[x].pc = "check"
      /\ otpReq[x].call = "verify"
  BY DEF Entered, CodesShape, CodeShape
<1>k. CASE otpReq'[x] = otpReq[x]
  BY <1>k
<1>3. CASE Codes!Enter(x)
  <2>1. otpReq'[x] = [otpReq[x] EXCEPT !.pc = "done",
          !.reply = IF otpReq[x].active /\ otpReq[x].trust # "unnamed" THEN "ok" ELSE "refused"]
    BY <1>1, <1>3 DEF Codes!Enter, Codes!Answer
  <2> QED
    BY <1>1, <2>1 DEF Entered, Codes!Request
<1>4. CASE Codes!VerifySave(x)
  <2>1. otpReq'[x] = [otpReq[x] EXCEPT !.pc = "enter"]
    BY <1>1, <1>4 DEF Codes!VerifySave, Codes!Answer, Entered
  <2> QED
    BY <1>1, <2>1 DEF Entered, Codes!Request
<1>5. ASSUME NEW r \in Calls,
             \/ Codes!Login(r) \/ \E p \in Codes!Otps : Codes!ResendOtp(r, p)
             \/ \E p \in Codes!Otps, right \in BOOLEAN, trust \in Codes!Trusts : Codes!VerifyRead(r, p, right, trust)
             \/ Codes!CreateAndSendLoginOtp(r)
             \/ Codes!CreateOtp(r)
             \/ Codes!SendLoginOtpEmail(r)
      PROVE  otpReq'[x] = otpReq[x]
  <2>1. r # x
    BY <1>2, <1>5 DEF Codes!Login, Codes!ResendOtp, Codes!VerifyRead, Codes!Begin,
                      Codes!CreateAndSendLoginOtp, Codes!CreateOtp,
                      Codes!SendLoginOtpEmail
  <2> QED
    BY <1>1, <1>5, <2>1 DEF Codes!Login, Codes!ResendOtp, Codes!VerifyRead,
                            Codes!Answer, Codes!CreateAndSendLoginOtp, Codes!CreateOtp,
                            Codes!SendLoginOtpEmail
<1>6. ASSUME NEW r \in Calls \ {x}, Codes!VerifySave(r) \/ Codes!Enter(r)
      PROVE  otpReq'[x] = otpReq[x]
  BY <1>1, <1>6 DEF Codes!VerifySave, Codes!Enter, Codes!Answer
<1>7. CASE Codes!Tick \/ Codes!SetStatus
  BY <1>k, <1>7 DEF Codes!Tick, Codes!SetStatus
<1> QED
  BY <1>k, <1>3, <1>4, <1>5, <1>6, <1>7 DEF Codes!Next

(* A code is used only by a verification that went on to sign in           *)
(* (otp.service.ts:231-243, auth.service.ts).                              *)
LEMMA UsedIsEntered ==
  Codes!UsedMeansSignedIn <=>
    \A o \in Codes!Otps : otpOtp[o].used => \E r \in Calls : Entered(otpReq[r], o)
BY DEF Codes!UsedMeansSignedIn, Codes!Verifications, Entered

(* A code stays unused until a verification that goes on to sign in has
   saved it (otp.service.ts).                                              *)
LEMMA UsedKept ==
  ASSUME Codes!OtpTypeOK, CodesShape, Codes!UsedMeansSignedIn, Codes!Next
  PROVE  Codes!UsedMeansSignedIn'
<1>1. SUFFICES ASSUME NEW o \in Codes!Otps', otpOtp'[o].used
               PROVE  \E r \in Calls : Entered(otpReq'[r], o)
  BY DEF Codes!UsedMeansSignedIn, Codes!Verifications, Entered
<1>2. CASE o \in Codes!Otps /\ otpOtp[o].used
  <2>1. PICK r \in Calls : Entered(otpReq[r], o)
    BY <1>2, UsedIsEntered
  <2> QED
    BY <2>1, EnteredStays
<1>3. ASSUME NEW r \in Calls, Codes!VerifySave(r), o = otpReq[r].otp
      PROVE  \E x \in Calls : Entered(otpReq'[x], o)
  <2>1. /\ otpReq \in [Calls -> Codes!Request] /\ otpReq[r] \in Codes!Request
        /\ otpReq[r].call = "verify" /\ otpReq[r].reply = "none" /\ o \in Codes!Otps
    BY <1>3 DEF Codes!OtpTypeOK, Codes!VerifySave, CodesShape, CodeShape
  <2>2. otpOtp'[o].used = otpReq[r].right
    <3>1. otpOtp' = [otpOtp EXCEPT ![o].attempts = otpReq[r].attempts + 1, ![o].used = otpReq[r].right]
      BY <1>3 DEF Codes!VerifySave
    <3>2. otpOtp[o] \in Codes!Otp /\ o \in DOMAIN otpOtp
      BY <2>1, CodeRows DEF Codes!Otps
    <3> QED
      BY <3>1, <3>2 DEF Codes!Otp
  <2>3. otpReq'[r] = [otpReq[r] EXCEPT !.pc = "enter"]
    BY <1>1, <1>3, <2>1, <2>2 DEF Codes!VerifySave
  <2>4. Entered(otpReq'[r], o)
    BY <1>1, <1>3, <2>1, <2>2, <2>3 DEF Entered, Codes!Request
  <2> QED
    BY <2>4
<1>4. ASSUME NEW r \in Calls, Codes!VerifySave(r), o # otpReq[r].otp
      PROVE  o \in Codes!Otps /\ otpOtp[o].used
  <2>1. otpOtp' = [otpOtp EXCEPT ![otpReq[r].otp].attempts = otpReq[r].attempts + 1,
                                 ![otpReq[r].otp].used = otpReq[r].right]
    BY <1>4 DEF Codes!VerifySave
  <2>2. DOMAIN otpOtp' = DOMAIN otpOtp
    BY <2>1
  <2> QED
    BY <1>1, <1>4, <2>1, <2>2 DEF Codes!Otps
<1>5. ASSUME NEW r \in Calls, Codes!CreateOtp(r)
      PROVE  o \in Codes!Otps /\ otpOtp[o].used
  <2> DEFINE row == [sentAt |-> otpNow, attempts |-> 0, used |-> FALSE, tries |-> 0]
  <2>1. otpOtp' = Append(otpOtp, row) /\ ~row.used /\ otpOtp \in Seq(Codes!Otp)
    BY <1>5 DEF Codes!CreateOtp, Codes!OtpTypeOK
  <2> HIDE DEF row
  <2>2. o \in 1 .. Len(otpOtp) \/ otpOtp'[o] = row
    BY <1>1, <2>1 DEF Codes!Otps
  <2> QED
    BY <1>1, <2>1, <2>2 DEF Codes!Otps
<1>6. ASSUME NEW r \in Calls, NEW p \in Codes!Otps, NEW right, NEW trust,
             Codes!VerifyRead(r, p, right, trust)
      PROVE  o \in Codes!Otps /\ otpOtp[o].used
  <2>1. otpOtp' = [otpOtp EXCEPT ![p].tries = @ + 1]
    BY <1>6 DEF Codes!VerifyRead
  <2>2. DOMAIN otpOtp' = DOMAIN otpOtp /\ otpOtp[p] \in Codes!Otp
    BY <2>1, CodeRows
  <2>3. otpOtp'[o].used = otpOtp[o].used
    <3>1. otpOtp'[o] = IF o = p THEN [otpOtp[p] EXCEPT !.tries = @ + 1] ELSE otpOtp[o]
      BY <1>1, <2>1, <2>2 DEF Codes!Otps
    <3>2. [otpOtp[p] EXCEPT !.tries = @ + 1].used = otpOtp[p].used
      BY <2>2 DEF Codes!Otp
    <3> QED
      BY <3>1, <3>2
  <2> QED
    BY <1>1, <2>2, <2>3 DEF Codes!Otps
<1>7. CASE UNCHANGED otpOtp
  BY <1>1, <1>2, <1>7 DEF Codes!Otps
<1> QED
  BY <1>2, <1>3, <1>4, <1>5, <1>6, <1>7, CodeWriters

(* Which rows a step writes, and what of them a verification depends on.   *)
LEMMA CodeRowsKept ==
  ASSUME Codes!OtpTypeOK, CodesShape, Codes!Next,
         \A r \in Calls : ~Codes!VerifySave(r), NEW o \in Codes!Otps
  PROVE  /\ o \in Codes!Otps'
         /\ otpOtp'[o].attempts = otpOtp[o].attempts
         /\ otpOtp'[o].used = otpOtp[o].used
<1>1. ASSUME NEW r \in Calls, Codes!CreateOtp(r)
      PROVE  o \in Codes!Otps' /\ otpOtp'[o] = otpOtp[o]
  BY <1>1, CodeRows DEF Codes!CreateOtp, Codes!OtpTypeOK, Codes!Otps
<1>2. ASSUME NEW r \in Calls, NEW p \in Codes!Otps, NEW right, NEW trust,
             Codes!VerifyRead(r, p, right, trust)
      PROVE  /\ o \in Codes!Otps'
             /\ otpOtp'[o].attempts = otpOtp[o].attempts
             /\ otpOtp'[o].used = otpOtp[o].used
  <2>1. otpOtp' = [otpOtp EXCEPT ![p].tries = @ + 1]
    BY <1>2 DEF Codes!VerifyRead
  <2>2. DOMAIN otpOtp' = DOMAIN otpOtp /\ otpOtp[p] \in Codes!Otp
    BY <2>1, CodeRows
  <2>3. otpOtp'[o] = IF o = p THEN [otpOtp[p] EXCEPT !.tries = @ + 1] ELSE otpOtp[o]
    BY <2>1, <2>2 DEF Codes!Otps
  <2>4. LET row == [otpOtp[p] EXCEPT !.tries = @ + 1]
        IN  row.used = otpOtp[p].used /\ row.attempts = otpOtp[p].attempts
    BY <2>2 DEF Codes!Otp
  <2> QED
    BY <2>2, <2>3, <2>4 DEF Codes!Otps
<1>3. CASE UNCHANGED otpOtp
  BY <1>3 DEF Codes!Otps
<1> QED
  BY <1>1, <1>2, <1>3, CodeWriters

(* Steps other than the save of a verification compare no code.            *)
LEMMA ComparedKept ==
  ASSUME Codes!OtpTypeOK, CodesShape, Codes!Next,
         \A r \in Calls : ~Codes!VerifySave(r), NEW x \in Calls
  PROVE  /\ \A o : Compares(otpReq'[x], o) <=> Compares(otpReq[x], o)
         /\ \A o : Compares(otpReq[x], o) => otpReq'[x].right = otpReq[x].right
         /\ otpReq'[x].pc = "check" =>
              \/ otpReq'[x] = otpReq[x]
              \/ \E o \in Codes!Otps : /\ otpReq'[x].otp = o /\ Codes!Valid(o)
                                       /\ otpReq'[x].attempts = otpOtp[o].attempts
<1>1. otpReq \in [Calls -> Codes!Request] /\ otpReq[x] \in Codes!Request
  BY DEF Codes!OtpTypeOK
<1>2. ASSUME NEW r \in Calls,
             \/ Codes!Login(r) \/ \E p \in Codes!Otps : Codes!ResendOtp(r, p)
             \/ Codes!CreateAndSendLoginOtp(r)
             \/ Codes!CreateOtp(r)
             \/ Codes!SendLoginOtpEmail(r)
      PROVE  \/ otpReq'[x] = otpReq[x]
             \/ otpReq[x].call # "verify" /\ otpReq'[x].call # "verify" /\ otpReq'[x].pc # "check"
  <2>1. CASE r # x
    BY <1>2, <2>1, OtherCodeRequests
  <2>2. CASE r = x
    <3>1. otpReq[x].call # "verify"
      BY <1>2, <2>2 DEF Codes!Login, Codes!ResendOtp, Codes!Begin, CodesShape,
                        CodeShape, Codes!CreateAndSendLoginOtp, Codes!CreateOtp,
                        Codes!SendLoginOtpEmail
    <3>2. CASE Codes!Login(x)
      <4> DEFINE begun == [Codes!Fresh EXCEPT !.call = "login",
                             !.pc = IF otpActive THEN "send" ELSE "done",
                             !.reply = IF otpActive THEN "none" ELSE "refused"]
                 refused == [Codes!Fresh EXCEPT !.call = "login", !.pc = "done",
                               !.reply = "refused"]
      <4>1. \/ otpReq' = [otpReq EXCEPT ![x] = begun]
            \/ otpReq' = [otpReq EXCEPT ![x] = refused]
        BY <3>2 DEF Codes!Login
      <4>2. \A q \in {begun, refused} : q.call = "login" /\ q.pc # "check"
        BY DEF Codes!Fresh
      <4> HIDE DEF begun, refused
      <4> QED
        BY <1>1, <3>1, <4>1, <4>2
    <3>3. ASSUME NEW p, Codes!ResendOtp(x, p)
          PROVE  otpReq'[x].call # "verify" /\ otpReq'[x].pc # "check"
      BY <1>1, <3>3 DEF Codes!ResendOtp, Codes!Fresh
    <3>4. CASE Codes!CreateAndSendLoginOtp(x) \/ Codes!CreateOtp(x) \/ Codes!SendLoginOtpEmail(x)
      BY <1>1, <3>1, <3>4 DEF Codes!Answer, Codes!CreateAndSendLoginOtp,
                              Codes!CreateOtp, Codes!SendLoginOtpEmail, Codes!Request
    <3> QED
      BY <1>2, <2>2, <3>1, <3>2, <3>3, <3>4
  <2> QED
    BY <2>1, <2>2
<1>3. ASSUME NEW r \in Calls, NEW p \in Codes!Otps, NEW right, NEW trust,
             Codes!VerifyRead(r, p, right, trust)
      PROVE  \/ otpReq'[x] = otpReq[x]
             \/ /\ otpReq[x].call # "verify"
                /\ otpReq'[x].pc = "check" \/ otpReq'[x].reply = "invalid"
                /\ otpReq'[x].pc = "check" =>
                     otpReq'[x].otp = p /\ Codes!Valid(p) /\ otpReq'[x].attempts = otpOtp[p].attempts
  <2>1. CASE r # x
    BY <1>1, <1>3, <2>1 DEF Codes!VerifyRead
  <2>2. CASE r = x
    <3>1. otpReq[x].call # "verify"
      BY <1>3, <2>2 DEF Codes!VerifyRead, Codes!Begin, CodesShape, CodeShape
    <3> DEFINE accepted == otpOtp[p].tries < VerifyLimit /\ Codes!Valid(p)
    <3>2. otpReq'[x] = [Codes!Fresh EXCEPT !.call = "verify", !.otp = p, !.right = right, !.trust = trust,
                     !.attempts = otpOtp[p].attempts, !.active = otpActive,
                     !.pc = IF accepted THEN "check" ELSE "done",
                     !.reply = IF accepted THEN "none" ELSE "invalid"]
      BY <1>1, <1>3, <2>2 DEF Codes!VerifyRead
    <3>3. accepted => Codes!Valid(p)
      OBVIOUS
    <3> HIDE DEF accepted
    <3>4. /\ otpReq'[x].otp = p /\ otpReq'[x].attempts = otpOtp[p].attempts
          /\ otpReq'[x].pc = IF accepted THEN "check" ELSE "done"
          /\ otpReq'[x].reply = IF accepted THEN "none" ELSE "invalid"
      BY <3>2 DEF Codes!Fresh
    <3> QED
      BY <3>1, <3>3, <3>4
  <2> QED
    BY <2>1, <2>2
<1>4. ASSUME NEW r \in Calls, Codes!Enter(r)
      PROVE  \/ otpReq'[x] = otpReq[x]
             \/ /\ otpReq[x].pc = "enter" /\ otpReq'[x].pc = "done"
                /\ otpReq[x].reply = "none" /\ otpReq'[x].reply \in {"ok", "refused"}
                /\ otpReq'[x].call = otpReq[x].call /\ otpReq'[x].otp = otpReq[x].otp
                /\ otpReq'[x].right = otpReq[x].right
  <2>1. CASE r # x
    BY <1>1, <1>4, <2>1 DEF Codes!Enter, Codes!Answer
  <2>2. CASE r = x
    BY <1>1, <1>4, <2>2 DEF Codes!Enter, Codes!Answer, Codes!Request, CodesShape,
                            CodeShape
  <2> QED
    BY <2>1, <2>2
<1> DEFINE Mail == otpReq[x].call # "verify" /\ otpReq'[x].call # "verify" /\ otpReq'[x].pc # "check"
           Read(p) == /\ otpReq[x].call # "verify"
                      /\ otpReq'[x].pc = "check" \/ otpReq'[x].reply = "invalid"
                      /\ otpReq'[x].pc = "check" =>
                           otpReq'[x].otp = p /\ Codes!Valid(p) /\ otpReq'[x].attempts = otpOtp[p].attempts
           Left == /\ otpReq[x].pc = "enter" /\ otpReq'[x].pc = "done"
                   /\ otpReq[x].reply = "none" /\ otpReq'[x].reply \in {"ok", "refused"}
                   /\ otpReq'[x].call = otpReq[x].call /\ otpReq'[x].otp = otpReq[x].otp
                   /\ otpReq'[x].right = otpReq[x].right
<1>a. ASSUME NEW r \in Calls,
             \/ Codes!Login(r) \/ \E p \in Codes!Otps : Codes!ResendOtp(r, p)
             \/ Codes!CreateAndSendLoginOtp(r)
             \/ Codes!CreateOtp(r)
             \/ Codes!SendLoginOtpEmail(r)
      PROVE  otpReq'[x] = otpReq[x] \/ Mail
  BY <1>2, <1>a
<1>b. ASSUME NEW r \in Calls, NEW p \in Codes!Otps, NEW right, NEW trust,
             Codes!VerifyRead(r, p, right, trust)
      PROVE  otpReq'[x] = otpReq[x] \/ Read(p)
  BY <1>3, <1>b
<1>c. ASSUME NEW r \in Calls, Codes!Enter(r)
      PROVE  otpReq'[x] = otpReq[x] \/ Left
  BY <1>4, <1>c
<1>d. ASSUME Codes!Tick \/ Codes!SetStatus
      PROVE  otpReq'[x] = otpReq[x]
  BY <1>d DEF Codes!Tick, Codes!SetStatus
<1> HIDE DEF Mail, Read, Left
<1>6. otpReq'[x] = otpReq[x] \/ Mail \/ Left \/ \E p \in Codes!Otps : Read(p)
  <2> DEFINE Done == otpReq'[x] = otpReq[x] \/ Mail \/ Left \/ \E p \in Codes!Otps : Read(p)
  <2>1. ASSUME NEW r \in Calls,
               \/ Codes!Login(r) \/ \E p \in Codes!Otps : Codes!ResendOtp(r, p)
               \/ Codes!CreateAndSendLoginOtp(r)
               \/ Codes!CreateOtp(r)
               \/ Codes!SendLoginOtpEmail(r)
        PROVE  Done
    BY <1>a, <2>1
  <2>2. ASSUME NEW r \in Calls, NEW p \in Codes!Otps, NEW right, NEW trust,
               Codes!VerifyRead(r, p, right, trust)
        PROVE  Done
    BY <1>b, <2>2
  <2>3. ASSUME NEW r \in Calls, Codes!Enter(r)
        PROVE  Done
    BY <1>c, <2>3
  <2>4. ASSUME Codes!Tick \/ Codes!SetStatus
        PROVE  Done
    BY <1>d, <2>4
  <2> HIDE DEF Done
  <2>5. Done
    BY <2>1, <2>2, <2>3, <2>4 DEF Codes!Next
  <2> QED
    BY <2>5 DEF Done
<1>7. CASE otpReq'[x] = otpReq[x]
  BY <1>7
<1>8. CASE Mail
  BY <1>8 DEF Compares, Mail
<1>9. CASE Left
  BY <1>9 DEF Compares, Left
<1>10. ASSUME NEW p \in Codes!Otps, Read(p)
       PROVE  /\ \A o : ~Compares(otpReq'[x], o) /\ ~Compares(otpReq[x], o)
              /\ otpReq'[x].pc = "check" =>
                   /\ otpReq'[x].otp = p /\ Codes!Valid(p)
                   /\ otpReq'[x].attempts = otpOtp[p].attempts
  BY <1>10 DEF Compares, Read
<1> QED
  BY <1>6, <1>7, <1>8, <1>9, <1>10

(* With nothing in between, the save of a verification writes over what it *)
(* read, and answers for one more comparison (otp.service.ts:231-243).     *)
LEMMA SavedAlone ==
  ASSUME Codes!OtpTypeOK, CodesShape, CodesAlone, OneAtATime(Codes!Serving),
         part = "codes alone", part' = part, NEW r \in Calls, Codes!VerifySave(r),
         NEW q, q = otpReq[r], NEW p, p = q.otp
  PROVE  CodesAlone'
<1>1. /\ otpReq \in [Calls -> Codes!Request] /\ q \in Codes!Request
      /\ q.pc = "check" /\ q.call = "verify" /\ q.reply = "none" /\ p \in Codes!Otps
      /\ q.right \in BOOLEAN
  BY CodeRequests DEF Codes!OtpTypeOK, Codes!VerifySave, CodesShape, CodeShape
<1>2. \A x \in Calls \ {r} : otpReq'[x] = otpReq[x] /\ otpReq[x].pc # "check"
  <2>1. \A x \in Calls \ {r} : otpReq'[x] = otpReq[x]
    BY <1>1 DEF Codes!VerifySave, Codes!Answer
  <2>2. \A x \in Calls \ {r} : otpReq[x].pc # "check"
    BY <1>1 DEF OneAtATime, Codes!Serving, Alone
  <2> QED
    BY <2>1, <2>2
<1>3. /\ otpReq'[r].call = "verify" /\ otpReq'[r].otp = p /\ otpReq'[r].right = q.right
      /\ otpReq'[r].pc \in {"enter", "done"} /\ otpReq'[r].reply \in {"none", "refused"}
  <2>1. \/ otpReq'[r] = [q EXCEPT !.pc = "enter"]
        \/ otpReq'[r] = [q EXCEPT !.pc = "done", !.reply = "refused"]
    BY <1>1 DEF Codes!VerifySave, Codes!Answer
  <2> QED
    BY <1>1, <2>1 DEF Codes!Request
<1>4. /\ q.attempts = otpOtp[p].attempts /\ ~otpOtp[p].used
      /\ q.attempts \in Nat
  BY <1>1, CodeRequests DEF CodesAlone
<1>5. /\ Codes!Otps' = Codes!Otps
      /\ otpOtp'[p].attempts = q.attempts + 1 /\ otpOtp'[p].used = q.right
      /\ \A o \in Codes!Otps \ {p} : otpOtp'[o] = otpOtp[o]
  <2>1. otpOtp' = [otpOtp EXCEPT ![p].attempts = q.attempts + 1, ![p].used = q.right]
    BY DEF Codes!VerifySave
  <2>2. otpOtp[p] \in Codes!Otp
    BY <1>1, CodeRows
  <2> QED
    BY <1>1, <2>1, <2>2 DEF Codes!Otps, Codes!Otp
<1>6. /\ Compared(p)' = Compared(p) \cup {r} /\ r \notin Compared(p)
      /\ \A o \in Codes!Otps \ {p} : Compared(o)' = Compared(o)
      /\ \A o \in Codes!Otps : \A x \in Compared(o) : x # r /\ otpReq'[x].right = otpReq[x].right
  <2>1. \A o : Compares(otpReq'[r], o) <=> o = p
    BY <1>3 DEF Compares
  <2>2. \A o : ~Compares(otpReq[r], o)
    BY <1>1 DEF Compares
  <2> QED
    BY <1>1, <1>2, <2>1, <2>2 DEF Compared
<1>7. ASSUME NEW o \in Codes!Otps \ {p}
      PROVE  Wrong(o)' = Wrong(o)
  BY <1>6, <1>7 DEF Wrong
<1>8. Cardinality(Wrong(p)') <= otpOtp'[p].attempts
  <2>1. IsFiniteSet(Wrong(p)) /\ Cardinality(Wrong(p)) \in Nat
    BY SignInAssumption, FS_Subset, FS_CardinalityType DEF Wrong, Compared
  <2>2. Cardinality(Wrong(p)) <= otpOtp[p].attempts
    BY <1>1 DEF CodesAlone
  <2>3. Wrong(p)' = Wrong(p) \/ Wrong(p)' = Wrong(p) \cup {r}
    BY <1>1, <1>3, <1>6 DEF Wrong
  <2>4. otpOtp'[p].attempts = otpOtp[p].attempts + 1 /\ otpOtp[p].attempts \in Nat
    BY <1>4, <1>5
  <2>5. Cardinality(Wrong(p)') <= otpOtp[p].attempts + 1
    BY <2>1, <2>2, <2>3, <2>4, OneMore
  <2> QED
    BY <2>4, <2>5
<1>9. \A x \in Calls : otpReq'[x].pc # "check"
  BY <1>2, <1>3
<1>10. ASSUME NEW o \in Codes!Otps
       PROVE  /\ \A x \in Compared(o)' : otpReq'[x].right => otpOtp'[o].used
              /\ \A x, y \in Compared(o)' : otpReq'[x].right /\ otpReq'[y].right => x = y
              /\ Cardinality(Wrong(o)') <= otpOtp'[o].attempts
  <2>1. CASE o # p
    <3>1. /\ otpOtp'[o] = otpOtp[o] /\ Compared(o)' = Compared(o) /\ Wrong(o)' = Wrong(o)
          /\ \A x \in Compared(o) : otpReq'[x].right = otpReq[x].right
      BY <1>5, <1>6, <1>7, <2>1
    <3>2. /\ \A x \in Compared(o) : otpReq[x].right => otpOtp[o].used
          /\ \A x, y \in Compared(o) : otpReq[x].right /\ otpReq[y].right => x = y
          /\ Cardinality(Wrong(o)) <= otpOtp[o].attempts
      BY DEF CodesAlone
    <3> QED
      BY <3>1, <3>2
  <2>2. CASE o = p
    <3>1. \A x \in Compared(p) : ~otpReq[x].right
      BY <1>1, <1>4 DEF CodesAlone
    <3>2. \A x \in Compared(p)' : otpReq'[x].right => x = r
      BY <1>1, <1>6, <3>1
    <3> QED
      BY <1>3, <1>5, <1>8, <2>2, <3>2
  <2> QED
    BY <2>1, <2>2
<1> QED
  BY <1>5, <1>9, <1>10 DEF CodesAlone

(* With nothing in between, a code signs in once and guesses are counted
   (otp.service.ts).                                                       *)
LEMMA CodesAloneKept ==
  ASSUME Codes!OtpTypeOK, CodesShape, CodesAlone, OneAtATime(Codes!Serving),
         part' = part, Codes!Next
  PROVE  CodesAlone'
<1>1. CASE part # "codes alone"
  BY <1>1 DEF CodesAlone
<1>2. ASSUME part = "codes alone", NEW r \in Calls, Codes!VerifySave(r)
      PROVE  CodesAlone'
  BY <1>2, SavedAlone
<1>3. CASE part = "codes alone" /\ \A r \in Calls : ~Codes!VerifySave(r)
  <2>1. ASSUME NEW x \in Calls, otpReq'[x].pc = "check"
        PROVE  /\ otpReq'[x].attempts = otpOtp'[otpReq'[x].otp].attempts
               /\ ~otpOtp'[otpReq'[x].otp].used
    <3>1. CASE otpReq'[x] = otpReq[x]
      <4>1. otpReq[x].otp \in Codes!Otps
        BY <2>1, <3>1 DEF CodesShape, CodeShape
      <4>2. /\ otpReq[x].attempts = otpOtp[otpReq[x].otp].attempts
            /\ ~otpOtp[otpReq[x].otp].used
        BY <1>3, <2>1, <3>1 DEF CodesAlone
      <4>3. /\ otpOtp'[otpReq[x].otp].attempts = otpOtp[otpReq[x].otp].attempts
            /\ otpOtp'[otpReq[x].otp].used = otpOtp[otpReq[x].otp].used
        BY <1>3, <4>1, CodeRowsKept
      <4> QED
        BY <3>1, <4>2, <4>3
    <3>2. CASE \E o \in Codes!Otps : /\ otpReq'[x].otp = o /\ Codes!Valid(o)
                                     /\ otpReq'[x].attempts = otpOtp[o].attempts
      BY <1>3, <3>2, CodeRowsKept DEF Codes!Valid
    <3> QED
      BY <1>3, <2>1, <3>1, <3>2, ComparedKept
  <2>2. ASSUME NEW o
        PROVE  /\ Compared(o)' = Compared(o) /\ Wrong(o)' = Wrong(o)
               /\ \A x \in Compared(o) : otpReq'[x].right = otpReq[x].right
    BY <1>3, ComparedKept DEF Compared, Wrong
  <2>3. ASSUME NEW o \in Codes!Otps' \ Codes!Otps
        PROVE  Compared(o) = {} /\ Cardinality(Wrong(o)) = 0 /\ otpOtp'[o].attempts >= 0
    <3>1. Compared(o) = {}
      BY <2>3 DEF Compared, Compares, CodesShape, CodeShape
    <3>2. Wrong(o) = {}
      BY <3>1 DEF Wrong
    <3>3. otpOtp'[o].attempts \in Nat
      <4>1. otpOtp' \in Seq(Codes!Otp) /\ o \in DOMAIN otpOtp'
        BY CodeRowsTyped DEF Codes!Otps
      <4>2. otpOtp'[o] \in Codes!Otp
        BY <4>1
      <4> QED
        BY <4>2 DEF Codes!Otp
    <3> QED
      BY <3>1, <3>2, <3>3, FS_EmptySet
  <2>4. ASSUME NEW o \in Codes!Otps'
        PROVE  /\ \A x \in Compared(o)' : otpReq'[x].right => otpOtp'[o].used
               /\ \A x, y \in Compared(o)' : otpReq'[x].right /\ otpReq'[y].right => x = y
               /\ Cardinality(Wrong(o)') <= otpOtp'[o].attempts
    <3>1. CASE o \in Codes!Otps
      <4>1. otpOtp'[o].attempts = otpOtp[o].attempts /\ otpOtp'[o].used = otpOtp[o].used
        BY <1>3, <3>1, CodeRowsKept
      <4>2. /\ \A x \in Compared(o) : otpReq[x].right => otpOtp[o].used
            /\ \A x, y \in Compared(o) : otpReq[x].right /\ otpReq[y].right => x = y
            /\ Cardinality(Wrong(o)) <= otpOtp[o].attempts
        BY <1>3, <3>1 DEF CodesAlone
      <4> QED
        BY <2>2, <4>1, <4>2
    <3>2. CASE o \notin Codes!Otps
      BY <2>2, <2>3, <2>4, <3>2
    <3> QED
      BY <3>1, <3>2
  <2> QED
    BY <2>1, <2>4 DEF CodesAlone
<1> QED
  BY <1>1, <1>2, <1>3

(* What the properties say of the codes follows.                           *)
LEMMA CodesProperties ==
  ASSUME part \in CodeParts, CodesInv
  PROVE  /\ Codes!SendsWithinLimit
         /\ part = "codes alone" => Codes!SingleUse /\ Codes!WrongWithinAttempts
<1>1. /\ Codes!OtpTypeOK
      /\ CodesShape
      /\ CodesCounted
      /\ CodesAlone
      /\ OneAtATime(Codes!Serving)
  BY DEF CodesInv
<1>2. ASSUME NEW t \in 0 .. otpNow
      PROVE  Codes!Cardinality({r \in Calls :
                /\ otpReq[r].call \in {"login", "resend"} /\ otpReq[r].otp # 0
                /\ otpReq[r].limited \in t .. t + Window - 1}) <= Limit
  <2> DEFINE S == {r \in Calls : /\ otpReq[r].call \in {"login", "resend"} /\ otpReq[r].otp # 0
                                 /\ otpReq[r].limited \in t .. t + Window - 1}
  <2>1. S \subseteq PassedIn(t) /\ PassedIn(t) \subseteq Calls
    BY DEF PassedIn, Passed
  <2>2. t \in Nat /\ Cardinality(PassedIn(t)) <= Limit
    BY <1>1, <1>2 DEF CodesCounted
  <2>3. IsFiniteSet(PassedIn(t)) /\ IsFiniteSet(S) /\ Cardinality(S) <= Cardinality(PassedIn(t))
        /\ Cardinality(S) \in Nat /\ Cardinality(PassedIn(t)) \in Nat
    BY <2>1, SignInAssumption, FS_Subset, FS_CardinalityType
  <2> HIDE DEF S
  <2>4. Cardinality(S) <= Limit
    BY <2>2, <2>3, CodeNumbers
  <2> QED
    BY <2>4, CodeCardinality DEF S
<1>3. Codes!SendsWithinLimit
  BY <1>2 DEF Codes!SendsWithinLimit
<1>4. ASSUME part = "codes alone", NEW o \in Codes!Otps
      PROVE  /\ Codes!Cardinality({r \in Codes!Verifications(o) : otpReq[r].right /\ otpReq[r].reply = "ok"}) <= 1
             /\ Codes!Cardinality({r \in Codes!Verifications(o) : ~otpReq[r].right}) <= MaxAttempts
  <2> DEFINE S == {r \in Codes!Verifications(o) : otpReq[r].right /\ otpReq[r].reply = "ok"}
             W == {r \in Codes!Verifications(o) : ~otpReq[r].right}
  <2>1. S \subseteq {r \in Compared(o) : otpReq[r].right}
    BY <1>1 DEF Codes!Verifications, Compared, Compares, CodesShape, CodeShape
  <2>2. \A x, y \in S : x = y
    BY <1>1, <1>4, <2>1 DEF CodesAlone
  <2>3. Cardinality(S) <= 1
    <3> HIDE DEF S
    <3>1. S = {} \/ \E x : S = {x}
      BY <2>2
    <3>2. Cardinality({}) = 0
      BY FS_EmptySet
    <3>3. ASSUME NEW x, S = {x}
          PROVE  Cardinality(S) <= 1
      BY <3>3, FS_Singleton
    <3> QED
      BY <3>1, <3>2, <3>3
  <2>4. \/ W = Wrong(o)
        \/ \E r \in Calls : W = Wrong(o) \cup {r} /\ r \notin Wrong(o) /\ otpOtp[o].attempts < MaxAttempts
    <3>1. CASE \A r \in W : otpReq[r].pc # "check"
      BY <3>1 DEF Wrong, Compared, Compares, Codes!Verifications
    <3>2. ASSUME NEW r \in W, otpReq[r].pc = "check"
          PROVE  /\ W = Wrong(o) \cup {r}
                 /\ r \notin Wrong(o)
                 /\ otpOtp[o].attempts < MaxAttempts
      <4>1. r \in Calls /\ otpReq[r].otp = o
        BY DEF Codes!Verifications
      <4>2. \A x \in Calls : otpReq[x].pc = "check" => x = r
        BY <1>1, <1>4, <3>2, <4>1 DEF OneAtATime, Codes!Serving, Alone
      <4>3. W = Wrong(o) \cup {r} /\ r \notin Wrong(o)
        BY <3>2, <4>2 DEF Wrong, Compared, Compares, Codes!Verifications
      <4>4. otpReq[r].attempts < MaxAttempts /\ otpReq[r].attempts = otpOtp[o].attempts
        BY <1>1, <1>4, <3>2, <4>1 DEF CodesShape, CodeShape, CodesAlone
      <4> QED
        BY <4>3, <4>4
    <3>3. \A r \in W : r \in Calls
      BY DEF Codes!Verifications
    <3> QED
      BY <3>1, <3>2, <3>3
  <2>5. Cardinality(W) <= MaxAttempts
    <3>1. IsFiniteSet(Wrong(o)) /\ Cardinality(Wrong(o)) \in Nat
      BY SignInAssumption, FS_Subset, FS_CardinalityType DEF Wrong, Compared
    <3>2. Cardinality(Wrong(o)) <= otpOtp[o].attempts /\ otpOtp[o].attempts <= MaxAttempts
          /\ otpOtp[o].attempts \in Nat
      BY <1>1, <1>4, CodeRows DEF CodesAlone, Codes!OtpTypeOK
    <3> HIDE DEF W
    <3>3. \/ Cardinality(W) = Cardinality(Wrong(o))
          \/ /\ otpOtp[o].attempts < MaxAttempts
             /\ Cardinality(W) \in Nat /\ Cardinality(W) <= Cardinality(Wrong(o)) + 1
      BY <2>4, <3>1, OneMore
    <3> QED
      BY <3>1, <3>2, <3>3, CodeNumbers
  <2> HIDE DEF S, W
  <2>6. Codes!Cardinality(S) <= 1 /\ Codes!Cardinality(W) <= MaxAttempts
    BY <2>3, <2>5, CodeCardinality
  <2> QED
    BY <2>6 DEF S, W
<1> QED
  BY <1>3, <1>4 DEF Codes!SingleUse, Codes!WrongWithinAttempts

(* No code has been asked for when the part begins.                        *)
LEMMA CodesBegin ==
  ASSUME Init
  PROVE  CodesInv
<1> SUFFICES ASSUME part \in CodeParts
             PROVE  /\ Codes!OtpTypeOK /\ OneAtATime(Codes!Serving) /\ CodesShape
                    /\ CodesCounted /\ CodesAlone /\ Codes!UsedMeansSignedIn
  BY DEF CodesInv
<1>1. /\ otpNow = 0 /\ otpOtp = << >> /\ otpActive = TRUE
      /\ otpBucket = [k \in Codes!Buckets |-> {}]
      /\ otpReq = [r \in Calls |-> Codes!Fresh]
  BY DEF Init, Codes!Init
<1>2. /\ Codes!Fresh \in Codes!Request
      /\ \A r \in Calls : /\ otpReq[r] = Codes!Fresh
                          /\ otpReq[r].pc = "idle"
                          /\ otpReq[r].call = "none"
                          /\ otpReq[r].otp = 0
  BY <1>1 DEF Codes!Fresh, Codes!Request, Codes!Points, Codes!Kinds, Codes!Trusts
<1>3. Codes!Otps = {}
  BY <1>1 DEF Codes!Otps
<1>4. Codes!OtpTypeOK
  <2>1. otpOtp \in Seq(Codes!Otp)
    BY <1>1
  <2>2. otpReq \in [Calls -> Codes!Request]
    BY <1>1, <1>2
  <2> QED
    BY <1>1, <1>3, <2>1, <2>2, CodeNumbers DEF Codes!OtpTypeOK
<1>5. Codes!Serving = {}
  BY <1>2 DEF Codes!Serving
<1>6. CodesShape
  BY <1>2 DEF CodesShape, CodeShape
<1>7. CodesCounted
  <2>1. Passed = {}
    BY <1>2 DEF Passed
  <2>2. \A t : PassedIn(t) = {}
    BY <2>1 DEF PassedIn
  <2>3. IsFiniteSet({}) /\ Cardinality({}) = 0
    BY FS_EmptySet
  <2>4. \A k \in Codes!Buckets : otpBucket[k] = {}
    BY <1>1
  <2> QED
    BY <2>1, <2>2, <2>3, <2>4, CodeNumbers DEF CodesCounted
<1>8. CodesAlone
  BY <1>2, <1>3 DEF CodesAlone
<1>9. Codes!UsedMeansSignedIn
  BY <1>3 DEF Codes!UsedMeansSignedIn
<1> QED
  BY <1>4, <1>5, <1>6, <1>7, <1>8, <1>9 DEF OneAtATime

(* The steps of the codes keep what is known of them.                      *)
LEMMA CodesKept ==
  ASSUME CodesInv, [Next]_vars
  PROVE  CodesInv'
<1>0. part' = part
  BY DEF Next, vars
<1>1. CASE UNCHANGED codeVars
  <2>1. /\ otpNow' = otpNow /\ otpOtp' = otpOtp /\ otpBucket' = otpBucket
        /\ otpActive' = otpActive /\ otpReq' = otpReq
    BY <1>1 DEF codeVars
  <2>2. Codes!OtpTypeOK' = Codes!OtpTypeOK
    BY <2>1 DEF Codes!OtpTypeOK, Codes!Otps
  <2>3. OneAtATime(Codes!Serving)' = OneAtATime(Codes!Serving) /\ CodesShape' = CodesShape
    BY <1>0, <2>1 DEF OneAtATime, Codes!Serving, CodesShape, Codes!Otps
  <2>4. CodesCounted' = CodesCounted
    BY <2>1 DEF CodesCounted, Passed, PassedIn
  <2>5. CodesAlone' = CodesAlone
    BY <1>0, <2>1 DEF CodesAlone, Compared, Wrong, Codes!Otps
  <2>6. Codes!UsedMeansSignedIn' = Codes!UsedMeansSignedIn
    BY <2>1 DEF Codes!UsedMeansSignedIn, Codes!Verifications, Codes!Otps
  <2> QED
    BY <1>0, <2>2, <2>3, <2>4, <2>5, <2>6 DEF CodesInv
<1>2. CASE CodesStep
  <2>1. /\ part \in CodeParts /\ Codes!Next /\ Fits(Codes!Serving')
        /\ Codes!OtpTypeOK /\ OneAtATime(Codes!Serving) /\ CodesShape
        /\ CodesCounted /\ CodesAlone /\ Codes!UsedMeansSignedIn
    BY <1>2 DEF CodesStep, CodesInv
  <2>2. Codes!OtpTypeOK'
    BY <2>1, CodeRowsTyped, CodeRequestsTyped DEF Codes!OtpTypeOK
  <2>3. OneAtATime(Codes!Serving)'
    <3>1. Codes!Serving' \in SUBSET Calls
      BY DEF Codes!Serving
    <3>2. OneAtATime(Codes!Serving')
      BY <2>1, <3>1, FitsAlone
    <3> QED
      BY <1>0, <3>2 DEF OneAtATime
  <2>4. CodesShape'
    BY <2>1, CodeRequestsTyped
  <2>5. CodesCounted'
    BY <2>1, CodesCountedKept
  <2>6. CodesAlone'
    BY <1>0, <2>1, CodesAloneKept
  <2>7. Codes!UsedMeansSignedIn'
    BY <2>1, UsedKept
  <2> QED
    BY <2>2, <2>3, <2>4, <2>5, <2>6, <2>7 DEF CodesInv
<1> QED
  BY <1>1, <1>2 DEF Next, vars, SessionsStep, RegistrationsStep, AccountsStep, PagesStep

-----------------------------------------------------------------------------
(* Refresh tokens                                                          *)

\* One number is before another.
Earlier == {pair \in Nat \X Nat : pair[1] < pair[2]}

\* What a request presents, follows and has issued are tokens, and the one it
\* follows is revoked.
TokenShape(q, tokens) ==
  /\ q.pc = "idle" => q.call = "none" /\ q.new = 0
  /\ q.pc \in {"find", "insert"} => q.call \in {"refresh", "trusted", "otp"} /\ q.new = 0
  /\ q.pc = "touch" => q.call = "trusted" /\ q.device \in Devices /\ q.new = 0
  /\ q.pc = "revoke" => q.call \in {"refresh", "logout"} /\ q.new = 0
  /\ q.call \in {"refresh", "logout"} =>
       q.presented \in DOMAIN tokens /\ q.device = tokens[q.presented].device
  /\ q.pc \in {"insert", "link"} /\ q.from # 0 =>
       q.from \in DOMAIN tokens /\ tokens[q.from].revokedAt # 0
  /\ q.pc = "link" => q.from # 0 /\ q.new \in DOMAIN tokens
  /\ q.reply = "ok" => q.pc = "done"

SessionsShape == \A r \in Calls : TokenShape(sessionReq[r], sessionToken)

\* The live tokens of a device, and whether it may have one more.
LiveOn(d) == {t \in Tokens!Live : sessionToken[t].device = d}
Spare(d, live) == Cardinality(live) + 1 <= Cardinality(Tokens!SignIns(d))

\* The token was revoked after every other.
LastRevoked(t) ==
  /\ sessionToken[t].revokedAt # 0
  /\ \A u \in Tokens!Tokens \ {t} : sessionToken[u].revokedAt < sessionToken[t].revokedAt

\* With nothing in between, the token presented is the last one revoked, and the
\* token that takes its place follows it and is the last one issued.
ExchangeAlone(r) ==
  /\ sessionReq[r].pc = "find" /\ sessionReq[r].call = "refresh" =>
       LastRevoked(sessionReq[r].presented)
  /\ sessionReq[r].pc \in {"insert", "link"} =>
       IF sessionReq[r].device = None THEN sessionReq[r].from = 0
       ELSE sessionReq[r].call = "refresh" => sessionReq[r].from = sessionReq[r].presented
  /\ sessionReq[r].pc = "link" =>
       /\ sessionReq[r].new = Len(sessionToken)
       /\ sessionToken[sessionReq[r].new].rotatedFrom = sessionReq[r].from
  /\ sessionReq[r].call = "refresh" /\ sessionReq[r].reply = "ok" /\ sessionReq[r].device # None =>
       sessionReq[r].new \in Tokens!Tokens

\* The token that a refresh gave is linked.
Linked(r) ==
  sessionReq[r].call = "refresh" /\ sessionReq[r].reply = "ok" /\ sessionReq[r].device # None =>
    /\ sessionToken[sessionReq[r].new].rotatedFrom = sessionReq[r].presented
    /\ sessionToken[sessionReq[r].presented].rotatedTo >= sessionReq[r].new

\* Until the new token is there its device has one live token less than it may,
\* not counting the token that is about to be revoked, and none after a reuse.
DeviceAlone(r, d) ==
  /\ sessionReq[r].pc = "audit" => Tokens!Scope(d) \cap Tokens!Live = {}
  /\ sessionReq[r].call = "refresh" /\ sessionReq[r].pc = "revoke" =>
       \A p \in Tokens!Tokens : sessionReq[r].presented = p => Spare(d, LiveOn(d) \ {p})
  /\ sessionReq[r].call = "refresh" /\ sessionReq[r].pc \in {"find", "insert"} =>
       Spare(d, LiveOn(d))

LiveWithin == \A d \in Devices \cup {None} : Cardinality(LiveOn(d)) <= Cardinality(Tokens!SignIns(d))

SessionsAlone ==
  part = "sessions alone" =>
    /\ \A r \in Calls : ExchangeAlone(r)
    /\ \A r \in Calls, d \in Devices \cup {None} : sessionReq[r].device = d => DeviceAlone(r, d)
    /\ LiveWithin /\ \A r \in Calls : Linked(r)

SessionsInv ==
  part \in SessionParts =>
    /\ Tokens!SessionsTypeOK /\ OneAtATime(Tokens!Serving) /\ SessionsShape
    /\ Tokens!RotatedIsRevoked /\ SessionsAlone

(* A set of numbers has a smallest.                                        *)
LEMMA Smallest ==
  ASSUME NEW T \in SUBSET Nat, T # {}
  PROVE  \E x \in T : \A y \in T : x <= y
<1>1. IsWellFoundedOn(Earlier, Nat)
  BY NatLessThanWellFounded DEF OpToRel, Earlier
<1>2. PICK x \in T : \A y \in T : ~(<<y, x>> \in Earlier)
  BY <1>1, WFMin
<1>3. ASSUME NEW y \in T
      PROVE  x <= y
  <2>1. x \in Nat /\ y \in Nat
    OBVIOUS
  <2>2. ~(y < x)
    BY <1>2, <2>1 DEF Earlier
  <2> QED
    BY <2>1, <2>2
<1> QED
  BY <1>3

(* A list of stamps has a latest.                                          *)
LEMMA Latest ==
  ASSUME NEW n \in Nat, NEW f, \A i \in 1 .. n : f[i] \in Nat
  PROVE  \E m \in {f[i] : i \in 1 .. n} \cup {0} : \A i \in 1 .. n : f[i] <= m
<1> DEFINE Has(k) == \E m \in {f[i] : i \in 1 .. k} \cup {0} : \A i \in 1 .. k : f[i] <= m
           T == {k \in 0 .. n : ~Has(k)}
<1> SUFFICES ASSUME T # {}
             PROVE  FALSE
  <2>1. n \notin T
    OBVIOUS
  <2> QED
    BY <2>1
<1>2. PICK k \in T : \A j \in T : k <= j
  <2>1. T \in SUBSET Nat
    OBVIOUS
  <2> HIDE DEF T
  <2> QED
    BY <2>1, Smallest
<1>3. k \in 0 .. n /\ ~Has(k)
  OBVIOUS
<1>4. Has(0)
  OBVIOUS
<1>5. k # 0 /\ k - 1 \in 0 .. n /\ ~(k <= k - 1)
  BY <1>3, <1>4
<1>6. Has(k - 1)
  BY <1>2, <1>5
<1>7. PICK m \in {f[i] : i \in 1 .. k - 1} \cup {0} : \A i \in 1 .. k - 1 : f[i] <= m
  BY <1>6
<1>8. /\ m \in Nat
      /\ f[k] \in Nat
      /\ m \in {f[i] : i \in 1 .. k} \cup {0}
      /\ f[k] \in {f[i] : i \in 1 .. k}
  BY <1>3, <1>5, <1>7
<1>9. CASE f[k] <= m
  <2>1. \A i \in 1 .. k : f[i] <= m
    BY <1>3, <1>5, <1>7, <1>9
  <2> QED
    BY <1>3, <1>8, <2>1
<1>10. CASE m < f[k]
  <2>1. \A i \in 1 .. k : f[i] <= f[k]
    <3> SUFFICES ASSUME NEW i \in 1 .. k
                 PROVE  f[i] <= f[k]
      OBVIOUS
    <3>1. f[i] \in Nat
      BY <1>3
    <3>2. i = k \/ i \in 1 .. k - 1
      BY <1>3
    <3> QED
      BY <1>7, <1>8, <1>10, <3>1, <3>2
  <2> QED
    BY <1>3, <1>8, <2>1
<1> QED
  BY <1>8, <1>9, <1>10

(* What the rows of tokens are.                                            *)
LEMMA TokenRows ==
  ASSUME Tokens!SessionsTypeOK
  PROVE  /\ sessionToken \in Seq(Tokens!Token) /\ Len(sessionToken) \in Nat
         /\ Len(sessionToken) <= MaxTokens /\ MaxTokens \in Nat
         /\ Tokens!Tokens = 1 .. Len(sessionToken)
         /\ DOMAIN sessionToken = 1 .. Len(sessionToken)
         /\ \A t \in Tokens!Tokens :
              /\ sessionToken[t] \in Tokens!Token /\ t \in Nat
              /\ sessionToken[t].device \in Devices \cup {None}
              /\ sessionToken[t].revokedAt \in Nat /\ sessionToken[t].expired \in BOOLEAN
              /\ sessionToken[t].rotatedFrom \in Nat /\ sessionToken[t].rotatedFrom < t
              /\ sessionToken[t].rotatedTo \in 0 .. Len(sessionToken)
<1>1. /\ sessionToken \in Seq(Tokens!Token) /\ Len(sessionToken) <= MaxTokens
      /\ \A t \in Tokens!Tokens : /\ sessionToken[t].rotatedFrom < t
                                  /\ sessionToken[t].rotatedTo \in 0 .. Len(sessionToken)
  BY DEF Tokens!SessionsTypeOK
<1>2. MaxTokens \in Nat
  BY TokensAssumption DEF Tokens!SessionsAssumption
<1>3. /\ Len(sessionToken) \in Nat /\ DOMAIN sessionToken = 1 .. Len(sessionToken)
      /\ \A t \in DOMAIN sessionToken : sessionToken[t] \in Tokens!Token /\ t \in Nat
  BY <1>1
<1>4. Tokens!Tokens = DOMAIN sessionToken
  BY DEF Tokens!Tokens
<1>5. \A t \in Tokens!Tokens :
              /\ sessionToken[t].device \in Devices \cup {None}
              /\ sessionToken[t].revokedAt \in Nat /\ sessionToken[t].expired \in BOOLEAN
              /\ sessionToken[t].rotatedFrom \in Nat
  BY <1>3, <1>4 DEF Tokens!Token
<1> QED
  BY <1>1, <1>2, <1>3, <1>4, <1>5

(* The clock is later than every stamp (token.service.ts).                 *)
LEMMA NowIsLater ==
  ASSUME Tokens!SessionsTypeOK
  PROVE  /\ Tokens!Now \in Nat /\ Tokens!Now # 0
         /\ \A t \in Tokens!Tokens : sessionToken[t].revokedAt < Tokens!Now
<1> DEFINE n == Len(sessionToken)
           f == [t \in 1 .. n |-> sessionToken[t].revokedAt]
           S == {f[i] : i \in 1 .. n} \cup {0}
<1>1. n \in Nat /\ \A i \in 1 .. n : f[i] \in Nat
  BY TokenRows
<1>2. {sessionToken[t].revokedAt : t \in Tokens!Tokens} \cup {0} = S
  BY TokenRows
<1>3. \A t \in Tokens!Tokens : t \in 1 .. n /\ f[t] = sessionToken[t].revokedAt
  BY TokenRows
<1> HIDE DEF f, n
<1>4. PICK m \in S : \A i \in 1 .. n : f[i] <= m
  BY <1>1, Latest
<1>5. \A y \in S : y \in Nat /\ m >= y /\ m \in Nat
  BY <1>1, <1>4
<1> HIDE DEF S
<1>6. Tokens!Max(S) \in S /\ \A y \in S : Tokens!Max(S) >= y
  BY <1>5 DEF Tokens!Max
<1>7. Tokens!Now = 1 + Tokens!Max(S)
  BY <1>2 DEF Tokens!Now
<1>8. \A i \in 1 .. n : f[i] \in S
  BY DEF S
<1> QED
  BY <1>3, <1>5, <1>6, <1>7, <1>8

(* What a request of a session is.                                         *)
LEMMA SessionRequests ==
  ASSUME Tokens!SessionsTypeOK, NEW r \in Calls
  PROVE  /\ sessionReq \in [Calls -> Tokens!Request] /\ sessionReq[r] \in Tokens!Request
         /\ sessionReq[r].pc \in Tokens!Points /\ sessionReq[r].call \in Tokens!Kinds
         /\ sessionReq[r].device \in Devices \cup {None}
         /\ sessionReq[r].presented \in Nat
         /\ sessionReq[r].from \in Nat
         /\ sessionReq[r].new \in Nat
         /\ sessionReq[r].reply \in Tokens!Replies
<1>1. sessionReq \in [Calls -> Tokens!Request]
  BY DEF Tokens!SessionsTypeOK
<1>2. sessionReq[r] \in Tokens!Request
  BY <1>1
<1> QED
  BY <1>1, <1>2 DEF Tokens!Request

(* A row that is updated.                                                  *)
LEMMA RowUpdated ==
  ASSUME Tokens!SessionsTypeOK, NEW t \in Tokens!Tokens, NEW row \in Tokens!Token,
         sessionToken' = [sessionToken EXCEPT ![t] = row]
  PROVE  /\ sessionToken' \in Seq(Tokens!Token) /\ Len(sessionToken') = Len(sessionToken)
         /\ sessionToken'[t] = row
         /\ \A u \in Tokens!Tokens \ {t} : sessionToken'[u] = sessionToken[u]
BY TokenRows

(* Revoking a token stamps it, and no other (revokeRefreshToken).          *)
LEMMA RevokeWrites ==
  ASSUME Tokens!SessionsTypeOK, SessionsShape, NEW r \in Calls, Tokens!Revoke(r),
         NEW p, p = sessionReq[r].presented
  PROVE  /\ p \in Tokens!Tokens
         /\ sessionToken' \in Seq(Tokens!Token) /\ Len(sessionToken') = Len(sessionToken)
         /\ sessionToken'[p].revokedAt = Tokens!Now
         /\ sessionToken'[p].device = sessionToken[p].device
         /\ sessionToken'[p].expired = sessionToken[p].expired
         /\ sessionToken'[p].rotatedFrom = sessionToken[p].rotatedFrom
         /\ sessionToken'[p].rotatedTo = sessionToken[p].rotatedTo
         /\ \A u \in Tokens!Tokens \ {p} : sessionToken'[u] = sessionToken[u]
<1> DEFINE row == [sessionToken[p] EXCEPT !.revokedAt = Tokens!Now]
<1>1. p \in Tokens!Tokens
  BY DEF Tokens!Revoke, SessionsShape, TokenShape, Tokens!Tokens
<1>2. sessionToken[p] \in Tokens!Token /\ Tokens!Now \in Nat
  BY <1>1, TokenRows, NowIsLater
<1>3. /\ row \in Tokens!Token /\ row.revokedAt = Tokens!Now
      /\ row.device = sessionToken[p].device /\ row.expired = sessionToken[p].expired
      /\ row.rotatedFrom = sessionToken[p].rotatedFrom
      /\ row.rotatedTo = sessionToken[p].rotatedTo
  BY <1>2 DEF Tokens!Token
<1>4. sessionToken' = [sessionToken EXCEPT ![p] = row]
  BY DEF Tokens!Revoke
<1> HIDE DEF row
<1>5. /\ sessionToken' \in Seq(Tokens!Token) /\ Len(sessionToken') = Len(sessionToken)
      /\ sessionToken'[p] = row
      /\ \A u \in Tokens!Tokens \ {p} : sessionToken'[u] = sessionToken[u]
  BY <1>1, <1>3, <1>4, RowUpdated
<1> QED
  BY <1>1, <1>3, <1>5

(* Naming the successor writes nothing else (issueRefreshToken).           *)
LEMMA LinkWrites ==
  ASSUME Tokens!SessionsTypeOK, SessionsShape, NEW r \in Calls, Tokens!LinkToken(r),
         NEW p, p = sessionReq[r].from
  PROVE  /\ p \in Tokens!Tokens /\ sessionToken[p].revokedAt # 0
         /\ sessionReq[r].new \in Tokens!Tokens
         /\ sessionToken' \in Seq(Tokens!Token) /\ Len(sessionToken') = Len(sessionToken)
         /\ sessionToken'[p].rotatedTo = sessionReq[r].new
         /\ sessionToken'[p].device = sessionToken[p].device
         /\ sessionToken'[p].expired = sessionToken[p].expired
         /\ sessionToken'[p].rotatedFrom = sessionToken[p].rotatedFrom
         /\ sessionToken'[p].revokedAt = sessionToken[p].revokedAt
         /\ \A u \in Tokens!Tokens \ {p} : sessionToken'[u] = sessionToken[u]
<1> DEFINE row == [sessionToken[p] EXCEPT !.rotatedTo = sessionReq[r].new]
<1>1. /\ p \in Tokens!Tokens
      /\ sessionToken[p].revokedAt # 0
      /\ sessionReq[r].new \in Tokens!Tokens
  BY DEF Tokens!LinkToken, SessionsShape, TokenShape, Tokens!Tokens
<1>2. sessionToken[p] \in Tokens!Token /\ sessionReq[r].new \in Nat
  BY <1>1, TokenRows
<1>3. /\ row \in Tokens!Token /\ row.rotatedTo = sessionReq[r].new
      /\ row.device = sessionToken[p].device /\ row.expired = sessionToken[p].expired
      /\ row.rotatedFrom = sessionToken[p].rotatedFrom
      /\ row.revokedAt = sessionToken[p].revokedAt
  BY <1>2 DEF Tokens!Token
<1>4. sessionToken' = [sessionToken EXCEPT ![p] = row]
  BY DEF Tokens!LinkToken
<1> HIDE DEF row
<1>5. /\ sessionToken' \in Seq(Tokens!Token) /\ Len(sessionToken') = Len(sessionToken)
      /\ sessionToken'[p] = row
      /\ \A u \in Tokens!Tokens \ {p} : sessionToken'[u] = sessionToken[u]
  BY <1>1, <1>3, <1>4, RowUpdated
<1> QED
  BY <1>1, <1>3, <1>5

(* A token that expires is otherwise as it was.                            *)
LEMMA ExpireWrites ==
  ASSUME Tokens!SessionsTypeOK, NEW p \in Tokens!Tokens, Tokens!Expire(p)
  PROVE  /\ sessionToken' \in Seq(Tokens!Token) /\ Len(sessionToken') = Len(sessionToken)
         /\ sessionToken'[p].expired
         /\ sessionToken'[p].device = sessionToken[p].device
         /\ sessionToken'[p].rotatedTo = sessionToken[p].rotatedTo
         /\ sessionToken'[p].rotatedFrom = sessionToken[p].rotatedFrom
         /\ sessionToken'[p].revokedAt = sessionToken[p].revokedAt
         /\ \A u \in Tokens!Tokens \ {p} : sessionToken'[u] = sessionToken[u]
<1> DEFINE row == [sessionToken[p] EXCEPT !.expired = TRUE]
<1>2. sessionToken[p] \in Tokens!Token
  BY TokenRows
<1>3. /\ row \in Tokens!Token /\ row.rotatedTo = sessionToken[p].rotatedTo
      /\ row.device = sessionToken[p].device /\ row.expired
      /\ row.rotatedFrom = sessionToken[p].rotatedFrom
      /\ row.revokedAt = sessionToken[p].revokedAt
  BY <1>2 DEF Tokens!Token
<1>4. sessionToken' = [sessionToken EXCEPT ![p] = row]
  BY DEF Tokens!Expire
<1> HIDE DEF row
<1>5. /\ sessionToken' \in Seq(Tokens!Token) /\ Len(sessionToken') = Len(sessionToken)
      /\ sessionToken'[p] = row
      /\ \A u \in Tokens!Tokens \ {p} : sessionToken'[u] = sessionToken[u]
  BY <1>3, <1>4, RowUpdated
<1> QED
  BY <1>3, <1>5

(* A token that is issued is the last row (issueRefreshToken).             *)
LEMMA InsertWrites ==
  ASSUME Tokens!SessionsTypeOK, SessionsShape, NEW r \in Calls, Tokens!InsertToken(r),
         NEW n, n = Len(sessionToken) + 1
  PROVE  /\ n \in Nat /\ n <= MaxTokens /\ n \notin Tokens!Tokens
         /\ sessionToken' \in Seq(Tokens!Token) /\ Len(sessionToken') = n
         /\ Tokens!Tokens' = Tokens!Tokens \cup {n}
         /\ sessionToken'[n].device = sessionReq[r].device
         /\ sessionToken'[n].revokedAt = 0 /\ ~sessionToken'[n].expired
         /\ sessionToken'[n].rotatedFrom = sessionReq[r].from /\ sessionReq[r].from < n
         /\ sessionToken'[n].rotatedTo = 0
         /\ \A u \in Tokens!Tokens : sessionToken'[u] = sessionToken[u]
<1> DEFINE row == [device |-> sessionReq[r].device, revokedAt |-> 0, expired |-> FALSE,
                   rotatedFrom |-> sessionReq[r].from, rotatedTo |-> 0]
<1>1. /\ sessionReq[r].from \in Nat /\ sessionReq[r].device \in Devices \cup {None}
      /\ Len(sessionToken) \in Nat /\ sessionToken \in Seq(Tokens!Token)
  BY SessionRequests, TokenRows
<1>2. /\ row \in Tokens!Token /\ row.device = sessionReq[r].device /\ row.revokedAt = 0
      /\ ~row.expired /\ row.rotatedFrom = sessionReq[r].from /\ row.rotatedTo = 0
  BY <1>1 DEF Tokens!Token
<1>3. sessionToken' = Append(sessionToken, row) /\ n <= MaxTokens
  BY DEF Tokens!InsertToken
<1>4. sessionReq[r].from = 0 \/ sessionReq[r].from \in Tokens!Tokens
  BY DEF Tokens!InsertToken, SessionsShape, TokenShape, Tokens!Tokens
<1> HIDE DEF row
<1>5. /\ sessionToken' \in Seq(Tokens!Token) /\ Len(sessionToken') = n
      /\ sessionToken'[n] = row
      /\ \A u \in 1 .. Len(sessionToken) : sessionToken'[u] = sessionToken[u]
  BY <1>1, <1>2, <1>3
<1>6. Tokens!Tokens = 1 .. Len(sessionToken)
  BY TokenRows
<1>7. Tokens!Tokens' = 1 .. n
  BY <1>5 DEF Tokens!Tokens
<1> QED
  BY <1>1, <1>2, <1>3, <1>4, <1>5, <1>6, <1>7

(* Revoking the tokens of a device stamps those and no others
   (revokeAllForDevice).                                                   *)
LEMMA RevokeAllWrites ==
  ASSUME Tokens!SessionsTypeOK, NEW r \in Calls, Tokens!RevokeAllForDevice(r)
  PROVE  /\ sessionToken' \in Seq(Tokens!Token) /\ Len(sessionToken') = Len(sessionToken)
         /\ \A t \in Tokens!Tokens :
              /\ sessionToken'[t].device = sessionToken[t].device
              /\ sessionToken'[t].expired = sessionToken[t].expired
              /\ sessionToken'[t].rotatedFrom = sessionToken[t].rotatedFrom
              /\ sessionToken'[t].rotatedTo = sessionToken[t].rotatedTo
              /\ sessionToken'[t].revokedAt \in {sessionToken[t].revokedAt, Tokens!Now}
              /\ (sessionReq[r].device = None \/ sessionToken[t].device = sessionReq[r].device) =>
                   sessionToken'[t].revokedAt = Tokens!Now
<1> DEFINE S == Tokens!Scope(sessionReq[r].device)
           row(t) == IF t \in S THEN [sessionToken[t] EXCEPT !.revokedAt = Tokens!Now]
                                ELSE sessionToken[t]
<1>1. sessionToken' = [t \in Tokens!Tokens |-> row(t)]
  BY DEF Tokens!RevokeAllForDevice
<1>2. \A t \in Tokens!Tokens : sessionToken[t] \in Tokens!Token /\ Tokens!Now \in Nat
  BY TokenRows, NowIsLater
<1>3. ASSUME NEW t \in Tokens!Tokens
      PROVE  /\ row(t) \in Tokens!Token
             /\ row(t).device = sessionToken[t].device
             /\ row(t).expired = sessionToken[t].expired
             /\ row(t).rotatedFrom = sessionToken[t].rotatedFrom
             /\ row(t).rotatedTo = sessionToken[t].rotatedTo
             /\ row(t).revokedAt \in {sessionToken[t].revokedAt, Tokens!Now}
             /\ t \in S => row(t).revokedAt = Tokens!Now
  <2> HIDE DEF S
  <2> QED
    BY <1>2 DEF Tokens!Token
<1>4. \A t \in Tokens!Tokens :
        (sessionReq[r].device = None \/ sessionToken[t].device = sessionReq[r].device) => t \in S
  BY DEF Tokens!Scope
<1> HIDE DEF row, S
<1>5. Tokens!Tokens = 1 .. Len(sessionToken) /\ Len(sessionToken) \in Nat
  BY TokenRows
<1>6. sessionToken' \in Seq(Tokens!Token) /\ Len(sessionToken') = Len(sessionToken)
  <2> DEFINE n == Len(sessionToken)
  <2>1. /\ n \in Nat
        /\ sessionToken' = [t \in 1 .. n |-> row(t)]
        /\ \A t \in 1 .. n : row(t) \in Tokens!Token
    BY <1>1, <1>3, <1>5
  <2> HIDE DEF n
  <2>2. sessionToken' \in Seq(Tokens!Token) /\ Len(sessionToken') = n
    BY <2>1, IndexedIsSeq
  <2> QED
    BY <2>2 DEF n
<1>7. \A t \in Tokens!Tokens : sessionToken'[t] = row(t)
  BY <1>1
<1> QED
  BY <1>3, <1>4, <1>6, <1>7

(* Which steps write tokens (token.service.ts).                            *)
LEMMA TokenWriters ==
  ASSUME Tokens!Next
  PROVE  \/ UNCHANGED sessionToken
         \/ \E r \in Calls : \/ Tokens!Revoke(r) \/ Tokens!RevokeAllForDevice(r)
                             \/ Tokens!InsertToken(r) \/ Tokens!LinkToken(r)
         \/ \E t \in Tokens!Tokens : Tokens!Expire(t)
<1>1. ASSUME NEW r \in Calls, NEW t \in Tokens!Tokens,
             Tokens!Refresh(r, t) \/ Tokens!Logout(r, t)
      PROVE  UNCHANGED sessionToken
  BY <1>1 DEF Tokens!Refresh, Tokens!Logout, Tokens!Verify
<1>2. ASSUME NEW r \in Calls, NEW d,
             Tokens!OtpAccepted(r, d) \/ Tokens!ValidateTrustedDevice(r, d)
      PROVE  UNCHANGED sessionToken
  BY <1>2 DEF Tokens!OtpAccepted, Tokens!ValidateTrustedDevice
<1>3. ASSUME NEW r \in Calls,
             Tokens!Audit(r) \/ Tokens!TouchDevice(r) \/ Tokens!FindLatestRevoked(r)
      PROVE  UNCHANGED sessionToken
  BY <1>3 DEF Tokens!Audit, Tokens!TouchDevice, Tokens!FindLatestRevoked
<1>4. ASSUME NEW d, Tokens!SetStatus \/ Tokens!RevokeDeviceForUser(d)
      PROVE  UNCHANGED sessionToken
  BY <1>4 DEF Tokens!SetStatus, Tokens!RevokeDeviceForUser
<1> QED
  BY <1>1, <1>2, <1>3, <1>4 DEF Tokens!Next

(* Tokens are added, keep their device and predecessor and stay revoked; one
   that has a successor is revoked (token.service.ts).                     *)
LEMMA TokensGrow ==
  ASSUME Tokens!SessionsTypeOK, SessionsShape, Tokens!RotatedIsRevoked, Tokens!Next
  PROVE  /\ sessionToken' \in Seq(Tokens!Token) /\ Len(sessionToken') <= MaxTokens
         /\ \A t \in Tokens!Tokens' : /\ sessionToken'[t].rotatedFrom < t
                                      /\ sessionToken'[t].rotatedTo \in 0 .. Len(sessionToken')
         /\ \A t \in Tokens!Tokens :
              /\ t \in Tokens!Tokens' /\ t \in DOMAIN sessionToken'
              /\ sessionToken'[t].device = sessionToken[t].device
              /\ sessionToken'[t].rotatedFrom = sessionToken[t].rotatedFrom
              /\ sessionToken[t].revokedAt # 0 => sessionToken'[t].revokedAt # 0
         /\ Tokens!RotatedIsRevoked'
<1> DEFINE Goal ==
         /\ sessionToken' \in Seq(Tokens!Token) /\ Len(sessionToken') <= MaxTokens
         /\ \A t \in Tokens!Tokens' : /\ sessionToken'[t].rotatedFrom < t
                                      /\ sessionToken'[t].rotatedTo \in 0 .. Len(sessionToken')
         /\ \A t \in Tokens!Tokens :
              /\ t \in Tokens!Tokens' /\ t \in DOMAIN sessionToken'
              /\ sessionToken'[t].device = sessionToken[t].device
              /\ sessionToken'[t].rotatedFrom = sessionToken[t].rotatedFrom
              /\ sessionToken[t].revokedAt # 0 => sessionToken'[t].revokedAt # 0
         /\ Tokens!RotatedIsRevoked'
<1>t. /\ sessionToken \in Seq(Tokens!Token) /\ Len(sessionToken) \in Nat
      /\ Len(sessionToken) <= MaxTokens /\ MaxTokens \in Nat
      /\ Tokens!Tokens = 1 .. Len(sessionToken)
      /\ \A t \in Tokens!Tokens :
              /\ t \in Nat /\ sessionToken[t].revokedAt \in Nat
              /\ sessionToken[t].rotatedFrom < t
              /\ sessionToken[t].rotatedTo \in 0 .. Len(sessionToken)
              /\ sessionToken[t].rotatedTo # 0 => sessionToken[t].revokedAt # 0
  BY TokenRows DEF Tokens!RotatedIsRevoked
<1>n. Tokens!Now # 0
  BY NowIsLater
<1>s. ASSUME sessionToken' \in Seq(Tokens!Token), Len(sessionToken') = Len(sessionToken),
             \A t \in Tokens!Tokens :
               /\ sessionToken'[t].device = sessionToken[t].device
               /\ sessionToken'[t].rotatedFrom = sessionToken[t].rotatedFrom
               /\ sessionToken[t].revokedAt # 0 => sessionToken'[t].revokedAt # 0
               /\ sessionToken'[t].rotatedTo \in 0 .. Len(sessionToken)
               /\ sessionToken'[t].rotatedTo # 0 => sessionToken'[t].revokedAt # 0
      PROVE  Goal
  <2>1. Tokens!Tokens' = Tokens!Tokens /\ DOMAIN sessionToken' = Tokens!Tokens
    BY <1>t, <1>s DEF Tokens!Tokens
  <2> QED
    BY <1>t, <1>s, <2>1 DEF Tokens!RotatedIsRevoked
<1>0. ASSUME UNCHANGED sessionToken
      PROVE  Goal
  BY <1>t, <1>0, <1>s
<1>1. ASSUME NEW r \in Calls, Tokens!Revoke(r)
      PROVE  Goal
  <2> DEFINE p == sessionReq[r].presented
  <2> HIDE DEF p
  <2>1. /\ p \in Tokens!Tokens
        /\ sessionToken' \in Seq(Tokens!Token) /\ Len(sessionToken') = Len(sessionToken)
        /\ sessionToken'[p].revokedAt = Tokens!Now
        /\ sessionToken'[p].device = sessionToken[p].device
        /\ sessionToken'[p].rotatedFrom = sessionToken[p].rotatedFrom
        /\ sessionToken'[p].rotatedTo = sessionToken[p].rotatedTo
        /\ \A u \in Tokens!Tokens \ {p} : sessionToken'[u] = sessionToken[u]
    BY <1>1, RevokeWrites DEF p
  <2> QED
    BY <1>t, <1>n, <1>s, <2>1
<1>2. ASSUME NEW r \in Calls, Tokens!RevokeAllForDevice(r)
      PROVE  Goal
  BY <1>t, <1>n, <1>s, <1>2, RevokeAllWrites
<1>3. ASSUME NEW r \in Calls, Tokens!InsertToken(r)
      PROVE  Goal
  <2> DEFINE n == Len(sessionToken) + 1
  <2> HIDE DEF n
  <2>1. /\ n \in Nat /\ n <= MaxTokens
        /\ sessionToken' \in Seq(Tokens!Token) /\ Len(sessionToken') = n
        /\ Tokens!Tokens' = Tokens!Tokens \cup {n}
        /\ sessionToken'[n].revokedAt = 0
        /\ sessionToken'[n].rotatedFrom = sessionReq[r].from /\ sessionReq[r].from < n
        /\ sessionToken'[n].rotatedTo = 0
        /\ \A u \in Tokens!Tokens : sessionToken'[u] = sessionToken[u]
    BY <1>3, InsertWrites DEF n
  <2>2. DOMAIN sessionToken' = Tokens!Tokens'
    BY DEF Tokens!Tokens
  <2>3. Len(sessionToken) <= n
    BY <1>t DEF n
  <2>4. \A t \in Tokens!Tokens : sessionToken'[t].rotatedTo \in 0 .. n
    BY <1>t, <2>1, <2>3
  <2>5. \A t \in Tokens!Tokens' :
          /\ sessionToken'[t].rotatedFrom < t
          /\ sessionToken'[t].rotatedTo \in 0 .. Len(sessionToken')
    BY <1>t, <2>1, <2>4
  <2>6. \A t \in Tokens!Tokens :
          /\ t \in Tokens!Tokens' /\ t \in DOMAIN sessionToken'
          /\ sessionToken'[t].device = sessionToken[t].device
          /\ sessionToken'[t].rotatedFrom = sessionToken[t].rotatedFrom
          /\ sessionToken[t].revokedAt # 0 => sessionToken'[t].revokedAt # 0
    BY <2>1, <2>2
  <2>7. Tokens!RotatedIsRevoked'
    BY <1>t, <2>1 DEF Tokens!RotatedIsRevoked
  <2> QED
    BY <2>1, <2>5, <2>6, <2>7
<1>4. ASSUME NEW r \in Calls, Tokens!LinkToken(r)
      PROVE  Goal
  <2> DEFINE p == sessionReq[r].from
  <2> HIDE DEF p
  <2>1. /\ p \in Tokens!Tokens /\ sessionToken[p].revokedAt # 0
        /\ sessionReq[r].new \in Tokens!Tokens
        /\ sessionToken' \in Seq(Tokens!Token) /\ Len(sessionToken') = Len(sessionToken)
        /\ sessionToken'[p].rotatedTo = sessionReq[r].new
        /\ sessionToken'[p].device = sessionToken[p].device
        /\ sessionToken'[p].rotatedFrom = sessionToken[p].rotatedFrom
        /\ sessionToken'[p].revokedAt = sessionToken[p].revokedAt
        /\ \A u \in Tokens!Tokens \ {p} : sessionToken'[u] = sessionToken[u]
    BY <1>4, LinkWrites DEF p
  <2>2. sessionReq[r].new \in 0 .. Len(sessionToken)
    BY <1>t, <2>1
  <2> QED
    BY <1>t, <1>s, <2>1, <2>2
<1>5. ASSUME NEW p \in Tokens!Tokens, Tokens!Expire(p)
      PROVE  Goal
  <2>1. /\ sessionToken' \in Seq(Tokens!Token) /\ Len(sessionToken') = Len(sessionToken)
        /\ sessionToken'[p].device = sessionToken[p].device
        /\ sessionToken'[p].rotatedTo = sessionToken[p].rotatedTo
        /\ sessionToken'[p].rotatedFrom = sessionToken[p].rotatedFrom
        /\ sessionToken'[p].revokedAt = sessionToken[p].revokedAt
        /\ \A u \in Tokens!Tokens \ {p} : sessionToken'[u] = sessionToken[u]
    BY <1>5, ExpireWrites
  <2> QED
    BY <1>t, <1>s, <2>1
<1> HIDE DEF Goal
<1>6. Goal
  BY <1>0, <1>1, <1>2, <1>3, <1>4, <1>5, TokenWriters
<1> QED
  BY <1>6 DEF Goal

(* What a request presents and has issued stays a token.                   *)
LEMMA ShapeGrows ==
  ASSUME Tokens!SessionsTypeOK, SessionsShape, Tokens!RotatedIsRevoked, Tokens!Next,
         NEW q, TokenShape(q, sessionToken)
  PROVE  TokenShape(q, sessionToken')
<1>1. \A t \in DOMAIN sessionToken :
              /\ t \in DOMAIN sessionToken'
              /\ sessionToken'[t].device = sessionToken[t].device
              /\ sessionToken[t].revokedAt # 0 => sessionToken'[t].revokedAt # 0
  BY TokensGrow DEF Tokens!Tokens
<1> QED
  BY <1>1 DEF TokenShape

(* A request that moves leaves the others where they stand.                *)
LEMMA RequestMoved ==
  ASSUME Tokens!SessionsTypeOK, NEW r \in Calls, NEW q \in Tokens!Request,
         sessionReq' = [sessionReq EXCEPT ![r] = q]
  PROVE  /\ sessionReq' \in [Calls -> Tokens!Request] /\ sessionReq'[r] = q
         /\ \A x \in Calls \ {r} : sessionReq'[x] = sessionReq[x]
BY DEF Tokens!SessionsTypeOK

(* A refresh or a logout begins with what it read of its token
   (verifyRefreshToken).                                                   *)
LEMMA VerifyMoves ==
  ASSUME Tokens!SessionsTypeOK, NEW r \in Calls, NEW t \in Tokens!Tokens,
         Tokens!Refresh(r, t) \/ Tokens!Logout(r, t)
  PROVE  /\ sessionReq' \in [Calls -> Tokens!Request]
         /\ \A x \in Calls \ {r} : sessionReq'[x] = sessionReq[x]
         /\ sessionReq[r].pc = "idle"
         /\ sessionReq'[r].pc \in {"revoke", "revokeAll", "done"}
         /\ sessionReq'[r].call \in {"refresh", "logout"}
         /\ sessionReq'[r].presented = t /\ sessionReq'[r].device = sessionToken[t].device
         /\ sessionReq'[r].new = 0 /\ sessionReq'[r].reply # "ok"
         /\ sessionReq'[r].pc = "revoke" => t \in Tokens!Live
         /\ UNCHANGED <<sessionToken, sessionDevice, sessionActive>>
<1> DEFINE q(kind, pc, reply) ==
      [Tokens!Fresh EXCEPT !.pc = pc, !.call = kind, !.presented = t,
                           !.device = sessionToken[t].device, !.reply = reply]
<1>1. ASSUME NEW kind \in {"refresh", "logout"}, NEW next \in {"revoke", "revokeAll"},
             Tokens!Verify(r, kind, t, next)
      PROVE  /\ sessionReq[r].pc = "idle"
             /\ UNCHANGED <<sessionToken, sessionDevice, sessionActive>>
             /\ \E pc \in {"revoke", "revokeAll", "done"}, reply \in {"none", "reuse", "refused"} :
                  /\ sessionReq' = [sessionReq EXCEPT ![r] = q(kind, pc, reply)]
                  /\ pc = "revoke" => sessionToken[t].revokedAt = 0 /\ ~sessionToken[t].expired
  BY <1>1 DEF Tokens!Verify, Tokens!Begin
<1>2. PICK kind \in {"refresh", "logout"}, next \in {"revoke", "revokeAll"} :
        Tokens!Verify(r, kind, t, next)
  BY DEF Tokens!Refresh, Tokens!Logout
<1>3. PICK pc \in {"revoke", "revokeAll", "done"}, reply \in {"none", "reuse", "refused"} :
        /\ sessionReq' = [sessionReq EXCEPT ![r] = q(kind, pc, reply)]
        /\ pc = "revoke" => sessionToken[t].revokedAt = 0 /\ ~sessionToken[t].expired
  BY <1>1, <1>2
<1>4. sessionToken[t].device \in Devices \cup {None} /\ t \in Nat
  BY TokenRows
<1>5. /\ q(kind, pc, reply) \in Tokens!Request
      /\ q(kind, pc, reply).pc = pc /\ q(kind, pc, reply).call = kind
      /\ q(kind, pc, reply).presented = t
      /\ q(kind, pc, reply).device = sessionToken[t].device
      /\ q(kind, pc, reply).new = 0 /\ q(kind, pc, reply).reply = reply
  BY <1>4 DEF Tokens!Request, Tokens!Fresh, Tokens!Points, Tokens!Kinds, Tokens!Replies
<1> HIDE DEF q
<1>6. /\ sessionReq' \in [Calls -> Tokens!Request] /\ sessionReq'[r] = q(kind, pc, reply)
      /\ \A x \in Calls \ {r} : sessionReq'[x] = sessionReq[x]
  BY <1>3, <1>5, RequestMoved
<1>7. pc = "revoke" => t \in Tokens!Live
  BY <1>3 DEF Tokens!Live
<1> QED
  BY <1>1, <1>2, <1>5, <1>6, <1>7

(* A sign-in begins without a token (auth.service.ts).                     *)
LEMMA SignInMoves ==
  ASSUME Tokens!SessionsTypeOK, NEW r \in Calls, NEW d \in Devices \cup {None},
         Tokens!OtpAccepted(r, d) \/ (d \in Devices /\ Tokens!ValidateTrustedDevice(r, d))
  PROVE  /\ sessionReq' \in [Calls -> Tokens!Request]
         /\ \A x \in Calls \ {r} : sessionReq'[x] = sessionReq[x]
         /\ sessionReq[r].pc = "idle"
         /\ \/ sessionReq'[r].pc = "find" /\ sessionReq'[r].call = "otp"
            \/ sessionReq'[r].pc = "touch" /\ sessionReq'[r].call = "trusted" /\ d \in Devices
         /\ sessionReq'[r].device = d
         /\ sessionReq'[r].new = 0 /\ sessionReq'[r].reply # "ok"
         /\ sessionToken' = sessionToken
<1> DEFINE q(kind, pc) == [Tokens!Fresh EXCEPT !.pc = pc, !.call = kind, !.device = d]
<1>1. /\ sessionReq[r].pc = "idle" /\ sessionToken' = sessionToken
      /\ \/ sessionReq' = [sessionReq EXCEPT ![r] = q("otp", "find")]
         \/ d \in Devices /\ sessionReq' = [sessionReq EXCEPT ![r] = q("trusted", "touch")]
  BY DEF Tokens!OtpAccepted, Tokens!ValidateTrustedDevice, Tokens!Begin
<1>2. ASSUME NEW kind \in {"otp", "trusted"}, NEW pc \in {"find", "touch"}
      PROVE  /\ q(kind, pc) \in Tokens!Request
             /\ q(kind, pc).pc = pc /\ q(kind, pc).call = kind /\ q(kind, pc).device = d
             /\ q(kind, pc).new = 0 /\ q(kind, pc).reply = "none"
  BY DEF Tokens!Request, Tokens!Fresh, Tokens!Points, Tokens!Kinds, Tokens!Replies
<1> HIDE DEF q
<1>3. CASE sessionReq' = [sessionReq EXCEPT ![r] = q("otp", "find")]
  <2>1. /\ sessionReq' \in [Calls -> Tokens!Request] /\ sessionReq'[r] = q("otp", "find")
        /\ \A x \in Calls \ {r} : sessionReq'[x] = sessionReq[x]
    BY <1>2, <1>3, RequestMoved
  <2> QED
    BY <1>1, <1>2, <2>1
<1>4. CASE d \in Devices /\ sessionReq' = [sessionReq EXCEPT ![r] = q("trusted", "touch")]
  <2>1. /\ sessionReq' \in [Calls -> Tokens!Request] /\ sessionReq'[r] = q("trusted", "touch")
        /\ \A x \in Calls \ {r} : sessionReq'[x] = sessionReq[x]
    BY <1>2, <1>4, RequestMoved
  <2> QED
    BY <1>1, <1>2, <1>4, <2>1
<1> QED
  BY <1>1, <1>3, <1>4

(* A request goes on, or is answered, as the request it is (auth.service.ts,
   token.service.ts).                                                      *)
LEMMA RequestGoesOn ==
  ASSUME Tokens!SessionsTypeOK, NEW r \in Calls,
         \/ Tokens!Revoke(r) \/ Tokens!RevokeAllForDevice(r) \/ Tokens!Audit(r)
         \/ Tokens!TouchDevice(r) \/ Tokens!LinkToken(r)
  PROVE  /\ sessionReq' \in [Calls -> Tokens!Request]
         /\ \A x \in Calls \ {r} : sessionReq'[x] = sessionReq[x]
         /\ sessionReq'[r].call = sessionReq[r].call
         /\ sessionReq'[r].device = sessionReq[r].device
         /\ sessionReq'[r].presented = sessionReq[r].presented
         /\ sessionReq'[r].from = sessionReq[r].from
         /\ sessionReq'[r].new = sessionReq[r].new
         /\ \/ /\ Tokens!Revoke(r) /\ sessionReq[r].pc = "revoke"
               /\ IF sessionReq[r].call = "refresh"
                  THEN sessionReq'[r].pc = "find" /\ sessionReq'[r].reply = sessionReq[r].reply
                  ELSE sessionReq'[r].pc = "done"
            \/ /\ Tokens!RevokeAllForDevice(r) /\ sessionReq[r].pc = "revokeAll"
               /\ sessionReq'[r].pc = "audit"
               /\ sessionReq'[r].reply = sessionReq[r].reply
            \/ /\ Tokens!Audit(r) /\ sessionReq[r].pc = "audit"
               /\ sessionReq'[r].pc = "done" /\ sessionReq'[r].reply # "ok"
               /\ sessionToken' = sessionToken
            \/ /\ Tokens!TouchDevice(r) /\ sessionReq[r].pc = "touch"
               /\ sessionReq'[r].pc = "find" /\ sessionReq'[r].reply = sessionReq[r].reply
               /\ sessionToken' = sessionToken
            \/ /\ Tokens!LinkToken(r) /\ sessionReq[r].pc = "link"
               /\ sessionReq'[r].pc = "done"
<1> DEFINE q(pc, reply) == [sessionReq[r] EXCEPT !.pc = pc, !.reply = reply]
<1>0. sessionReq[r] \in Tokens!Request /\ sessionReq \in [Calls -> Tokens!Request]
  BY SessionRequests
<1>1. ASSUME NEW pc \in Tokens!Points, NEW reply \in Tokens!Replies
      PROVE  /\ q(pc, reply) \in Tokens!Request
             /\ q(pc, reply).pc = pc /\ q(pc, reply).reply = reply
             /\ q(pc, reply).call = sessionReq[r].call
             /\ q(pc, reply).device = sessionReq[r].device
             /\ q(pc, reply).presented = sessionReq[r].presented
             /\ q(pc, reply).from = sessionReq[r].from
             /\ q(pc, reply).new = sessionReq[r].new
  BY <1>0 DEF Tokens!Request
<1>2. ASSUME NEW pc \in Tokens!Points, Tokens!Goto(r, pc)
      PROVE  sessionReq' = [sessionReq EXCEPT ![r] = q(pc, sessionReq[r].reply)]
  BY <1>0, <1>2 DEF Tokens!Goto, Tokens!Request
<1>3. ASSUME NEW reply \in Tokens!Replies, Tokens!Answer(r, reply)
      PROVE  sessionReq' = [sessionReq EXCEPT ![r] = q("done", reply)]
  BY <1>0, <1>3 DEF Tokens!Answer, Tokens!Request
<1> DEFINE Moved(pc, reply) ==
         /\ sessionReq' \in [Calls -> Tokens!Request]
         /\ \A x \in Calls \ {r} : sessionReq'[x] = sessionReq[x]
         /\ sessionReq'[r].call = sessionReq[r].call
         /\ sessionReq'[r].device = sessionReq[r].device
         /\ sessionReq'[r].presented = sessionReq[r].presented
         /\ sessionReq'[r].from = sessionReq[r].from
         /\ sessionReq'[r].new = sessionReq[r].new
         /\ sessionReq'[r].pc = pc /\ sessionReq'[r].reply = reply
<1> HIDE DEF q
<1>4. ASSUME NEW pc \in Tokens!Points, NEW reply \in Tokens!Replies,
             sessionReq' = [sessionReq EXCEPT ![r] = q(pc, reply)]
      PROVE  Moved(pc, reply)
  <2>1. /\ sessionReq' \in [Calls -> Tokens!Request] /\ sessionReq'[r] = q(pc, reply)
        /\ \A x \in Calls \ {r} : sessionReq'[x] = sessionReq[x]
    BY <1>1, <1>4, RequestMoved
  <2> QED
    BY <1>1, <2>1
<1> HIDE DEF Moved
<1>p. /\ "find" \in Tokens!Points /\ "audit" \in Tokens!Points /\ "done" \in Tokens!Points
      /\ "ok" \in Tokens!Replies
      /\ "refused" \in Tokens!Replies
      /\ "reuse" \in Tokens!Replies
      /\ sessionReq[r].reply \in Tokens!Replies
  BY <1>0 DEF Tokens!Points, Tokens!Replies, Tokens!Request
<1>5. CASE Tokens!Revoke(r)
  <2>1. sessionReq[r].pc = "revoke"
        /\ IF sessionReq[r].call = "refresh" THEN Tokens!Goto(r, "find") ELSE Tokens!Answer(r, "ok")
    BY <1>5 DEF Tokens!Revoke
  <2>2. IF sessionReq[r].call = "refresh" THEN Moved("find", sessionReq[r].reply) ELSE Moved("done", "ok")
    BY <1>p, <1>2, <1>3, <1>4, <2>1
  <2> QED
    BY <1>5, <2>1, <2>2 DEF Moved
<1>6. CASE Tokens!RevokeAllForDevice(r)
  <2>1. sessionReq[r].pc = "revokeAll" /\ Tokens!Goto(r, "audit")
    BY <1>6 DEF Tokens!RevokeAllForDevice
  <2>2. Moved("audit", sessionReq[r].reply)
    BY <1>p, <1>2, <1>4, <2>1
  <2> QED
    BY <1>6, <2>1, <2>2 DEF Moved
<1>7. CASE Tokens!Audit(r)
  <2>1. /\ sessionReq[r].pc = "audit" /\ sessionToken' = sessionToken
        /\ Tokens!Answer(r, "reuse") \/ Tokens!Answer(r, "refused")
    BY <1>7 DEF Tokens!Audit
  <2>2. Moved("done", "reuse") \/ Moved("done", "refused")
    BY <1>p, <1>3, <1>4, <2>1
  <2> QED
    BY <1>7, <2>1, <2>2 DEF Moved
<1>8. CASE Tokens!TouchDevice(r)
  <2>1. /\ sessionReq[r].pc = "touch"
        /\ Tokens!Goto(r, "find")
        /\ sessionToken' = sessionToken
    BY <1>8 DEF Tokens!TouchDevice
  <2>2. Moved("find", sessionReq[r].reply)
    BY <1>p, <1>2, <1>4, <2>1
  <2> QED
    BY <1>8, <2>1, <2>2 DEF Moved
<1>9. CASE Tokens!LinkToken(r)
  <2>1. sessionReq[r].pc = "link" /\ Tokens!Answer(r, "ok")
    BY <1>9 DEF Tokens!LinkToken
  <2>2. Moved("done", "ok")
    BY <1>p, <1>3, <1>4, <2>1
  <2> QED
    BY <1>9, <2>1, <2>2 DEF Moved
<1> QED
  BY <1>5, <1>6, <1>7, <1>8, <1>9

(* The token to follow is the last one of the device that was revoked
   (issueRefreshToken).                                                    *)
LEMMA FindMoves ==
  ASSUME Tokens!SessionsTypeOK, NEW r \in Calls, Tokens!FindLatestRevoked(r)
  PROVE  /\ sessionReq' \in [Calls -> Tokens!Request]
         /\ \A x \in Calls \ {r} : sessionReq'[x] = sessionReq[x]
         /\ sessionReq[r].pc = "find" /\ sessionReq'[r].pc = "insert"
         /\ sessionReq'[r].call = sessionReq[r].call
         /\ sessionReq'[r].device = sessionReq[r].device
         /\ sessionReq'[r].presented = sessionReq[r].presented
         /\ sessionReq'[r].new = sessionReq[r].new
         /\ sessionReq'[r].reply = sessionReq[r].reply
         /\ sessionReq'[r].from # 0 =>
              /\ sessionReq'[r].from \in Tokens!Tokens
              /\ sessionToken[sessionReq'[r].from].revokedAt # 0
         /\ sessionReq[r].device = None => sessionReq'[r].from = 0
         /\ \A p \in Tokens!Tokens :
              (/\ sessionReq[r].device # None /\ sessionToken[p].device = sessionReq[r].device
               /\ LastRevoked(p)) => sessionReq'[r].from = p
         /\ sessionToken' = sessionToken
<1> DEFINE d == sessionReq[r].device
           revoked == {t \in Tokens!Tokens : d # None /\ sessionToken[t].device = d
                                             /\ sessionToken[t].revokedAt # 0}
           latest == {t \in revoked : \A u \in revoked :
                        sessionToken[u].revokedAt <= sessionToken[t].revokedAt}
           q(t) == [sessionReq[r] EXCEPT !.pc = "insert", !.from = t]
<1>0. sessionReq[r] \in Tokens!Request /\ sessionReq \in [Calls -> Tokens!Request]
  BY SessionRequests
<1>t. \A t \in Tokens!Tokens : t \in Nat /\ sessionToken[t].revokedAt \in Nat
  BY TokenRows
<1>1. /\ sessionReq[r].pc = "find" /\ sessionToken' = sessionToken
      /\ \E t \in IF latest = {} THEN {0} ELSE latest :
           sessionReq' = [sessionReq EXCEPT ![r].pc = "insert", ![r].from = t]
  BY DEF Tokens!FindLatestRevoked
<1>2. PICK t \in IF latest = {} THEN {0} ELSE latest :
           sessionReq' = [sessionReq EXCEPT ![r].pc = "insert", ![r].from = t]
  BY <1>1
<1>3. sessionReq' = [sessionReq EXCEPT ![r] = q(t)]
  <2> HIDE DEF latest
  <2> QED
    BY <1>0, <1>2 DEF Tokens!Request
<1>4. t \in Nat /\ (t # 0 => t \in latest)
  <2>1. \A u \in latest : u \in Nat
    BY <1>t
  <2> HIDE DEF latest
  <2> QED
    BY <1>2, <2>1
<1>5. /\ q(t) \in Tokens!Request /\ q(t).pc = "insert" /\ q(t).from = t
      /\ q(t).call = sessionReq[r].call /\ q(t).device = sessionReq[r].device
      /\ q(t).presented = sessionReq[r].presented
      /\ q(t).new = sessionReq[r].new /\ q(t).reply = sessionReq[r].reply
  <2> HIDE DEF latest
  <2> QED
    BY <1>0, <1>4 DEF Tokens!Request, Tokens!Points
<1>6. d = None => latest = {}
  OBVIOUS
<1>7. ASSUME NEW p \in Tokens!Tokens, d # None, sessionToken[p].device = d, LastRevoked(p)
      PROVE  t = p
  <2>1. /\ sessionToken[p].revokedAt # 0
        /\ \A u \in Tokens!Tokens \ {p} : sessionToken[u].revokedAt < sessionToken[p].revokedAt
    BY <1>7 DEF LastRevoked
  <2>2. p \in revoked
    BY <1>7, <2>1
  <2>3. \A u \in revoked : sessionToken[u].revokedAt <= sessionToken[p].revokedAt
    <3> SUFFICES ASSUME NEW u \in revoked
                 PROVE  sessionToken[u].revokedAt <= sessionToken[p].revokedAt
      OBVIOUS
    <3>1. u \in Tokens!Tokens
      OBVIOUS
    <3> HIDE DEF revoked
    <3>2. sessionToken[u].revokedAt \in Nat /\ sessionToken[p].revokedAt \in Nat
      BY <1>t, <3>1
    <3> QED
      BY <2>1, <3>1, <3>2
  <2>4. p \in latest
    BY <2>2, <2>3
  <2>5. t \in latest
    <3> HIDE DEF latest
    <3> QED
      BY <1>2, <2>4
  <2>6. t \in Tokens!Tokens /\ sessionToken[p].revokedAt <= sessionToken[t].revokedAt
    BY <2>2, <2>5
  <2>7. sessionToken[t].revokedAt \in Nat /\ sessionToken[p].revokedAt \in Nat
    BY <1>t, <2>6
  <2> HIDE DEF latest, revoked
  <2> QED
    BY <2>1, <2>6, <2>7
<1>8. ASSUME t # 0
      PROVE  t \in Tokens!Tokens /\ sessionToken[t].revokedAt # 0
  BY <1>4, <1>8
<1>9. d = None => t = 0
  BY <1>2, <1>6
<1> HIDE DEF latest, revoked, q
<1>10. /\ sessionReq' \in [Calls -> Tokens!Request] /\ sessionReq'[r] = q(t)
       /\ \A x \in Calls \ {r} : sessionReq'[x] = sessionReq[x]
  BY <1>3, <1>5, RequestMoved
<1> QED
  BY <1>1, <1>5, <1>7, <1>8, <1>9, <1>10

(* The new token is the one the request answers with, unless there is one to
   link first (issueRefreshToken).                                         *)
LEMMA InsertMoves ==
  ASSUME Tokens!SessionsTypeOK, NEW r \in Calls, Tokens!InsertToken(r)
  PROVE  /\ sessionReq' \in [Calls -> Tokens!Request]
         /\ \A x \in Calls \ {r} : sessionReq'[x] = sessionReq[x]
         /\ sessionReq[r].pc = "insert"
         /\ sessionReq'[r].call = sessionReq[r].call
         /\ sessionReq'[r].device = sessionReq[r].device
         /\ sessionReq'[r].presented = sessionReq[r].presented
         /\ sessionReq'[r].from = sessionReq[r].from
         /\ sessionReq'[r].new = Len(sessionToken) + 1
         /\ IF sessionReq[r].from # 0
            THEN sessionReq'[r].pc = "link" /\ sessionReq'[r].reply = sessionReq[r].reply
            ELSE sessionReq'[r].pc = "done"
<1> DEFINE n == Len(sessionToken) + 1
           q == IF sessionReq[r].from # 0 THEN [sessionReq[r] EXCEPT !.pc = "link", !.new = n]
                ELSE [sessionReq[r] EXCEPT !.pc = "done", !.new = n, !.reply = "ok"]
<1>0. sessionReq[r] \in Tokens!Request /\ sessionReq \in [Calls -> Tokens!Request]
  BY SessionRequests
<1>1. n \in Nat
  BY TokenRows
<1>2. /\ sessionReq[r].pc = "insert"
      /\ sessionReq' = IF sessionReq[r].from # 0
            THEN [sessionReq EXCEPT ![r].pc = "link", ![r].new = n]
            ELSE [sessionReq EXCEPT ![r].pc = "done", ![r].new = n, ![r].reply = "ok"]
  BY DEF Tokens!InsertToken
<1> HIDE DEF n
<1>3. sessionReq' = [sessionReq EXCEPT ![r] = q]
  BY <1>0, <1>2 DEF Tokens!Request
<1>4. /\ q \in Tokens!Request
      /\ q.call = sessionReq[r].call /\ q.device = sessionReq[r].device
      /\ q.presented = sessionReq[r].presented
      /\ q.from = sessionReq[r].from /\ q.new = n
      /\ IF sessionReq[r].from # 0 THEN q.pc = "link" /\ q.reply = sessionReq[r].reply
         ELSE q.pc = "done"
  BY <1>0, <1>1 DEF Tokens!Request, Tokens!Points, Tokens!Replies
<1> HIDE DEF q
<1>5. /\ sessionReq' \in [Calls -> Tokens!Request] /\ sessionReq'[r] = q
      /\ \A x \in Calls \ {r} : sessionReq'[x] = sessionReq[x]
  BY <1>3, <1>4, RequestMoved
<1> QED
  BY <1>2, <1>4, <1>5 DEF n

(* The signals move no request.                                            *)
LEMMA SignalsMoveNothing ==
  ASSUME NEW p, Tokens!Expire(p) \/ Tokens!SetStatus \/ Tokens!RevokeDeviceForUser(p)
  PROVE  sessionReq' = sessionReq
BY DEF Tokens!Expire, Tokens!SetStatus, Tokens!RevokeDeviceForUser

(* Where a request stands is what it is, and every statement leaves it so
   (auth.service.ts, token.service.ts).                                    *)
LEMMA OwnShape ==
  ASSUME Tokens!SessionsTypeOK, SessionsShape, Tokens!RotatedIsRevoked, Tokens!Next,
         NEW r \in Calls,
         \/ \E t \in Tokens!Tokens : Tokens!Refresh(r, t) \/ Tokens!Logout(r, t)
         \/ \E d \in Devices \cup {None} : Tokens!OtpAccepted(r, d)
         \/ \E d \in Devices : Tokens!ValidateTrustedDevice(r, d)
         \/ Tokens!Revoke(r) \/ Tokens!RevokeAllForDevice(r) \/ Tokens!Audit(r)
         \/ Tokens!TouchDevice(r) \/ Tokens!FindLatestRevoked(r) \/ Tokens!InsertToken(r)
         \/ Tokens!LinkToken(r)
  PROVE  /\ sessionReq' \in [Calls -> Tokens!Request]
         /\ \A x \in Calls \ {r} : sessionReq'[x] = sessionReq[x]
         /\ TokenShape(sessionReq'[r], sessionToken')
<1> DEFINE Goal == /\ sessionReq' \in [Calls -> Tokens!Request]
                   /\ \A x \in Calls \ {r} : sessionReq'[x] = sessionReq[x]
                   /\ TokenShape(sessionReq'[r], sessionToken')
<1>g. \A t \in Tokens!Tokens :
        /\ t \in DOMAIN sessionToken' /\ sessionToken'[t].device = sessionToken[t].device
        /\ sessionToken[t].revokedAt # 0 => sessionToken'[t].revokedAt # 0
  BY TokensGrow
<1>o. TokenShape(sessionReq[r], sessionToken) /\ Tokens!Tokens = DOMAIN sessionToken
  BY DEF SessionsShape, Tokens!Tokens
<1>1. ASSUME NEW t \in Tokens!Tokens, Tokens!Refresh(r, t) \/ Tokens!Logout(r, t)
      PROVE  Goal
  <2>1. /\ sessionReq' \in [Calls -> Tokens!Request]
        /\ \A x \in Calls \ {r} : sessionReq'[x] = sessionReq[x]
        /\ sessionReq'[r].pc \in {"revoke", "revokeAll", "done"}
        /\ sessionReq'[r].call \in {"refresh", "logout"}
        /\ sessionReq'[r].presented = t /\ sessionReq'[r].device = sessionToken[t].device
        /\ sessionReq'[r].new = 0 /\ sessionReq'[r].reply # "ok"
    BY <1>1, VerifyMoves
  <2> QED
    BY <1>g, <2>1 DEF TokenShape
<1>2. ASSUME NEW d \in Devices \cup {None},
             Tokens!OtpAccepted(r, d) \/ (d \in Devices /\ Tokens!ValidateTrustedDevice(r, d))
      PROVE  Goal
  <2>1. /\ sessionReq' \in [Calls -> Tokens!Request]
        /\ \A x \in Calls \ {r} : sessionReq'[x] = sessionReq[x]
        /\ \/ sessionReq'[r].pc = "find" /\ sessionReq'[r].call = "otp"
           \/ sessionReq'[r].pc = "touch" /\ sessionReq'[r].call = "trusted" /\ d \in Devices
        /\ sessionReq'[r].device = d
        /\ sessionReq'[r].new = 0 /\ sessionReq'[r].reply # "ok"
    BY <1>2, SignInMoves
  <2> QED
    BY <2>1 DEF TokenShape
<1>3. ASSUME \/ Tokens!Revoke(r) \/ Tokens!RevokeAllForDevice(r) \/ Tokens!Audit(r)
             \/ Tokens!TouchDevice(r) \/ Tokens!LinkToken(r)
      PROVE  Goal
  <2>1. /\ sessionReq' \in [Calls -> Tokens!Request]
        /\ \A x \in Calls \ {r} : sessionReq'[x] = sessionReq[x]
        /\ sessionReq'[r].call = sessionReq[r].call
        /\ sessionReq'[r].device = sessionReq[r].device
        /\ sessionReq'[r].presented = sessionReq[r].presented
        /\ sessionReq'[r].new = sessionReq[r].new
        /\ \/ /\ sessionReq[r].pc = "revoke"
              /\ IF sessionReq[r].call = "refresh"
                 THEN sessionReq'[r].pc = "find" /\ sessionReq'[r].reply = sessionReq[r].reply
                 ELSE sessionReq'[r].pc = "done"
           \/ /\ sessionReq[r].pc = "revokeAll"
              /\ sessionReq'[r].pc = "audit" /\ sessionReq'[r].reply = sessionReq[r].reply
           \/ sessionReq[r].pc = "audit" /\ sessionReq'[r].pc = "done"
           \/ /\ sessionReq[r].pc = "touch"
              /\ sessionReq'[r].pc = "find" /\ sessionReq'[r].reply = sessionReq[r].reply
           \/ sessionReq[r].pc = "link" /\ sessionReq'[r].pc = "done"
    BY <1>3, RequestGoesOn
  <2> QED
    BY <1>g, <1>o, <2>1 DEF TokenShape
<1>4. ASSUME Tokens!FindLatestRevoked(r)
      PROVE  Goal
  <2>1. /\ sessionReq' \in [Calls -> Tokens!Request]
        /\ \A x \in Calls \ {r} : sessionReq'[x] = sessionReq[x]
        /\ sessionReq[r].pc = "find" /\ sessionReq'[r].pc = "insert"
        /\ sessionReq'[r].call = sessionReq[r].call
        /\ sessionReq'[r].device = sessionReq[r].device
        /\ sessionReq'[r].presented = sessionReq[r].presented
        /\ sessionReq'[r].new = sessionReq[r].new
        /\ sessionReq'[r].reply = sessionReq[r].reply
        /\ sessionReq'[r].from # 0 =>
              /\ sessionReq'[r].from \in Tokens!Tokens
              /\ sessionToken[sessionReq'[r].from].revokedAt # 0
    BY <1>4, FindMoves
  <2> QED
    BY <1>g, <1>o, <2>1 DEF TokenShape
<1>5. ASSUME Tokens!InsertToken(r)
      PROVE  Goal
  <2>1. /\ sessionReq' \in [Calls -> Tokens!Request]
        /\ \A x \in Calls \ {r} : sessionReq'[x] = sessionReq[x]
        /\ sessionReq[r].pc = "insert"
        /\ sessionReq'[r].call = sessionReq[r].call
        /\ sessionReq'[r].device = sessionReq[r].device
        /\ sessionReq'[r].presented = sessionReq[r].presented
        /\ sessionReq'[r].from = sessionReq[r].from
        /\ sessionReq'[r].new = Len(sessionToken) + 1
        /\ IF sessionReq[r].from # 0
           THEN sessionReq'[r].pc = "link" /\ sessionReq'[r].reply = sessionReq[r].reply
           ELSE sessionReq'[r].pc = "done"
    BY <1>5, InsertMoves
  <2>2. Len(sessionToken) + 1 \in DOMAIN sessionToken'
    <3> DEFINE n == Len(sessionToken) + 1
    <3> HIDE DEF n
    <3>1. Tokens!Tokens' = Tokens!Tokens \cup {n}
      BY <1>5, InsertWrites DEF n
    <3> QED
      BY <3>1 DEF n, Tokens!Tokens
  <2> QED
    BY <1>g, <1>o, <2>1, <2>2 DEF TokenShape
<1> HIDE DEF Goal
<1>6. ASSUME NEW d \in Devices, Tokens!ValidateTrustedDevice(r, d)
      PROVE  Goal
  <2>1. d \in Devices \cup {None}
    OBVIOUS
  <2> QED
    BY <1>2, <1>6, <2>1
<1>7. ASSUME NEW d \in Devices \cup {None}, Tokens!OtpAccepted(r, d)
      PROVE  Goal
  BY <1>2, <1>7
<1>8. Goal
  BY <1>1, <1>3, <1>4, <1>5, <1>6, <1>7
<1> QED
  BY <1>8 DEF Goal

(* The tables and the requests keep their shape, and a token that has a
   successor stays revoked (token.service.ts, device.service.ts).          *)
LEMMA SessionsTyped ==
  ASSUME Tokens!SessionsTypeOK, SessionsShape, Tokens!RotatedIsRevoked, Tokens!Next
  PROVE  Tokens!SessionsTypeOK' /\ SessionsShape' /\ Tokens!RotatedIsRevoked'
<1>1. /\ sessionToken' \in Seq(Tokens!Token) /\ Len(sessionToken') <= MaxTokens
      /\ \A t \in Tokens!Tokens' : /\ sessionToken'[t].rotatedFrom < t
                                   /\ sessionToken'[t].rotatedTo \in 0 .. Len(sessionToken')
      /\ Tokens!RotatedIsRevoked'
  BY TokensGrow
<1>2. /\ sessionDevice' \in [Devices -> Tokens!DeviceStates]
      /\ sessionActive' \in BOOLEAN
  <2> DEFINE Goal == /\ sessionDevice' \in [Devices -> Tokens!DeviceStates]
                     /\ sessionActive' \in BOOLEAN
  <2>0. sessionDevice \in [Devices -> Tokens!DeviceStates] /\ sessionActive \in BOOLEAN
    BY DEF Tokens!SessionsTypeOK
  <2>1. UNCHANGED <<sessionDevice, sessionActive>> => Goal
    BY <2>0
  <2>2. ASSUME NEW r \in Calls, NEW t, Tokens!Refresh(r, t) \/ Tokens!Logout(r, t)
        PROVE  Goal
    BY <2>1, <2>2 DEF Tokens!Refresh, Tokens!Logout, Tokens!Verify
  <2>3. ASSUME NEW r \in Calls, NEW d \in Devices \cup {None}, Tokens!OtpAccepted(r, d)
        PROVE  Goal
    BY <2>0, <2>3 DEF Tokens!OtpAccepted, Tokens!DeviceStates
  <2>4. ASSUME NEW r \in Calls, NEW d, Tokens!ValidateTrustedDevice(r, d)
        PROVE  Goal
    BY <2>1, <2>4 DEF Tokens!ValidateTrustedDevice
  <2>5. ASSUME NEW r \in Calls,
               \/ Tokens!Revoke(r) \/ Tokens!RevokeAllForDevice(r) \/ Tokens!Audit(r)
                                \/ Tokens!FindLatestRevoked(r) \/ Tokens!InsertToken(r)
                                \/ Tokens!LinkToken(r)
        PROVE  Goal
    BY <2>1, <2>5 DEF Tokens!Revoke, Tokens!RevokeAllForDevice, Tokens!Audit,
                      Tokens!FindLatestRevoked, Tokens!InsertToken, Tokens!LinkToken
  <2>6. ASSUME NEW r \in Calls, Tokens!TouchDevice(r)
        PROVE  Goal
    <3>1. /\ sessionDevice' = [sessionDevice EXCEPT ![sessionReq[r].device] = "trusted"]
          /\ sessionActive' = sessionActive
      BY <2>6 DEF Tokens!TouchDevice
    <3> QED
      BY <2>0, <3>1 DEF Tokens!DeviceStates
  <2>7. ASSUME NEW t, Tokens!Expire(t)
        PROVE  Goal
    BY <2>1, <2>7 DEF Tokens!Expire
  <2>8. ASSUME Tokens!SetStatus
        PROVE  Goal
    BY <2>0, <2>8 DEF Tokens!SetStatus
  <2>9. ASSUME NEW d \in Devices, Tokens!RevokeDeviceForUser(d)
        PROVE  Goal
    BY <2>0, <2>9 DEF Tokens!RevokeDeviceForUser, Tokens!DeviceStates
  <2> HIDE DEF Goal
  <2>10. Goal
    BY <2>2, <2>3, <2>4, <2>5, <2>6, <2>7, <2>8, <2>9 DEF Tokens!Next
  <2> QED
    BY <2>10 DEF Goal
<1>3. \A x \in Calls : TokenShape(sessionReq[x], sessionToken')
  BY ShapeGrows DEF SessionsShape
<1>4. sessionReq' \in [Calls -> Tokens!Request] /\ SessionsShape'
  <2>1. CASE sessionReq' = sessionReq
    BY <1>3, <2>1 DEF Tokens!SessionsTypeOK, SessionsShape
  <2>2. ASSUME NEW r \in Calls,
         \/ \E t \in Tokens!Tokens : Tokens!Refresh(r, t) \/ Tokens!Logout(r, t)
         \/ \E d \in Devices \cup {None} : Tokens!OtpAccepted(r, d)
         \/ \E d \in Devices : Tokens!ValidateTrustedDevice(r, d)
         \/ Tokens!Revoke(r) \/ Tokens!RevokeAllForDevice(r) \/ Tokens!Audit(r)
         \/ Tokens!TouchDevice(r) \/ Tokens!FindLatestRevoked(r) \/ Tokens!InsertToken(r)
         \/ Tokens!LinkToken(r)
        PROVE  sessionReq' \in [Calls -> Tokens!Request] /\ SessionsShape'
    <3>1. /\ sessionReq' \in [Calls -> Tokens!Request]
          /\ \A x \in Calls \ {r} : sessionReq'[x] = sessionReq[x]
          /\ TokenShape(sessionReq'[r], sessionToken')
      BY <2>2, OwnShape
    <3>2. \A x \in Calls : TokenShape(sessionReq'[x], sessionToken')
      BY <1>3, <3>1
    <3> QED
      BY <3>1, <3>2 DEF SessionsShape
  <2> QED
    BY <2>1, <2>2, SignalsMoveNothing DEF Tokens!Next
<1> QED
  BY <1>1, <1>2, <1>4 DEF Tokens!SessionsTypeOK

(* What is known of an exchange stands while its tokens do.                *)
LEMMA ExchangeStands ==
  ASSUME Tokens!SessionsTypeOK, SessionsShape, Tokens!RotatedIsRevoked, Tokens!Next,
         NEW x \in Calls, ExchangeAlone(x), Linked(x), sessionReq'[x] = sessionReq[x],
         \/ sessionReq[x].pc \in {"idle", "done"}
         \/ /\ Tokens!Tokens' = Tokens!Tokens /\ Len(sessionToken') = Len(sessionToken)
            /\ \A t \in Tokens!Tokens : sessionToken'[t].revokedAt = sessionToken[t].revokedAt,
         \A t \in Tokens!Tokens : sessionToken'[t].rotatedTo \in {sessionToken[t].rotatedTo, Len(sessionToken)}
  PROVE  ExchangeAlone(x)' /\ Linked(x)'
<1>1. TokenShape(sessionReq[x], sessionToken) /\ Tokens!Tokens = DOMAIN sessionToken
  BY DEF SessionsShape, Tokens!Tokens
<1>2. \A t \in Tokens!Tokens : /\ t \in Tokens!Tokens'
                               /\ sessionToken'[t].rotatedFrom = sessionToken[t].rotatedFrom
  BY TokensGrow
<1>3. ASSUME sessionReq[x].pc = "find", sessionReq[x].call = "refresh"
      PROVE  LastRevoked(sessionReq[x].presented)'
  <2>1. LastRevoked(sessionReq[x].presented) /\ sessionReq[x].presented \in Tokens!Tokens
    BY <1>1, <1>3 DEF ExchangeAlone, TokenShape
  <2> QED
    BY <1>3, <2>1 DEF LastRevoked
<1>4. ExchangeAlone(x)'
  BY <1>1, <1>2, <1>3 DEF ExchangeAlone, TokenShape
<1>5. Linked(x)'
  <2>1. ASSUME sessionReq[x].call = "refresh", sessionReq[x].reply = "ok",
               sessionReq[x].device # None
        PROVE  /\ sessionToken'[sessionReq[x].new].rotatedFrom = sessionReq[x].presented
               /\ sessionToken'[sessionReq[x].presented].rotatedTo >= sessionReq[x].new
    <3>1. /\ sessionReq[x].new \in Tokens!Tokens /\ sessionReq[x].presented \in Tokens!Tokens
          /\ sessionToken[sessionReq[x].new].rotatedFrom = sessionReq[x].presented
          /\ sessionToken[sessionReq[x].presented].rotatedTo >= sessionReq[x].new
      BY <1>1, <2>1 DEF ExchangeAlone, Linked, TokenShape
    <3>2. Len(sessionToken) \in Nat /\ Tokens!Tokens = 1 .. Len(sessionToken)
      BY TokenRows
    <3>3. Len(sessionToken) >= sessionReq[x].new
      BY <3>1, <3>2
    <3> QED
      BY <1>2, <3>1, <3>3
  <2> QED
    BY <2>1 DEF Linked
<1> QED
  BY <1>4, <1>5

(* With nothing in between, an exchange revokes the token presented, issues
   its successor and links the two (auth.service.ts, token.service.ts).    *)
LEMMA ExchangeKept ==
  ASSUME Tokens!SessionsTypeOK, SessionsShape, Tokens!RotatedIsRevoked, Tokens!Next,
         \A x, y \in Tokens!Serving : x = y, \A x, y \in Tokens!Serving' : x = y,
         \A x \in Calls : ExchangeAlone(x) /\ Linked(x)
  PROVE  \A x \in Calls : ExchangeAlone(x)' /\ Linked(x)'
<1> DEFINE Goal == \A x \in Calls : ExchangeAlone(x)' /\ Linked(x)'
<1>s. ASSUME NEW x \in Calls, sessionReq'[x] = sessionReq[x], sessionToken' = sessionToken
      PROVE  ExchangeAlone(x)' /\ Linked(x)'
  <2>1. Tokens!Tokens' = Tokens!Tokens
    BY <1>s DEF Tokens!Tokens
  <2> QED
    BY <1>s, <2>1, ExchangeStands
<1>o. ASSUME NEW r \in Calls, sessionReq[r].pc \notin {"idle", "done"},
             NEW x \in Calls \ {r}
      PROVE  sessionReq[x].pc \in {"idle", "done"}
  BY <1>o DEF Tokens!Serving
<1>h. /\ \A x \in Calls : /\ TokenShape(sessionReq[x], sessionToken)
                          /\ TokenShape(sessionReq'[x], sessionToken')
      /\ Tokens!Tokens = DOMAIN sessionToken
  BY SessionsTyped DEF SessionsShape, Tokens!Tokens
<1>1. ASSUME NEW r \in Calls, NEW t \in Tokens!Tokens,
             Tokens!Refresh(r, t) \/ Tokens!Logout(r, t)
      PROVE  Goal
  <2>1. /\ \A x \in Calls \ {r} : sessionReq'[x] = sessionReq[x]
        /\ sessionReq'[r].pc \in {"revoke", "revokeAll", "done"}
        /\ sessionReq'[r].reply # "ok" /\ sessionToken' = sessionToken
    BY <1>1, VerifyMoves
  <2>2. ExchangeAlone(r)' /\ Linked(r)'
    BY <2>1 DEF ExchangeAlone, Linked
  <2> QED
    BY <1>s, <2>1, <2>2
<1>2. ASSUME NEW r \in Calls, NEW d \in Devices \cup {None},
             Tokens!OtpAccepted(r, d) \/ (d \in Devices /\ Tokens!ValidateTrustedDevice(r, d))
      PROVE  Goal
  <2>1. /\ \A x \in Calls \ {r} : sessionReq'[x] = sessionReq[x]
        /\ sessionReq'[r].pc \in {"find", "touch"} /\ sessionReq'[r].call # "refresh"
        /\ sessionReq'[r].reply # "ok" /\ sessionToken' = sessionToken
    BY <1>2, SignInMoves
  <2>2. ExchangeAlone(r)' /\ Linked(r)'
    BY <2>1 DEF ExchangeAlone, Linked
  <2> QED
    BY <1>s, <2>1, <2>2
<1>3. ASSUME NEW r \in Calls, Tokens!Audit(r) \/ Tokens!TouchDevice(r)
      PROVE  Goal
  <2>1. /\ \A x \in Calls \ {r} : sessionReq'[x] = sessionReq[x]
        /\ sessionReq'[r].call = sessionReq[r].call /\ sessionToken' = sessionToken
        /\ \/ sessionReq'[r].pc = "done" /\ sessionReq'[r].reply # "ok"
           \/ sessionReq[r].pc = "touch" /\ sessionReq'[r].pc = "find"
    BY <1>3, RequestGoesOn DEF Tokens!Revoke, Tokens!RevokeAllForDevice, Tokens!Audit,
                               Tokens!TouchDevice, Tokens!LinkToken
  <2>2. ExchangeAlone(r)' /\ Linked(r)'
    BY <1>h, <2>1 DEF ExchangeAlone, Linked, TokenShape
  <2> QED
    BY <1>s, <2>1, <2>2
<1>4. ASSUME NEW r \in Calls, Tokens!FindLatestRevoked(r)
      PROVE  Goal
  <2>1. /\ \A x \in Calls \ {r} : sessionReq'[x] = sessionReq[x]
        /\ sessionReq[r].pc = "find" /\ sessionReq'[r].pc = "insert"
        /\ sessionReq'[r].call = sessionReq[r].call
        /\ sessionReq'[r].device = sessionReq[r].device
        /\ sessionReq'[r].presented = sessionReq[r].presented
        /\ sessionReq[r].device = None => sessionReq'[r].from = 0
        /\ \A p \in Tokens!Tokens :
              (/\ sessionReq[r].device # None /\ sessionToken[p].device = sessionReq[r].device
               /\ LastRevoked(p)) => sessionReq'[r].from = p
        /\ sessionToken' = sessionToken
    BY <1>4, FindMoves
  <2>2. ASSUME sessionReq[r].call = "refresh", sessionReq[r].device # None
        PROVE  sessionReq'[r].from = sessionReq[r].presented
    <3>1. /\ LastRevoked(sessionReq[r].presented) /\ sessionReq[r].presented \in Tokens!Tokens
          /\ sessionToken[sessionReq[r].presented].device = sessionReq[r].device
      BY <1>h, <2>1, <2>2 DEF ExchangeAlone, TokenShape
    <3> QED
      BY <2>1, <2>2, <3>1
  <2>3. ExchangeAlone(r)' /\ Linked(r)'
    BY <1>h, <2>1, <2>2 DEF ExchangeAlone, Linked, TokenShape
  <2> QED
    BY <1>s, <2>1, <2>3
<1>5. ASSUME NEW r \in Calls, Tokens!Revoke(r)
      PROVE  Goal
  <2> DEFINE p == sessionReq[r].presented
  <2> HIDE DEF p
  <2>1. /\ \A x \in Calls \ {r} : sessionReq'[x] = sessionReq[x]
        /\ sessionReq'[r].call = sessionReq[r].call /\ sessionReq'[r].presented = p
        /\ sessionReq[r].pc = "revoke"
        /\ \/ sessionReq'[r].pc = "find" /\ sessionReq[r].call = "refresh"
           \/ sessionReq'[r].pc = "done" /\ sessionReq[r].call # "refresh"
    BY <1>5, RequestGoesOn DEF p, Tokens!Revoke, Tokens!RevokeAllForDevice,
                               Tokens!Audit, Tokens!TouchDevice, Tokens!LinkToken
  <2>2. /\ p \in Tokens!Tokens /\ sessionToken' \in Seq(Tokens!Token)
        /\ Len(sessionToken') = Len(sessionToken)
        /\ sessionToken'[p].revokedAt = Tokens!Now
        /\ sessionToken'[p].rotatedTo = sessionToken[p].rotatedTo
        /\ \A u \in Tokens!Tokens \ {p} : sessionToken'[u] = sessionToken[u]
    BY <1>5, RevokeWrites DEF p
  <2>3. Tokens!Tokens' = Tokens!Tokens
    BY <2>2, TokenRows DEF Tokens!Tokens
  <2>4. LastRevoked(p)'
    <3>1. \A u \in Tokens!Tokens \ {p} : sessionToken'[u].revokedAt < sessionToken'[p].revokedAt
      BY <2>2, NowIsLater
    <3>2. sessionToken'[p].revokedAt # 0
      BY <2>2, NowIsLater
    <3> QED
      BY <2>1, <2>3, <3>1, <3>2 DEF LastRevoked, p
  <2>5. ExchangeAlone(r)' /\ Linked(r)'
    <3>1. sessionReq'[r].pc = "find" => LastRevoked(sessionReq[r].presented)'
      BY <2>1, <2>4 DEF LastRevoked, p
    <3> QED
      BY <1>h, <2>1, <3>1 DEF ExchangeAlone, Linked, TokenShape
  <2>6. ASSUME NEW x \in Calls \ {r}
        PROVE  ExchangeAlone(x)' /\ Linked(x)'
    BY <1>o, <2>1, <2>2, <2>6, ExchangeStands
  <2> QED
    BY <2>5, <2>6
<1>6. ASSUME NEW r \in Calls, Tokens!RevokeAllForDevice(r)
      PROVE  Goal
  <2>1. /\ \A x \in Calls \ {r} : sessionReq'[x] = sessionReq[x]
        /\ sessionReq[r].pc = "revokeAll" /\ sessionReq'[r].pc = "audit"
    BY <1>6, RequestGoesOn DEF Tokens!Revoke, Tokens!RevokeAllForDevice, Tokens!Audit,
                               Tokens!TouchDevice, Tokens!LinkToken
  <2>2. ExchangeAlone(r)' /\ Linked(r)'
    BY <1>h, <2>1 DEF ExchangeAlone, Linked, TokenShape
  <2>3. \A t \in Tokens!Tokens : sessionToken'[t].rotatedTo = sessionToken[t].rotatedTo
    BY <1>6, RevokeAllWrites
  <2>4. ASSUME NEW x \in Calls \ {r}
        PROVE  ExchangeAlone(x)' /\ Linked(x)'
    BY <1>o, <2>1, <2>3, <2>4, ExchangeStands
  <2> QED
    BY <2>2, <2>4
<1>7. ASSUME NEW r \in Calls, Tokens!InsertToken(r)
      PROVE  Goal
  <2> DEFINE n == Len(sessionToken) + 1
  <2> HIDE DEF n
  <2>1. /\ \A x \in Calls \ {r} : sessionReq'[x] = sessionReq[x]
        /\ sessionReq[r].pc = "insert"
        /\ sessionReq'[r].call = sessionReq[r].call
        /\ sessionReq'[r].device = sessionReq[r].device
        /\ sessionReq'[r].presented = sessionReq[r].presented
        /\ sessionReq'[r].from = sessionReq[r].from
        /\ sessionReq'[r].new = n
        /\ \/ sessionReq[r].from # 0 /\ sessionReq'[r].pc = "link"
           \/ sessionReq[r].from = 0 /\ sessionReq'[r].pc = "done"
    BY <1>7, InsertMoves DEF n
  <2>2. /\ n \in Tokens!Tokens' /\ Len(sessionToken') = n
        /\ sessionToken'[n].rotatedFrom = sessionReq[r].from
        /\ \A u \in Tokens!Tokens : sessionToken'[u] = sessionToken[u]
    BY <1>7, InsertWrites DEF n
  <2>3. ASSUME sessionReq[r].call = "refresh", sessionReq[r].device # None
        PROVE  sessionReq[r].from # 0
    <3>1. /\ sessionReq[r].from = sessionReq[r].presented
          /\ sessionReq[r].presented \in Tokens!Tokens
      BY <1>h, <2>1, <2>3 DEF ExchangeAlone, TokenShape
    <3>2. \A t \in Tokens!Tokens : t # 0
      BY TokenRows
    <3> QED
      BY <3>1, <3>2
  <2>4. ExchangeAlone(r)' /\ Linked(r)'
    BY <1>h, <2>1, <2>2, <2>3 DEF ExchangeAlone, Linked, TokenShape
  <2>5. ASSUME NEW x \in Calls \ {r}
        PROVE  ExchangeAlone(x)' /\ Linked(x)'
    BY <1>o, <2>1, <2>2, <2>5, ExchangeStands
  <2> QED
    BY <2>4, <2>5
<1>8. ASSUME NEW r \in Calls, Tokens!LinkToken(r)
      PROVE  Goal
  <2> DEFINE p == sessionReq[r].from
             n == sessionReq[r].new
  <2> HIDE DEF p, n
  <2>1. /\ \A x \in Calls \ {r} : sessionReq'[x] = sessionReq[x]
        /\ sessionReq[r].pc = "link" /\ sessionReq'[r].pc = "done"
        /\ sessionReq'[r].call = sessionReq[r].call
        /\ sessionReq'[r].device = sessionReq[r].device
        /\ sessionReq'[r].presented = sessionReq[r].presented
        /\ sessionReq'[r].new = n
    BY <1>8, RequestGoesOn DEF n, Tokens!Revoke, Tokens!RevokeAllForDevice,
                               Tokens!Audit, Tokens!TouchDevice, Tokens!LinkToken
  <2>2. /\ p \in Tokens!Tokens /\ n \in Tokens!Tokens
        /\ sessionToken' \in Seq(Tokens!Token) /\ Len(sessionToken') = Len(sessionToken)
        /\ sessionToken'[p].rotatedTo = n
        /\ sessionToken'[p].rotatedFrom = sessionToken[p].rotatedFrom
        /\ \A u \in Tokens!Tokens \ {p} : sessionToken'[u] = sessionToken[u]
    BY <1>8, LinkWrites DEF p, n
  <2>3. Tokens!Tokens' = Tokens!Tokens /\ n \in Nat
    BY <2>2, TokenRows DEF Tokens!Tokens
  <2>4. /\ n = Len(sessionToken) /\ sessionToken[n].rotatedFrom = p
        /\ IF sessionReq[r].device = None THEN p = 0
           ELSE sessionReq[r].call = "refresh" => p = sessionReq[r].presented
    BY <2>1 DEF ExchangeAlone, p, n
  <2>5. sessionToken'[n].rotatedFrom = p
    BY <2>2, <2>4
  <2>6. ExchangeAlone(r)' /\ Linked(r)'
    BY <2>1, <2>2, <2>3, <2>4, <2>5 DEF ExchangeAlone, Linked
  <2>7. ASSUME NEW x \in Calls \ {r}
        PROVE  ExchangeAlone(x)' /\ Linked(x)'
    BY <1>o, <2>1, <2>2, <2>4, <2>7, ExchangeStands
  <2> QED
    BY <2>6, <2>7
<1>9. ASSUME NEW p \in Tokens!Tokens, Tokens!Expire(p)
      PROVE  Goal
  <2>1. /\ sessionToken' \in Seq(Tokens!Token) /\ Len(sessionToken') = Len(sessionToken)
        /\ sessionToken'[p].rotatedTo = sessionToken[p].rotatedTo
        /\ sessionToken'[p].revokedAt = sessionToken[p].revokedAt
        /\ \A u \in Tokens!Tokens \ {p} : sessionToken'[u] = sessionToken[u]
        /\ sessionReq' = sessionReq
    BY <1>9, ExpireWrites, SignalsMoveNothing
  <2>2. Tokens!Tokens' = Tokens!Tokens
    BY <2>1, TokenRows DEF Tokens!Tokens
  <2>3. \A t \in Tokens!Tokens : /\ sessionToken'[t].revokedAt = sessionToken[t].revokedAt
                                 /\ sessionToken'[t].rotatedTo = sessionToken[t].rotatedTo
    BY <2>1
  <2> QED
    BY <2>1, <2>2, <2>3, ExchangeStands
<1>10. ASSUME NEW d, Tokens!SetStatus \/ Tokens!RevokeDeviceForUser(d)
       PROVE  Goal
  <2>1. sessionToken' = sessionToken /\ sessionReq' = sessionReq
    BY <1>10 DEF Tokens!SetStatus, Tokens!RevokeDeviceForUser
  <2> QED
    BY <1>s, <2>1
<1>11. ASSUME NEW r \in Calls, NEW d \in Devices, Tokens!ValidateTrustedDevice(r, d)
       PROVE  Goal
  <2>1. d \in Devices \cup {None}
    OBVIOUS
  <2> QED
    BY <1>2, <1>11, <2>1
<1>12. ASSUME NEW r \in Calls, NEW d \in Devices \cup {None}, Tokens!OtpAccepted(r, d)
       PROVE  Goal
  BY <1>2, <1>12
<1> HIDE DEF Goal
<1>13. Goal
  BY <1>1, <1>3, <1>4, <1>5, <1>6, <1>7, <1>8, <1>9, <1>10, <1>11, <1>12 DEF Tokens!Next
<1> QED
  BY <1>13 DEF Goal

(* The live tokens of a device, and its sign-ins, can be counted.          *)
LEMMA LiveFinite ==
  ASSUME Tokens!SessionsTypeOK, NEW d
  PROVE  /\ IsFiniteSet(LiveOn(d)) /\ Cardinality(LiveOn(d)) \in Nat
         /\ IsFiniteSet(Tokens!SignIns(d)) /\ Cardinality(Tokens!SignIns(d)) \in Nat
<1>1. LiveOn(d) \in SUBSET (1 .. Len(sessionToken)) /\ Len(sessionToken) \in Nat
  BY TokenRows DEF LiveOn, Tokens!Live
<1>2. IsFiniteSet(1 .. Len(sessionToken))
  BY <1>1, FS_Interval
<1>3. IsFiniteSet(LiveOn(d))
  BY <1>1, <1>2, FS_Subset
<1>4. Tokens!SignIns(d) \in SUBSET Calls
  BY DEF Tokens!SignIns
<1>5. IsFiniteSet(Tokens!SignIns(d))
  BY <1>4, SignInAssumption, FS_Subset
<1> QED
  BY <1>3, <1>5, FS_CardinalityType

(* Only a new token is live that was not (token.service.ts).               *)
LEMMA LiveOnlyShrinks ==
  ASSUME Tokens!SessionsTypeOK, SessionsShape, Tokens!RotatedIsRevoked, Tokens!Next,
         \A r \in Calls : ~Tokens!InsertToken(r)
  PROVE  /\ Tokens!Tokens' = Tokens!Tokens
         /\ Tokens!Live' \subseteq Tokens!Live
         /\ \A d : LiveOn(d)' \subseteq LiveOn(d) /\ Tokens!Scope(d)' \subseteq Tokens!Scope(d)
<1> DEFINE Goal == /\ sessionToken' \in Seq(Tokens!Token) /\ Len(sessionToken') = Len(sessionToken)
                   /\ \A t \in Tokens!Tokens :
                        /\ sessionToken'[t].revokedAt = 0 => sessionToken[t].revokedAt = 0
                        /\ sessionToken[t].expired => sessionToken'[t].expired
<1>0. ASSUME UNCHANGED sessionToken
      PROVE  Goal
  BY <1>0, TokenRows
<1>1. ASSUME NEW r \in Calls, Tokens!Revoke(r)
      PROVE  Goal
  BY <1>1, RevokeWrites, NowIsLater
<1>2. ASSUME NEW r \in Calls, Tokens!RevokeAllForDevice(r)
      PROVE  Goal
  BY <1>2, RevokeAllWrites, NowIsLater
<1>3. ASSUME NEW r \in Calls, Tokens!LinkToken(r)
      PROVE  Goal
  BY <1>3, LinkWrites
<1>4. ASSUME NEW p \in Tokens!Tokens, Tokens!Expire(p)
      PROVE  Goal
  BY <1>4, ExpireWrites
<1> HIDE DEF Goal
<1>5. Goal
  BY <1>0, <1>1, <1>2, <1>3, <1>4, TokenWriters
<1>6. Tokens!Tokens' = Tokens!Tokens
  BY <1>5, TokenRows DEF Goal, Tokens!Tokens
<1>7. \A t \in Tokens!Tokens : sessionToken'[t].device = sessionToken[t].device
  BY TokensGrow
<1>8. Tokens!Live' \subseteq Tokens!Live
  BY <1>5, <1>6 DEF Goal, Tokens!Live
<1>9. ASSUME NEW d
      PROVE  LiveOn(d)' \subseteq LiveOn(d) /\ Tokens!Scope(d)' \subseteq Tokens!Scope(d)
  <2>1. \A t \in Tokens!Live' : t \in Tokens!Tokens
    BY <1>6 DEF Tokens!Live
  <2> QED
    BY <1>6, <1>7, <1>8, <2>1 DEF LiveOn, Tokens!Scope
<1> QED
  BY <1>6, <1>8, <1>9

(* Only a token that is issued counts another sign-in.                     *)
LEMMA SignInsStand ==
  ASSUME Tokens!SessionsTypeOK, SessionsShape, Tokens!Next,
         \A r \in Calls : ~Tokens!InsertToken(r)
  PROVE  \A d : Tokens!SignIns(d)' = Tokens!SignIns(d)
<1> DEFINE Goal == \A x \in Calls :
              \/ sessionReq[x].new = 0 /\ sessionReq'[x].new = 0
              \/ /\ sessionReq'[x].new = sessionReq[x].new /\ sessionReq'[x].call = sessionReq[x].call
                 /\ sessionReq'[x].device = sessionReq[x].device
<1>1. ASSUME NEW r \in Calls, NEW t \in Tokens!Tokens,
             Tokens!Refresh(r, t) \/ Tokens!Logout(r, t)
      PROVE  Goal
  <2>1. /\ \A x \in Calls \ {r} : sessionReq'[x] = sessionReq[x]
        /\ sessionReq[r].pc = "idle" /\ sessionReq'[r].new = 0
    BY <1>1, VerifyMoves
  <2> QED
    BY <2>1 DEF SessionsShape, TokenShape
<1>2. ASSUME NEW r \in Calls, NEW d \in Devices \cup {None},
             Tokens!OtpAccepted(r, d) \/ (d \in Devices /\ Tokens!ValidateTrustedDevice(r, d))
      PROVE  Goal
  <2>1. /\ \A x \in Calls \ {r} : sessionReq'[x] = sessionReq[x]
        /\ sessionReq[r].pc = "idle" /\ sessionReq'[r].new = 0
    BY <1>2, SignInMoves
  <2> QED
    BY <2>1 DEF SessionsShape, TokenShape
<1>3. ASSUME NEW r \in Calls,
             \/ Tokens!Revoke(r) \/ Tokens!RevokeAllForDevice(r) \/ Tokens!Audit(r)
                              \/ Tokens!TouchDevice(r) \/ Tokens!LinkToken(r)
      PROVE  Goal
  BY <1>3, RequestGoesOn
<1>4. ASSUME NEW r \in Calls, Tokens!FindLatestRevoked(r)
      PROVE  Goal
  BY <1>4, FindMoves
<1>5. ASSUME NEW r \in Calls, NEW d \in Devices, Tokens!ValidateTrustedDevice(r, d)
      PROVE  Goal
  <2>1. d \in Devices \cup {None}
    OBVIOUS
  <2> QED
    BY <1>2, <1>5, <2>1
<1>6. ASSUME NEW r \in Calls, NEW d \in Devices \cup {None}, Tokens!OtpAccepted(r, d)
      PROVE  Goal
  BY <1>2, <1>6
<1>7. sessionReq' = sessionReq => Goal
  OBVIOUS
<1> HIDE DEF Goal
<1>8. Goal
  BY <1>1, <1>3, <1>4, <1>5, <1>6, <1>7, SignalsMoveNothing DEF Tokens!Next
<1> QED
  BY <1>8 DEF Goal, Tokens!SignIns

(* A device that gains no live token and loses no sign-in stays within
   what it may have.                                                       *)
LEMMA DeviceStands ==
  ASSUME Tokens!SessionsTypeOK, NEW d,
         Tokens!Tokens' = Tokens!Tokens, Tokens!Live' \subseteq Tokens!Live,
         LiveOn(d)' \subseteq LiveOn(d), Tokens!Scope(d)' \subseteq Tokens!Scope(d),
         Tokens!SignIns(d)' = Tokens!SignIns(d)
  PROVE  /\ \A p : Cardinality(LiveOn(d)' \ {p}) \in Nat /\ Cardinality(LiveOn(d) \ {p}) \in Nat
         /\ \A p : Cardinality(LiveOn(d)' \ {p}) <= Cardinality(LiveOn(d) \ {p})
         /\ Cardinality(LiveOn(d)') \in Nat
         /\ Cardinality(LiveOn(d)') <= Cardinality(LiveOn(d))
         /\ \A x \in Calls : sessionReq'[x] = sessionReq[x] /\ DeviceAlone(x, d) => DeviceAlone(x, d)'
<1>1. /\ IsFiniteSet(LiveOn(d)) /\ Cardinality(LiveOn(d)) \in Nat
      /\ IsFiniteSet(Tokens!SignIns(d)) /\ Cardinality(Tokens!SignIns(d)) \in Nat
  BY LiveFinite
<1>2. IsFiniteSet(LiveOn(d)') /\ Cardinality(LiveOn(d)') \in Nat
      /\ Cardinality(LiveOn(d)') <= Cardinality(LiveOn(d))
  BY <1>1, FS_Subset, FS_CardinalityType
<1>3. ASSUME NEW p
      PROVE  /\ Cardinality(LiveOn(d)' \ {p}) \in Nat
             /\ Cardinality(LiveOn(d) \ {p}) \in Nat
             /\ Cardinality(LiveOn(d)' \ {p}) <= Cardinality(LiveOn(d) \ {p})
  <2>1. IsFiniteSet(LiveOn(d) \ {p})
    BY <1>1, FS_Subset, LiveOn(d) \ {p} \subseteq LiveOn(d)
  <2>2. LiveOn(d)' \ {p} \subseteq LiveOn(d) \ {p}
    OBVIOUS
  <2> QED
    BY <2>1, <2>2, FS_Subset, FS_CardinalityType
<1>4. ASSUME NEW x \in Calls, sessionReq'[x] = sessionReq[x], DeviceAlone(x, d)
      PROVE  DeviceAlone(x, d)'
  <2>1. sessionReq[x].pc = "audit" => Tokens!Scope(d)' \cap Tokens!Live' = {}
    BY <1>4 DEF DeviceAlone
  <2>2. ASSUME sessionReq[x].call = "refresh", sessionReq[x].pc = "revoke",
               NEW p \in Tokens!Tokens, sessionReq[x].presented = p
        PROVE  Spare(d, LiveOn(d) \ {p})'
    <3>1. Cardinality(LiveOn(d) \ {p}) + 1 <= Cardinality(Tokens!SignIns(d))
      BY <1>4, <2>2 DEF DeviceAlone, Spare
    <3>2. Cardinality(LiveOn(d)' \ {p}) + 1 <= Cardinality(Tokens!SignIns(d))
      <4>1. /\ Cardinality(LiveOn(d)' \ {p}) \in Nat /\ Cardinality(LiveOn(d) \ {p}) \in Nat
            /\ Cardinality(LiveOn(d)' \ {p}) <= Cardinality(LiveOn(d) \ {p})
        BY <1>3
      <4> DEFINE a == Cardinality(LiveOn(d)' \ {p})
                 b == Cardinality(LiveOn(d) \ {p})
                 c == Cardinality(Tokens!SignIns(d))
      <4>2. a \in Nat /\ b \in Nat /\ c \in Nat /\ a <= b /\ b + 1 <= c
        BY <1>1, <3>1, <4>1
      <4> HIDE DEF a, b, c
      <4>3. a + 1 <= c
        BY <4>2
      <4> QED
        BY <4>3 DEF a, c
    <3> QED
      BY <3>2 DEF Spare
  <2>3. sessionReq[x].call = "refresh" /\ sessionReq[x].pc \in {"find", "insert"} =>
          Spare(d, LiveOn(d))'
    BY <1>1, <1>2, <1>4 DEF DeviceAlone, Spare
  <2> QED
    BY <1>4, <2>1, <2>2, <2>3 DEF DeviceAlone
<1> QED
  BY <1>2, <1>3, <1>4

(* A token that takes the place of another, or comes with a sign-in, leaves
   its device within what it may have (issueRefreshToken).                 *)
LEMMA IssueWithin ==
  ASSUME Tokens!SessionsTypeOK, SessionsShape, LiveWithin,
         NEW r \in Calls, Tokens!InsertToken(r),
         \A d \in Devices \cup {None} : sessionReq[r].device = d => DeviceAlone(r, d)
  PROVE  LiveWithin'
<1> DEFINE n == Len(sessionToken) + 1
           e == sessionReq[r].device
<1> HIDE DEF n, e
<1>1. /\ n \in Nat /\ n \notin Tokens!Tokens
      /\ Tokens!Tokens' = Tokens!Tokens \cup {n}
      /\ sessionToken'[n].device = e
      /\ sessionToken'[n].revokedAt = 0 /\ ~sessionToken'[n].expired
      /\ \A u \in Tokens!Tokens : sessionToken'[u] = sessionToken[u]
  BY InsertWrites DEF n, e
<1>2. /\ \A x \in Calls \ {r} : sessionReq'[x] = sessionReq[x]
      /\ sessionReq[r].pc = "insert"
      /\ sessionReq'[r].call = sessionReq[r].call
      /\ sessionReq'[r].device = e /\ sessionReq'[r].new = n
  BY InsertMoves DEF n, e
<1>3. n # 0 /\ e \in Devices \cup {None} /\ sessionReq[r].new = 0
      /\ sessionReq[r].call \in {"refresh", "trusted", "otp"}
  <2>1. sessionReq[r].new = 0 /\ sessionReq[r].call \in {"refresh", "trusted", "otp"}
    BY <1>2 DEF SessionsShape, TokenShape
  <2>2. n # 0
    BY TokenRows DEF n
  <2> QED
    BY <2>1, <2>2, SessionRequests DEF e
<1>4. ASSUME NEW d
      PROVE  LiveOn(d)' = IF d = e THEN LiveOn(d) \cup {n} ELSE LiveOn(d)
  BY <1>1 DEF LiveOn, Tokens!Live
<1>5. n \notin LiveOn(e)
  BY <1>1 DEF LiveOn, Tokens!Live
<1>6. Cardinality(LiveOn(e) \cup {n}) = Cardinality(LiveOn(e)) + 1
  BY <1>5, LiveFinite, FS_AddElement
<1>7. CASE sessionReq[r].call = "refresh"
  <2>1. ASSUME NEW d
        PROVE  Tokens!SignIns(d)' = Tokens!SignIns(d)
    BY <1>2, <1>7 DEF Tokens!SignIns
  <2>2. Cardinality(LiveOn(e)) + 1 <= Cardinality(Tokens!SignIns(e))
    <3>1. DeviceAlone(r, e)
      BY <1>3 DEF e
    <3> QED
      BY <1>2, <1>7, <3>1 DEF DeviceAlone, Spare
  <2>3. ASSUME NEW d \in Devices \cup {None}
        PROVE  Cardinality(LiveOn(d)') <= Cardinality(Tokens!SignIns(d)')
    <3>1. CASE d = e
      BY <1>4, <1>6, <2>1, <2>2, <3>1
    <3>2. CASE d # e
      BY <1>4, <2>1, <3>2 DEF LiveWithin
    <3> QED
      BY <3>1, <3>2
  <2> QED
    BY <2>3 DEF LiveWithin
<1>8. CASE sessionReq[r].call \in {"trusted", "otp"}
  <2>1. ASSUME NEW d
        PROVE  Tokens!SignIns(d)' = IF d = e THEN Tokens!SignIns(d) \cup {r} ELSE Tokens!SignIns(d)
    BY <1>2, <1>3, <1>8 DEF Tokens!SignIns, e
  <2>2. r \notin Tokens!SignIns(e)
    BY <1>3 DEF Tokens!SignIns
  <2>3. Cardinality(Tokens!SignIns(e) \cup {r}) = Cardinality(Tokens!SignIns(e)) + 1
    BY <2>2, LiveFinite, FS_AddElement
  <2>4. ASSUME NEW d \in Devices \cup {None}
        PROVE  Cardinality(LiveOn(d)') <= Cardinality(Tokens!SignIns(d)')
    <3>1. CASE d = e
      <4> DEFINE a == Cardinality(LiveOn(e))
                 b == Cardinality(Tokens!SignIns(e))
      <4>1. a \in Nat /\ b \in Nat /\ a <= b
        BY <1>3, LiveFinite DEF LiveWithin
      <4>2. Cardinality(LiveOn(d)') = a + 1 /\ Cardinality(Tokens!SignIns(d)') = b + 1
        BY <1>4, <1>6, <2>1, <2>3, <3>1
      <4> HIDE DEF a, b
      <4> QED
        BY <4>1, <4>2
    <3>2. CASE d # e
      BY <1>4, <2>1, <3>2 DEF LiveWithin
    <3> QED
      BY <3>1, <3>2
  <2> QED
    BY <2>4 DEF LiveWithin
<1> QED
  BY <1>3, <1>7, <1>8

(* With nothing in between, an exchange leaves its device within what it may
   have, and a reuse leaves it nothing (auth.service.ts).                  *)
LEMMA DeviceKept ==
  ASSUME Tokens!SessionsTypeOK, SessionsShape, Tokens!RotatedIsRevoked, Tokens!Next,
         \A x, y \in Tokens!Serving : x = y, LiveWithin,
         \A x \in Calls, d \in Devices \cup {None} : sessionReq[x].device = d => DeviceAlone(x, d)
  PROVE  /\ LiveWithin'
         /\ \A x \in Calls, d \in Devices \cup {None} : sessionReq'[x].device = d => DeviceAlone(x, d)'
<1> DEFINE Goal == /\ LiveWithin'
                   /\ \A x \in Calls, d \in Devices \cup {None} :
                        sessionReq'[x].device = d => DeviceAlone(x, d)'
<1>1. ASSUME NEW r \in Calls, Tokens!InsertToken(r)
      PROVE  Goal
  <2>1. LiveWithin'
    BY <1>1, IssueWithin
  <2>2. /\ \A x \in Calls \ {r} : sessionReq'[x] = sessionReq[x]
        /\ sessionReq[r].pc = "insert" /\ sessionReq'[r].pc \in {"link", "done"}
    BY <1>1, InsertMoves
  <2>3. \A x \in Calls : sessionReq'[x].pc \in {"idle", "link", "done"}
    BY <2>2 DEF Tokens!Serving
  <2>4. ASSUME NEW x \in Calls, NEW d
        PROVE  DeviceAlone(x, d)'
    BY <2>3 DEF DeviceAlone
  <2> QED
    BY <2>1, <2>4
<1>2. ASSUME \A r \in Calls : ~Tokens!InsertToken(r)
      PROVE  Goal
  <2>l. /\ Tokens!Tokens' = Tokens!Tokens /\ Tokens!Live' \subseteq Tokens!Live
        /\ \A d : /\ LiveOn(d)' \subseteq LiveOn(d) /\ Tokens!Scope(d)' \subseteq Tokens!Scope(d)
                  /\ Tokens!SignIns(d)' = Tokens!SignIns(d)
    BY <1>2, LiveOnlyShrinks, SignInsStand
  <2>f. ASSUME NEW d
        PROVE  Cardinality(LiveOn(d)) \in Nat /\ Cardinality(Tokens!SignIns(d)) \in Nat
    BY LiveFinite
  <2>c. ASSUME NEW d
        PROVE  /\ \A p : /\ Cardinality(LiveOn(d)' \ {p}) \in Nat
                         /\ Cardinality(LiveOn(d) \ {p}) \in Nat
                         /\ Cardinality(LiveOn(d)' \ {p}) <= Cardinality(LiveOn(d) \ {p})
               /\ Cardinality(LiveOn(d)') \in Nat
               /\ Cardinality(LiveOn(d)') <= Cardinality(LiveOn(d))
               /\ \A x \in Calls : sessionReq'[x] = sessionReq[x] /\ DeviceAlone(x, d) => DeviceAlone(x, d)'
    BY <2>l, DeviceStands
  <2>w. LiveWithin'
    <3> SUFFICES ASSUME NEW d \in Devices \cup {None}
                 PROVE  Cardinality(LiveOn(d)') <= Cardinality(Tokens!SignIns(d)')
      BY DEF LiveWithin
    <3> DEFINE a == Cardinality(LiveOn(d)')
               b == Cardinality(LiveOn(d))
               c == Cardinality(Tokens!SignIns(d))
    <3>1. a \in Nat /\ b \in Nat /\ c \in Nat /\ a <= b /\ b <= c
      BY <2>c, <2>f DEF LiveWithin
    <3>2. Tokens!SignIns(d)' = Tokens!SignIns(d)
      BY <2>l
    <3> HIDE DEF a, b
    <3>3. a <= c
      <4> HIDE DEF c
      <4> QED
        BY <3>1
    <3> QED
      BY <3>2, <3>3 DEF a
  <2>o. ASSUME NEW r \in Calls, \A x \in Calls \ {r} : sessionReq'[x] = sessionReq[x],
               \A d \in Devices \cup {None} : sessionReq'[r].device = d => DeviceAlone(r, d)'
        PROVE  Goal
    <3>1. ASSUME NEW x \in Calls, NEW d \in Devices \cup {None}, sessionReq'[x].device = d
          PROVE  DeviceAlone(x, d)'
      <4>1. CASE x = r
        BY <2>o, <3>1, <4>1
      <4>2. CASE x # r
        BY <2>c, <2>o, <3>1, <4>2
      <4> QED
        BY <4>1, <4>2
    <3> QED
      BY <2>w, <3>1
  <2>t. ASSUME NEW r \in Calls, \A x \in Calls \ {r} : sessionReq'[x] = sessionReq[x],
               \/ sessionReq'[r].pc \in {"idle", "revokeAll", "link", "touch", "done"}
               \/ sessionReq'[r].pc # "audit" /\ sessionReq'[r].call # "refresh"
        PROVE  Goal
    <3>1. ASSUME NEW d
          PROVE  DeviceAlone(r, d)'
      BY <2>t DEF DeviceAlone
    <3> QED
      BY <2>o, <2>t, <3>1
  <2>h. ASSUME NEW x \in Calls
        PROVE  TokenShape(sessionReq[x], sessionToken)
    BY DEF SessionsShape
  <2>1. ASSUME NEW r \in Calls, NEW t \in Tokens!Tokens,
               Tokens!Refresh(r, t) \/ Tokens!Logout(r, t)
        PROVE  Goal
    <3>1. /\ \A x \in Calls \ {r} : sessionReq'[x] = sessionReq[x]
          /\ sessionReq'[r].pc \in {"revoke", "revokeAll", "done"}
          /\ sessionReq'[r].presented = t
          /\ sessionReq'[r].device = sessionToken[t].device
          /\ sessionReq'[r].pc = "revoke" => t \in Tokens!Live
      BY <2>1, VerifyMoves
    <3>2. CASE sessionReq'[r].pc = "revoke"
      <4>1. ASSUME NEW d \in Devices \cup {None}, sessionReq'[r].device = d
            PROVE  DeviceAlone(r, d)'
        <5>1. t \in LiveOn(d)
          BY <3>1, <3>2, <4>1 DEF LiveOn
        <5>2. /\ IsFiniteSet(LiveOn(d) \ {t})
              /\ Cardinality(LiveOn(d) \ {t}) = Cardinality(LiveOn(d)) - 1
          BY <5>1, LiveFinite, FS_RemoveElement
        <5> DEFINE a == Cardinality(LiveOn(d)' \ {t})
                   b == Cardinality(LiveOn(d) \ {t})
                   c == Cardinality(LiveOn(d))
                   s == Cardinality(Tokens!SignIns(d))
        <5>3. /\ a \in Nat
              /\ b \in Nat
              /\ c \in Nat
              /\ s \in Nat
              /\ a <= b
              /\ b = c - 1
              /\ c <= s
          BY <2>c, <2>f, <5>2 DEF LiveWithin
        <5> HIDE DEF a, b, c, s
        <5>4. a + 1 <= s
          BY <5>3
        <5>5. Cardinality(LiveOn(d)' \ {t}) + 1 <= Cardinality(Tokens!SignIns(d)')
          <6>1. Tokens!SignIns(d)' = Tokens!SignIns(d)
            BY <2>l
          <6> QED
            BY <5>4, <6>1 DEF a, s
        <5> QED
          BY <3>1, <3>2, <5>5 DEF DeviceAlone, Spare
      <4> QED
        BY <2>o, <3>1, <4>1
    <3> QED
      BY <2>t, <3>1, <3>2
  <2>2. ASSUME NEW r \in Calls, NEW d \in Devices \cup {None},
               Tokens!OtpAccepted(r, d) \/ (d \in Devices /\ Tokens!ValidateTrustedDevice(r, d))
        PROVE  Goal
    <3>1. /\ \A x \in Calls \ {r} : sessionReq'[x] = sessionReq[x]
          /\ sessionReq'[r].pc \in {"find", "touch"} /\ sessionReq'[r].call # "refresh"
      BY <2>2, SignInMoves
    <3> QED
      BY <2>t, <3>1
  <2>3. ASSUME NEW r \in Calls,
               Tokens!Audit(r) \/ Tokens!TouchDevice(r) \/ Tokens!LinkToken(r)
        PROVE  Goal
    <3>1. /\ \A x \in Calls \ {r} : sessionReq'[x] = sessionReq[x]
          /\ sessionReq'[r].call = sessionReq[r].call
          /\ \/ sessionReq'[r].pc = "done"
             \/ sessionReq[r].pc = "touch" /\ sessionReq'[r].pc = "find"
      BY <2>3, RequestGoesOn DEF Tokens!Revoke, Tokens!RevokeAllForDevice, Tokens!Audit,
                                 Tokens!TouchDevice, Tokens!LinkToken
    <3> QED
      BY <2>h, <2>t, <3>1 DEF TokenShape
  <2>4. ASSUME NEW r \in Calls, Tokens!FindLatestRevoked(r)
        PROVE  Goal
    <3>1. /\ \A x \in Calls \ {r} : sessionReq'[x] = sessionReq[x]
          /\ sessionReq[r].pc = "find" /\ sessionReq'[r].pc = "insert"
          /\ sessionReq'[r].call = sessionReq[r].call
          /\ sessionReq'[r].device = sessionReq[r].device
      BY <2>4, FindMoves
    <3>2. ASSUME NEW d \in Devices \cup {None}, sessionReq'[r].device = d,
                 sessionReq[r].call = "refresh"
          PROVE  Spare(d, LiveOn(d))'
      <4> DEFINE a == Cardinality(LiveOn(d)')
                 b == Cardinality(LiveOn(d))
                 s == Cardinality(Tokens!SignIns(d))
      <4>1. a \in Nat /\ b \in Nat /\ s \in Nat /\ a <= b /\ b + 1 <= s
        BY <2>c, <2>f, <3>1, <3>2 DEF DeviceAlone, Spare
      <4>2. Tokens!SignIns(d)' = Tokens!SignIns(d)
        BY <2>l
      <4> HIDE DEF a, b, s
      <4>3. a + 1 <= s
        BY <4>1
      <4> QED
        BY <4>2, <4>3 DEF Spare, a, s
    <3>3. ASSUME NEW d \in Devices \cup {None}, sessionReq'[r].device = d
          PROVE  DeviceAlone(r, d)'
      BY <3>1, <3>2, <3>3 DEF DeviceAlone
    <3> QED
      BY <2>o, <3>1, <3>3
  <2>5. ASSUME NEW r \in Calls, Tokens!Revoke(r)
        PROVE  Goal
    <3> DEFINE p == sessionReq[r].presented
    <3> HIDE DEF p
    <3>1. /\ \A x \in Calls \ {r} : sessionReq'[x] = sessionReq[x]
          /\ sessionReq[r].pc = "revoke"
          /\ sessionReq'[r].device = sessionReq[r].device
          /\ \/ sessionReq'[r].pc = "find" /\ sessionReq[r].call = "refresh"
             \/ sessionReq'[r].pc = "done"
      BY <2>5, RequestGoesOn DEF Tokens!Revoke, Tokens!RevokeAllForDevice, Tokens!Audit,
                                 Tokens!TouchDevice, Tokens!LinkToken
    <3>2. p \in Tokens!Tokens /\ sessionToken'[p].revokedAt # 0
      BY <2>5, RevokeWrites, NowIsLater DEF p
    <3>3. ASSUME NEW d \in Devices \cup {None}, sessionReq'[r].device = d,
                 sessionReq[r].call = "refresh"
          PROVE  Spare(d, LiveOn(d))'
      <4>1. LiveOn(d)' \ {p} = LiveOn(d)'
        BY <3>2 DEF LiveOn, Tokens!Live
      <4> DEFINE a == Cardinality(LiveOn(d)' \ {p})
                 b == Cardinality(LiveOn(d) \ {p})
                 s == Cardinality(Tokens!SignIns(d))
      <4>2. b + 1 <= s
        BY <3>1, <3>2, <3>3 DEF DeviceAlone, Spare, p
      <4>3. a \in Nat /\ b \in Nat /\ s \in Nat /\ a <= b
        BY <2>c, <2>f
      <4>4. Tokens!SignIns(d)' = Tokens!SignIns(d)
        BY <2>l
      <4> HIDE DEF a, b, s
      <4>5. a + 1 <= s
        BY <4>2, <4>3
      <4> QED
        BY <4>1, <4>4, <4>5 DEF Spare, a, s
    <3>4. ASSUME NEW d \in Devices \cup {None}, sessionReq'[r].device = d
          PROVE  DeviceAlone(r, d)'
      BY <3>1, <3>3, <3>4 DEF DeviceAlone
    <3> QED
      BY <2>o, <3>1, <3>4
  <2>6. ASSUME NEW r \in Calls, Tokens!RevokeAllForDevice(r)
        PROVE  Goal
    <3>1. /\ \A x \in Calls \ {r} : sessionReq'[x] = sessionReq[x]
          /\ sessionReq'[r].pc = "audit" /\ sessionReq'[r].device = sessionReq[r].device
      BY <2>6, RequestGoesOn DEF Tokens!Revoke, Tokens!RevokeAllForDevice, Tokens!Audit,
                                 Tokens!TouchDevice, Tokens!LinkToken
    <3>2. ASSUME NEW d \in Devices \cup {None}, sessionReq[r].device = d
          PROVE  Tokens!Scope(d)' \cap Tokens!Live' = {}
      <4>1. \A t \in Tokens!Tokens : (d = None \/ sessionToken[t].device = d) =>
                                       sessionToken'[t].revokedAt # 0
        BY <2>6, <3>2, RevokeAllWrites, NowIsLater
      <4>2. \A t \in Tokens!Scope(d)' : t \in Tokens!Tokens /\ (d = None \/ sessionToken[t].device = d)
        BY <2>l DEF Tokens!Scope
      <4> QED
        BY <4>1, <4>2 DEF Tokens!Live
    <3>3. ASSUME NEW d \in Devices \cup {None}, sessionReq'[r].device = d
          PROVE  DeviceAlone(r, d)'
      BY <3>1, <3>2, <3>3 DEF DeviceAlone
    <3> QED
      BY <2>o, <3>1, <3>3
  <2>7. sessionReq' = sessionReq => Goal
    BY <2>c, <2>w
  <2>8. ASSUME NEW r \in Calls, NEW d \in Devices, Tokens!ValidateTrustedDevice(r, d)
        PROVE  Goal
    <3>1. d \in Devices \cup {None}
      OBVIOUS
    <3> QED
      BY <2>2, <2>8, <3>1
  <2>9. ASSUME NEW r \in Calls, NEW d \in Devices \cup {None}, Tokens!OtpAccepted(r, d)
        PROVE  Goal
    BY <2>2, <2>9
  <2> HIDE DEF Goal
  <2> QED
    BY <1>2, <2>1, <2>3, <2>4, <2>5, <2>6, <2>7, <2>8, <2>9, SignalsMoveNothing
      DEF Tokens!Next
<1> HIDE DEF Goal
<1>3. Goal
  BY <1>1, <1>2
<1> QED
  BY <1>3 DEF Goal

(* Nobody is signed in when the part begins.                               *)
LEMMA SessionsBegin ==
  ASSUME Init
  PROVE  SessionsInv
<1> SUFFICES ASSUME part \in SessionParts
             PROVE  /\ Tokens!SessionsTypeOK
                    /\ OneAtATime(Tokens!Serving)
                    /\ SessionsShape
                    /\ Tokens!RotatedIsRevoked /\ SessionsAlone
  BY DEF SessionsInv
<1>1. /\ sessionToken = << >> /\ sessionDevice = [d \in Devices |-> "none"]
      /\ sessionActive = TRUE /\ sessionReq = [r \in Calls |-> Tokens!Fresh]
  BY DEF Init, Tokens!Init
<1>2. /\ Tokens!Fresh \in Tokens!Request /\ Tokens!Fresh.pc = "idle"
      /\ Tokens!Fresh.call = "none" /\ Tokens!Fresh.new = 0 /\ Tokens!Fresh.reply = "none"
  BY DEF Tokens!Fresh, Tokens!Request, Tokens!Points, Tokens!Kinds, Tokens!Replies
<1>3. \A r \in Calls : sessionReq[r] = Tokens!Fresh /\ sessionReq[r].pc = "idle"
  BY <1>1, <1>2
<1>4. /\ DOMAIN sessionToken = {} /\ Tokens!Tokens = {}
      /\ sessionToken \in Seq(Tokens!Token) /\ Len(sessionToken) = 0
  BY <1>1 DEF Tokens!Tokens
<1>5. Tokens!SessionsTypeOK
  <2>1. sessionDevice \in [Devices -> Tokens!DeviceStates] /\ sessionActive \in BOOLEAN
    BY <1>1 DEF Tokens!DeviceStates
  <2>2. sessionReq \in [Calls -> Tokens!Request]
    BY <1>1, <1>2
  <2>3. Len(sessionToken) <= MaxTokens
    BY <1>4, TokensAssumption DEF Tokens!SessionsAssumption
  <2> QED
    BY <1>4, <2>1, <2>2, <2>3 DEF Tokens!SessionsTypeOK
<1>6. OneAtATime(Tokens!Serving)
  BY <1>3 DEF OneAtATime, Tokens!Serving
<1>7. SessionsShape
  <2>1. TokenShape(Tokens!Fresh, sessionToken)
    BY <1>2 DEF TokenShape
  <2> QED
    BY <1>3, <2>1 DEF SessionsShape
<1>8. Tokens!RotatedIsRevoked
  BY <1>4 DEF Tokens!RotatedIsRevoked
<1>9. SessionsAlone
  <2>1. ASSUME NEW r \in Calls
        PROVE  ExchangeAlone(r) /\ Linked(r) /\ (\A d : DeviceAlone(r, d))
    BY <1>2, <1>3 DEF ExchangeAlone, Linked, DeviceAlone
  <2>2. ASSUME NEW d
        PROVE  Cardinality(LiveOn(d)) <= Cardinality(Tokens!SignIns(d))
    <3>1. LiveOn(d) = {}
      BY <1>4 DEF LiveOn, Tokens!Live
    <3>2. Cardinality(LiveOn(d)) = 0
      BY <3>1, FS_EmptySet
    <3>3. Cardinality(Tokens!SignIns(d)) \in Nat
      BY <1>5, LiveFinite
    <3> QED
      BY <3>2, <3>3
  <2> QED
    BY <2>1, <2>2 DEF SessionsAlone, LiveWithin
<1> QED
  BY <1>5, <1>6, <1>7, <1>8, <1>9

(* The steps of sessions keep what is known of them.                       *)
LEMMA SessionsKept ==
  ASSUME SessionsInv, [Next]_vars
  PROVE  SessionsInv'
<1>0. part' = part
  BY DEF Next, vars
<1>1. CASE UNCHANGED sessionVars
  <2>1. /\ sessionToken' = sessionToken /\ sessionDevice' = sessionDevice
        /\ sessionActive' = sessionActive /\ sessionReq' = sessionReq
    BY <1>1 DEF sessionVars
  <2>2. Tokens!Tokens' = Tokens!Tokens /\ Tokens!Live' = Tokens!Live
    BY <2>1 DEF Tokens!Tokens, Tokens!Live
  <2>3. Tokens!SessionsTypeOK' = Tokens!SessionsTypeOK
    BY <2>1, <2>2 DEF Tokens!SessionsTypeOK
  <2>4. OneAtATime(Tokens!Serving)' = OneAtATime(Tokens!Serving)
        /\ SessionsShape' = SessionsShape
    BY <1>0, <2>1 DEF OneAtATime, Tokens!Serving, SessionsShape
  <2>5. Tokens!RotatedIsRevoked' = Tokens!RotatedIsRevoked
    BY <2>1, <2>2 DEF Tokens!RotatedIsRevoked
  <2>6. ASSUME NEW d
        PROVE  /\ LiveOn(d)' = LiveOn(d) /\ Tokens!SignIns(d)' = Tokens!SignIns(d)
               /\ Tokens!Scope(d)' = Tokens!Scope(d)
    BY <2>1, <2>2 DEF LiveOn, Tokens!SignIns, Tokens!Scope
  <2>7. ASSUME NEW r \in Calls
        PROVE  ExchangeAlone(r)' = ExchangeAlone(r) /\ Linked(r)' = Linked(r)
    BY <2>1, <2>2 DEF ExchangeAlone, Linked, LastRevoked
  <2>8. ASSUME NEW r \in Calls, NEW d, DeviceAlone(r, d)
        PROVE  DeviceAlone(r, d)'
    BY <2>1, <2>2, <2>6, <2>8 DEF DeviceAlone, Spare
  <2>9. LiveWithin' = LiveWithin
    BY <2>6 DEF LiveWithin
  <2>10. SessionsAlone => SessionsAlone'
    BY <1>0, <2>1, <2>7, <2>8, <2>9 DEF SessionsAlone
  <2> QED
    BY <1>0, <2>3, <2>4, <2>5, <2>10 DEF SessionsInv
<1>2. CASE SessionsStep
  <2>1. /\ part \in SessionParts /\ Tokens!Next /\ Fits(Tokens!Serving')
        /\ Tokens!SessionsTypeOK /\ OneAtATime(Tokens!Serving) /\ SessionsShape
        /\ Tokens!RotatedIsRevoked /\ SessionsAlone
    BY <1>2 DEF SessionsStep, SessionsInv
  <2>2. Tokens!SessionsTypeOK' /\ SessionsShape' /\ Tokens!RotatedIsRevoked'
    BY <2>1, SessionsTyped
  <2>3. OneAtATime(Tokens!Serving)'
    <3>1. Tokens!Serving' \in SUBSET Calls
      BY DEF Tokens!Serving
    <3>2. OneAtATime(Tokens!Serving')
      BY <2>1, <3>1, FitsAlone
    <3> QED
      BY <1>0, <3>2 DEF OneAtATime
  <2>4. SessionsAlone'
    <3>1. CASE part = "sessions alone"
      <4>1. (\A x, y \in Tokens!Serving : x = y) /\ (\A x, y \in Tokens!Serving' : x = y)
        BY <1>0, <2>1, <2>3, <3>1 DEF OneAtATime, Alone
      <4>2. /\ \A r \in Calls : ExchangeAlone(r) /\ Linked(r)
            /\ \A r \in Calls, d \in Devices \cup {None} : sessionReq[r].device = d => DeviceAlone(r, d)
            /\ LiveWithin
        BY <2>1, <3>1 DEF SessionsAlone
      <4>3. \A r \in Calls : ExchangeAlone(r)' /\ Linked(r)'
        BY <2>1, <4>1, <4>2, ExchangeKept
      <4>4. /\ LiveWithin'
            /\ \A r \in Calls, d \in Devices \cup {None} : sessionReq'[r].device = d => DeviceAlone(r, d)'
        BY <2>1, <4>1, <4>2, DeviceKept
      <4> QED
        BY <4>3, <4>4 DEF SessionsAlone
    <3>2. CASE part # "sessions alone"
      BY <1>0, <3>2 DEF SessionsAlone
    <3> QED
      BY <3>1, <3>2
  <2> QED
    BY <2>2, <2>3, <2>4 DEF SessionsInv
<1> QED
  BY <1>1, <1>2 DEF Next, vars, CodesStep, RegistrationsStep, AccountsStep, PagesStep

(* What sessions promise follows.                                          *)
LEMMA SessionsProperties ==
  ASSUME SessionsInv, part \in SessionParts
  PROVE  /\ Tokens!SessionsTypeOK /\ Tokens!RotatedIsRevoked
         /\ part = "sessions alone" => Tokens!LiveWithinSignIns /\ Tokens!SuccessorLinked
<1>1. Tokens!SessionsTypeOK /\ Tokens!RotatedIsRevoked /\ SessionsAlone
  BY DEF SessionsInv
<1>2. ASSUME part = "sessions alone", NEW d \in Devices \cup {None}
      PROVE  Tokens!Cardinality({t \in Tokens!Live : sessionToken[t].device = d})
               <= Tokens!Cardinality(Tokens!SignIns(d))
  <2>1. Cardinality(LiveOn(d)) <= Cardinality(Tokens!SignIns(d))
    BY <1>1, <1>2 DEF SessionsAlone, LiveWithin
  <2> DEFINE S == LiveOn(d)
             T == Tokens!SignIns(d)
  <2> HIDE DEF S, T
  <2>2. Tokens!Cardinality(S) = Cardinality(S) /\ Tokens!Cardinality(T) = Cardinality(T)
    BY DEF Tokens!Cardinality, Cardinality
  <2>3. Tokens!Cardinality(S) <= Tokens!Cardinality(T)
    BY <2>1, <2>2 DEF S, T
  <2> QED
    BY <2>3 DEF S, T, LiveOn
<1>3. ASSUME part = "sessions alone"
      PROVE  Tokens!SuccessorLinked
  BY <1>1, <1>3 DEF SessionsAlone, Linked, Tokens!SuccessorLinked
<1> QED
  BY <1>1, <1>2, <1>3 DEF Tokens!LiveWithinSignIns

(* A request that says its token was reused leaves its device no token.    *)
LEMMA SessionsTakeNothing ==
  ASSUME SessionsInv, part = "sessions alone"
  PROVE  Tokens!ReuseEndsSession
<1>1. /\ Tokens!SessionsTypeOK
      /\ \A r \in Calls, d \in Devices \cup {None} : sessionReq[r].device = d => DeviceAlone(r, d)
  BY DEF SessionsInv, SessionsAlone, SessionParts
<1>2. ASSUME NEW r \in Calls, NEW d, sessionReq[r].pc = "audit", sessionReq[r].device = d
      PROVE  Tokens!Scope(d) \cap Tokens!Live = {}
  <2>1. d \in Devices \cup {None}
    BY <1>1, <1>2, SessionRequests
  <2> QED
    BY <1>1, <1>2, <2>1 DEF DeviceAlone
<1> QED
  BY <1>2 DEF Tokens!ReuseEndsSession

-----------------------------------------------------------------------------
(* What people may do once, and what the staff and the browser show        *)

\* What every step of a part keeps, and what is so when it begins.
SignInInv ==
  /\ part \in AllParts
  /\ CodesInv /\ SessionsInv /\ RegistrationInv /\ AccountsInv /\ PagesInv

(* Every part begins well.                                                 *)
LEMMA SignInBegins == Init => SignInInv
<1>1. Init => part \in AllParts
  BY SignInAssumption DEF Init
<1> QED
  BY <1>1, CodesBegin, SessionsBegin, RegistrationBegin, AccountsBegin, PagesBegin
  DEF SignInInv

(* Every step of a part keeps it well, and leaves the others alone.        *)
LEMMA SignInKept == SignInInv /\ [Next]_vars => SignInInv'
<1>1. [Next]_vars => part' = part
  BY DEF Next, vars
<1> QED
  BY <1>1, CodesKept, SessionsKept, RegistrationKept, AccountsKept, PagesKept
  DEF SignInInv

(* The inductive invariant of all the parts (auth.service.ts,              *)
(* otp.service.ts, token.service.ts, admin.service.ts, AuthProvider.tsx).  *)
LEMMA SignInAlways == Spec => []SignInInv
  BY SignInBegins, SignInKept, PTL DEF Spec

(* What is so whenever the invariant is.                                   *)
LEMMA SignInPromises ==
  ASSUME SignInInv
  PROVE  SignInTypeOK /\ OncePerSignIn /\ LimitsKept /\ RowsAgree /\ PageFollowsServer
<1>1. /\ part \in AllParts
      /\ CodesInv /\ SessionsInv /\ RegistrationInv /\ AccountsInv /\ PagesInv
  BY DEF SignInInv
<1>2. /\ "codes alone" \in CodeParts /\ "sessions alone" \in SessionParts
      /\ "registrations alone" \in RegistrationParts
      /\ {"adjustments", "accounts alone"} \subseteq AccountParts
  BY DEF CodeParts, SessionParts, RegistrationParts, AccountParts
<1>3. part \in CodeParts =>
        /\ Codes!OtpTypeOK /\ Codes!UsedMeansSignedIn /\ Codes!SendsWithinLimit
        /\ part = "codes alone" => Codes!SingleUse /\ Codes!WrongWithinAttempts
  BY <1>1, CodesProperties DEF CodesInv
<1>4. part \in SessionParts =>
        /\ Tokens!SessionsTypeOK /\ Tokens!RotatedIsRevoked
        /\ part = "sessions alone" => Tokens!LiveWithinSignIns /\ Tokens!SuccessorLinked
  BY <1>1, SessionsProperties
<1>5. part \in RegistrationParts =>
        /\ Registrations!RegistrationTypeOK /\ Registrations!RegisteredIsListed
        /\ Registrations!ProfilesComplete
        /\ part = "registrations alone" =>
             Registrations!StatusFollowsReview /\ Registrations!OnePending
  BY <1>1, RegistrationProperties
<1>6. part \in AccountParts =>
        /\ AccountsTypeOK /\ AuditsMatchLedger
        /\ part \in {"adjustments", "accounts alone"} => LedgerBacksBalance
        /\ part = "accounts alone" => AuditsAddUp
  BY <1>1 DEF AccountsInv
<1>7. part = "pages" =>
        /\ Form!PendingIsNewest /\ Form!SaidIsDone
        /\ Form!MailsAreSpaced /\ Form!SignInTypeOK
  BY <1>1, PagesProperties
<1>8. SignInTypeOK
  BY <1>1, <1>3, <1>4, <1>5, <1>6, <1>7 DEF SignInTypeOK
<1>9. OncePerSignIn
  BY <1>2, <1>3, <1>4, <1>5 DEF OncePerSignIn
<1>10. LimitsKept
  BY <1>2, <1>3, <1>7 DEF LimitsKept
<1>11. RowsAgree
  BY <1>2, <1>3, <1>4, <1>5, <1>6 DEF RowsAgree
<1> QED
  BY <1>7, <1>8, <1>9, <1>10, <1>11 DEF PageFollowsServer

(***************************************************************************)
(* Type correctness: no request of any part holds, answers with or stores  *)
(* what its rows cannot, whatever overlaps (auth.service.ts,               *)
(* otp.service.ts, token.service.ts, admin.service.ts).                    *)
(***************************************************************************)
THEOREM SignInTypeCorrect == Spec => []SignInTypeOK
<1>1. SignInInv => SignInTypeOK
  BY SignInPromises
<1> QED
  BY <1>1, SignInAlways, PTL

(***************************************************************************)
(* A token that was rotated is revoked, whatever overlaps. With one        *)
(* request at a time, a code signs in once (otp.service.ts), a device has  *)
(* no more live tokens than it signed in (token.service.ts), and an        *)
(* address waits for one review (auth.service.ts).                         *)
(***************************************************************************)
THEOREM SignInsHappenOnce == Spec => []OncePerSignIn
<1>1. SignInInv => OncePerSignIn
  BY SignInPromises
<1> QED
  BY <1>1, SignInAlways, PTL

(***************************************************************************)
(* No window sees more mails of codes than its limit, whatever overlaps    *)
(* (rate-limit.service.ts); with one request at a time a code is guessed   *)
(* wrong no more often than it may be; and a steady tab keeps the cooldown *)
(* between two mails (Otp.tsx).                                            *)
(***************************************************************************)
THEOREM LimitsAlwaysKept == Spec => []LimitsKept
<1>1. SignInInv => LimitsKept
  BY SignInPromises
<1> QED
  BY <1>1, SignInAlways, PTL

(***************************************************************************)
(* Rows written by separate statements agree: codes and sign-ins, tokens   *)
(* and their successors, registrations, users, profiles and reviews, and   *)
(* the audits, the ledger and the balance of an account, each under the    *)
(* overlap that RowsAgree names (auth.service.ts, token.service.ts,        *)
(* admin.service.ts, balance.service.ts).                                  *)
(***************************************************************************)
THEOREM RowsAlwaysAgree == Spec => []RowsAgree
<1>1. SignInInv => RowsAgree
  BY SignInPromises
<1> QED
  BY <1>1, SignInAlways, PTL

(***************************************************************************)
(* A steady tab with nothing under way holds the newest code that was      *)
(* mailed, and what a page says of a mail or a registration was done       *)
(* (AuthProvider.tsx, Otp.tsx, Register.tsx).                              *)
(***************************************************************************)
THEOREM PagesFollowServer == Spec => []PageFollowsServer
<1>1. SignInInv => PageFollowsServer
  BY SignInPromises
<1> QED
  BY <1>1, SignInAlways, PTL

(***************************************************************************)
(* No step gives back what was taken away: with one request at a time no   *)
(* token of a device is live when the reuse of one is answered             *)
(* (auth.service.ts); and no registration undoes a review, whatever        *)
(* overlaps.                                                               *)
(***************************************************************************)
THEOREM TakenAwayForGood == Spec => TakenAwayStays
<1>1. ASSUME SignInInv, [Next]_vars
      PROVE  /\ part = "sessions alone" => Tokens!ReuseEndsSession
             /\ part \in RegistrationParts =>
                  Registrations!ReviewsOutlastRegistrations
  BY <1>1, SessionsTakeNothing, RegistrationTakesNothing DEF SignInInv
<1> QED
  BY <1>1, SignInAlways, PTL DEF Spec, TakenAwayStays
=============================================================================
