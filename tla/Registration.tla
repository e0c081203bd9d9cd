---------------------------- MODULE Registration ----------------------------
(***************************************************************************)
(* From POST /auth/register to an active account: the users, user_profiles *)
(* and registration_requests rows, written by register, reviewRegistration *)
(* and updateUserRole.                                                     *)
(*                                                                         *)
(* Each handler is a sequence of statements outside any transaction, so    *)
(* that handlers interleave between them and a crash stops one half-way.   *)
(***************************************************************************)
EXTENDS Integers, Sequences, FiniteSets

CONSTANTS Emails,       \* addresses people register with
          Calls,        \* HTTP requests, each served once
          MaxCrashes,   \* processes that die with what they serve
          NoEmail       \* a call that has not begun

RegistrationAssumption ==
  MaxCrashes \in Nat /\ NoEmail \notin Emails

VARIABLES user,      \* user[e]: the rows of users with email e, in any case
          profile,   \* addresses whose user has a user_profiles row
          requests,  \* registration_requests, in the order of their insertion
          call,      \* call[c]: what call c still has to do
          crashes    \* crashes so far

vars == <<user, profile, requests, call, crashes>>

UserStatuses == {"none", "pending", "active", "rejected"}
States == {"pending", "approved", "rejected"}
RegistrationRequest == [email : Emails, state : States]

Points == {"idle", "insertUser", "insertProfile", "findRequest", "insertRequest",
           "saveRequest", "updateStatus", "registered", "done", "error", "dead"}
CallState == [pc : Points, email : Emails \cup {NoEmail}, request : Nat, decision : States]

Finished == {"idle", "registered", "done", "error", "dead"}

Init ==
  /\ user = [e \in Emails |-> "none"]
  /\ profile = {}
  /\ requests = << >>
  /\ call = [c \in Calls |-> [pc |-> "idle", email |-> NoEmail,
                              request |-> 0, decision |-> "pending"]]
  /\ crashes = 0

-----------------------------------------------------------------------------
Begin(c) == call[c].pc = "idle"

\* The calls being served.
Serving == {c \in Calls : call[c].pc \notin Finished}

Goto(c, pc) == call' = [call EXCEPT ![c].pc = pc]

\* createPendingUser: a known address keeps its user, whatever its status.
Register(c, e) ==
  /\ Begin(c)
  /\ call' = [call EXCEPT ![c].email = e,
       ![c].pc = IF user[e] = "none" THEN "insertUser" ELSE "findRequest"]
  /\ UNCHANGED <<user, profile, requests, crashes>>

\* Faulty: the address need not be new.
InsertUserAgain(c) ==
  LET e == call[c].email IN
  /\ call[c].pc = "insertUser"
  /\ user' = [user EXCEPT ![e] = "pending"]
  /\ Goto(c, "insertProfile")
  /\ UNCHANGED <<profile, requests, crashes>>

\* The new row; email is unique.
InsertUser(c) ==
  LET e == call[c].email IN
  /\ call[c].pc = "insertUser"
  /\ IF user[e] = "none"
     THEN user' = [user EXCEPT ![e] = "pending"] /\ Goto(c, "insertProfile")
     ELSE Goto(c, "error") /\ UNCHANGED user
  /\ UNCHANGED <<profile, requests, crashes>>

\* user_id is unique: an administrator may have given the user one already.
InsertProfile(c) ==
  LET e == call[c].email IN
  /\ call[c].pc = "insertProfile"
  /\ profile' = profile \cup {e}
  /\ Goto(c, IF e \in profile THEN "error" ELSE "findRequest")
  /\ UNCHANGED <<user, requests, crashes>>

Pending(e) == {i \in DOMAIN requests : requests[i].email = e /\ requests[i].state = "pending"}

\* createRegistrationRequest: a pending request of the user is kept.
FindRequest(c) ==
  /\ call[c].pc = "findRequest"
  /\ Goto(c, IF Pending(call[c].email) # {} THEN "registered" ELSE "insertRequest")
  /\ UNCHANGED <<user, profile, requests, crashes>>

InsertRequest(c) ==
  /\ call[c].pc = "insertRequest"
  /\ requests' = Append(requests, [email |-> call[c].email, state |-> "pending"])
  /\ Goto(c, "registered")
  /\ UNCHANGED <<user, profile, crashes>>

-----------------------------------------------------------------------------
\* reviewRegistration finds the request, in whatever state...
ReviewRegistration(c, i, decision) ==
  /\ Begin(c)
  /\ call' = [call EXCEPT ![c] = [pc |-> "saveRequest", email |-> requests[i].email,
                                  request |-> i, decision |-> decision]]
  /\ UNCHANGED <<user, profile, requests, crashes>>

\* ...saves the decision...
SaveDecision(c) ==
  /\ call[c].pc = "saveRequest"
  /\ requests' = [requests EXCEPT ![call[c].request].state = call[c].decision]
  /\ Goto(c, "updateStatus")
  /\ UNCHANGED <<user, profile, crashes>>

\* ...and then the status of the user.
UpdateStatus(c) ==
  LET q == call[c] IN
  /\ q.pc = "updateStatus"
  /\ user' = [user EXCEPT ![q.email] = IF q.decision = "approved" THEN "active" ELSE "rejected"]
  /\ Goto(c, "done")
  /\ UNCHANGED <<profile, requests, crashes>>

\* Faulty: a profile needs no user.
UpdateAnyRole(c, e) ==
  /\ Begin(c)
  /\ profile' = profile \cup {e}
  /\ call' = [call EXCEPT ![c].email = e, ![c].pc = "done"]
  /\ UNCHANGED <<user, requests, crashes>>

\* updateUserRole: a user without a profile is given one.
UpdateUserRole(c, e) ==
  /\ Begin(c)
  /\ user[e] # "none"
  /\ profile' = profile \cup {e}
  /\ call' = [call EXCEPT ![c].email = e, ![c].pc = "done"]
  /\ UNCHANGED <<user, requests, crashes>>

\* The process ends, and with it every call it serves.
Crash ==
  /\ crashes < MaxCrashes
  /\ crashes' = crashes + 1
  /\ call' = [c \in Calls |->
       IF call[c].pc \in Finished THEN call[c] ELSE [call[c] EXCEPT !.pc = "dead"]]
  /\ UNCHANGED <<user, profile, requests>>

Next ==
  \/ \E c \in Calls :
       \/ \E e \in Emails : Register(c, e) \/ UpdateUserRole(c, e)
       \/ \E i \in DOMAIN requests, d \in {"approved", "rejected"} : ReviewRegistration(c, i, d)
       \/ InsertUser(c) \/ InsertProfile(c) \/ FindRequest(c) \/ InsertRequest(c)
       \/ SaveDecision(c) \/ UpdateStatus(c)
  \/ Crash

Spec == Init /\ [][Next]_vars

-----------------------------------------------------------------------------
Served(e) == \E c \in Serving : call[c].email = e

RegistrationTypeOK ==
  /\ user \in [Emails -> UserStatuses]
  /\ profile \subseteq {e \in Emails : user[e] # "none"}
  /\ requests \in Seq(RegistrationRequest)
  /\ call \in [Calls -> CallState]
  /\ crashes \in 0 .. MaxCrashes

(***************************************************************************)
(* A registration that was answered is in the administrators' list, or was *)
(* reviewed: also after a crash between the user and the request, once the *)
(* customer registers again, and when two registrations overlap.           *)
(***************************************************************************)
RegisteredIsListed ==
  \A c \in Calls : call[c].pc = "registered" =>
     \E i \in DOMAIN requests : requests[i].email = call[c].email

(***************************************************************************)
(* No registration undoes a review: however they overlap, an account goes  *)
(* back to pending never, and becomes active only by an approval.          *)
(***************************************************************************)
ReviewsOutlastRegistrations ==
  \A e \in Emails : user'[e] # user[e] =>
    \/ user[e] = "none" /\ user'[e] = "pending"
    \/ user'[e] = "active" /\ \E i \in DOMAIN requests : requests[i].email = e
    \/ user'[e] = "rejected"

(***************************************************************************)
(* Only a crash leaves a user without a profile, and with it without the   *)
(* name and phone it registered with.                                      *)
(***************************************************************************)
ProfilesComplete ==
  crashes = 0 => \A e \in Emails : (user[e] # "none" /\ ~Served(e)) => e \in profile

(***************************************************************************)
(* With calls that do not overlap a user has one pending request.          *)
(***************************************************************************)
OnePending == \A e \in Emails : Cardinality(Pending(e)) <= 1

(***************************************************************************)
(* auth-system-design.md:35: "Approve -> users.status=active", "Reject ->  *)
(* users.status=rejected".  While no call is served and no process died, a *)
(* user whose only request was reviewed has the status it names.           *)
(***************************************************************************)
StatusFollowsReview ==
  (Serving = {} /\ crashes = 0) =>
     \A i \in DOMAIN requests :
        (\A j \in DOMAIN requests \ {i} : requests[j].email # requests[i].email)
           => \/ requests[i].state = "pending"
              \/ requests[i].state = "approved" /\ user[requests[i].email] = "active"
              \/ requests[i].state = "rejected" /\ user[requests[i].email] = "rejected"
=============================================================================
