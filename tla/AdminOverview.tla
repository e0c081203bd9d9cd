---------------------------- MODULE AdminOverview ----------------------------
(***************************************************************************)
(* The front page of the staff (admin/Dashboard.tsx) and the call behind   *)
(* it (AdminService.getOverview).  The server answers from queries that    *)
(* run side by side outside any transaction, so what they count need not   *)
(* fit together.  The page approves and rejects the newest requests, and   *)
(* after each success it corrects the overview it holds instead of asking  *)
(* for a new one; a focused window asks for one at any time.               *)
(***************************************************************************)
EXTENDS Integers, FiniteSets, FiniteSetsExt

CONSTANTS N,             \* people who may register
          Take,          \* requests in the overview, five in the code
          Others,        \* people register and other staff work meanwhile
          FocusRefetch,  \* the window is focused again, which refetches
          AnswersLost,   \* the answer to a review can be lost
          None,          \* null
          Unread         \* of a query that has not run

Users == 1 .. N                       \* in the order in which they register
Decisions == {"approved", "rejected"}
Counts == {"total", "active", "pending", "waiting"}

AdminOverviewAssumption ==
  /\ N \in Nat /\ Take \in Nat \ {0}
  /\ None \notin [user : Users, decision : Decisions, handled : BOOLEAN]

VARIABLES registered,  \* how many have registered
          status,      \* of the accounts
          state,       \* of the registration requests
          counted,     \* what the queries of the fetch have counted, or None
          found,       \* the requests its last query has found, or Unread
          overview,    \* the cached overview, or None
          review       \* the review under way, or None

serverVars == <<registered, status, state>>
pageVars == <<counted, found, overview, review>>
vars == <<serverVars, pageVars>>

OverviewTypeOK ==
  /\ registered \in 0 .. N
  /\ status \in [Users -> {"absent", "pending", "active", "rejected", "disabled"}]
  /\ state \in [Users -> {"absent", "pending"} \cup Decisions]
  /\ counted \in [Counts -> (0 .. N) \cup {Unread}] \cup {None}
  /\ found \in (SUBSET Users) \cup {Unread}
  /\ overview \in [counts : [Counts -> Int], recent : SUBSET Users] \cup {None}
  /\ review \in [user : Users, decision : Decisions, handled : BOOLEAN] \cup {None}
  /\ overview # None => Cardinality(overview.recent) <= Take

NothingRead == [q \in Counts |-> Unread]

Init ==
  /\ registered \in 0 .. N
  /\ status = [u \in Users |-> IF u <= registered THEN "pending" ELSE "absent"]
  /\ state = status
  /\ counted = NothingRead /\ found = Unread     \* the page has just opened
  /\ overview = None /\ review = None

-----------------------------------------------------------------------------
(* The server                                                              *)

WithStatus(s) == {u \in Users : status[u] = s}
Waiting == {u \in Users : state[u] = "pending"}

\* What each of the counting queries finds at the moment it runs.
CountOf(q) ==
  CASE q = "total"   -> registered
    [] q = "active"  -> Cardinality(WithStatus("active"))
    [] q = "pending" -> Cardinality(WithStatus("pending"))
    [] q = "waiting" -> Cardinality(Waiting)

\* The newest of the requests that wait.
NewestWaiting == {u \in Waiting : Cardinality({w \in Waiting : w > u}) < Take}

Count(q) ==
  /\ counted # None /\ counted[q] = Unread
  /\ counted' = [counted EXCEPT ![q] = CountOf(q)]
  /\ UNCHANGED <<serverVars, found, overview, review>>

FindRecent ==
  /\ counted # None /\ found = Unread
  /\ found' = NewestWaiting
  /\ UNCHANGED <<serverVars, counted, overview, review>>

\* A review decides the request whatever was decided before.
Decide(u, d) ==
  /\ state' = [state EXCEPT ![u] = d]
  /\ status' = [status EXCEPT ![u] = IF d = "approved" THEN "active" ELSE "rejected"]
  /\ UNCHANGED registered

Handle ==
  /\ review # None /\ ~review.handled
  /\ Decide(review.user, review.decision)
  /\ review' = [review EXCEPT !.handled = TRUE]
  /\ UNCHANGED <<counted, found, overview>>

Register ==
  /\ Others /\ registered < N
  /\ registered' = registered + 1
  /\ status' = [status EXCEPT ![registered + 1] = "pending"]
  /\ state' = [state EXCEPT ![registered + 1] = "pending"]
  /\ UNCHANGED pageVars

ReviewByOther(u, d) ==
  /\ Others /\ u \in Waiting
  /\ Decide(u, d)
  /\ UNCHANGED pageVars

Disable(u) ==
  /\ Others /\ status[u] = "active"
  /\ status' = [status EXCEPT ![u] = "disabled"]
  /\ UNCHANGED <<registered, state, pageVars>>

-----------------------------------------------------------------------------
(* The page                                                                *)

Focus ==
  /\ FocusRefetch /\ counted = None
  /\ counted' = NothingRead /\ found' = Unread
  /\ UNCHANGED <<serverVars, overview, review>>

\* The answer of the fetch replaces the overview, corrected or not.
Fetched ==
  /\ counted # None /\ found # Unread
  /\ \A q \in Counts : counted[q] # Unread
  /\ overview' = [counts |-> counted, recent |-> found]
  /\ counted' = None /\ found' = Unread
  /\ UNCHANGED <<serverVars, review>>

\* Approve and Reject, disabled while either is under way.
Press(u, d) ==
  /\ overview # None /\ u \in overview.recent
  /\ review = None
  /\ review' = [user |-> u, decision |-> d, handled |-> FALSE]
  /\ UNCHANGED <<serverVars, counted, found, overview>>

OneFewer(n) == Max({0, n - 1})

\* The overview without the request that has been reviewed.
Corrected(o, u) ==
  [counts |-> [o.counts EXCEPT !["waiting"] = OneFewer(@)],
   recent |-> o.recent \ {u}]

Succeeded ==
  /\ review # None /\ review.handled
  /\ overview' = Corrected(overview, review.user)
  /\ review' = None
  /\ UNCHANGED <<serverVars, counted, found>>

\* Nothing is shown of a failure, and the row stays.
Failed ==
  /\ AnswersLost /\ review # None
  /\ review' = None
  /\ UNCHANGED <<serverVars, counted, found, overview>>

Next ==
  \/ \E q \in Counts : Count(q)
  \/ FindRecent \/ Handle \/ Register
  \/ \E u \in Users : Disable(u)
  \/ \E u \in Users, d \in Decisions : ReviewByOther(u, d) \/ Press(u, d)
  \/ Focus \/ Fetched \/ Succeeded \/ Failed

Spec == Init /\ [][Next]_vars

\* The third bar of "User Composition".
Disabled(c) == Max({0, c["total"] - c["active"] - c["pending"]})

-----------------------------------------------------------------------------
(* Properties                                                              *)

\* When nobody else works and no answer is lost, the corrections keep the
\* overview equal to what the server holds: its count is the number of the
\* requests that wait, and what it lists still waits (Dashboard.tsx:50-62).
CorrectionsAreExact ==
  overview # None /\ counted = None /\ review = None =>
    /\ overview.counts["waiting"] = Cardinality(Waiting)
    /\ overview.recent \subseteq Waiting

\* When nobody else works, no answer is lost and the window keeps the focus, a
\* decision made here is not made again: the buttons wait for each other and a
\* row leaves the list with its answer (Dashboard.tsx:252, :259).
DecisionStands ==
  \A u \in Users : state[u] \in Decisions => state'[u] = state[u]

\* The bar labelled "Disabled" counts the disabled accounts once the answer of
\* a quiet server is shown (Dashboard.tsx:111).
DisabledAreDisabled ==
  overview # None /\ counted = None /\ review = None =>
    Disabled(overview.counts) <= Cardinality(WithStatus("disabled"))

\* "No pending requests." is said of an overview that counts none
\* (Dashboard.tsx:267).
EmptyMeansNone ==
  overview # None =>
    (overview.recent = {} => overview.counts["waiting"] = 0)
=============================================================================
