---------------------------- MODULE CreditTopups ----------------------------
(***************************************************************************)
(* Manual top-ups: a customer submits the id of a PingPong transfer, an    *)
(* administrator approves or rejects the request, an approval credits the  *)
(* customer in the same database transaction.  Administrators may review   *)
(* the same request at the same time: a review waits for the lock of the   *)
(* top-up row (SELECT ... FOR UPDATE OF t), then sees the row as the       *)
(* previous holder committed it.  A review may die before it commits: the  *)
(* database rolls it back and frees the lock, and the administrator may    *)
(* try again.                                                              *)
(***************************************************************************)
EXTENDS BalanceService, FiniteSets, TLC

CONSTANTS TopupIds,   \* identifiers of credit_topups rows
          TxIds,      \* normalised PingPong transaction ids
          Credits,    \* credit amounts of the packages
          Reviews,    \* approve and reject calls, each served once
          TTL,        \* TOPUP_REVIEW_TTL_MS, in ticks
          MaxTime,    \* where a run's clock stops
          NoReview,   \* nobody holds the lock
          NoTopup     \* no row has this id

Pending == "pending"

\* A credit_topups row; reviewed is meaningful once the status is not pending.
Topup == [user : Users, txid : TxIds, credits : Credits, created : Nat,
          status : {"pending", "approved", "rejected"}, reviewed : Nat]

ASSUME CreditTopupsAssumption ==
  /\ TopupIds \subseteq References /\ TopupIds \cap OrderIds = {}
  /\ Credits \subseteq Nat \ {0}
  /\ NoReview \notin Reviews
  /\ NoTopup \notin Topup
  /\ TTL \in Nat /\ MaxTime \in Nat

\* What TLC's instances use: accounts that open with no credits, and what is
\* interchangeable in them.
NoCredits == [u \in Users |-> 0]
Symmetry == Permutations(TopupIds) \cup Permutations(TxIds)
            \cup Permutations(Reviews) \cup Permutations(Users)

VARIABLES topups,   \* topups[t]: the committed row, or NoTopup
          lock,     \* lock[t]: the review that holds the row lock
          review,   \* review[v]: where review v stands
          now       \* the clock, in ticks

tuVars == <<balance, ledger, topups, lock, review, now>>

Decisions == {"approve", "reject"}

ReviewStates ==
  [pc : {"idle", "done"}]
  \cup [pc : {"waiting", "locked"}, topup : TopupIds, decision : Decisions]
  \cup [pc : {"decided"}, topup : TopupIds, decision : Decisions, at : Nat]

TopupsTypeOK ==
  /\ MoneyTypeOK
  /\ topups \in [TopupIds -> Topup \cup {NoTopup}]
  /\ lock \in [TopupIds -> Reviews \cup {NoReview}]
  /\ review \in [Reviews -> ReviewStates]
  /\ now \in Nat

TopupsInit ==
  /\ MoneyInit
  /\ topups = [t \in TopupIds |-> NoTopup]
  /\ lock = [t \in TopupIds |-> NoReview]
  /\ review = [v \in Reviews |-> [pc |-> "idle"]]
  /\ now = 0

-----------------------------------------------------------------------------
Submitted == {t \in TopupIds : topups[t] # NoTopup}

\* uq_credit_topups_pingpong_tx_id covers every row, whatever its status.
TxIdFree(x) == \A t \in Submitted : topups[t].txid # x

\* Date.now() - createdAt > TTL: exactly 24 hours is still in time.
Expired(t) == now - topups[t].created > TTL

CreateTopup(u, t, x, credits) ==
  /\ t \notin Submitted
  /\ TxIdFree(x)
  /\ topups' = [topups EXCEPT ![t] =
       [user |-> u, txid |-> x, credits |-> credits, created |-> now,
        status |-> "pending", reviewed |-> now]]
  /\ UNCHANGED <<moneyVars, lock, review, now>>

\* approveTopup or rejectTopup is called and asks for the row lock.
RequestReview(v, t, decision) ==
  /\ review[v].pc = "idle"
  /\ t \in Submitted
  /\ review' = [review EXCEPT ![v] =
       [pc |-> "waiting", topup |-> t, decision |-> decision]]
  /\ UNCHANGED <<moneyVars, topups, lock, now>>

\* Faulty: the row is read without FOR UPDATE.
AcquireNoWait(v) ==
  LET t == review[v].topup IN
  /\ review[v].pc = "waiting"
  /\ lock' = [lock EXCEPT ![t] = v]
  /\ review' = [review EXCEPT ![v].pc = "locked"]
  /\ UNCHANGED <<moneyVars, topups, now>>

AcquireLock(v) ==
  LET t == review[v].topup IN
  /\ review[v].pc = "waiting"
  /\ lock[t] = NoReview
  /\ lock' = [lock EXCEPT ![t] = v]
  /\ review' = [review EXCEPT ![v].pc = "locked"]
  /\ UNCHANGED <<moneyVars, topups, now>>

\* Faulty: the age of the request is not looked at.
ReviewableAnyTime(t, decision) ==
  /\ topups[t].status = Pending

\* Faulty: a reviewed request is reviewed again.
ReviewableTwice(t, decision) ==
  /\ t \in Submitted
  /\ decision = "approve" => ~Expired(t)

\* With the lock held: only a pending row may be reviewed, and only a row
\* still in time approved.  The decision is stamped with the time.
Reviewable(t, decision) ==
  /\ topups[t].status = Pending
  /\ decision = "approve" => ~Expired(t)

DecideReview(v) ==
  LET t == review[v].topup IN
  /\ review[v].pc = "locked"
  /\ IF Reviewable(t, review[v].decision)
     THEN /\ review' = [review EXCEPT ![v] =
               [pc |-> "decided", topup |-> t, decision |-> @.decision, at |-> now]]
          /\ UNCHANGED lock
     ELSE /\ review' = [review EXCEPT ![v] = [pc |-> "done"]]
          /\ lock' = [lock EXCEPT ![t] = NoReview]
  /\ UNCHANGED <<moneyVars, topups, now>>

\* Faulty: the decision is stored in place of the status.
CommitDecision(v) ==
  LET t == review[v].topup
      approve == review[v].decision = "approve"
  IN
  /\ review[v].pc = "decided"
  /\ topups' = [topups EXCEPT
       ![t].status = review[v].decision,
       ![t].reviewed = review[v].at]
  /\ IF approve THEN Credit(topups[t].user, topups[t].credits, t)
     ELSE UNCHANGED moneyVars
  /\ lock' = [lock EXCEPT ![t] = NoReview]
  /\ review' = [review EXCEPT ![v] = [pc |-> "done"]]
  /\ UNCHANGED now

\* Status, credit and audit commit together, and the lock goes.
CommitReview(v) ==
  LET t == review[v].topup
      approve == review[v].decision = "approve"
  IN
  /\ review[v].pc = "decided"
  /\ topups' = [topups EXCEPT
       ![t].status = IF approve THEN "approved" ELSE "rejected",
       ![t].reviewed = review[v].at]
  /\ IF approve THEN Credit(topups[t].user, topups[t].credits, t)
     ELSE UNCHANGED moneyVars
  /\ lock' = [lock EXCEPT ![t] = NoReview]
  /\ review' = [review EXCEPT ![v] = [pc |-> "done"]]
  /\ UNCHANGED now

\* The server or its connection dies: the database rolls back.
AbortReview(v) ==
  /\ review[v].pc \in {"waiting", "locked", "decided"}
  /\ lock' = [t \in TopupIds |-> IF lock[t] = v THEN NoReview ELSE lock[t]]
  /\ review' = [review EXCEPT ![v] = [pc |-> "done"]]
  /\ UNCHANGED <<moneyVars, topups, now>>

Tick ==
  /\ now < MaxTime
  /\ now' = now + 1
  /\ UNCHANGED <<moneyVars, topups, lock, review>>

-----------------------------------------------------------------------------
ReviewStep(v) == AcquireLock(v) \/ DecideReview(v) \/ CommitReview(v)

TopupsNext ==
  \/ \E u \in Users, t \in TopupIds, x \in TxIds, c \in Credits : CreateTopup(u, t, x, c)
  \/ \E v \in Reviews :
       \/ \E t \in TopupIds, d \in Decisions : RequestReview(v, t, d)
       \/ ReviewStep(v)
       \/ AbortReview(v)
  \/ Tick

TopupsSpec == TopupsInit /\ [][TopupsNext]_tuVars

\* The event loop resumes a review whose query has answered, and the database
\* grants a lock once its holder is gone.
TopupsFairSpec == TopupsSpec /\ \A v \in Reviews : WF_tuVars(ReviewStep(v))

-----------------------------------------------------------------------------
(* Properties                                                              *)

\* The ledger rows that credit top-up t, over every customer.
CreditRows(t) ==
  {ui \in UNION {{u} \X DOMAIN ledger[u] : u \in Users} :
     ledger[ui[1]][ui[2]].reference = t}

(***************************************************************************)
(* A top-up is credited exactly once if it is approved and never if it is  *)
(* not, to its own customer and for its own amount, however approvals,     *)
(* rejections, crashes and retries of the same request interleave          *)
(* (approveTopup, credit-topups.service.ts:227-288).                       *)
(***************************************************************************)
CreditedIffApproved ==
  \A t \in TopupIds :
     IF t \in Submitted /\ topups[t].status = "approved"
     THEN \E i \in DOMAIN ledger[topups[t].user] :
            /\ CreditRows(t) = {<<topups[t].user, i>>}
            /\ ledger[topups[t].user][i].amount = topups[t].credits
     ELSE CreditRows(t) = {}

(***************************************************************************)
(* No request is approved at a time more than the TTL after it was made,   *)
(* however long the approval waited for the row lock: the age is computed  *)
(* after the lock is granted (credit-topups.service.ts:247-250).           *)
(***************************************************************************)
ApprovedInTime ==
  \A t \in Submitted : topups[t].status = "approved" =>
     topups[t].reviewed - topups[t].created <= TTL

(***************************************************************************)
(* A review is final: no later review, retry or crash takes a request out  *)
(* of approved or rejected, nor edits what was submitted.                  *)
(***************************************************************************)
ReviewIsFinal ==
  [][\A t \in Submitted :
        \/ topups'[t] = topups[t]
        \/ /\ topups[t].status = Pending
           /\ [topups'[t] EXCEPT !.status = Pending, !.reviewed = 0]
                = [topups[t] EXCEPT !.reviewed = 0]]_tuVars

(***************************************************************************)
(* Every review that was called comes to an end: a lock is never kept by   *)
(* a review that was refused, and never lost to one that died.             *)
(***************************************************************************)
ReviewsEnd ==
  \A v \in Reviews : (review[v].pc \in {"waiting", "locked", "decided"})
                       ~> (review[v].pc = "done")

(***************************************************************************)
(* What the refusal of an expired approval says                            *)
(* (credit-topups.service.ts:249, "Please ask user to re-submit."): a      *)
(* transfer whose request expired unreviewed can be submitted again.       *)
(***************************************************************************)
ExpiredMayResubmit ==
  \A t \in Submitted :
     (topups[t].status = Pending /\ Expired(t)) => TxIdFree(topups[t].txid)
=============================================================================
