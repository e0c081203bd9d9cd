------------------------ MODULE CreditTopups_proofs -------------------------
(***************************************************************************)
(* Proofs about top-up reviews, for any number of customers, requests and  *)
(* administrators and any TTL.  The argument is the row lock: a review     *)
(* that has decided still holds it, so the row it is about to change is    *)
(* pending, and has not been credited, when it commits.                    *)
(***************************************************************************)
EXTENDS CreditTopups, BalanceService_proofs

\* Reviews are of requests that exist.
ReviewsExist ==
  \A v \in Reviews :
     review[v].pc \in {"waiting", "locked", "decided"} => review[v].topup \in Submitted

\* A review that got the lock of its request still holds it.
LocksHeld ==
  \A v \in Reviews : review[v].pc \in {"locked", "decided"} => lock[review[v].topup] = v

\* A review that decided did so in time, on a request that is still pending.
DecisionsStand ==
  \A v \in Reviews : review[v].pc = "decided" =>
     LET t == review[v].topup IN
     /\ t \in Submitted
     /\ topups[t].status = Pending
     /\ review[v].decision = "approve" => review[v].at - topups[t].created <= TTL

\* A row that credits a request: for whom, how much, and no other.
CreditsBelong ==
  \A t \in TopupIds, u \in Users : \A i \in DOMAIN ledger[u] :
     ledger[u][i].reference = t =>
       /\ t \in Submitted /\ topups[t].status = "approved"
       /\ u = topups[t].user /\ ledger[u][i].amount = topups[t].credits
       /\ \A j \in DOMAIN ledger[u] : ledger[u][j].reference = t => j = i

\* An approved request has such a row.
ApprovedCredited ==
  \A t \in Submitted : topups[t].status = "approved" =>
     \E i \in DOMAIN ledger[topups[t].user] : ledger[topups[t].user][i].reference = t

TopupInv ==
  /\ TopupsTypeOK
  /\ ReviewsExist /\ LocksHeld /\ DecisionsStand
  /\ CreditsBelong /\ ApprovedCredited
  /\ ApprovedInTime

-----------------------------------------------------------------------------
(* What a review holds where it stands.                                    *)
LEMMA ReviewFields ==
  ASSUME NEW q \in ReviewStates
  PROVE  /\ q.pc \in {"waiting", "locked", "decided"} => q.topup \in TopupIds /\ q.decision \in Decisions
         /\ q.pc = "decided" => q.at \in Nat
  BY DEF ReviewStates

(* A request in the table has the columns of credit_topups.                *)
LEMMA SubmittedIsTopup ==
  ASSUME TopupsTypeOK, NEW t \in Submitted
  PROVE  t \in TopupIds /\ topups[t] \in Topup
  BY DEF TopupsTypeOK, Submitted

(* The set of rows that credit a request says what its two halves say.     *)
LEMMA CreditedIffApprovedAlt ==
  TopupsTypeOK /\ CreditsBelong /\ ApprovedCredited => CreditedIffApproved
<1> SUFFICES ASSUME TopupsTypeOK, CreditsBelong, ApprovedCredited, NEW t \in TopupIds
             PROVE  IF t \in Submitted /\ topups[t].status = "approved"
                    THEN \E i \in DOMAIN ledger[topups[t].user] :
                           /\ CreditRows(t) = {<<topups[t].user, i>>}
                           /\ ledger[topups[t].user][i].amount = topups[t].credits
                    ELSE CreditRows(t) = {}
  BY DEF CreditedIffApproved
<1>1. \A d \in CreditRows(t) : \E u \in Users : \E i \in DOMAIN ledger[u] :
         d = <<u, i>> /\ ledger[u][i].reference = t
  BY DEF CreditRows
<1>2. CASE t \in Submitted /\ topups[t].status = "approved"
  <2> DEFINE u == topups[t].user
  <2>1. u \in Users
    BY <1>2, SubmittedIsTopup DEF Topup
  <2>2. PICK i \in DOMAIN ledger[u] : ledger[u][i].reference = t
    BY <1>2 DEF ApprovedCredited
  <2>3. ledger[u][i].amount = topups[t].credits
    BY <2>1, <2>2 DEF CreditsBelong
  <2>4. <<u, i>> \in CreditRows(t)
    BY <2>1, <2>2 DEF CreditRows
  <2>5. \A d \in CreditRows(t) : d = <<u, i>>
    BY <1>1, <2>1, <2>2 DEF CreditsBelong
  <2> QED
    BY <1>2, <2>2, <2>3, <2>4, <2>5
<1>3. CASE ~(t \in Submitted /\ topups[t].status = "approved")
  BY <1>1, <1>3 DEF CreditsBelong
<1> QED
  BY <1>2, <1>3

(* Steps that leave ledger and requests alone keep what the ledger says.   *)
LEMMA QuietKeeps ==
  ASSUME TopupInv, UNCHANGED <<moneyVars, topups>>
  PROVE  MoneyNext /\ (CreditsBelong /\ ApprovedCredited /\ ApprovedInTime)'
  BY DEF TopupInv, MoneyNext, CreditsBelong, ApprovedCredited, ApprovedInTime, Submitted, moneyVars

\* What each step is shown to keep.
TopupStep == TopupInv' /\ MoneyNext

(* A submission: a new row, pending, credited by nobody.                   *)
LEMMA CreateTopupKeeps ==
  ASSUME TopupInv, NEW u \in Users, NEW t \in TopupIds, NEW x \in TxIds, NEW c \in Credits,
         CreateTopup(u, t, x, c)
  PROVE  TopupStep
<1> DEFINE row == [user |-> u, txid |-> x, credits |-> c, created |-> now,
                   status |-> "pending", reviewed |-> now]
<1>1. row \in Topup /\ topups' = [topups EXCEPT ![t] = row] /\ t \notin Submitted
      /\ UNCHANGED <<moneyVars, lock, review, now>>
  BY DEF CreateTopup, Topup, TopupInv, TopupsTypeOK
<1>2. row.status = "pending"
  OBVIOUS
<1> HIDE DEF row
<1>3. TopupsTypeOK' /\ MoneyNext
  BY <1>1 DEF TopupInv, TopupsTypeOK, MoneyNext, MoneyTypeOK, moneyVars
<1>4. /\ \A s \in TopupIds \ {t} : topups'[s] = topups[s]
      /\ topups'[t] = row /\ row # NoTopup
      /\ \A s \in TopupIds : s \in Submitted' <=> (s \in Submitted \/ s = t)
  BY <1>1, CreditTopupsAssumption DEF TopupInv, TopupsTypeOK, Submitted
<1>5. ReviewsExist' /\ LocksHeld' /\ DecisionsStand'
  BY <1>1, <1>4, SubmittedIsTopup DEF TopupInv, ReviewsExist, LocksHeld, DecisionsStand
<1>6. CreditsBelong' /\ ApprovedCredited'
  BY <1>1, <1>2, <1>4 DEF TopupInv, CreditsBelong, ApprovedCredited, Submitted, moneyVars
<1>7. ApprovedInTime'
  BY <1>1, <1>2, <1>4 DEF TopupInv, ApprovedInTime, Submitted
<1> QED
  BY <1>3, <1>5, <1>6, <1>7 DEF TopupStep, TopupInv

(* The steps of a review before it commits, and the clock, touch neither   *)
(* ledger nor requests.                                                    *)
LEMMA RequestReviewKeeps ==
  ASSUME TopupInv, NEW v \in Reviews, NEW t \in TopupIds, NEW d \in Decisions,
         RequestReview(v, t, d)
  PROVE  TopupStep
<1> DEFINE q == [pc |-> "waiting", topup |-> t, decision |-> d]
<1>1. q \in ReviewStates /\ review' = [review EXCEPT ![v] = q] /\ t \in Submitted
      /\ UNCHANGED <<moneyVars, topups, lock, now>> /\ q.pc = "waiting" /\ q.topup = t
  BY DEF RequestReview, ReviewStates
<1> HIDE DEF q
<1>2. TopupsTypeOK'
  BY <1>1 DEF TopupInv, TopupsTypeOK, MoneyTypeOK, moneyVars
<1>3. ReviewsExist' /\ LocksHeld' /\ DecisionsStand'
  BY <1>1 DEF TopupInv, TopupsTypeOK, ReviewsExist, LocksHeld, DecisionsStand, Submitted
<1> QED
  BY <1>1, <1>2, <1>3, QuietKeeps DEF TopupStep, TopupInv

(* A lock is granted when nobody holds it.                                 *)
LEMMA AcquireLockKeeps ==
  ASSUME TopupInv, NEW v \in Reviews, AcquireLock(v)
  PROVE  TopupStep
<1> DEFINE t == review[v].topup
           q == [review[v] EXCEPT !.pc = "locked"]
<1>1. /\ review[v].pc = "waiting" /\ lock[t] = NoReview
      /\ lock' = [lock EXCEPT ![t] = v] /\ review' = [review EXCEPT ![v] = q]
      /\ UNCHANGED <<moneyVars, topups, now>>
  BY DEF AcquireLock
<1>2. t \in TopupIds /\ review[v] \in ReviewStates
  BY <1>1, ReviewFields DEF TopupInv, TopupsTypeOK
<1>3. q \in ReviewStates /\ q.pc = "locked" /\ q.topup = t
  BY <1>1, <1>2 DEF ReviewStates
<1> HIDE DEF q, t
<1>4. TopupsTypeOK'
  BY <1>1, <1>2, <1>3 DEF TopupInv, TopupsTypeOK, MoneyTypeOK, moneyVars
<1>5. ReviewsExist' /\ DecisionsStand'
  BY <1>1, <1>2, <1>3
     DEF TopupInv, TopupsTypeOK, ReviewsExist, DecisionsStand, Submitted, t
<1>6. LocksHeld'
  BY <1>1, <1>2, <1>3, CreditTopupsAssumption DEF TopupInv, TopupsTypeOK, LocksHeld
<1> QED
  BY <1>1, <1>4, <1>5, <1>6, QuietKeeps DEF TopupStep, TopupInv

(* A review decides on what it reads under the lock, or gives the lock up. *)
LEMMA DecideReviewKeeps ==
  ASSUME TopupInv, NEW v \in Reviews, DecideReview(v)
  PROVE  TopupStep
<1> DEFINE t == review[v].topup
           q == [pc |-> "decided", topup |-> t, decision |-> review[v].decision, at |-> now]
<1>1. review[v].pc = "locked" /\ UNCHANGED <<moneyVars, topups, now>>
  BY DEF DecideReview
<1>2. t \in TopupIds /\ t \in Submitted /\ review[v].decision \in Decisions
      /\ lock[t] = v /\ now \in Nat
  BY <1>1, ReviewFields DEF TopupInv, TopupsTypeOK, ReviewsExist, LocksHeld
<1>3. q \in ReviewStates /\ q.pc = "decided" /\ q.topup = t
      /\ q.decision = review[v].decision /\ q.at = now
  BY <1>2 DEF ReviewStates
<1>4. [pc |-> "done"] \in ReviewStates
  BY DEF ReviewStates
<1>5. CASE Reviewable(t, review[v].decision)
  <2>1. review' = [review EXCEPT ![v] = q] /\ UNCHANGED lock
    BY <1>5 DEF DecideReview
  <2>2. topups[t].status = Pending
        /\ (review[v].decision = "approve" => now - topups[t].created <= TTL)
    <3>1. topups[t].created \in Nat
      BY <1>2, SubmittedIsTopup DEF TopupInv, Topup
    <3> QED
      BY <1>2, <1>5, <3>1, CreditTopupsAssumption DEF Reviewable, Expired
  <2> HIDE DEF q, t
  <2>3. TopupsTypeOK'
    BY <1>1, <1>3, <2>1 DEF TopupInv, TopupsTypeOK, MoneyTypeOK, moneyVars
  <2>4. ReviewsExist' /\ LocksHeld' /\ DecisionsStand'
    BY <1>1, <1>2, <1>3, <2>1, <2>2
       DEF TopupInv, TopupsTypeOK, ReviewsExist, LocksHeld, DecisionsStand, Submitted
  <2> QED
    BY <1>1, <2>3, <2>4, QuietKeeps DEF TopupStep, TopupInv
<1>6. CASE ~Reviewable(t, review[v].decision)
  <2>1. review' = [review EXCEPT ![v] = [pc |-> "done"]] /\ lock' = [lock EXCEPT ![t] = NoReview]
    BY <1>6 DEF DecideReview
  <2> HIDE DEF t
  <2>2. TopupsTypeOK'
    BY <1>1, <1>2, <1>4, <2>1 DEF TopupInv, TopupsTypeOK, MoneyTypeOK, moneyVars
  <2>3. ReviewsExist' /\ DecisionsStand'
    BY <1>1, <2>1 DEF TopupInv, TopupsTypeOK, ReviewsExist, DecisionsStand, Submitted
  <2>4. LocksHeld'
    BY <1>1, <1>2, <2>1, ReviewFields DEF TopupInv, TopupsTypeOK, LocksHeld
  <2> QED
    BY <1>1, <2>2, <2>3, <2>4, QuietKeeps DEF TopupStep, TopupInv
<1> QED
  BY <1>5, <1>6

(* A review that dies frees what it held and changes nothing.              *)
LEMMA AbortReviewKeeps ==
  ASSUME TopupInv, NEW v \in Reviews, AbortReview(v)
  PROVE  TopupStep
<1>1. /\ lock' = [t \in TopupIds |-> IF lock[t] = v THEN NoReview ELSE lock[t]]
      /\ review' = [review EXCEPT ![v] = [pc |-> "done"]]
      /\ UNCHANGED <<moneyVars, topups, now>>
  BY DEF AbortReview
<1>2. [pc |-> "done"] \in ReviewStates
  BY DEF ReviewStates
<1>3. TopupsTypeOK'
  BY <1>1, <1>2 DEF TopupInv, TopupsTypeOK, MoneyTypeOK, moneyVars
<1>4. ReviewsExist' /\ DecisionsStand'
  BY <1>1 DEF TopupInv, TopupsTypeOK, ReviewsExist, DecisionsStand, Submitted
<1>5. LocksHeld'
  BY <1>1, ReviewFields DEF TopupInv, TopupsTypeOK, LocksHeld
<1> QED
  BY <1>1, <1>3, <1>4, <1>5, QuietKeeps DEF TopupStep, TopupInv

(* The clock only advances.                                                *)
LEMMA TickKeeps ==
  ASSUME TopupInv, Tick
  PROVE  TopupStep
<1>1. UNCHANGED <<moneyVars, topups, lock, review>> /\ now' \in Nat
  BY DEF Tick, TopupInv, TopupsTypeOK
<1>2. TopupsTypeOK'
  BY <1>1 DEF TopupInv, TopupsTypeOK, MoneyTypeOK, moneyVars
<1>3. ReviewsExist' /\ LocksHeld' /\ DecisionsStand'
  BY <1>1 DEF TopupInv, ReviewsExist, LocksHeld, DecisionsStand, Submitted
<1> QED
  BY <1>1, <1>2, <1>3, QuietKeeps DEF TopupStep, TopupInv

(* A row added at the end of a sequence leaves the others where they were. *)
LEMMA RowAdded ==
  ASSUME NEW S, NEW rows \in Seq(S), NEW row \in Seq(S), Len(row) = 1
  PROVE  /\ DOMAIN rows = 1 .. Len(rows)
         /\ DOMAIN (rows \o row) = 1 .. Len(rows) + 1
         /\ \A i \in 1 .. Len(rows) : (rows \o row)[i] = rows[i]
         /\ (rows \o row)[Len(rows) + 1] = row[1]
<1> DEFINE all == rows \o row
<1>1. /\ all \in Seq(S) /\ Len(all) = Len(rows) + 1
      /\ \A i \in 1 .. Len(rows) + 1 :
           all[i] = IF i <= Len(rows) THEN rows[i] ELSE row[i - Len(rows)]
  BY ConcatProperties
<1>2. Len(rows) \in Nat /\ DOMAIN rows = 1 .. Len(rows)
  BY LenProperties
<1> HIDE DEF all
<1>3. DOMAIN all = 1 .. Len(rows) + 1
  BY <1>1, LenProperties
<1>4. \A i \in 1 .. Len(rows) : all[i] = rows[i]
  BY <1>1, <1>2
<1>5. all[Len(rows) + 1] = row[1]
  BY <1>1, <1>2
<1> QED
  BY <1>2, <1>3, <1>4, <1>5 DEF all

(* A commit changes one pending request, credits its customer if it is an  *)
(* approval, and frees the lock (credit-topups.service.ts:252-282).        *)
LEMMA CommitReviewChanges ==
  ASSUME TopupInv, NEW v \in Reviews, CommitReview(v)
  PROVE  LET t == review[v].topup
             approve == review[v].decision = "approve"
         IN  /\ review[v].pc = "decided" /\ t \in Submitted /\ t \in TopupIds
             /\ topups[t].status = Pending
             /\ DOMAIN topups' = TopupIds
             /\ topups'[t] \in Topup
             /\ topups'[t].status = IF approve THEN "approved" ELSE "rejected"
             /\ topups'[t].user = topups[t].user /\ topups'[t].credits = topups[t].credits
             /\ topups'[t].created = topups[t].created /\ topups'[t].txid = topups[t].txid
             /\ topups'[t].reviewed = review[v].at
             /\ approve => topups'[t].reviewed - topups'[t].created <= TTL
             /\ \A s \in TopupIds \ {t} : topups'[s] = topups[s]
             /\ Submitted' = Submitted
<1> DEFINE t == review[v].topup
           approve == review[v].decision = "approve"
           row == [topups[t] EXCEPT !.status = IF approve THEN "approved" ELSE "rejected",
                                    !.reviewed = review[v].at]
<1>1. review[v].pc = "decided" /\ t \in Submitted /\ topups[t].status = Pending
      /\ (approve => review[v].at - topups[t].created <= TTL)
  BY DEF CommitReview, TopupInv, DecisionsStand
<1>2. t \in TopupIds /\ topups[t] \in Topup /\ review[v].at \in Nat
  BY <1>1, SubmittedIsTopup, ReviewFields DEF TopupInv, TopupsTypeOK
<1>3. topups' = [topups EXCEPT ![t] = row]
  BY DEF CommitReview
<1>4. /\ row \in Topup /\ row.status = (IF approve THEN "approved" ELSE "rejected")
      /\ row.user = topups[t].user /\ row.credits = topups[t].credits
      /\ row.created = topups[t].created /\ row.txid = topups[t].txid
      /\ row.reviewed = review[v].at
  BY <1>2 DEF Topup
<1> HIDE DEF row
<1>5. topups'[t] = row /\ (\A s \in TopupIds \ {t} : topups'[s] = topups[s])
      /\ DOMAIN topups' = TopupIds
  BY <1>2, <1>3 DEF TopupInv, TopupsTypeOK
<1>6. Submitted' = Submitted
  BY <1>1, <1>4, <1>5, CreditTopupsAssumption DEF Submitted
<1> QED
  BY <1>1, <1>2, <1>4, <1>5, <1>6

(* The commit of a review keeps everything.                                *)
LEMMA CommitReviewKeeps ==
  ASSUME TopupInv, NEW v \in Reviews, CommitReview(v)
  PROVE  TopupStep
<1> DEFINE t == review[v].topup
           approve == review[v].decision = "approve"
           u == topups[t].user
           paid == RowOf(t, topups[t].credits, balance[u] + topups[t].credits)
<1>1. /\ review[v].pc = "decided" /\ t \in Submitted /\ t \in TopupIds
      /\ topups[t].status = Pending /\ DOMAIN topups' = TopupIds /\ topups'[t] \in Topup
      /\ topups'[t].status = (IF approve THEN "approved" ELSE "rejected")
      /\ topups'[t].user = u /\ topups'[t].credits = topups[t].credits
      /\ topups'[t].created = topups[t].created
      /\ (approve => topups'[t].reviewed - topups'[t].created <= TTL)
      /\ (\A s \in TopupIds \ {t} : topups'[s] = topups[s])
      /\ Submitted' = Submitted
  BY CommitReviewChanges
<1>2. u \in Users /\ topups[t].credits \in Nat /\ t \in References /\ t \notin OrderIds
      /\ lock[t] = v
  BY <1>1, SubmittedIsTopup, CreditTopupsAssumption DEF TopupInv, Topup, LocksHeld
<1>3. /\ lock' = [lock EXCEPT ![t] = NoReview]
      /\ review' = [review EXCEPT ![v] = [pc |-> "done"]] /\ now' = now
      /\ IF approve THEN Credit(u, topups[t].credits, t) ELSE UNCHANGED moneyVars
  BY DEF CommitReview
<1>4. MoneyNext
  <2>1. CASE approve
    BY <1>2, <1>3, <2>1, DebitCreditIsMoneyNext DEF TopupInv, TopupsTypeOK
  <2>2. CASE ~approve
    BY <1>3, <2>2 DEF MoneyNext
  <2> QED
    BY <2>1, <2>2
<1>5. TopupsTypeOK'
  <2>1. MoneyTypeOK'
    BY <1>4, MoneyNextTyped DEF TopupInv, TopupsTypeOK
  <2>2. \A s \in TopupIds : topups'[s] \in Topup \cup {NoTopup}
    BY <1>1 DEF TopupInv, TopupsTypeOK
  <2>3. topups' = [s \in TopupIds |-> topups'[s]]
    BY DEF CommitReview, TopupInv, TopupsTypeOK
  <2>4. topups' \in [TopupIds -> Topup \cup {NoTopup}]
    BY <2>2, <2>3
  <2>5. [pc |-> "done"] \in ReviewStates
    BY DEF ReviewStates
  <2> QED
    BY <1>1, <1>3, <2>1, <2>4, <2>5 DEF TopupInv, TopupsTypeOK
<1>6. \A w \in Reviews : review'[w].pc \in {"waiting", "locked", "decided"} =>
         w # v /\ review'[w] = review[w] /\ review[w].topup \in TopupIds
  BY <1>3, ReviewFields DEF TopupInv, TopupsTypeOK
<1>7. \A w \in Reviews : review'[w].pc \in {"locked", "decided"} => review[w].topup # t
  BY <1>2, <1>6 DEF TopupInv, LocksHeld
<1>8. ReviewsExist' /\ LocksHeld' /\ DecisionsStand'
  <2> HIDE DEF t, approve
  <2>1. ReviewsExist'
    BY <1>1, <1>6 DEF TopupInv, ReviewsExist
  <2>2. LocksHeld'
    BY <1>3, <1>6, <1>7 DEF TopupInv, TopupsTypeOK, LocksHeld
  <2>3. DecisionsStand'
    BY <1>1, <1>6, <1>7 DEF TopupInv, DecisionsStand
  <2> QED
    BY <2>1, <2>2, <2>3
<1>9. ApprovedInTime'
  <2> HIDE DEF t, approve
  <2> QED
    BY <1>1 DEF TopupInv, ApprovedInTime, Submitted
<1>10. CreditsBelong' /\ ApprovedCredited'
  <2>1. \A w \in Users : \A i \in DOMAIN ledger[w] : ledger[w][i].reference # t
    BY <1>1 DEF TopupInv, CreditsBelong, Pending
  <2>2. CASE ~approve
    <3>1. UNCHANGED moneyVars /\ topups'[t].status = "rejected"
      BY <1>1, <1>3, <2>2
    <3> HIDE DEF t, approve
    <3> QED
      BY <1>1, <2>1, <3>1 DEF TopupInv, CreditsBelong, ApprovedCredited, Submitted, moneyVars
  <2>3. CASE approve
    <3>1. paid.reference = t /\ paid.amount = topups[t].credits
      BY DEF RowOf
    <3>2. ledger' = [ledger EXCEPT ![u] = @ \o <<paid>>]
      BY <1>3, <2>3 DEF Credit, ApplyChange, PostRows
    <3>3. ledger[u] \in Seq(LedgerRow) /\ Len(ledger[u]) \in Nat
      BY <1>2 DEF TopupInv, TopupsTypeOK, MoneyTypeOK
    <3> HIDE DEF paid
    <3>4. paid \in LedgerRow
      BY <1>2, BalanceAssumption DEF paid, RowOf, LedgerRow, TopupInv, TopupsTypeOK, MoneyTypeOK
    <3>5. /\ \A w \in Users \ {u} : ledger'[w] = ledger[w]
          /\ DOMAIN ledger[u] = 1 .. Len(ledger[u])
          /\ DOMAIN ledger'[u] = 1 .. Len(ledger[u]) + 1
          /\ \A i \in DOMAIN ledger[u] : ledger'[u][i] = ledger[u][i]
          /\ ledger'[u][Len(ledger[u]) + 1] = paid
      <4>1. /\ ledger'[u] = ledger[u] \o <<paid>>
            /\ \A w \in Users \ {u} : ledger'[w] = ledger[w]
        BY <1>2, <3>2 DEF TopupInv, TopupsTypeOK, MoneyTypeOK
      <4>2. /\ DOMAIN ledger[u] = 1 .. Len(ledger[u])
            /\ DOMAIN (ledger[u] \o <<paid>>) = 1 .. Len(ledger[u]) + 1
            /\ \A i \in 1 .. Len(ledger[u]) : (ledger[u] \o <<paid>>)[i] = ledger[u][i]
            /\ (ledger[u] \o <<paid>>)[Len(ledger[u]) + 1] = paid
        <5>1. <<paid>> \in Seq(LedgerRow) /\ Len(<<paid>>) = 1 /\ <<paid>>[1] = paid
          BY <3>4
        <5> DEFINE row == <<paid>>
                   rows == ledger[u]
        <5>2. row \in Seq(LedgerRow) /\ Len(row) = 1 /\ row[1] = paid
          BY <5>1
        <5>3. rows \in Seq(LedgerRow)
          BY <3>3
        <5> HIDE DEF row, rows
        <5>4. /\ DOMAIN rows = 1 .. Len(rows)
              /\ DOMAIN (rows \o row) = 1 .. Len(rows) + 1
              /\ \A i \in 1 .. Len(rows) : (rows \o row)[i] = rows[i]
              /\ (rows \o row)[Len(rows) + 1] = row[1]
          BY <5>2, <5>3, RowAdded
        <5> QED
          BY <5>2, <5>4 DEF row, rows
      <4> QED
        BY <4>1, <4>2
    <3>6. topups'[t].status = "approved"
      BY <1>1, <2>3
    <3> DEFINE last == Len(ledger[u]) + 1
    <3> HIDE DEF t, u, approve
    <3>7. \A i \in DOMAIN ledger'[u] : i \in DOMAIN ledger[u] \/ i = last
      BY <3>3, <3>5
    <3>8. last \in DOMAIN ledger'[u] /\ last \notin DOMAIN ledger[u]
      BY <3>3, <3>5
    <3> HIDE DEF last
    <3>9. ledger'[u][last] = paid
      BY <3>5 DEF last
    <3>10. ASSUME NEW s \in TopupIds \ {t}, NEW w \in Users, NEW i \in DOMAIN ledger'[w],
                  ledger'[w][i].reference = s
           PROVE  i \in DOMAIN ledger[w] /\ ledger'[w][i] = ledger[w][i]
      BY <3>1, <3>5, <3>7, <3>9, <3>10
    <3>11. ASSUME NEW w \in Users, NEW i \in DOMAIN ledger'[w], ledger'[w][i].reference = t
           PROVE  w = u /\ i = last
      BY <2>1, <3>5, <3>7, <3>11
    <3>12. CreditsBelong'
      <4>1. ASSUME NEW s \in TopupIds \ {t}, NEW w \in Users, NEW i \in DOMAIN ledger'[w],
                   ledger'[w][i].reference = s
            PROVE  /\ s \in Submitted' /\ topups'[s].status = "approved"
                   /\ w = topups'[s].user /\ ledger'[w][i].amount = topups'[s].credits
                   /\ \A j \in DOMAIN ledger'[w] : ledger'[w][j].reference = s => j = i
        BY <1>1, <3>10, <4>1 DEF TopupInv, CreditsBelong
      <4>2. ASSUME NEW w \in Users, NEW i \in DOMAIN ledger'[w], ledger'[w][i].reference = t
            PROVE  /\ t \in Submitted' /\ topups'[t].status = "approved"
                   /\ w = topups'[t].user /\ ledger'[w][i].amount = topups'[t].credits
                   /\ \A j \in DOMAIN ledger'[w] : ledger'[w][j].reference = t => j = i
        BY <1>1, <3>1, <3>6, <3>9, <3>11, <4>2
      <4> QED
        BY <4>1, <4>2 DEF CreditsBelong
    <3>13. ApprovedCredited'
      <4>1. ASSUME NEW s \in Submitted, s # t, topups[s].status = "approved"
            PROVE  \E i \in DOMAIN ledger'[topups[s].user] :
                      ledger'[topups[s].user][i].reference = s
        <5>1. topups[s].user \in Users
          BY SubmittedIsTopup DEF TopupInv, Topup
        <5>2. PICK i \in DOMAIN ledger[topups[s].user] :
                      ledger[topups[s].user][i].reference = s
          BY <4>1 DEF TopupInv, ApprovedCredited
        <5>3. i \in DOMAIN ledger'[topups[s].user]
              /\ ledger'[topups[s].user][i] = ledger[topups[s].user][i]
          BY <3>3, <3>5, <5>1
        <5> QED
          BY <5>2, <5>3
      <4>2. \A s \in Submitted : s \in TopupIds
        BY DEF Submitted
      <4> QED
        BY <1>1, <3>1, <3>8, <3>9, <4>1, <4>2 DEF ApprovedCredited
    <3> QED
      BY <3>12, <3>13
  <2> QED
    BY <2>2, <2>3
<1> QED
  BY <1>4, <1>5, <1>8, <1>9, <1>10 DEF TopupStep, TopupInv

-----------------------------------------------------------------------------
(* Every step keeps the invariant and the discipline of money.             *)
LEMMA TopupsNextKeeps == TopupInv /\ [TopupsNext]_tuVars => TopupStep
<1> SUFFICES ASSUME TopupInv, [TopupsNext]_tuVars PROVE TopupStep
  OBVIOUS
<1>1. CASE UNCHANGED tuVars
  <2>1. TopupsTypeOK' /\ ReviewsExist' /\ LocksHeld' /\ DecisionsStand'
    BY <1>1 DEF tuVars, TopupInv, TopupsTypeOK, MoneyTypeOK, ReviewsExist, LocksHeld,
                DecisionsStand, Submitted
  <2> QED
    BY <1>1, <2>1, QuietKeeps DEF tuVars, moneyVars, TopupStep, TopupInv
<1> QED
  BY <1>1, CreateTopupKeeps, RequestReviewKeeps, AcquireLockKeeps, DecideReviewKeeps,
     CommitReviewKeeps, AbortReviewKeeps, TickKeeps DEF TopupsNext, ReviewStep

(* The invariant holds before anything was submitted.                      *)
LEMMA TopupsInitInv == TopupsInit => TopupInv /\ LedgerBacksBalance
<1> SUFFICES ASSUME TopupsInit PROVE TopupInv /\ LedgerBacksBalance
  OBVIOUS
<1>1. [pc |-> "idle"] \in ReviewStates
  BY DEF ReviewStates
<1>2. TopupsTypeOK /\ LedgerBacksBalance
  BY <1>1, MoneyInitBacked DEF TopupsInit, TopupsTypeOK
<1>3. Submitted = {}
  BY DEF TopupsInit, Submitted
<1>4. \A u \in Users : \A i \in DOMAIN ledger[u] : ledger[u][i].reference = NoOrder
  BY BalanceAssumption DEF TopupsInit, MoneyInit, RowOf
<1>5. NoOrder \notin TopupIds
  BY BalanceAssumption, CreditTopupsAssumption
<1>6. CreditsBelong
  BY <1>4, <1>5 DEF CreditsBelong
<1>7. ApprovedCredited /\ ApprovedInTime
  BY <1>3 DEF ApprovedCredited, ApprovedInTime
<1>8. ReviewsExist /\ LocksHeld /\ DecisionsStand
  BY DEF TopupsInit, ReviewsExist, LocksHeld, DecisionsStand
<1> QED
  BY <1>2, <1>6, <1>7, <1>8 DEF TopupInv

(* The inductive invariant of the reviews.                                 *)
LEMMA TopupInvariant == TopupsSpec => []TopupInv
<1>1. TopupInv /\ [TopupsNext]_tuVars => TopupInv'
  BY TopupsNextKeeps DEF TopupStep
<1> QED
  BY <1>1, TopupsInitInv, PTL DEF TopupsSpec

(***************************************************************************)
(* Type correctness of requests, locks and reviews.                        *)
(***************************************************************************)
THEOREM TopupsTypeCorrect == TopupsSpec => []TopupsTypeOK
<1>1. TopupInv => TopupsTypeOK
  BY DEF TopupInv
<1> QED
  BY <1>1, TopupInvariant, PTL

(***************************************************************************)
(* A top-up is credited exactly once if it is approved, never if it is     *)
(* not, to its own customer and for its own amount (approveTopup,          *)
(* credit-topups.service.ts:227-288), however many administrators review   *)
(* it at once and whichever of their reviews die.                          *)
(***************************************************************************)
THEOREM CreditedOnce == TopupsSpec => []CreditedIffApproved
<1>1. TopupInv => CreditedIffApproved
  BY CreditedIffApprovedAlt DEF TopupInv
<1> QED
  BY <1>1, TopupInvariant, PTL

(***************************************************************************)
(* No approval is later than the TTL (credit-topups.service.ts:247-250),   *)
(* however long the review waited for the lock.                            *)
(***************************************************************************)
THEOREM ApprovalsInTime == TopupsSpec => []ApprovedInTime
<1>1. TopupInv => ApprovedInTime
  BY DEF TopupInv
<1> QED
  BY <1>1, TopupInvariant, PTL

(***************************************************************************)
(* No review, retry or crash takes a request out of approved or rejected,  *)
(* nor edits what was submitted.                                           *)
(***************************************************************************)
THEOREM ReviewsFinal == TopupsSpec => ReviewIsFinal
<1> DEFINE Final ==
      \A t \in Submitted :
        \/ topups'[t] = topups[t]
        \/ /\ topups[t].status = Pending
           /\ [topups'[t] EXCEPT !.status = Pending, !.reviewed = 0]
                = [topups[t] EXCEPT !.reviewed = 0]
<1>1. TopupInv /\ [TopupsNext]_tuVars => [Final]_tuVars
  <2> SUFFICES ASSUME TopupInv, TopupsNext PROVE Final
    OBVIOUS
  <2>1. UNCHANGED topups => Final
    OBVIOUS
  <2>2. ASSUME NEW u, NEW t, NEW x, NEW c, CreateTopup(u, t, x, c) PROVE Final
    BY <2>2 DEF CreateTopup, TopupInv, TopupsTypeOK, Submitted
  <2>3. ASSUME NEW v \in Reviews, CommitReview(v) PROVE Final
    <3> DEFINE t == review[v].topup
    <3>1. /\ t \in Submitted /\ t \in TopupIds /\ topups[t].status = Pending
          /\ topups'[t] \in Topup
          /\ topups'[t].user = topups[t].user /\ topups'[t].credits = topups[t].credits
          /\ topups'[t].created = topups[t].created /\ topups'[t].txid = topups[t].txid
          /\ \A s \in TopupIds \ {t} : topups'[s] = topups[s]
      BY <2>3, CommitReviewChanges
    <3>2. topups[t] \in Topup
      BY <3>1, SubmittedIsTopup DEF TopupInv
    <3> HIDE DEF t
    <3>3. [topups'[t] EXCEPT !.status = Pending, !.reviewed = 0]
            = [topups[t] EXCEPT !.reviewed = 0]
      BY <3>1, <3>2 DEF Topup
    <3> QED
      BY <3>1, <3>3 DEF Submitted
  <2>4. TopupsNext => \/ UNCHANGED topups
                      \/ \E u, t, x, c : CreateTopup(u, t, x, c)
                      \/ \E v \in Reviews : CommitReview(v)
    BY DEF TopupsNext, ReviewStep, RequestReview, AcquireLock, DecideReview, AbortReview, Tick
  <2> QED
    BY <2>1, <2>2, <2>3, <2>4
<1> QED
  BY <1>1, TopupInvariant, PTL DEF TopupsSpec, ReviewIsFinal

(***************************************************************************)
(* Reviews keep every balance backed by its ledger.                        *)
(***************************************************************************)
THEOREM TopupsLedgerBacks == TopupsSpec => []LedgerBacksBalance
<1>1. TopupInv /\ LedgerBacksBalance /\ [TopupsNext]_tuVars => LedgerBacksBalance'
  BY TopupsNextKeeps, MoneyNextBacks DEF TopupStep, TopupInv, TopupsTypeOK
<1> QED
  BY <1>1, TopupsInitInv, TopupInvariant, PTL DEF TopupsSpec

(***************************************************************************)
(* The reviews implement the abstract ledger: an approval appends to one   *)
(* customer's statement, every other step leaves all statements alone.     *)
(***************************************************************************)
THEOREM TopupsKeepLedgerPromise == TopupsSpec => KeepsLedgerPromise
<1>1. TopupsInit => CL!CLInit
  BY TopupsInitInv DEF LedgerBacksBalance, CL!CLInit
<1>2. TopupInv /\ LedgerBacksBalance /\ [TopupsNext]_tuVars => [CL!CLNext]_(CL!clVars)
  BY TopupsNextKeeps, MoneyNextKeepsPromise DEF TopupStep, TopupInv, TopupsTypeOK
<1> QED
  BY <1>1, <1>2, TopupInvariant, TopupsLedgerBacks, PTL
     DEF TopupsSpec, KeepsLedgerPromise, CL!CLSpec

=============================================================================
