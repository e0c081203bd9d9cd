------------------------------ MODULE RowLocks ------------------------------
(***************************************************************************)
(* The row locks the transactions of the API wait for.  A transaction asks *)
(* for its locks one statement after another, keeps each until it ends,    *)
(* and waits while another transaction holds the row in a conflicting      *)
(* mode.  When transactions wait on each other in a circle, PostgreSQL's   *)
(* deadlock detector aborts one of them and its request fails with 500.    *)
(*                                                                         *)
(* OrderBilling and CreditTopups take these transactions as single steps;  *)
(* this module is about whether they can end at all.  Inserting a row that *)
(* refers to another locks the other FOR KEY SHARE; an UPDATE that leaves  *)
(* the key alone locks its row FOR NO KEY UPDATE.  There is one customer:  *)
(* the transactions of two customers have only the administrators' rows in *)
(* common, and those they lock FOR KEY SHARE.                              *)
(***************************************************************************)
EXTENDS Naturals, Sequences, FiniteSets, SequencesExt

CONSTANTS Txs,        \* the requests, one transaction each
          Customer,   \* the users row that is charged and credited
          Admins,     \* users rows of the staff who review
          Orders,     \* the customer's orders that are committed already
          Topups,     \* the customer's top-ups
          Ops,        \* the operations a run lets requests call
          MaxBatch    \* orders in one pay request

AllOps == {"create", "pay", "autopay", "start", "save", "approve", "adjust"}
Modes == {"key_share", "no_key_update", "update"}
Rows == {Customer} \cup Admins \cup Orders \cup Topups
Locks == [row : Rows, mode : Modes]

RowLocksAssumption ==
  /\ Customer \notin Admins \cup Orders \cup Topups
  /\ Admins \cap Orders = {} /\ Admins \cap Topups = {} /\ Orders \cap Topups = {}
  /\ Ops \subseteq AllOps
  /\ MaxBatch \in Nat \ {0}

VARIABLES op,      \* op[t]: what request t does
          todo,    \* todo[t]: the locks it has still to ask for, in order
          held,    \* held[t]: the locks it keeps until it ends
          phase    \* phase[t]

vars == <<op, todo, held, phase>>

Share(r) == [row |-> r, mode |-> "key_share"]
Modify(r) == [row |-> r, mode |-> "no_key_update"]
Own(r) == [row |-> r, mode |-> "update"]

\* Faulty: the ledger row is inserted before the user is locked.
LedgerRowFirst == <<Share(Customer), Own(Customer)>>

\* _applyChangeWithManager: the user FOR UPDATE; the user's UPDATE and the
\* ledger row's references to the user add nothing to that lock.
ApplyChange == <<Own(Customer)>>

\* createScanLabelOrder and createDesignOrder: the order's insert refers to
\* the user, then the debit locks the user; a bulk import that has run out
\* of credits skips the debit.  The new order's own row is nobody else's.
CreatePlan(skipDebit) ==
  <<Share(Customer)>> \o IF skipDebit THEN <<>> ELSE ApplyChange

\* payOrders: each order FOR UPDATE in the caller's order, and the debit of
\* those not paid yet.  A list that stops for want of credits takes the
\* locks of a shorter list.  payOrders drops repeated ids.
PayPlan(list, paid) ==
  FlattenSeq([i \in DOMAIN list |->
    <<Own(list[i])>> \o IF list[i] \in paid THEN <<>> ELSE ApplyChange])

Lists == {s \in UNION {[1..n -> Orders] : n \in 1..MaxBatch} :
            \A i, j \in DOMAIN s : s[i] = s[j] => i = j}

\* autoPayOrderIfPossible: the order FOR UPDATE, then the debit.
AutoPayPlan(o) == <<Own(o)>> \o ApplyChange

\* startProcessing reads the order without a lock.  An order not paid yet is
\* debited first: the user, then the ledger row's reference to the order;
\* then the order is saved.
StartPlan(o, paid) ==
  (IF paid THEN <<>> ELSE ApplyChange \o <<Share(o)>>) \o <<Modify(o)>>

\* updateOrderStatus and the other one-row edits: a single UPDATE.
SavePlan(o) == <<Modify(o)>>

\* approveTopup: the top-up FOR UPDATE, the administrator's id written to it (a
\* reference to their users row), then the credit.
ApprovePlan(p, a) == <<Own(p), Share(a)>> \o ApplyChange

\* adjustUserCredit: the change, then the audit's reference to the admin.
AdjustPlan(a) == ApplyChange \o <<Share(a)>>

Plans(kind) ==
  CASE kind = "create" -> {CreatePlan(skip) : skip \in BOOLEAN}
    [] kind = "pay" ->
         {PayPlan(list, paid) : list \in Lists, paid \in SUBSET Orders}
    [] kind = "autopay" -> {AutoPayPlan(o) : o \in Orders}
    [] kind = "start" ->
         {StartPlan(o, paid) : o \in Orders, paid \in BOOLEAN}
    [] kind = "save" -> {SavePlan(o) : o \in Orders}
    [] kind = "approve" -> {ApprovePlan(p, a) : p \in Topups, a \in Admins}
    [] kind = "adjust" -> {AdjustPlan(a) : a \in Admins}

Init ==
  /\ op = [t \in Txs |-> "none"]
  /\ todo = [t \in Txs |-> <<>>]
  /\ held = [t \in Txs |-> {}]
  /\ phase = [t \in Txs |-> "idle"]

Begin(t) ==
  /\ phase[t] = "idle"
  /\ \E kind \in Ops :
       /\ op' = [op EXCEPT ![t] = kind]
       /\ \E plan \in Plans(kind) : todo' = [todo EXCEPT ![t] = plan]
  /\ phase' = [phase EXCEPT ![t] = "running"]
  /\ UNCHANGED held

Conflict(m, n) == "update" \in {m, n} \/ {m, n} = {"no_key_update"}

Blocks(u, lock) ==
  \E h \in held[u] : h.row = lock.row /\ Conflict(h.mode, lock.mode)

WaitsFor(t, u) == t # u /\ todo[t] # <<>> /\ Blocks(u, Head(todo[t]))

Acquire(t) ==
  /\ todo[t] # <<>>
  /\ \A u \in Txs : ~ WaitsFor(t, u)
  /\ held' = [held EXCEPT ![t] = @ \cup {Head(todo[t])}]
  /\ todo' = [todo EXCEPT ![t] = Tail(@)]
  /\ UNCHANGED <<op, phase>>

\* The callback of dataSource.transaction has returned: COMMIT.
Commit(t) ==
  /\ phase[t] = "running"
  /\ todo[t] = <<>>
  /\ phase' = [phase EXCEPT ![t] = "committed"]
  /\ held' = [held EXCEPT ![t] = {}]
  /\ UNCHANGED <<op, todo>>

\* Transaction t is on a circle of transactions, each waiting for the next.
InCycle(t) ==
  /\ \E u \in Txs : WaitsFor(t, u)
  /\ \E n \in 2..Cardinality(Txs) : \E ring \in [1..n -> Txs] :
       /\ ring[1] = t
       /\ \A i \in 1..n : WaitsFor(ring[i], ring[(i % n) + 1])

\* The detector picks a transaction of the circle and rolls it back.
Abort(t) ==
  /\ InCycle(t)
  /\ phase' = [phase EXCEPT ![t] = "aborted"]
  /\ held' = [held EXCEPT ![t] = {}]
  /\ todo' = [todo EXCEPT ![t] = <<>>]
  /\ UNCHANGED op

Next == \E t \in Txs : Begin(t) \/ Acquire(t) \/ Commit(t) \/ Abort(t)

\* Fairness: the database runs the statements it is sent, and its detector
\* runs whenever a transaction has waited for deadlock_timeout.
Spec ==
  /\ Init /\ [][Next]_vars
  /\ \A t \in Txs : WF_vars(Acquire(t) \/ Commit(t)) /\ WF_vars(Abort(t))

RowLocksTypeOK ==
  /\ op \in [Txs -> AllOps \cup {"none"}]
  /\ \A t \in Txs : todo[t] \in Seq(Locks)
  /\ held \in [Txs -> SUBSET Locks]
  /\ phase \in [Txs -> {"idle", "running", "committed", "aborted"}]

\* An approved top-up, a correction of a balance and a one-row edit are never
\* the transaction the detector aborts: so long as the staff who review are
\* not the customer they credit, nothing that locks a customer first goes
\* on to wait for a top-up, and a single UPDATE holds nothing while it waits.
ReviewsNeverDeadlock ==
  \A t \in Txs : op[t] \in {"approve", "adjust", "save"} => ~ InCycle(t)

\* Payments that lock one order each agree on the order of the locks, the
\* order before its customer: they deadlock neither among themselves nor
\* with approvals and edits.
OneOrderPaymentsNeverDeadlock == \A t \in Txs : ~ InCycle(t)

\* Whatever waits for a lock is answered in the end: holders commit, and a
\* circle loses a member.
EveryRequestAnswered ==
  \A t \in Txs :
    phase[t] = "running" ~> phase[t] \in {"committed", "aborted"}
=============================================================================
