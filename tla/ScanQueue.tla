------------------------------ MODULE ScanQueue ------------------------------
(***************************************************************************)
(* From a payment to the worker: the Redis list queue:scan-label, the      *)
(* requests that push a job on it after their transaction has committed,   *)
(* and the worker loop that every backend process runs.                    *)
(*                                                                         *)
(* A job is pushed and popped outside any transaction, and popped before   *)
(* it is handled.  A Redis error in a request fails the request (or, in a  *)
(* bulk import, the row); a Redis error in the worker rejects the promise  *)
(* of loop(), which nothing catches: Node ends the process with every      *)
(* request in it, and docker-compose.yml restarts it.  Redis itself keeps  *)
(* its list.                                                               *)
(*                                                                         *)
(* Whether the balance covers an order is a free choice here; OrderBilling *)
(* has the money, and the saves that race each other on one row. An order  *)
(* that was deleted stays so here: OrderBilling has the save of            *)
(* bulkMarkFailed that puts a deleted row back.                            *)
(***************************************************************************)
EXTENDS Integers, Sequences, FiniteSets

CONSTANTS OrderIds,   \* identifiers an order row can be given
          Requests,   \* HTTP requests, each served once
          MaxRows,    \* rows of one import
          MaxFaults,  \* Redis errors and process crashes of a behaviour
          NoRow,      \* no orders row has this id
          NoJob       \* the worker holds no job

VARIABLES orders,   \* orders[o]: the row, or NoRow
          queue,    \* the Redis list, next job to pop first
          hand,     \* the job the worker has popped, or NoJob
          popped,   \* popped[o, by]: how often such a job was popped
          failed,   \* orders the worker marked failed and refunded
          req,      \* req[r]: what request r still has to do
          told,     \* orders with a job that some reply reported as done
          up,       \* the backend process runs
          faults    \* faults so far

requestVars == <<orders, req, told>>
workerVars == <<hand, popped, failed, up>>
vars == <<orders, queue, hand, popped, failed, req, told, up, faults>>

\* "scan": createScanLabelOrder; "label": an imported label's order, to be
\* activated; "empty": an imported empty package.
Kinds == {"scan", "label", "empty"}

\* payment_status, who made the debit in the ledger, if there is one, and
\* whether the row was deleted: its id is never given again.
Order == [kind : Kinds, paid : BOOLEAN, debited : {"no", "customer", "admin"},
          deleted : BOOLEAN]

\* A ScanJobPayload: the order, whether a payment pushed it, and whether it
\* carries a tracking code and a label file.
Causes == {"payment", "import"}

Job == [order : OrderIds, by : Causes,
        tracking : BOOLEAN, labelUrl : BOOLEAN]

ScanQueueAssumption ==
  /\ MaxRows \in Nat
  /\ MaxFaults \in Nat
  /\ NoRow \notin Order
  /\ NoJob \notin Job

PaymentJob(o) == [order |-> o, by |-> "payment", tracking |-> TRUE, labelUrl |-> FALSE]
LabelJob(o)   == [order |-> o, by |-> "import",  tracking |-> TRUE, labelUrl |-> TRUE]

\* A request: rows still to create (of an import), jobs still to push, and
\* the orders with a job that its reply will report as done.
Request == [pc : {"idle", "busy", "done"}, op : {"scan", "preview", "pay"},
            rows : 0 .. MaxRows, exhausted : BOOLEAN, todo : Seq(Job),
            oks : SUBSET OrderIds]

ScanTypeOK ==
  /\ orders \in [OrderIds -> Order \cup {NoRow}]
  /\ queue \in Seq(Job)
  /\ hand \in Job \cup {NoJob}
  /\ popped \in [OrderIds \X Causes -> Nat]
  /\ failed \subseteq OrderIds
  /\ req \in [Requests -> Request]
  /\ told \subseteq OrderIds
  /\ up \in BOOLEAN
  /\ faults \in 0 .. MaxFaults

Idle == [pc |-> "idle", op |-> "pay", rows |-> 0, exhausted |-> FALSE,
         todo |-> << >>, oks |-> {}]

Init ==
  /\ orders = [o \in OrderIds |-> NoRow]
  /\ queue = << >>
  /\ popped = [x \in OrderIds \X Causes |-> 0]
  /\ hand = NoJob
  /\ failed = {}
  /\ req = [r \in Requests |-> Idle]
  /\ told = {}
  /\ up = TRUE
  /\ faults = 0

-----------------------------------------------------------------------------
\* The rows that were ever inserted, and those that are there.
Made == {o \in OrderIds : orders[o] # NoRow}
Live == {o \in Made : ~orders[o].deleted}

Fault == faults < MaxFaults /\ faults' = faults + 1

Goto(r, state) == req' = [req EXCEPT ![r] = state]

(***************************************************************************)
(* The requests.  importTrackingBulk, and createScanLabelOrder for one     *)
(* row, are "scan"; confirmPreview is "preview".                           *)
(***************************************************************************)
StartImport(r, op, rows) ==
  /\ up /\ req[r].pc = "idle"
  /\ Goto(r, [Idle EXCEPT !.pc = "busy", !.op = op, !.rows = rows])
  /\ UNCHANGED <<orders, queue, told, workerVars, faults>>

\* The jobs a committed row leads to: a scan only if it was paid, an imported
\* label whether it was or not.
RowJobs(kind, o, paid) ==
  IF kind = "scan" /\ ~paid THEN << >>
  ELSE IF kind = "scan" THEN <<PaymentJob(o)>> ELSE <<LabelJob(o)>>

\* Faulty: one row too many.
RowsLeftOrNone(q) == q.todo = << >> /\ q.rows >= 0

RowsLeft(q) == q.todo = << >> /\ q.rows > 0

\* One row and, if the balance covers it, its debit; rows after one that
\* could not be paid are not tried.
ImportRow(r, kind, o, paid) ==
  LET q == req[r] IN
  /\ q.pc = "busy" /\ RowsLeft(q)
  /\ (q.op = "scan") <=> (kind = "scan")
  /\ o \notin Made
  /\ paid => ~q.exhausted
  /\ orders' = [orders EXCEPT ![o] =
                  [kind |-> kind, paid |-> paid,
                   debited |-> IF paid THEN "customer" ELSE "no",
                   deleted |-> FALSE]]
  /\ LET jobs == RowJobs(kind, o, paid) IN
     Goto(r, [q EXCEPT !.rows = @ - 1, !.exhausted = ~paid,
                       !.todo = jobs, !.oks = IF jobs = << >> THEN @ ELSE @ \cup {o}])
  /\ UNCHANGED <<queue, told, workerVars, faults>>

\* payOrders pays these, and debits those no debit exists for yet.
PayRow(row) ==
  [row EXCEPT !.paid = TRUE, !.debited = IF @ = "no" THEN "customer" ELSE @]

\* Faulty: an order that was debited before is dispatched once more.
DispatchedAgain(row) == row.kind # "empty"

\* Only what was debited now, and is a scan or a label to activate, gets a job.
Dispatched(row) == row.debited = "no" /\ row.kind # "empty"

Elems(seq) == {seq[i] : i \in DOMAIN seq}

\* Lists of orders without repetition, and a part of one in its order.
OrderLists == {s \in UNION {[1 .. n -> OrderIds] : n \in 0 .. Cardinality(OrderIds)} :
                 \A i, j \in DOMAIN s : s[i] = s[j] => i = j}

InOrderOf(seq, part) ==
  \A i, j \in DOMAIN part : i < j =>
    \E k, l \in DOMAIN seq : k < l /\ seq[k] = part[i] /\ seq[l] = part[j]

(***************************************************************************)
(* payOrders: one transaction pays the unpaid orders of the list in order, *)
(* until the balance runs out: seq is the part of the list that is paid,   *)
(* due those of them that get a job.                                       *)
(***************************************************************************)
PayOrders(r, seq, due) ==
  LET chosen == Elems(seq) IN
  /\ up /\ req[r].pc = "idle"
  /\ chosen \subseteq Live
  /\ \A o \in chosen : ~orders[o].paid
  /\ Elems(due) = {o \in chosen : Dispatched(orders[o])} /\ InOrderOf(seq, due)
  /\ orders' = [o \in OrderIds |-> IF o \in chosen THEN PayRow(orders[o]) ELSE orders[o]]
  /\ Goto(r, [Idle EXCEPT !.pc = "busy", !.todo = [i \in DOMAIN due |-> PaymentJob(due[i])],
                          !.oks = Elems(due)])
  /\ UNCHANGED <<queue, told, workerVars, faults>>

\* ScanQueueService.enqueue of the next job, awaited.
Push(r) ==
  LET q == req[r] IN
  /\ q.todo # << >>
  /\ queue' = Append(queue, Head(q.todo))
  /\ Goto(r, [q EXCEPT !.todo = Tail(@)])
  /\ UNCHANGED <<orders, told, workerVars, faults>>

(***************************************************************************)
(* Redis refuses the push.  importTrackingBulk reports the row as failed   *)
(* and goes on, although the row is committed and paid; every other        *)
(* handler fails with it, and pushes none of the jobs it had left.         *)
(***************************************************************************)
PushFails(r) ==
  LET q == req[r] IN
  /\ q.todo # << >>
  /\ Fault
  /\ Goto(r, IF q.op = "scan"
             THEN [q EXCEPT !.todo = << >>, !.oks = @ \ {Head(q.todo).order}]
             ELSE [Idle EXCEPT !.pc = "done"])
  /\ UNCHANGED <<orders, queue, told, workerVars>>

Reply(r) ==
  /\ req[r].pc = "busy" /\ req[r].todo = << >> /\ req[r].rows = 0
  /\ Goto(r, [Idle EXCEPT !.pc = "done"])
  /\ told' = told \cup req[r].oks
  /\ UNCHANGED <<orders, queue, workerVars, faults>>

(***************************************************************************)
(* The administrators' hand on orders: startProcessing debits an order     *)
(* that is neither paid nor debited, and pushes no job;                    *)
(* updatePaymentStatus sets the flag; deleteOrder takes the row away,      *)
(* whatever jobs it has.                                                   *)
(***************************************************************************)
StartProcessing(o) ==
  LET row == orders[o] IN
  /\ up /\ o \in Live
  /\ orders' = [orders EXCEPT ![o] = [row EXCEPT !.paid = TRUE,
       !.debited = IF row.paid \/ row.debited # "no" THEN @ ELSE "admin"]]
  /\ UNCHANGED <<queue, req, told, workerVars, faults>>

UpdatePaymentStatus(o, paid) ==
  /\ up /\ o \in Live
  /\ orders' = [orders EXCEPT ![o].paid = paid]
  /\ UNCHANGED <<queue, req, told, workerVars, faults>>

\* What is remembered of a deleted order is who was charged for it.
DeleteOrder(o) ==
  /\ up /\ o \in Live
  /\ orders' = [orders EXCEPT ![o].deleted = TRUE, ![o].paid = FALSE]
  /\ UNCHANGED <<queue, req, told, workerVars, faults>>

-----------------------------------------------------------------------------
(* The worker                                                              *)

\* brpop: the job is gone from Redis before it is looked at.
Dequeue ==
  /\ up /\ hand = NoJob /\ queue # << >>
  /\ hand' = Head(queue)
  /\ queue' = Tail(queue)
  /\ popped' = [popped EXCEPT ![<<hand'.order, hand'.by>>] = @ + 1]
  /\ UNCHANGED <<requestVars, failed, up, faults>>

InvalidJob(j) == ~j.tracking /\ ~j.labelUrl

(***************************************************************************)
(* handleJob: an invalid job fails its order and refunds it; any other is  *)
(* only looked up and logged, an error of the lookup included.             *)
(***************************************************************************)
HandleJob ==
  /\ up /\ hand # NoJob
  /\ failed' = IF InvalidJob(hand) THEN failed \cup {hand.order} ELSE failed
  /\ hand' = NoJob
  /\ UNCHANGED <<queue, requestVars, popped, up, faults>>

\* The process ends: by a crash, or because brpop failed while the worker
\* was waiting.  Its requests die with it, and the job in the worker's hand.
ProcessEnds ==
  /\ up
  /\ Fault
  /\ up' = FALSE
  /\ hand' = NoJob
  /\ req' = [r \in Requests |-> IF req[r].pc = "busy"
                                THEN [Idle EXCEPT !.pc = "done"] ELSE req[r]]
  /\ UNCHANGED <<orders, queue, popped, failed, told>>

\* restart: unless-stopped; onModuleInit starts the loop.
Restart ==
  /\ ~up
  /\ up' = TRUE
  /\ UNCHANGED <<queue, requestVars, hand, popped, failed, faults>>

-----------------------------------------------------------------------------
Serve(r) ==
  \/ \E op \in {"scan", "preview"}, rows \in 1 .. MaxRows : StartImport(r, op, rows)
  \/ \E kind \in Kinds, o \in OrderIds, paid \in BOOLEAN : ImportRow(r, kind, o, paid)
  \/ \E seq \in OrderLists \ {<< >>}, due \in OrderLists : PayOrders(r, seq, due)
  \/ Push(r) \/ PushFails(r) \/ Reply(r)

Next ==
  \/ \E r \in Requests : Serve(r)
  \/ \E o \in OrderIds : \/ StartProcessing(o) \/ DeleteOrder(o)
                         \/ \E paid \in BOOLEAN : UpdatePaymentStatus(o, paid)
  \/ Dequeue \/ HandleJob \/ ProcessEnds \/ Restart

Spec == Init /\ [][Next]_vars

(***************************************************************************)
(* The worker's loop never stops while its process runs, and the container *)
(* is always restarted; requests may stall and faults are not owed.        *)
(***************************************************************************)
Fairness == WF_vars(Dequeue) /\ WF_vars(HandleJob) /\ WF_vars(Restart)

FairSpec == Spec /\ Fairness

-----------------------------------------------------------------------------
\* How many jobs for an order and a cause were pushed, popped or not.
Copies(o, by) ==
  popped[o, by] + Cardinality({i \in DOMAIN queue : queue[i].order = o /\ queue[i].by = by})

Pushed(o, by) == Copies(o, by) > 0

\* Jobs that requests under way will push, unless something fails.
Pending == UNION {Elems(req[r].todo) : r \in Requests}

(***************************************************************************)
(* The worker never fails or refunds an order: every job the services push *)
(* carries what handleJob asks for (scan-worker.service.ts:53), however    *)
(* its order was made and paid.                                            *)
(***************************************************************************)
WorkerOnlyReads == failed = {}

(***************************************************************************)
(* An order reaches the worker at most once for its payment and once for   *)
(* its import: neither two payments of it, nor an administrator who sets   *)
(* it back to unpaid, nor a crash between pop and handling copies the job. *)
(***************************************************************************)
EachJobOnce == \A o \in OrderIds, by \in Causes : Copies(o, by) <= 1

(***************************************************************************)
(* A job is pushed only after the transaction that made or debited its     *)
(* order has committed: it is never of an order the customer was not       *)
(* charged for, and the worker finds its order unless an administrator     *)
(* deleted it meanwhile.                                                   *)
(***************************************************************************)
Owed(o, by) == \E j \in Pending : j.order = o /\ j.by = by

JobsAreCommitted ==
  \A o \in OrderIds, by \in Causes :
     Pushed(o, by) \/ Owed(o, by) =>
        o \in Made /\ (by = "payment" => orders[o].debited = "customer")

(***************************************************************************)
(* Without a fault nothing a customer paid for is left without its job,    *)
(* nor an imported label: it was pushed, or the request that owes it is    *)
(* under way (orders.service.ts:327-338, 605-615, labels.service.ts:418).  *)
(***************************************************************************)
OnlyFaultsLoseJobs ==
  faults = 0 => \A o \in Made :
     orders[o].kind # "scan" \/ orders[o].debited = "customer" =>
        \E by \in Causes : Pushed(o, by) \/ Owed(o, by)

(***************************************************************************)
(* The job of every order a reply vouches for has been pushed, even with   *)
(* faults: an enqueue that failed is never answered with success.          *)
(***************************************************************************)
SuccessMeansPushed == \A o \in told : \E by \in Causes : Pushed(o, by)

(***************************************************************************)
(* Every job that reaches the list leaves it for the worker, process ends  *)
(* and restarts included.                                                  *)
(***************************************************************************)
JobsLeaveQueue == \A o \in OrderIds :
  (\E i \in DOMAIN queue : queue[i].order = o)
     ~> (\A i \in DOMAIN queue : queue[i].order # o)
=============================================================================
