---------------------------- MODULE OrderBilling ----------------------------
(***************************************************************************)
(* Orders and the credits they cost.  Customers create orders (one scan    *)
(* label, a bulk import, a label import, a design) and pay for them;       *)
(* administrators start, edit, fail, archive and delete them.  Every HTTP  *)
(* request is a process: a request that reads a row, awaits, and saves the *)
(* row later takes several steps, between which any other request may      *)
(* commit.  The save of a row is two statements, a SELECT and an UPDATE of *)
(* the columns that differ from what it saw, and so two steps.  The        *)
(* database transactions that hold the row locks of what they read until   *)
(* they commit (FOR UPDATE on the order, then on the user) are one step.   *)
(*                                                                         *)
(* A handler that refuses before its first write (404, 400) changes        *)
(* nothing and is not a step.  A request that stops half-way, because the  *)
(* server crashes, is a request that takes no further step: no property    *)
(* here assumes fairness.                                                  *)
(*                                                                         *)
(* Some properties hold only of some of the handlers, or when requests do  *)
(* not overlap.  So a behaviour has a setting, chosen at the beginning and *)
(* never changed: which handlers are called, how many requests overlap,    *)
(* how many orders one pay request names.                                  *)
(***************************************************************************)
EXTENDS BalanceService, FiniteSets, TLC

CONSTANTS Requests,     \* HTTP requests, each served once
          Codes,        \* tracking codes detectCarrier recognises
          NoCode,       \* tracking_code IS NULL
          NoRow,        \* no orders row has this id
          Price,        \* Price[type]: service_credit_cost of an order type
          Amounts,      \* amounts an administrator may credit or debit
          Settings,     \* the settings a behaviour may have
          OpeningCredit \* what each customer starts with in a run

OrderTypes == {"active_tracking", "empty_package", "design"}
OrderStatuses == {"pending", "processing", "completed", "failed"}
PaymentStatuses == {"unpaid", "paid"}
AllOps == {"scan", "import", "label", "design", "pay", "start", "status",
           "payment", "result", "note", "fail", "archive", "delete", "adjust"}

\* The columns of an orders row that decide something.
Order == [user : Users, type : OrderTypes, code : Codes \cup {NoCode},
          status : OrderStatuses, payment : PaymentStatuses,
          result : BOOLEAN, archived : BOOLEAN]

ASSUME OrderBillingAssumption ==
  /\ NoCode \notin Codes
  /\ NoRow \notin Order
  /\ Price \in [OrderTypes -> Nat \ {0}]
  /\ Amounts \subseteq Nat \ {0}
  /\ Settings \subseteq [ops : SUBSET AllOps, overlap : Nat, batch : Nat]

VARIABLES orders,   \* orders[o]: the committed row, or NoRow
          issued,   \* ids a row was ever inserted under
          req,      \* req[r]: where request r stands and what it has read
          torn,     \* orders updated by a save after they changed under it
          setting   \* the handlers called and how they overlap

vars == <<balance, ledger, orders, issued, req, torn, setting>>

\* A request that holds: an entity to save, a job to finish, or a reply.
RequestStates ==
  [pc : {"idle", "done"}]
  \cup [pc : {"save"}, order : OrderIds, row : Order]
  \cup [pc : {"autopay", "start_tx"}, order : OrderIds, user : Users]
  \cup [pc : {"start_debit"}, order : OrderIds, user : Users, row : Order,
        charge : BOOLEAN]
  \cup [pc : {"start_update"}, order : OrderIds, user : Users, row : Order,
        seen : Order, charge : BOOLEAN]
  \cup [pc : {"update"}, order : OrderIds, row : Order, seen : Order]
  \cup [pc : {"fail_note", "fail_save"}, order : OrderIds, row : Order,
        refund : BOOLEAN]
  \cup [pc : {"fail_note_update", "fail_update"}, order : OrderIds,
        row : Order, seen : Order \cup {NoRow}, refund : BOOLEAN]
  \cup [pc : {"fail_mark", "failed"}, order : OrderIds, refund : BOOLEAN]
  \cup [pc : {"import", "imported"}, user : Users, todo : SUBSET Codes,
        exhausted : BOOLEAN, results : Seq(PaymentStatuses)]

TypeOK ==
  /\ MoneyTypeOK
  /\ orders \in [OrderIds -> Order \cup {NoRow}]
  /\ issued \subseteq OrderIds
  /\ req \in [Requests -> RequestStates]
  /\ torn \subseteq OrderIds
  /\ setting \in Settings

Init ==
  /\ MoneyInit
  /\ orders = [o \in OrderIds |-> NoRow]
  /\ issued = {}
  /\ req = [r \in Requests |-> [pc |-> "idle"]]
  /\ torn = {}
  /\ setting \in Settings

-----------------------------------------------------------------------------
Live == {o \in OrderIds : orders[o] # NoRow}

InFlight == {r \in Requests : req[r].pc \notin {"idle", "done", "imported", "failed"}}

Admit(r, op) ==
  /\ op \in setting.ops
  /\ req[r].pc = "idle"
  /\ Cardinality(InFlight) < setting.overlap

Goto(r, state) == req' = [req EXCEPT ![r] = state]

Finish(r) == Goto(r, [pc |-> "done"])

NewOrder(u, type, code, status, payment) ==
  [user |-> u, type |-> type, code |-> code, status |-> status,
   payment |-> payment, result |-> FALSE, archived |-> FALSE]

Insert(o, row) ==
  /\ o \notin issued
  /\ orders' = [orders EXCEPT ![o] = row]
  /\ issued' = issued \cup {o}

\* enforceDesignRules: a design order never keeps a tracking code.
EnforceDesignRules(row) ==
  IF row.type = "design" THEN [row EXCEPT !.code = NoCode] ELSE row

\* ensureNoDuplicateTracking: whatever their status, archived or not.
DuplicateTracking(o) ==
  \E p \in Live \ {o} : /\ orders[o].code # NoCode
                        /\ orders[p].code = orders[o].code

\* resolveServiceKey: the pricing key cannot be told from a design order.
ServiceKnown(row) == row.type # "design"

(***************************************************************************)
(* Repository.save(entity) of an entity read earlier.  TypeORM selects the *)
(* row again (seen) and, in a later statement, updates the columns in      *)
(* which the entity differs from it: a snapshot wins over what others      *)
(* committed before the SELECT, and mixes with what they commit after it.  *)
(* A row deleted before the SELECT is inserted, which fails (user_id NOT   *)
(* NULL) unless the entity was loaded with its user; one deleted after it  *)
(* is not updated, and that is no error.                                   *)
(***************************************************************************)
Patched(row, entity, seen) ==
  [c \in DOMAIN row |-> IF entity[c] # seen[c] THEN entity[c] ELSE row[c]]

UpdateSelected(q) ==
  IF q.order \in Live
  THEN /\ orders' = [orders EXCEPT ![q.order] = Patched(@, q.row, q.seen)]
       /\ torn' = IF orders[q.order] = q.seen THEN torn ELSE torn \cup {q.order}
  ELSE UNCHANGED <<orders, torn>>

\* A transaction that has debited u holds the users row until it commits...
Held(u) ==
  \E r \in Requests :
     req[r].pc = "start_update" /\ req[r].charge /\ req[r].user = u

\* ...and, by the foreign key of its ledger row, the order against deletion.
Referenced(o) ==
  \E r \in Requests :
     req[r].pc = "start_update" /\ req[r].charge /\ req[r].order = o

-----------------------------------------------------------------------------
(* Customers create orders                                                 *)

\* One transaction: insert the order and, unless told to skip it, try to
\* debit it; paid orders go straight to processing.
InsertScanOrder(u, o, c, skipDebit) ==
  \/ /\ ~skipDebit
     /\ Debit(u, Price["active_tracking"], o)
     /\ Insert(o, NewOrder(u, "active_tracking", c, "processing", "paid"))
  \/ /\ skipDebit \/ ~Covers(u, Price["active_tracking"])
     /\ Insert(o, NewOrder(u, "active_tracking", c, "pending", "unpaid"))
     /\ UNCHANGED moneyVars

CreateScanLabelOrder(r, u, o, c) ==
  /\ Admit(r, "scan")
  /\ ~Held(u)
  /\ InsertScanOrder(u, o, c, FALSE)
  /\ Finish(r)

ImportTrackingBulk(r, u, codes) ==
  /\ Admit(r, "import")
  /\ codes # {}
  /\ Goto(r, [pc |-> "import", user |-> u, todo |-> codes,
              exhausted |-> FALSE, results |-> << >>])
  /\ UNCHANGED <<moneyVars, orders, issued>>

\* Faulty: every row is tried again.
ImportRowRetries(r, o, c) ==
  LET q == req[r] IN
  /\ q.pc = "import"
  /\ c \in q.todo
  /\ ~Held(q.user)
  /\ InsertScanOrder(q.user, o, c, FALSE)
  /\ LET result == orders'[o].payment IN
     Goto(r, [pc |-> IF q.todo = {c} THEN "imported" ELSE "import",
              user |-> q.user, todo |-> q.todo \ {c},
              exhausted |-> q.exhausted \/ result = "unpaid",
              results |-> Append(q.results, result)])

\* The loop body: one row, one transaction; the first row left unpaid makes
\* the import stop debiting.
ImportRow(r, o, c) ==
  LET q == req[r] IN
  /\ q.pc = "import"
  /\ c \in q.todo
  /\ ~Held(q.user)
  /\ InsertScanOrder(q.user, o, c, q.exhausted)
  /\ LET result == orders'[o].payment IN
     Goto(r, [pc |-> IF q.todo = {c} THEN "imported" ELSE "import",
              user |-> q.user, todo |-> q.todo \ {c},
              exhausted |-> q.exhausted \/ result = "unpaid",
              results |-> Append(q.results, result)])

CreateDesignOrder(r, u, o) ==
  /\ Admit(r, "design")
  /\ ~Held(u)
  /\ \/ /\ Debit(u, Price["design"], o)
        /\ Insert(o, NewOrder(u, "design", NoCode, "pending", "paid"))
     \/ /\ ~Covers(u, Price["design"])
        /\ Insert(o, NewOrder(u, "design", NoCode, "pending", "unpaid"))
        /\ UNCHANGED moneyVars
  /\ Finish(r)

\* A confirmed label row: the order is inserted in one transaction and paid
\* in another.
CreateOrderFromLabel(r, u, o, type, c) ==
  /\ Admit(r, "label")
  /\ Insert(o, NewOrder(u, type, c, "pending", "unpaid"))
  /\ Goto(r, [pc |-> "autopay", order |-> o, user |-> u])
  /\ UNCHANGED moneyVars

\* The order row is locked, then the user row: one step.
AutoPayOrderIfPossible(r) ==
  LET q == req[r]
      row == orders[q.order]
      Due == q.order \in Live /\ row.payment = "unpaid"
      Pay == orders' = [orders EXCEPT ![q.order].payment = "paid"]
  IN
  /\ q.pc = "autopay"
  /\ ~Held(q.user)
  /\ \/ Due /\ HasDebit(q.order) /\ Pay /\ UNCHANGED moneyVars
     \/ /\ Due
        /\ ~HasDebit(q.order)
        /\ ServiceKnown(row)
        /\ Debit(q.user, Price[row.type], q.order)
        /\ Pay
     \/ /\ Due => ~HasDebit(q.order)
        /\ Due => ~(ServiceKnown(row) /\ Covers(q.user, Price[row.type]))
        /\ UNCHANGED <<moneyVars, orders>>
  /\ Finish(r)
  /\ UNCHANGED issued

-----------------------------------------------------------------------------
(* Customers pay                                                           *)

\* Faulty: the ledger is not searched for an earlier debit.
OwingUnpaid(u, ids) ==
  {i \in DOMAIN ids : /\ ids[i] \in Live
                      /\ orders[ids[i]].user = u
                      /\ orders[ids[i]].payment = "unpaid"}

\* The positions of ids that this transaction has to debit if it gets there.
Owing(u, ids) ==
  {i \in DOMAIN ids : /\ ids[i] \in Live
                      /\ orders[ids[i]].user = u
                      /\ orders[ids[i]].payment = "unpaid"
                      /\ ~HasDebit(ids[i])}

\* The increasing enumerations of a set of positions.
Enumerations(S) ==
  {at \in [1 .. Cardinality(S) -> S] :
      \A i, j \in DOMAIN at : i < j => at[i] < at[j]}

\* What one paid order becomes: a tracking order also starts processing if
\* this transaction debited it.
PaidRow(row, debited) ==
  [row EXCEPT !.payment = "paid",
              !.status = IF debited /\ row.type = "active_tracking" /\ row.code # NoCode
                         THEN "processing" ELSE @]

(***************************************************************************)
(* One transaction over the orders in the order given.  at enumerates the  *)
(* positions to debit, after[k] is the balance once k of them have been;   *)
(* the loop breaks at the first one the balance does not cover, and a      *)
(* design order among those it reaches aborts the whole transaction.       *)
(***************************************************************************)
PayOrders(r, u, ids) ==
  LET owing == Owing(u, ids)
      Cost(i) == Price[orders[ids[i]].type]
  IN
  /\ Admit(r, "pay")
  /\ ~Held(u)
  /\ \E at \in Enumerations(owing), n \in 0 .. Cardinality(owing) :
     \E after \in [0 .. n -> 0 .. balance[u]] :
       LET stop == IF n < Cardinality(owing) THEN at[n + 1] ELSE Len(ids) + 1
           Reached(o) == \E i \in DOMAIN ids :
              i < stop /\ ids[i] = o /\ o \in Live /\ orders[o].user = u
           Debited(o) == \E k \in 1 .. n : ids[at[k]] = o
       IN
       /\ after[0] = balance[u]
       /\ \A k \in 1 .. n : /\ ServiceKnown(orders[ids[at[k]]])
                            /\ after[k] = after[k - 1] - Cost(at[k])
       /\ n < Cardinality(owing) =>
            /\ ServiceKnown(orders[ids[stop]])
            /\ after[n] < Cost(stop)
       /\ orders' = [o \in OrderIds |->
                       IF Reached(o) THEN PaidRow(orders[o], Debited(o)) ELSE orders[o]]
       /\ IF n = 0 THEN UNCHANGED moneyVars
          ELSE PostRows(u, [k \in 1 .. n |-> RowOf(ids[at[k]], 0 - Cost(at[k]), after[k])])
  /\ Finish(r)
  /\ UNCHANGED issued

-----------------------------------------------------------------------------
(* Administrators start orders                                             *)

Startable(row) == row.status \in {"pending", "processing"}

\* startProcessing up to the transaction: read, status, duplicates, price.
StartRead(r, o) ==
  /\ Admit(r, "start")
  /\ o \in Live
  /\ Startable(orders[o])
  /\ orders[o].type = "active_tracking" => ~DuplicateTracking(o)
  /\ ServiceKnown(orders[o])
  /\ Goto(r, [pc |-> "start_tx", order |-> o, user |-> orders[o].user])
  /\ UNCHANGED <<moneyVars, orders, issued>>

\* The transaction reloads the order, without a lock, and looks for a debit.
StartReload(r) ==
  LET q == req[r] IN
  /\ q.pc = "start_tx"
  /\ IF q.order \in Live /\ Startable(orders[q.order])
     THEN Goto(r, [pc |-> "start_debit", order |-> q.order, user |-> q.user,
                   row |-> orders[q.order],
                   charge |-> orders[q.order].payment = "unpaid" /\ ~HasDebit(q.order)])
     ELSE Finish(r)
  /\ UNCHANGED <<moneyVars, orders, issued>>

\* Faulty: the payment status is left as it was read.
StartSaveUnpaid(r) ==
  LET q == req[r] IN
  /\ q.pc = "start_debit"
  /\ \/ /\ q.order \in Live
        /\ q.charge => ~Held(q.user) /\ Covers(q.user, Price[q.row.type])
        /\ Goto(r, [pc |-> "start_update", order |-> q.order, user |-> q.user,
                    row |-> EnforceDesignRules([q.row EXCEPT !.status = "processing"]),
                    seen |-> orders[q.order], charge |-> q.charge])
     \/ /\ \/ q.order \notin Live
           \/ q.charge /\ ~Covers(q.user, Price[q.row.type])
        /\ Finish(r)
  /\ UNCHANGED <<moneyVars, orders, issued>>

\* It debits, if it saw the need, and selects the row it saves; without the
\* credits, or with the order deleted meanwhile, it rolls back.
StartSave(r) ==
  LET q == req[r] IN
  /\ q.pc = "start_debit"
  /\ \/ /\ q.order \in Live
        /\ q.charge => ~Held(q.user) /\ Covers(q.user, Price[q.row.type])
        /\ Goto(r, [pc |-> "start_update", order |-> q.order, user |-> q.user,
                    row |-> EnforceDesignRules([q.row EXCEPT !.payment = "paid",
                                                             !.status = "processing"]),
                    seen |-> orders[q.order], charge |-> q.charge])
     \/ /\ \/ q.order \notin Live
           \/ q.charge /\ ~Covers(q.user, Price[q.row.type])
        /\ Finish(r)
  /\ UNCHANGED <<moneyVars, orders, issued>>

\* It updates the row and commits, debit and all, unless the database ends it
\* to resolve a deadlock with a payment.
StartCommit(r) ==
  LET q == req[r] IN
  /\ q.pc = "start_update"
  /\ \/ /\ UpdateSelected(q)
        /\ \/ q.charge /\ Debit(q.user, Price[q.row.type], q.order)
           \/ ~q.charge /\ UNCHANGED moneyVars
     \/ UNCHANGED <<moneyVars, orders, torn>>
  /\ Finish(r)
  /\ UNCHANGED issued

-----------------------------------------------------------------------------
(* Administrators edit, fail, archive and delete orders                    *)

\* The entity an edit read, changed and is about to save.
HoldForSave(r, o, row) ==
  /\ Goto(r, [pc |-> "save", order |-> o, row |-> EnforceDesignRules(row)])
  /\ UNCHANGED <<moneyVars, orders, issued>>

\* Faulty: a design is completed without its result.
UpdateOrderStatusFreely(r, o, status) ==
  /\ Admit(r, "status")
  /\ o \in Live
  /\ (status \in {"processing", "completed"} /\ orders[o].type = "active_tracking")
       => ~DuplicateTracking(o)
  /\ HoldForSave(r, o, [orders[o] EXCEPT !.status = status])

UpdateOrderStatus(r, o, status) ==
  /\ Admit(r, "status")
  /\ o \in Live
  /\ (status \in {"processing", "completed"} /\ orders[o].type = "active_tracking")
       => ~DuplicateTracking(o)
  /\ (status = "completed" /\ orders[o].type = "design") => orders[o].result
  /\ HoldForSave(r, o, [orders[o] EXCEPT !.status = status])

UpdatePaymentStatus(r, o, payment) ==
  /\ Admit(r, "payment")
  /\ o \in Live
  /\ HoldForSave(r, o, [orders[o] EXCEPT !.payment = payment])

UpdateResultUrl(r, o) ==
  /\ Admit(r, "result")
  /\ o \in Live
  /\ HoldForSave(r, o, [orders[o] EXCEPT !.result = TRUE])

\* The note itself decides nothing; the save of the snapshot does.
UpdateAdminNote(r, o) ==
  /\ Admit(r, "note")
  /\ o \in Live
  /\ HoldForSave(r, o, orders[o])

\* Faulty: the edits load the order with its user, so that it is inserted.
SaveEditWithUser(r) ==
  LET q == req[r] IN
  /\ q.pc = "save"
  /\ IF q.order \in Live /\ orders[q.order] # q.row
     THEN /\ Goto(r, [pc |-> "update", order |-> q.order, row |-> q.row,
                      seen |-> orders[q.order]])
          /\ UNCHANGED orders
     ELSE Finish(r) /\ orders' = [orders EXCEPT ![q.order] = q.row]
  /\ UNCHANGED <<moneyVars, issued>>

SaveEdit(r) ==
  LET q == req[r] IN
  /\ q.pc = "save"
  /\ IF q.order \in Live /\ orders[q.order] # q.row
     THEN Goto(r, [pc |-> "update", order |-> q.order, row |-> q.row,
                   seen |-> orders[q.order]])
     ELSE Finish(r)
  /\ UNCHANGED <<moneyVars, orders, issued>>

UpdateEdit(r) ==
  /\ req[r].pc = "update"
  /\ UpdateSelected(req[r])
  /\ Finish(r)
  /\ UNCHANGED <<moneyVars, issued>>

\* bulkMarkFailed, one order: read it for the note...
BulkMarkFailed(r, o, refund) ==
  /\ Admit(r, "fail")
  /\ o \in Live
  /\ Goto(r, [pc |-> "fail_note", order |-> o, row |-> orders[o], refund |-> refund])
  /\ UNCHANGED <<moneyVars, orders, issued>>

\* ...save the note, unless the order is gone by now...
FailSaveNote(r) ==
  LET q == req[r] IN
  /\ q.pc = "fail_note"
  /\ IF q.order \in Live
     THEN Goto(r, [pc |-> "fail_note_update", order |-> q.order, row |-> q.row,
                   seen |-> orders[q.order], refund |-> q.refund])
     ELSE Finish(r)
  /\ UNCHANGED <<moneyVars, orders, issued>>

FailUpdateNote(r) ==
  LET q == req[r] IN
  /\ q.pc = "fail_note_update"
  /\ UpdateSelected(q)
  /\ Goto(r, [pc |-> "fail_mark", order |-> q.order, refund |-> q.refund])
  /\ UNCHANGED <<moneyVars, issued>>

\* ...then markScanFailure reads it again, with its user...
FailRead(r) ==
  LET q == req[r] IN
  /\ q.pc = "fail_mark"
  /\ IF q.order \in Live
     THEN Goto(r, [pc |-> "fail_save", order |-> q.order, refund |-> q.refund,
                   row |-> [orders[q.order] EXCEPT !.status = "failed"]])
     ELSE Finish(r)
  /\ UNCHANGED <<moneyVars, orders, issued>>

\* ...and saves it...
FailSave(r) ==
  LET q == req[r] IN
  /\ q.pc = "fail_save"
  /\ Goto(r, [pc |-> "fail_update", order |-> q.order, row |-> q.row,
              seen |-> orders[q.order], refund |-> q.refund])
  /\ UNCHANGED <<moneyVars, orders, issued>>

\* ...which inserts it if it was gone, unless another failure has by now.  The
\* refund asked for is due to opts.userId, which bulkMarkFailed takes from an
\* order loaded without its user: it is undefined, and the credit is skipped.
FailUpdate(r) ==
  LET q == req[r]
      Failed == Goto(r, [pc |-> "failed", order |-> q.order, refund |-> q.refund])
  IN
  /\ q.pc = "fail_update"
  /\ \/ q.seen # NoRow /\ UpdateSelected(q) /\ Failed
     \/ /\ q.seen = NoRow /\ q.order \notin Live
        /\ orders' = [orders EXCEPT ![q.order] = q.row]
        /\ Failed
        /\ UNCHANGED torn
     \/ /\ q.seen = NoRow /\ q.order \in Live
        /\ Finish(r)
        /\ UNCHANGED <<orders, torn>>
  /\ UNCHANGED <<moneyVars, issued>>

\* One conditional UPDATE statement.
BulkArchive(r, os) ==
  /\ Admit(r, "archive")
  /\ orders' = [o \in OrderIds |->
                  IF o \in os \cap Live /\ orders[o].status \in {"completed", "failed"}
                  THEN [orders[o] EXCEPT !.archived = TRUE] ELSE orders[o]]
  /\ Finish(r)
  /\ UNCHANGED <<moneyVars, issued>>

DeleteOrder(r, o) ==
  /\ Admit(r, "delete")
  /\ o \in Live
  /\ ~Referenced(o)
  /\ orders' = [orders EXCEPT ![o] = NoRow]
  /\ Unlink(o)
  /\ Finish(r)
  /\ UNCHANGED issued

\* adjustUserCredit, and the top-up endpoint: money without an order.
AdjustUserCredit(r, u, amount) ==
  /\ Admit(r, "adjust")
  /\ ~Held(u)
  /\ Credit(u, amount, NoOrder) \/ Debit(u, amount, NoOrder)
  /\ Finish(r)
  /\ UNCHANGED <<orders, issued>>

-----------------------------------------------------------------------------
PayBatches ==
  UNION {{ids \in [1 .. n -> OrderIds] : \A i, j \in 1 .. n : i # j => ids[i] # ids[j]} :
         n \in 1 .. setting.batch}

CustomerCreates(r) ==
  \E u \in Users :
     \/ \E o \in OrderIds :
          \/ \E c \in Codes : CreateScanLabelOrder(r, u, o, c)
          \/ \E c \in Codes, type \in OrderTypes \ {"design"} :
               CreateOrderFromLabel(r, u, o, type, c)
          \/ CreateDesignOrder(r, u, o)
     \/ \E codes \in SUBSET Codes : ImportTrackingBulk(r, u, codes)

MoneyStep(r) ==
  \/ \E u \in Users, ids \in PayBatches : PayOrders(r, u, ids)
  \/ \E u \in Users, a \in Amounts : AdjustUserCredit(r, u, a)

AdminRequest(r) ==
  \/ \E o \in OrderIds :
       \/ StartRead(r, o)
       \/ \E s \in OrderStatuses : UpdateOrderStatus(r, o, s)
       \/ \E p \in PaymentStatuses : UpdatePaymentStatus(r, o, p)
       \/ UpdateResultUrl(r, o)
       \/ UpdateAdminNote(r, o)
       \/ \E refund \in BOOLEAN : BulkMarkFailed(r, o, refund)
       \/ DeleteOrder(r, o)
  \/ \E os \in SUBSET OrderIds : BulkArchive(r, os)

Continue(r) ==
  \/ \E o \in OrderIds, c \in Codes : ImportRow(r, o, c)
  \/ AutoPayOrderIfPossible(r)
  \/ StartReload(r)
  \/ StartSave(r)
  \/ SaveEdit(r)
  \/ FailSaveNote(r)
  \/ FailRead(r)
  \/ FailSave(r)

Update(r) == StartCommit(r) \/ UpdateEdit(r) \/ FailUpdateNote(r) \/ FailUpdate(r)

Next ==
  /\ \E r \in Requests :
       \/ /\ CustomerCreates(r) \/ MoneyStep(r) \/ AdminRequest(r) \/ Continue(r)
          /\ UNCHANGED torn
       \/ Update(r)
  /\ UNCHANGED setting

Spec == Init /\ [][Next]_vars

-----------------------------------------------------------------------------
(* Properties                                                              *)

\* The rows that debited order o, over every customer's ledger.
DebitRows(o) ==
  {ui \in UNION {{u} \X DOMAIN ledger[u] : u \in Users} :
     ledger[ui[1]][ui[2]].order = o /\ ledger[ui[1]][ui[2]].amount < 0}

(***************************************************************************)
(* No order has two debit rows, which is what every payment path looks for *)
(* an earlier debit for (orders.service.ts:451, 509, 571).                      *)
(***************************************************************************)
AtMostOneDebit == \A o \in OrderIds : \A a, b \in DebitRows(o) : a = b

(***************************************************************************)
(* An order is never debited twice, however many pay, import and label     *)
(* requests for it overlap with each other and with administrators'        *)
(* stale saves: every path looks for an existing debit under the lock of   *)
(* the order row.  startProcessing (orders.service.ts:438-463) looks for   *)
(* one without that lock, so this holds when it is not called, or when     *)
(* requests do not overlap.                                                *)
(***************************************************************************)
DebitedOnce ==
  ("start" \notin setting.ops \/ setting.overlap <= 1) => AtMostOneDebit

\* What a live order shows and what its ledger rows say.
PaidIffCharged ==
  \A o \in Live : /\ orders[o].payment = "paid" <=> HasDebit(o)
                  /\ orders[o].status = "processing" => orders[o].payment = "paid"

\* The handlers that never write back an order an administrator edited.
NoEdits == {"scan", "import", "label", "design", "pay", "start", "adjust"}

(***************************************************************************)
(* As long as administrators only start orders and do not edit them, an    *)
(* order shows paid exactly when a debit stands behind it, including after *)
(* startProcessing saves a stale snapshot over a concurrent payment:       *)
(* nobody's order is processed for free, nobody is charged for an order    *)
(* left unpaid.  (An edit saved over a payment would make a debited order  *)
(* unpaid again.)                                                          *)
(***************************************************************************)
PaidExactlyWhenCharged == setting.ops \subseteq NoEdits => PaidIffCharged

\* What the refusal of updateOrderStatus says (orders.service.ts:386-389).  It
\* fails: the guard looks at the entity, and saves that cross mix two of them.
CompletedDesignHasResult ==
  \A o \in Live : (orders[o].type = "design" /\ orders[o].status = "completed")
                     => orders[o].result

(***************************************************************************)
(* A design is completed without a result (orders.service.ts:386-389) only *)
(* if its row changed between the SELECT and the UPDATE of some save: the  *)
(* guard looks at the entity it then saves, so edits that are interleaved  *)
(* in any other way, each from its own stale snapshot, cannot separate the *)
(* two columns.                                                            *)
(***************************************************************************)
ResultLostInTornSaveOnly ==
  \A o \in Live \ torn :
     (orders[o].type = "design" /\ orders[o].status = "completed")
       => orders[o].result

(***************************************************************************)
(* An import pays a prefix of its rows (orders.service.ts:355-366): once   *)
(* a row was left unpaid no later row of that import is debited, even if   *)
(* credits arrive in between.                                              *)
(***************************************************************************)
ImportPaysPrefix ==
  \A r \in Requests : req[r].pc \in {"import", "imported"} =>
     \A i, j \in DOMAIN req[r].results :
        (i < j /\ req[r].results[j] = "paid") => req[r].results[i] = "paid"

(***************************************************************************)
(* A deleted order stays deleted (admin/Orders.tsx:1293: "permanent"),     *)
(* whatever entity read before the delete is saved after it.  It holds     *)
(* unless a bulk failure overlaps with the delete: markScanFailure loads   *)
(* the user and so can insert the row again (orders.service.ts:938-943).   *)
(***************************************************************************)
DeletedForGood ==
  [][("fail" \notin setting.ops \/ setting.overlap <= 1) =>
       \A o \in issued : o \notin Live => orders'[o] = NoRow]_vars

(***************************************************************************)
(* What the doc comment of bulkMarkFailed says (orders.service.ts:877-878, *)
(* "and optionally refund"): a bulk failure asked to refund, of an order   *)
(* that had been debited, leaves a credit for that order in the ledger.    *)
(***************************************************************************)
RefundHonoured ==
  \A r \in Requests : (req[r].pc = "failed" /\ req[r].refund /\ HasDebit(req[r].order)) =>
     \E u \in Users : \E i \in DOMAIN ledger[u] :
        ledger[u][i].order = req[r].order /\ ledger[u][i].amount > 0

-----------------------------------------------------------------------------
(***************************************************************************)
(* Small instances: one price per order type, an opening balance that      *)
(* covers some orders and not others.                                      *)
(*                                                                         *)
(* A run that let everybody call everything would be too large, so each    *)
(* setting calls some handlers only, and the run bounds how many customers *)
(* and codes it uses.                                                      *)
(***************************************************************************)

MCPrice == [active_tracking |-> 1, empty_package |-> 2, design |-> 2]
MCOpening == [u \in Users |-> OpeningCredit]

Symmetry == Permutations(Users) \cup Permutations(OrderIds)
            \cup Permutations(Codes) \cup Permutations(Requests)

\* Two customers whose requests overlap with administrators who only start
\* orders.
Customers ==
  [ops |-> {"scan", "import", "label", "design", "pay", "start", "adjust"},
   overlap |-> 3, batch |-> 2]

\* A customer and administrators who do everything but start.
Staff ==
  [ops |-> {"scan", "label", "design", "pay", "status", "payment", "result",
            "note", "fail", "archive", "delete"},
   overlap |-> 3, batch |-> 2]

\* Administrators who start, edit and delete while customers pay.
Stale ==
  [ops |-> {"scan", "design", "pay", "start", "payment", "status", "note",
            "delete"},
   overlap |-> 3, batch |-> 1]

\* Everything, one request after the other.
Sequential == [ops |-> AllOps, overlap |-> 1, batch |-> 2]

MCSettings == {Customers, Staff, Stale, Sequential}

\* Two requests that may start and pay the same order.
StartsAndPays == {[ops |-> {"label", "start", "pay"}, overlap |-> 2, batch |-> 1]}

\* One bulk failure of an order that was paid.
Fails == {[ops |-> {"scan", "fail"}, overlap |-> 1, batch |-> 1]}

\* Bounds: as many customers and codes.
Active ==
  {u \in Users : Len(ledger[u]) > 1 \/ \E o \in Live : orders[o].user = u}
Used ==
  {orders[o].code : o \in Live}
  \cup UNION {req[r].todo : r \in {s \in Requests : req[s].pc = "import"}}

Within(customers, codes) ==
  /\ Cardinality(Active') <= customers
  /\ Cardinality(Used' \ {NoCode}) <= codes

MCNext ==
  /\ Next
  /\ IF setting \in {Staff, Sequential} THEN Within(1, 1) ELSE Within(2, 2)

MCSpec == Init /\ [][MCNext]_vars
=============================================================================
