------------------------ MODULE OrderBilling_proofs -------------------------
(***************************************************************************)
(* Proofs about OrderBilling for every number of customers, orders,        *)
(* requests and every price, in three parts.  First types and the ledger:  *)
(* one lemma for each handler says that it keeps the types and that, as far*)
(* as money is concerned, it is a step of BalanceService_proofs.  Then what*)
(* orders cost: no order is debited twice unless startProcessing overlaps  *)
(* others.  Last the rules orders keep although administrators save whole  *)
(* snapshots of them.                                                      *)
(***************************************************************************)
EXTENDS OrderBilling, BalanceService_proofs, FiniteSetTheorems

(* What a request holds where it stands: the local variables of a handler. *)
LEMMA RequestFields ==
  ASSUME NEW q \in RequestStates
  PROVE  /\ q.pc = "save" => q.order \in OrderIds /\ q.row \in Order
         /\ q.pc \in {"autopay", "start_tx"} => q.order \in OrderIds /\ q.user \in Users
         /\ q.pc = "start_debit" =>
              q.order \in OrderIds /\ q.user \in Users /\ q.row \in Order /\ q.charge \in BOOLEAN
         /\ q.pc = "start_update" =>
              /\ q.order \in OrderIds /\ q.user \in Users /\ q.row \in Order
              /\ q.seen \in Order /\ q.charge \in BOOLEAN
         /\ q.pc = "update" => q.order \in OrderIds /\ q.row \in Order /\ q.seen \in Order
         /\ q.pc \in {"fail_note_update", "fail_update"} =>
              /\ q.order \in OrderIds /\ q.row \in Order
              /\ q.seen \in Order \cup {NoRow} /\ q.refund \in BOOLEAN
         /\ q.pc \in {"fail_note", "fail_save"} =>
              q.order \in OrderIds /\ q.row \in Order /\ q.refund \in BOOLEAN
         /\ q.pc = "fail_mark" => q.order \in OrderIds /\ q.refund \in BOOLEAN
         /\ q.pc = "import" =>
              /\ q.user \in Users /\ q.todo \in SUBSET Codes /\ q.exhausted \in BOOLEAN
              /\ q.results \in Seq(PaymentStatuses)
  BY DEF RequestStates

(* A request moved to a possible state leaves the requests typed.          *)
LEMMA GotoTyped ==
  ASSUME TypeOK, NEW r \in Requests, NEW q \in RequestStates, Goto(r, q)
  PROVE  req' \in [Requests -> RequestStates]
  BY DEF TypeOK, Goto

(* A request that ends leaves the requests typed.                          *)
LEMMA FinishTyped ==
  ASSUME TypeOK, NEW r \in Requests, Finish(r)
  PROVE  req' \in [Requests -> RequestStates]
<1>1. [pc |-> "done"] \in RequestStates
  BY DEF RequestStates
<1> QED
  BY <1>1, GotoTyped DEF Finish

(* A committed order has the columns of the table.                         *)
LEMMA LiveIsOrder ==
  ASSUME TypeOK, NEW o \in Live
  PROVE  o \in OrderIds /\ orders[o] \in Order
  BY DEF TypeOK, Live

(* Writing one row of the table keeps the table typed.                     *)
LEMMA WriteTyped ==
  ASSUME TypeOK, NEW o \in OrderIds, NEW row \in Order \cup {NoRow},
         orders' = [orders EXCEPT ![o] = row]
  PROVE  orders' \in [OrderIds -> Order \cup {NoRow}]
  BY DEF TypeOK

(* Inserting one row keeps the table and the ids typed.                    *)
LEMMA InsertTyped ==
  ASSUME TypeOK, NEW o \in OrderIds, NEW row \in Order, Insert(o, row)
  PROVE  orders' \in [OrderIds -> Order \cup {NoRow}] /\ issued' \subseteq OrderIds
  BY DEF TypeOK, Insert

(* The columns a save updates are those of the table, and all of them are  *)
(* the entity's if the row is still what the save selected.                *)
LEMMA PatchedTyped ==
  ASSUME NEW row \in Order, NEW entity \in Order, NEW seen
  PROVE  /\ Patched(row, entity, seen) \in Order
         /\ Patched(row, entity, seen).payment =
              IF entity.payment # seen.payment THEN entity.payment ELSE row.payment
         /\ seen = row => Patched(row, entity, seen) = entity
<1> DEFINE patched == Patched(row, entity, seen)
<1>1. /\ DOMAIN row = {"user", "type", "code", "status", "payment", "result", "archived"}
      /\ DOMAIN entity = DOMAIN row
  BY DEF Order
<1>2. /\ patched = [c \in DOMAIN row |-> IF entity[c] # seen[c] THEN entity[c] ELSE row[c]]
      /\ DOMAIN patched = DOMAIN row
      /\ \A c \in DOMAIN row : patched[c] = IF entity[c] # seen[c] THEN entity[c] ELSE row[c]
  BY DEF Patched
<1>3. patched.payment = IF entity.payment # seen.payment THEN entity.payment ELSE row.payment
  BY <1>1, <1>2
<1>4. ASSUME seen = row PROVE patched = entity
  <2>1. \A c \in DOMAIN row : patched[c] = entity[c]
    BY <1>2, <1>4
  <2>2. entity = [c \in DOMAIN row |-> entity[c]]
    BY <1>1 DEF Order
  <2> QED
    BY <1>2, <2>1, <2>2
<1>5. patched \in Order
  BY <1>1, <1>2 DEF Order
<1> QED
  BY <1>3, <1>4, <1>5

(* The UPDATE of a save keeps the table typed.                             *)
LEMMA UpdateTyped ==
  ASSUME TypeOK, NEW q, q.order \in OrderIds, q.row \in Order, UpdateSelected(q)
  PROVE  orders' \in [OrderIds -> Order \cup {NoRow}] /\ torn' \subseteq OrderIds
<1>1. CASE q.order \in Live
  <2>1. orders[q.order] \in Order
    BY <1>1, LiveIsOrder
  <2>2. Patched(orders[q.order], q.row, q.seen) \in Order
    BY <2>1, PatchedTyped
  <2> QED
    BY <1>1, <2>2 DEF UpdateSelected, TypeOK
<1>2. CASE q.order \notin Live
  BY <1>2 DEF UpdateSelected, TypeOK
<1> QED
  BY <1>1, <1>2

(* enforceDesignRules only clears the tracking code.                       *)
LEMMA DesignRulesTyped ==
  ASSUME NEW row \in Order
  PROVE  /\ EnforceDesignRules(row) \in Order
         /\ EnforceDesignRules(row).type = row.type
         /\ EnforceDesignRules(row).status = row.status
         /\ EnforceDesignRules(row).result = row.result
  BY DEF EnforceDesignRules, Order

(* Money left alone is a step of the ledger, and stays typed.              *)
LEMMA MoneyStepTyped ==
  ASSUME TypeOK, MoneyNext
  PROVE  MoneyTypeOK'
  BY MoneyNextTyped DEF TypeOK

-----------------------------------------------------------------------------
\* What each handler is shown to keep: types, and the discipline of money.
\* (Next, not the handler, says that the setting never changes, and which
\* handlers tear an order.)
Sound == (UNCHANGED setting /\ torn' \subseteq OrderIds => TypeOK') /\ MoneyNext

(* A debit or credit of an order, and the lack of one, are ledger steps.   *)
LEMMA PriceMoney ==
  ASSUME TypeOK, NEW u \in Users, NEW o \in OrderIds, NEW t \in OrderTypes,
         Debit(u, Price[t], o) \/ UNCHANGED moneyVars
  PROVE  MoneyNext
<1>1. CASE UNCHANGED moneyVars
  BY <1>1 DEF MoneyNext
<1>2. CASE Debit(u, Price[t], o)
  <2>1. Price[t] \in Nat /\ o \in References
    BY OrderBillingAssumption, BalanceAssumption
  <2> QED
    BY <1>2, <2>1, DebitCreditIsMoneyNext DEF TypeOK
<1> QED
  BY <1>1, <1>2

(* insertScanOrder, of createScanLabelOrder and of each imported row.      *)
LEMMA InsertScanOrderSound ==
  ASSUME TypeOK, NEW u \in Users, NEW o \in OrderIds, NEW c \in Codes, NEW skip \in BOOLEAN,
         InsertScanOrder(u, o, c, skip)
  PROVE  /\ orders' \in [OrderIds -> Order \cup {NoRow}]
         /\ issued' \subseteq OrderIds
         /\ MoneyNext
         /\ orders'[o].payment \in PaymentStatuses
<1>1. PICK status \in OrderStatuses, payment \in PaymentStatuses :
         Insert(o, NewOrder(u, "active_tracking", c, status, payment))
  BY DEF InsertScanOrder, OrderStatuses, PaymentStatuses
<1>2. NewOrder(u, "active_tracking", c, status, payment) \in Order
  BY DEF NewOrder, Order, OrderTypes
<1>3. orders'[o].payment = payment
  BY <1>1 DEF Insert, NewOrder, TypeOK
<1>4. MoneyNext
  BY PriceMoney DEF InsertScanOrder, OrderTypes
<1> QED
  BY <1>1, <1>2, <1>3, <1>4, InsertTyped

(* The requests by which customers create orders keep types and money.     *)
LEMMA CustomerCreatesSound ==
  ASSUME TypeOK, NEW r \in Requests, CustomerCreates(r)
  PROVE  Sound
<1>1. ASSUME NEW u \in Users, NEW o \in OrderIds, NEW c \in Codes,
             CreateScanLabelOrder(r, u, o, c)
      PROVE  Sound
  BY <1>1, InsertScanOrderSound, FinishTyped, MoneyStepTyped
     DEF CreateScanLabelOrder, Sound, TypeOK
<1>2. ASSUME NEW u \in Users, NEW o \in OrderIds, NEW c \in Codes,
             NEW type \in OrderTypes, CreateOrderFromLabel(r, u, o, type, c)
      PROVE  Sound
  <2>1. NewOrder(u, type, c, "pending", "unpaid") \in Order
    BY DEF NewOrder, Order, OrderStatuses, PaymentStatuses
  <2>2. [pc |-> "autopay", order |-> o, user |-> u] \in RequestStates
    BY DEF RequestStates
  <2>3. MoneyNext
    BY <1>2 DEF CreateOrderFromLabel, MoneyNext
  <2> QED
    BY <1>2, <2>1, <2>2, <2>3, InsertTyped, GotoTyped, MoneyStepTyped
       DEF CreateOrderFromLabel, Sound, TypeOK
<1>3. ASSUME NEW u \in Users, NEW o \in OrderIds, CreateDesignOrder(r, u, o)
      PROVE  Sound
  <2>1. PICK payment \in PaymentStatuses :
           Insert(o, NewOrder(u, "design", NoCode, "pending", payment))
    BY <1>3 DEF CreateDesignOrder, PaymentStatuses
  <2>2. NewOrder(u, "design", NoCode, "pending", payment) \in Order
    BY DEF NewOrder, Order, OrderStatuses, OrderTypes
  <2>3. MoneyNext
    BY <1>3, PriceMoney DEF CreateDesignOrder, OrderTypes
  <2> QED
    BY <1>3, <2>1, <2>2, <2>3, InsertTyped, FinishTyped, MoneyStepTyped
       DEF CreateDesignOrder, Sound, TypeOK
<1>4. ASSUME NEW u \in Users, NEW codes \in SUBSET Codes, ImportTrackingBulk(r, u, codes)
      PROVE  Sound
  <2>1. [pc |-> "import", user |-> u, todo |-> codes, exhausted |-> FALSE,
         results |-> << >>] \in RequestStates
    BY DEF RequestStates
  <2>2. MoneyNext
    BY <1>4 DEF ImportTrackingBulk, MoneyNext
  <2> QED
    BY <1>4, <2>1, <2>2, GotoTyped, MoneyStepTyped DEF ImportTrackingBulk, Sound, TypeOK
<1> QED
  BY <1>1, <1>2, <1>3, <1>4 DEF CustomerCreates

(* Each row an import goes through keeps types and money.                  *)
LEMMA ImportRowSound ==
  ASSUME TypeOK, NEW r \in Requests, NEW o \in OrderIds, NEW c \in Codes, ImportRow(r, o, c)
  PROVE  Sound
<1> DEFINE q == req[r]
           result == orders'[o].payment
           done == [pc |-> IF q.todo = {c} THEN "imported" ELSE "import",
                    user |-> q.user, todo |-> q.todo \ {c},
                    exhausted |-> q.exhausted \/ result = "unpaid",
                    results |-> Append(q.results, result)]
<1>1. q \in RequestStates /\ q.pc = "import"
  BY DEF TypeOK, ImportRow
<1>2. /\ q.user \in Users /\ q.todo \in SUBSET Codes /\ q.exhausted \in BOOLEAN
      /\ q.results \in Seq(PaymentStatuses)
  BY <1>1, RequestFields
<1>3. /\ orders' \in [OrderIds -> Order \cup {NoRow}] /\ issued' \subseteq OrderIds
      /\ MoneyNext /\ result \in PaymentStatuses
  BY <1>2, InsertScanOrderSound DEF ImportRow
<1>4. Goto(r, done)
  BY DEF ImportRow
<1> HIDE DEF result
<1>6. Append(q.results, result) \in Seq(PaymentStatuses)
  BY <1>2, <1>3
<1>7. done \in RequestStates
  BY <1>2, <1>3, <1>6 DEF RequestStates
<1> HIDE DEF done
<1> QED
  BY <1>3, <1>4, <1>7, GotoTyped, MoneyStepTyped DEF Sound, TypeOK

(* The automatic payment of a label order keeps types and money.           *)
LEMMA AutoPaySound ==
  ASSUME TypeOK, NEW r \in Requests, AutoPayOrderIfPossible(r)
  PROVE  Sound
<1> DEFINE q == req[r]
<1>1. q.order \in OrderIds /\ q.user \in Users
  BY RequestFields DEF TypeOK, AutoPayOrderIfPossible
<1>2. CASE UNCHANGED <<moneyVars, orders>>
  BY <1>2, FinishTyped, MoneyStepTyped DEF AutoPayOrderIfPossible, Sound, TypeOK, MoneyNext
<1>3. CASE /\ q.order \in Live
           /\ orders' = [orders EXCEPT ![q.order].payment = "paid"]
           /\ UNCHANGED moneyVars \/ Debit(q.user, Price[orders[q.order].type], q.order)
  <2>1. orders[q.order] \in Order
    BY <1>3, LiveIsOrder
  <2>2. [orders[q.order] EXCEPT !.payment = "paid"] \in Order /\ orders[q.order].type \in OrderTypes
    BY <2>1 DEF Order, PaymentStatuses
  <2>3. orders' \in [OrderIds -> Order \cup {NoRow}]
    BY <1>1, <1>3, <2>2 DEF TypeOK
  <2>4. MoneyNext
    BY <1>1, <1>3, <2>2, PriceMoney
  <2> QED
    BY <2>3, <2>4, FinishTyped, MoneyStepTyped DEF AutoPayOrderIfPossible, Sound, TypeOK
<1> QED
  BY <1>2, <1>3 DEF AutoPayOrderIfPossible

(* A batch never holds more debits than can be counted.                    *)
LEMMA OwingFinite ==
  ASSUME NEW u \in Users, NEW ids \in PayBatches
  PROVE  /\ Owing(u, ids) \subseteq DOMAIN ids
         /\ Cardinality(Owing(u, ids)) \in Nat
         /\ \A i \in DOMAIN ids : ids[i] \in OrderIds
         /\ \A i, j \in DOMAIN ids : ids[i] = ids[j] => i = j
<1>1. PICK n \in 1 .. setting.batch : /\ ids \in [1 .. n -> OrderIds]
                                 /\ \A i, j \in 1 .. n : i # j => ids[i] # ids[j]
  BY DEF PayBatches
<1>2. IsFiniteSet(1 .. n)
  BY FS_Interval
<1>3. Owing(u, ids) \subseteq 1 .. n
  BY <1>1 DEF Owing
<1>4. Cardinality(Owing(u, ids)) \in Nat
  BY <1>2, <1>3, FS_Subset, FS_CardinalityType
<1> QED
  BY <1>1, <1>3, <1>4

\* The rows payOrders writes for the orders os, whose costs lower the balance
\* to after[1], after[2]...
Descends(u, n, os, cost, after, rows) ==
  /\ n \in Nat \ {0}
  /\ os \in [1 .. n -> OrderIds]
  /\ cost \in [1 .. n -> Nat]
  /\ after \in [0 .. n -> 0 .. balance[u]]
  /\ after[0] = balance[u]
  /\ \A k \in 1 .. n : after[k] = after[k - 1] - cost[k]
  /\ rows \in [1 .. n -> LedgerRow]
  /\ \A k \in 1 .. n : rows[k] = RowOf(os[k], 0 - cost[k], after[k])

(* The rows of a batch payment are a transaction.                          *)
LEMMA PayOrdersRows ==
  ASSUME TypeOK, NEW u \in Users, NEW n, NEW os, NEW cost, NEW after, NEW rows,
         Descends(u, n, os, cost, after, rows)
  PROVE  /\ rows \in Seq(LedgerRow) /\ Len(rows) = n
         /\ Chained(u, rows)
         /\ \A k \in 1 .. n : rows[k].order = os[k]
<1>1. /\ n \in Nat \ {0} /\ rows \in [1 .. n -> LedgerRow] /\ after[0] = balance[u]
      /\ \A k \in 0 .. n : after[k] \in 0 .. balance[u]
      /\ \A k \in 1 .. n : cost[k] \in Nat /\ after[k] = after[k - 1] - cost[k]
      /\ \A k \in 1 .. n : /\ rows[k].order = os[k]
                            /\ rows[k].amount = 0 - cost[k] /\ rows[k].after = after[k]
  <2>1. /\ \A k \in 0 .. n : after[k] \in 0 .. balance[u]
        /\ \A k \in 1 .. n : cost[k] \in Nat
    BY DEF Descends
  <2>2. ASSUME NEW k \in 1 .. n
        PROVE  /\ rows[k].order = os[k]
               /\ rows[k].amount = 0 - cost[k] /\ rows[k].after = after[k]
    <3>1. os[k] \in OrderIds /\ rows[k] = RowOf(os[k], 0 - cost[k], after[k])
      BY DEF Descends
    <3> QED
      BY <3>1 DEF RowOf
  <2> QED
    BY <2>1, <2>2 DEF Descends
<1>2. rows \in Seq(LedgerRow) /\ Len(rows) = n
  BY <1>1, IndexedIsSeq
<1>3. ASSUME NEW k \in 1 .. Len(rows)
      PROVE  rows[k].after = (IF k = 1 THEN balance[u] ELSE rows[k - 1].after) + rows[k].amount
  <2>1. k \in 1 .. n /\ k \in 0 .. n /\ k - 1 \in 0 .. n /\ (k # 1 => k - 1 \in 1 .. n)
    BY <1>1, <1>2
  <2>2. balance[u] \in Nat
    BY DEF TypeOK, MoneyTypeOK
  <2>3. after[k - 1] \in 0 .. balance[u] /\ after[k] \in 0 .. balance[u] /\ cost[k] \in Nat
        /\ after[k] = after[k - 1] - cost[k]
    BY <1>1, <2>1
  <2>4. after[k] = after[k - 1] + (0 - cost[k])
    BY <2>2, <2>3
  <2>5. rows[k].amount = 0 - cost[k] /\ rows[k].after = after[k]
        /\ (k # 1 => rows[k - 1].after = after[k - 1])
    BY <1>1, <2>1
  <2>6. CASE k = 1
    BY <1>1, <2>4, <2>5, <2>6
  <2>7. CASE k # 1
    BY <2>4, <2>5, <2>7
  <2> QED
    BY <2>6, <2>7
<1>4. Chained(u, rows)
  BY <1>1, <1>2, <1>3 DEF Chained
<1> QED
  BY <1>1, <1>2, <1>4

(* A batch payment debits nothing, or in one transaction orders that are   *)
(* in the table, without an earlier debit, each one once.                  *)
LEMMA PayOrdersPosts ==
  ASSUME TypeOK, NEW r \in Requests, NEW u \in Users, NEW ids \in PayBatches,
         PayOrders(r, u, ids)
  PROVE  \/ UNCHANGED moneyVars
         \/ \E rows \in Seq(LedgerRow) :
              /\ Chained(u, rows) /\ PostRows(u, rows)
              /\ \A k \in 1 .. Len(rows) :
                    /\ rows[k].order \in Live /\ ~HasDebit(rows[k].order)
                    /\ \A j \in 1 .. Len(rows) : rows[j].order = rows[k].order => j = k
<1> DEFINE owing == Owing(u, ids)
           cost(i) == Price[orders[ids[i]].type]
<1>1. ASSUME NEW i \in owing
      PROVE  /\ i \in DOMAIN ids /\ ids[i] \in Live /\ ~HasDebit(ids[i])
             /\ ids[i] \in OrderIds /\ cost(i) \in Nat
  <2>1. i \in DOMAIN ids /\ ids[i] \in Live /\ ~HasDebit(ids[i])
    BY DEF Owing
  <2>2. orders[ids[i]].type \in OrderTypes
    BY <2>1, LiveIsOrder DEF Order
  <2> QED
    BY <2>1, <2>2, OwingFinite, OrderBillingAssumption
<1>2. PICK at \in Enumerations(owing), n \in 0 .. Cardinality(owing) :
        \E after \in [0 .. n -> 0 .. balance[u]] :
          /\ after[0] = balance[u]
          /\ \A k \in 1 .. n : after[k] = after[k - 1] - cost(at[k])
          /\ IF n = 0 THEN UNCHANGED moneyVars
             ELSE PostRows(u, [k \in 1 .. n |-> RowOf(ids[at[k]], 0 - cost(at[k]), after[k])])
  BY ZenonT(60) DEF PayOrders
<1>3. PICK after \in [0 .. n -> 0 .. balance[u]] :
        /\ after[0] = balance[u]
        /\ \A k \in 1 .. n : after[k] = after[k - 1] - cost(at[k])
        /\ IF n = 0 THEN UNCHANGED moneyVars
           ELSE PostRows(u, [k \in 1 .. n |-> RowOf(ids[at[k]], 0 - cost(at[k]), after[k])])
  BY <1>2
<1>4. CASE n = 0
  BY <1>3, <1>4
<1>5. CASE n # 0
  <2> DEFINE os == [k \in 1 .. n |-> ids[at[k]]]
             costs == [k \in 1 .. n |-> cost(at[k])]
             rows == [k \in 1 .. n |-> RowOf(os[k], 0 - costs[k], after[k])]
  <2>1. n \in Nat \ {0} /\ n <= Cardinality(owing) /\ Cardinality(owing) \in Nat
    BY <1>5, OwingFinite
  <2>2. \A k \in 1 .. n : at[k] \in owing
    BY <2>1 DEF Enumerations
  <2>3. os \in [1 .. n -> OrderIds] /\ costs \in [1 .. n -> Nat]
    BY <1>1, <2>2
  <2>4. PostRows(u, rows)
    <3>1. [k \in 1 .. n |-> RowOf(ids[at[k]], 0 - cost(at[k]), after[k])] = rows
      OBVIOUS
    <3> QED
      BY <1>3, <1>5, <3>1
  <2>5. \A k \in 1 .. n : os[k] \in Live /\ ~HasDebit(os[k])
    BY <1>1, <2>2
  <2>6. \A j, k \in 1 .. n : os[j] = os[k] => j = k
    <3>1. \A j, k \in 1 .. n : j < k => at[j] < at[k]
      BY <2>1 DEF Enumerations
    <3>2. ASSUME NEW j \in 1 .. n, NEW k \in 1 .. n, os[j] = os[k]
          PROVE  j = k
      <4>1. at[j] = at[k]
        BY <1>1, <2>2, <3>2, OwingFinite
      <4>2. at[j] \in Int
        <5>1. at[j] \in DOMAIN ids
          BY <1>1, <2>2
        <5> QED
          BY <5>1 DEF PayBatches
      <4> QED
        BY <3>1, <4>1, <4>2
    <3> QED
      BY <3>2
  <2>7. \A k \in 1 .. n : after[k] = after[k - 1] - costs[k]
    BY <1>3
  <2>8. after[0] = balance[u]
    BY <1>3
  <2>9. rows \in [1 .. n -> LedgerRow]
        /\ \A k \in 1 .. n : rows[k] = RowOf(os[k], 0 - costs[k], after[k])
    <3>1. ASSUME NEW k \in 1 .. n
          PROVE  RowOf(os[k], 0 - costs[k], after[k]) \in LedgerRow
      <4>1. os[k] \in OrderIds /\ os[k] \in References /\ costs[k] \in Nat
        BY <2>3, BalanceAssumption
      <4>2. after[k] \in Nat
        BY <2>1 DEF TypeOK, MoneyTypeOK
      <4> HIDE DEF os, costs
      <4> QED
        BY <4>1, <4>2 DEF RowOf, LedgerRow
    <3> HIDE DEF os, costs
    <3> QED
      BY <3>1
  <2> HIDE DEF os, costs, rows
  <2>10. /\ rows \in Seq(LedgerRow) /\ Len(rows) = n /\ Chained(u, rows)
         /\ \A k \in 1 .. n : rows[k].order = os[k]
    <3>1. Descends(u, n, os, costs, after, rows)
      BY <2>1, <2>3, <2>7, <2>8, <2>9 DEF Descends
    <3> QED
      BY <3>1, PayOrdersRows
  <2> QED
    BY <2>4, <2>5, <2>6, <2>10
<1> QED
  BY <1>4, <1>5

(* A batch payment keeps types and money.                                  *)
LEMMA PayOrdersSound ==
  ASSUME TypeOK, NEW r \in Requests, NEW u \in Users, NEW ids \in PayBatches,
         PayOrders(r, u, ids)
  PROVE  Sound
<1>2. MoneyNext
  BY PayOrdersPosts DEF MoneyNext
<1>3. \A o \in Live, debited \in BOOLEAN : PaidRow(orders[o], debited) \in Order
  BY LiveIsOrder DEF PaidRow, Order, PaymentStatuses, OrderStatuses
<1>4. orders' \in [OrderIds -> Order \cup {NoRow}]
  <2>1. \A o \in OrderIds : orders'[o] = orders[o]
          \/ (o \in Live /\ \E debited \in BOOLEAN : orders'[o] = PaidRow(orders[o], debited))
    BY DEF PayOrders
  <2>2. \A o \in OrderIds : orders'[o] \in Order \cup {NoRow}
    BY <2>1, <1>3 DEF TypeOK
  <2>3. orders' = [o \in OrderIds |-> orders'[o]]
    BY DEF PayOrders
  <2> QED
    BY <2>2, <2>3
<1> QED
  BY <1>2, <1>4, FinishTyped, MoneyStepTyped DEF PayOrders, Sound, TypeOK

(* Starting an order, read, reload and commit, keeps types and money.      *)
LEMMA StartSound ==
  ASSUME TypeOK, NEW r \in Requests
  PROVE  /\ \A o \in OrderIds : StartRead(r, o) => Sound
         /\ StartReload(r) => Sound
         /\ StartSave(r) => Sound
         /\ StartCommit(r) => Sound /\ torn' \subseteq OrderIds
<1> DEFINE q == req[r]
<1>1. ASSUME NEW o \in OrderIds, StartRead(r, o)
      PROVE  Sound
  <2>1. orders[o] \in Order
    BY <1>1, LiveIsOrder DEF StartRead
  <2>2. [pc |-> "start_tx", order |-> o, user |-> orders[o].user] \in RequestStates
    BY <2>1 DEF RequestStates, Order
  <2>3. MoneyNext
    BY <1>1 DEF StartRead, MoneyNext
  <2> QED
    BY <1>1, <2>2, <2>3, GotoTyped, MoneyStepTyped DEF StartRead, Sound, TypeOK
<1>2. ASSUME StartReload(r)
      PROVE  Sound
  <2> DEFINE owes == orders[q.order].payment = "unpaid" /\ ~HasDebit(q.order)
  <2>1. q.order \in OrderIds /\ q.user \in Users
    BY <1>2, RequestFields DEF TypeOK, StartReload
  <2>2. owes \in BOOLEAN
    OBVIOUS
  <2>3. ASSUME q.order \in Live, NEW charge \in BOOLEAN
        PROVE  [pc |-> "start_debit", order |-> q.order, user |-> q.user,
                row |-> orders[q.order], charge |-> charge] \in RequestStates
    BY <2>1, <2>3, LiveIsOrder DEF RequestStates
  <2>4. req' \in [Requests -> RequestStates]
    <3>1. CASE q.order \in Live /\ Startable(orders[q.order])
      <4>1. Goto(r, [pc |-> "start_debit", order |-> q.order, user |-> q.user,
                     row |-> orders[q.order], charge |-> owes])
        BY <1>2, <3>1 DEF StartReload
      <4> HIDE DEF owes
      <4> QED
        BY <4>1, <2>2, <2>3, <3>1, GotoTyped
    <3>2. CASE ~(q.order \in Live /\ Startable(orders[q.order]))
      BY <1>2, <3>2, FinishTyped DEF StartReload
    <3> QED
      BY <3>1, <3>2
  <2>5. MoneyNext
    BY <1>2 DEF StartReload, MoneyNext
  <2> QED
    BY <1>2, <2>4, <2>5, MoneyStepTyped DEF StartReload, Sound, TypeOK
<1>3. ASSUME StartSave(r)
      PROVE  Sound
  <2> DEFINE row == EnforceDesignRules([q.row EXCEPT !.payment = "paid", !.status = "processing"])
  <2>1. q.order \in OrderIds /\ q.user \in Users /\ q.row \in Order /\ q.charge \in BOOLEAN
    BY <1>3, RequestFields DEF TypeOK, StartSave
  <2>2. [q.row EXCEPT !.payment = "paid", !.status = "processing"] \in Order
    BY <2>1 DEF Order, PaymentStatuses, OrderStatuses
  <2>3. row \in Order
    BY <2>2, DesignRulesTyped
  <2>4. \/ Finish(r)
        \/ q.order \in Live /\ Goto(r, [pc |-> "start_update", order |-> q.order, user |-> q.user,
                                       row |-> row, seen |-> orders[q.order], charge |-> q.charge])
    BY <1>3 DEF StartSave
  <2> HIDE DEF row
  <2>5. req' \in [Requests -> RequestStates]
    <3>1. q.order \in Live =>
            [pc |-> "start_update", order |-> q.order, user |-> q.user, row |-> row,
             seen |-> orders[q.order], charge |-> q.charge] \in RequestStates
      BY <2>1, <2>3, LiveIsOrder DEF RequestStates
    <3> QED
      BY <2>4, <3>1, GotoTyped, FinishTyped
  <2>6. MoneyNext
    BY <1>3 DEF StartSave, MoneyNext
  <2> QED
    BY <1>3, <2>5, <2>6, MoneyStepTyped DEF StartSave, Sound, TypeOK
<1>4. ASSUME StartCommit(r)
      PROVE  Sound /\ torn' \subseteq OrderIds
  <2>1. q.order \in OrderIds /\ q.user \in Users /\ q.row \in Order
    BY <1>4, RequestFields DEF TypeOK, StartCommit
  <2>2. q.row.type \in OrderTypes
    BY <2>1 DEF Order
  <2>3. MoneyNext
    BY <1>4, <2>1, <2>2, PriceMoney DEF StartCommit
  <2>4. orders' \in [OrderIds -> Order \cup {NoRow}] /\ torn' \subseteq OrderIds
    <3>1. UpdateSelected(q) \/ UNCHANGED <<orders, torn>>
      BY <1>4 DEF StartCommit
    <3> QED
      BY <2>1, <3>1, UpdateTyped DEF TypeOK
  <2> QED
    BY <1>4, <2>3, <2>4, FinishTyped, MoneyStepTyped DEF StartCommit, Sound, TypeOK
<1> QED
  BY <1>1, <1>2, <1>3, <1>4

(* An edit holds a typed entity and moves no money.                        *)
LEMMA HoldForSaveSound ==
  ASSUME TypeOK, NEW r \in Requests, NEW o \in OrderIds, NEW row \in Order,
         HoldForSave(r, o, row)
  PROVE  Sound
<1>1. [pc |-> "save", order |-> o, row |-> EnforceDesignRules(row)] \in RequestStates
  BY DesignRulesTyped DEF RequestStates
<1>2. MoneyNext
  BY DEF HoldForSave, MoneyNext
<1> QED
  BY <1>1, <1>2, GotoTyped, MoneyStepTyped DEF HoldForSave, Sound, TypeOK

(* The administrators' edits keep types and money.                         *)
LEMMA EditsSound ==
  ASSUME TypeOK, NEW r \in Requests, NEW o \in OrderIds
  PROVE  /\ \A s \in OrderStatuses : UpdateOrderStatus(r, o, s) => Sound
         /\ \A p \in PaymentStatuses : UpdatePaymentStatus(r, o, p) => Sound
         /\ UpdateResultUrl(r, o) => Sound
         /\ UpdateAdminNote(r, o) => Sound
<1>1. ASSUME o \in Live, NEW s \in OrderStatuses, NEW p \in PaymentStatuses
      PROVE  /\ orders[o] \in Order
             /\ [orders[o] EXCEPT !.status = s] \in Order
             /\ [orders[o] EXCEPT !.payment = p] \in Order
             /\ [orders[o] EXCEPT !.result = TRUE] \in Order
  BY <1>1, LiveIsOrder DEF Order
<1>2. "pending" \in OrderStatuses /\ "paid" \in PaymentStatuses
  BY DEF OrderStatuses, PaymentStatuses
<1> QED
  BY <1>1, <1>2, HoldForSaveSound
     DEF UpdateOrderStatus, UpdatePaymentStatus, UpdateResultUrl, UpdateAdminNote

(* The save that ends an edit keeps types and money.                       *)
LEMMA SaveEditSound ==
  ASSUME TypeOK, NEW r \in Requests
  PROVE  /\ SaveEdit(r) => Sound
         /\ UpdateEdit(r) => Sound /\ torn' \subseteq OrderIds
<1> DEFINE q == req[r]
<1>1. ASSUME SaveEdit(r)
      PROVE  Sound
  <2>1. q.order \in OrderIds /\ q.row \in Order
    BY <1>1, RequestFields DEF TypeOK, SaveEdit
  <2>2. q.order \in Live =>
          [pc |-> "update", order |-> q.order, row |-> q.row, seen |-> orders[q.order]]
            \in RequestStates
    BY <2>1, LiveIsOrder DEF RequestStates
  <2>3. req' \in [Requests -> RequestStates]
    BY <1>1, <2>2, GotoTyped, FinishTyped DEF SaveEdit
  <2>4. MoneyNext
    BY <1>1 DEF SaveEdit, MoneyNext
  <2> QED
    BY <1>1, <2>3, <2>4, MoneyStepTyped DEF SaveEdit, Sound, TypeOK
<1>2. ASSUME UpdateEdit(r)
      PROVE  Sound /\ torn' \subseteq OrderIds
  <2>1. q.order \in OrderIds /\ q.row \in Order
    BY <1>2, RequestFields DEF TypeOK, UpdateEdit
  <2>2. MoneyNext
    BY <1>2 DEF UpdateEdit, MoneyNext
  <2> QED
    BY <1>2, <2>1, <2>2, UpdateTyped, FinishTyped, MoneyStepTyped DEF UpdateEdit, Sound, TypeOK
<1> QED
  BY <1>1, <1>2

(* The steps of bulkMarkFailed keep types and money.                       *)
LEMMA BulkFailSound ==
  ASSUME TypeOK, NEW r \in Requests
  PROVE  /\ \A o \in OrderIds, refund \in BOOLEAN : BulkMarkFailed(r, o, refund) => Sound
         /\ FailSaveNote(r) => Sound
         /\ FailUpdateNote(r) => Sound /\ torn' \subseteq OrderIds
         /\ FailRead(r) => Sound
         /\ FailSave(r) => Sound
         /\ FailUpdate(r) => Sound /\ torn' \subseteq OrderIds
<1> DEFINE q == req[r]
<1>1. ASSUME NEW o \in OrderIds, NEW refund \in BOOLEAN, BulkMarkFailed(r, o, refund)
      PROVE  Sound
  <2>1. [pc |-> "fail_note", order |-> o, row |-> orders[o], refund |-> refund] \in RequestStates
    BY <1>1, LiveIsOrder DEF BulkMarkFailed, RequestStates
  <2>2. MoneyNext
    BY <1>1 DEF BulkMarkFailed, MoneyNext
  <2> QED
    BY <1>1, <2>1, <2>2, GotoTyped, MoneyStepTyped DEF BulkMarkFailed, Sound, TypeOK
<1>2. ASSUME FailSaveNote(r)
      PROVE  Sound
  <2>1. q.order \in OrderIds /\ q.row \in Order /\ q.refund \in BOOLEAN
    BY <1>2, RequestFields DEF TypeOK, FailSaveNote
  <2>2. q.order \in Live =>
          [pc |-> "fail_note_update", order |-> q.order, row |-> q.row,
           seen |-> orders[q.order], refund |-> q.refund] \in RequestStates
    BY <2>1, LiveIsOrder DEF RequestStates
  <2>3. MoneyNext
    BY <1>2 DEF FailSaveNote, MoneyNext
  <2>4. req' \in [Requests -> RequestStates]
    BY <1>2, <2>2, GotoTyped, FinishTyped DEF FailSaveNote
  <2> QED
    BY <1>2, <2>3, <2>4, MoneyStepTyped DEF FailSaveNote, Sound, TypeOK
<1>3. ASSUME FailUpdateNote(r)
      PROVE  Sound /\ torn' \subseteq OrderIds
  <2>1. q.order \in OrderIds /\ q.row \in Order /\ q.refund \in BOOLEAN
    BY <1>3, RequestFields DEF TypeOK, FailUpdateNote
  <2>2. [pc |-> "fail_mark", order |-> q.order, refund |-> q.refund] \in RequestStates
    BY <2>1 DEF RequestStates
  <2>3. MoneyNext
    BY <1>3 DEF FailUpdateNote, MoneyNext
  <2> QED
    BY <1>3, <2>1, <2>2, <2>3, GotoTyped, UpdateTyped, MoneyStepTyped
       DEF FailUpdateNote, Sound, TypeOK
<1>4. ASSUME FailRead(r)
      PROVE  Sound
  <2>1. q.order \in OrderIds /\ q.refund \in BOOLEAN
    BY <1>4, RequestFields DEF TypeOK, FailRead
  <2>2. q.order \in Live => [orders[q.order] EXCEPT !.status = "failed"] \in Order
    BY LiveIsOrder DEF Order, OrderStatuses
  <2>3. q.order \in Live =>
          [pc |-> "fail_save", order |-> q.order, refund |-> q.refund,
           row |-> [orders[q.order] EXCEPT !.status = "failed"]] \in RequestStates
    BY <2>1, <2>2 DEF RequestStates
  <2>4. MoneyNext
    BY <1>4 DEF FailRead, MoneyNext
  <2>5. req' \in [Requests -> RequestStates]
    BY <1>4, <2>3, GotoTyped, FinishTyped DEF FailRead
  <2> QED
    BY <1>4, <2>4, <2>5, MoneyStepTyped DEF FailRead, Sound, TypeOK
<1>5. ASSUME FailSave(r)
      PROVE  Sound
  <2>1. q.order \in OrderIds /\ q.row \in Order /\ q.refund \in BOOLEAN
    BY <1>5, RequestFields DEF TypeOK, FailSave
  <2>2. [pc |-> "fail_update", order |-> q.order, row |-> q.row, seen |-> orders[q.order],
         refund |-> q.refund] \in RequestStates
    BY <2>1 DEF RequestStates, TypeOK
  <2>3. MoneyNext
    BY <1>5 DEF FailSave, MoneyNext
  <2> QED
    BY <1>5, <2>2, <2>3, GotoTyped, MoneyStepTyped DEF FailSave, Sound, TypeOK
<1>6. ASSUME FailUpdate(r)
      PROVE  Sound /\ torn' \subseteq OrderIds
  <2>1. q.order \in OrderIds /\ q.row \in Order /\ q.refund \in BOOLEAN
    BY <1>6, RequestFields DEF TypeOK, FailUpdate
  <2>2. [pc |-> "failed", order |-> q.order, refund |-> q.refund] \in RequestStates
    BY <2>1 DEF RequestStates
  <2>3. MoneyNext
    BY <1>6 DEF FailUpdate, MoneyNext
  <2>4. req' \in [Requests -> RequestStates]
    BY <1>6, <2>2, GotoTyped, FinishTyped DEF FailUpdate
  <2>5. orders' \in [OrderIds -> Order \cup {NoRow}] /\ torn' \subseteq OrderIds
    BY <1>6, <2>1, UpdateTyped, WriteTyped DEF FailUpdate, TypeOK
  <2> QED
    BY <1>6, <2>3, <2>4, <2>5, MoneyStepTyped DEF FailUpdate, Sound, TypeOK
<1> QED
  BY <1>1, <1>2, <1>3, <1>4, <1>5, <1>6

(* Archiving, deleting and adjusting keep types and money.                 *)
LEMMA ArchiveDeleteAdjustSound ==
  ASSUME TypeOK, NEW r \in Requests
  PROVE  /\ \A os \in SUBSET OrderIds : BulkArchive(r, os) => Sound
         /\ \A o \in OrderIds : DeleteOrder(r, o) => Sound
         /\ \A u \in Users, a \in Amounts : AdjustUserCredit(r, u, a) => Sound
<1>1. ASSUME NEW os \in SUBSET OrderIds, BulkArchive(r, os)
      PROVE  Sound
  <2>1. \A o \in Live : [orders[o] EXCEPT !.archived = TRUE] \in Order
    BY LiveIsOrder DEF Order
  <2>2. orders' \in [OrderIds -> Order \cup {NoRow}]
    BY <1>1, <2>1 DEF BulkArchive, TypeOK
  <2>3. MoneyNext
    BY <1>1 DEF BulkArchive, MoneyNext
  <2> QED
    BY <1>1, <2>2, <2>3, FinishTyped, MoneyStepTyped DEF BulkArchive, Sound, TypeOK
<1>2. ASSUME NEW o \in OrderIds, DeleteOrder(r, o)
      PROVE  Sound
  <2>1. MoneyNext
    BY <1>2 DEF DeleteOrder, MoneyNext
  <2> QED
    BY <1>2, <2>1, WriteTyped, FinishTyped, MoneyStepTyped DEF DeleteOrder, Sound, TypeOK
<1>3. ASSUME NEW u \in Users, NEW a \in Amounts, AdjustUserCredit(r, u, a)
      PROVE  Sound
  <2>1. a \in Nat
    BY OrderBillingAssumption
  <2>2. MoneyNext
    BY <1>3, <2>1, DebitCreditIsMoneyNext DEF AdjustUserCredit, TypeOK
  <2> QED
    BY <1>3, <2>2, FinishTyped, MoneyStepTyped DEF AdjustUserCredit, Sound, TypeOK
<1> QED
  BY <1>1, <1>2, <1>3

-----------------------------------------------------------------------------
(* Every step of every request keeps types and money.                      *)
LEMMA NextSound == TypeOK /\ [Next]_vars => TypeOK' /\ MoneyNext
<1> SUFFICES ASSUME TypeOK, [Next]_vars
             PROVE  Sound /\ UNCHANGED setting /\ torn' \subseteq OrderIds
  BY DEF Sound
<1>0. UNCHANGED setting
  BY DEF Next, vars
<1>1. CASE UNCHANGED vars
  BY <1>1 DEF vars, Sound, MoneyNext, moneyVars, TypeOK, MoneyTypeOK
<1>2. ASSUME NEW r \in Requests, CustomerCreates(r) PROVE Sound
  BY <1>2, CustomerCreatesSound
<1>3. ASSUME NEW r \in Requests, MoneyStep(r) PROVE Sound
  BY <1>3, PayOrdersSound, ArchiveDeleteAdjustSound DEF MoneyStep
<1>4. ASSUME NEW r \in Requests, AdminRequest(r) PROVE Sound
  BY <1>4, StartSound, EditsSound, BulkFailSound, ArchiveDeleteAdjustSound DEF AdminRequest
<1>5. ASSUME NEW r \in Requests, Continue(r) PROVE Sound
  BY <1>5, ImportRowSound, AutoPaySound, StartSound, SaveEditSound, BulkFailSound DEF Continue
<1>6. ASSUME NEW r \in Requests, Update(r) PROVE Sound /\ torn' \subseteq OrderIds
  BY <1>6, StartSound, SaveEditSound, BulkFailSound DEF Update
<1>7. UNCHANGED torn => torn' \subseteq OrderIds
  BY DEF TypeOK
<1> QED
  BY <1>0, <1>1, <1>2, <1>3, <1>4, <1>5, <1>6, <1>7 DEF Next, vars

(* The table starts empty, and typed.                                      *)
LEMMA InitTyped == Init => TypeOK /\ LedgerBacksBalance
<1>1. [pc |-> "idle"] \in RequestStates
  BY DEF RequestStates
<1> QED
  BY <1>1, MoneyInitBacked DEF Init, TypeOK

(***************************************************************************)
(* Type correctness: no request ever holds, saves or commits a row that    *)
(* the orders table or the ledger cannot store, negative balances          *)
(* included (orders.service.ts, balance.service.ts:36-87).                 *)
(***************************************************************************)
THEOREM TypeCorrect == Spec => []TypeOK
<1>1. Init => TypeOK
  BY InitTyped
<1>2. TypeOK /\ [Next]_vars => TypeOK'
  BY NextSound
<1> QED
  BY <1>1, <1>2, PTL DEF Spec

(***************************************************************************)
(* Whatever requests interleave, each balance is the balance_after of a    *)
(* ledger whose rows chain from zero: the "single source of truth" of      *)
(* balance.service.ts:11-14, for the handlers of orders.service.ts.        *)
(***************************************************************************)
THEOREM LedgerAlwaysBacks == Spec => []LedgerBacksBalance
<1>1. Init => LedgerBacksBalance
  BY InitTyped
<1>2. TypeOK /\ LedgerBacksBalance /\ [Next]_vars => LedgerBacksBalance'
  BY NextSound, MoneyNextBacks DEF TypeOK
<1> QED
  BY <1>1, <1>2, TypeCorrect, PTL DEF Spec

(***************************************************************************)
(* The order handlers implement the abstract ledger: each of their steps   *)
(* appends to one customer's statement or leaves every statement alone.    *)
(***************************************************************************)
THEOREM OrdersKeepLedgerPromise == Spec => KeepsLedgerPromise
<1>1. Init => CL!CLInit
  BY InitTyped DEF LedgerBacksBalance, CL!CLInit
<1>2. TypeOK /\ LedgerBacksBalance /\ [Next]_vars => [CL!CLNext]_(CL!clVars)
  BY NextSound, MoneyNextKeepsPromise DEF TypeOK
<1> QED
  BY <1>1, <1>2, TypeCorrect, LedgerAlwaysBacks, PTL DEF Spec, KeepsLedgerPromise, CL!CLSpec

-----------------------------------------------------------------------------
(***************************************************************************)
(* What orders cost, proved for any number of requests: no order is        *)
(* debited twice unless startProcessing overlaps with other requests, and  *)
(* without edits an order shows paid exactly when it was debited.  The     *)
(* argument: ids are never given twice, so an inserted order has no debit  *)
(* yet; the other debits look for one under the lock of the order row; and *)
(* deleting an order unlinks its rows without giving its id away again.    *)
(***************************************************************************)

Holding == {"save", "update", "autopay", "fail_note", "fail_note_update", "fail_mark",
            "fail_save", "fail_update"}
Charging == {"start_debit", "start_update"}
Starting == {"start_tx"} \cup Charging

\* Nothing commits between the reads and the writes of startProcessing.
Calm == "start" \notin setting.ops \/ setting.overlap <= 1

\* One request after the other, where requests do not overlap.
Alone == setting.overlap <= 1 => \A x, y \in InFlight : x = y

\* Request r is the one served, and no other if requests do not overlap.
Served(r) == UNCHANGED setting /\ (setting.overlap <= 1 => InFlight \subseteq {r})

\* Ids seen in the table, in a request or in the ledger have been issued;
\* what startProcessing read of the debits is still true, where it is calm.
OrdersKnown == Live \subseteq issued
RequestsKnown ==
  \A x \in Requests :
     /\ req[x].pc \in Holding \cup Starting => req[x].order \in issued
     /\ req[x].pc \in Starting => "start" \in setting.ops
     /\ (Calm /\ req[x].pc \in Charging /\ req[x].charge) => ~HasDebit(req[x].order)
LinksKnown ==
  \A u \in Users : \A i \in DOMAIN ledger[u] : ledger[u][i].order \in issued \cup {NoOrder}

\* AtMostOneDebit, said without the set of pairs.
NoTwoDebits ==
  \A o \in OrderIds : \A u, v \in Users : \A i \in DOMAIN ledger[u], j \in DOMAIN ledger[v] :
     (/\ ledger[u][i].order = o /\ ledger[u][i].amount < 0
      /\ ledger[v][j].order = o /\ ledger[v][j].amount < 0) => u = v /\ i = j

DebitInv ==
  TypeOK /\ Alone /\ OrdersKnown /\ RequestsKnown /\ LinksKnown /\ (Calm => NoTwoDebits)

\* Rows for orders not debited before, where it is calm, each at most once.
FreshRows(rows) ==
  \A k \in 1 .. Len(rows) :
     /\ rows[k].order \in issued' \cup {NoOrder}
     /\ rows[k].order # NoOrder =>
          /\ Calm => ~HasDebit(rows[k].order)
          /\ \A j \in 1 .. Len(rows) : rows[j].order = rows[k].order => j = k

\* What each step does to the links between ledger and orders.
DebitStep ==
  \/ UNCHANGED ledger
  \/ \E o \in OrderIds : Unlink(o)
  \/ \E u \in Users : \E rows \in Seq(LedgerRow) : FreshRows(rows) /\ PostRows(u, rows)

\* What each step keeps besides.
Careful ==
  /\ DebitStep
  /\ issued \subseteq issued'
  /\ OrdersKnown'
  /\ RequestsKnown'

-----------------------------------------------------------------------------
(* The debits of an order, one by one.                                     *)
LEMMA DebitRowsAre ==
  ASSUME NEW o
  PROVE  /\ \A u, i : <<u, i>> \in DebitRows(o) <=>
                       /\ u \in Users /\ i \in DOMAIN ledger[u]
                       /\ ledger[u][i].order = o /\ ledger[u][i].amount < 0
         /\ \A d \in DebitRows(o) : \E u \in Users : \E i \in DOMAIN ledger[u] : d = <<u, i>>
  BY DEF DebitRows

(* At most one debit, said without the set of pairs.                       *)
LEMMA AtMostOneDebitAlt == AtMostOneDebit <=> NoTwoDebits
<1>1. ASSUME AtMostOneDebit, NEW o \in OrderIds, NEW u \in Users, NEW v \in Users,
             NEW i \in DOMAIN ledger[u], NEW j \in DOMAIN ledger[v],
             ledger[u][i].order = o /\ ledger[u][i].amount < 0,
             ledger[v][j].order = o /\ ledger[v][j].amount < 0
      PROVE  u = v /\ i = j
  <2>1. <<u, i>> \in DebitRows(o) /\ <<v, j>> \in DebitRows(o)
    BY <1>1, DebitRowsAre
  <2>2. <<u, i>> = <<v, j>>
    BY <1>1, <2>1 DEF AtMostOneDebit
  <2> QED
    BY <2>2
<1>2. ASSUME NoTwoDebits,
             NEW o \in OrderIds, NEW a \in DebitRows(o), NEW b \in DebitRows(o)
      PROVE  a = b
  <2>1. PICK u \in Users : \E i \in DOMAIN ledger[u] : a = <<u, i>>
    BY DebitRowsAre
  <2>2. PICK i \in DOMAIN ledger[u] : a = <<u, i>>
    BY <2>1
  <2>3. PICK v \in Users : \E j \in DOMAIN ledger[v] : b = <<v, j>>
    BY DebitRowsAre
  <2>4. PICK j \in DOMAIN ledger[v] : b = <<v, j>>
    BY <2>3
  <2>5. <<u, i>> \in DebitRows(o) /\ <<v, j>> \in DebitRows(o)
    BY <2>2, <2>4
  <2>6. u = v /\ i = j
    BY <1>2, <2>5, DebitRowsAre DEF NoTwoDebits
  <2> QED
    BY <2>2, <2>4, <2>6
<1> QED
  BY <1>1, <1>2 DEF AtMostOneDebit, NoTwoDebits

(* A ledger row after a transaction was there before it, or is one of its  *)
(* own (applyChange, balance.service.ts:36-87).                            *)
LEMMA PostEntries ==
  ASSUME MoneyTypeOK, NEW u \in Users, NEW rows \in Seq(LedgerRow), PostRows(u, rows),
         NEW v \in Users, NEW i \in DOMAIN ledger'[v]
  PROVE  \/ i \in DOMAIN ledger[v] /\ ledger'[v][i] = ledger[v][i]
         \/ /\ v = u
            /\ i \in Nat
            /\ i - Len(ledger[u]) \in 1 .. Len(rows)
            /\ ledger'[v][i] = rows[i - Len(ledger[u])]
<1>1. CASE v # u
  BY <1>1 DEF PostRows, MoneyTypeOK
<1>2. CASE v = u
  <2> DEFINE old == ledger[u]
  <2>1. ledger'[v] = old \o rows /\ old \in Seq(LedgerRow)
    BY <1>2 DEF PostRows, MoneyTypeOK
  <2> HIDE DEF old
  <2>2. i \in 1 .. Len(old) + Len(rows) /\ Len(old) \in Nat /\ Len(rows) \in Nat
    BY <2>1
  <2>3. CASE i <= Len(old)
    BY <1>2, <2>1, <2>2, <2>3 DEF old
  <2>4. CASE i > Len(old)
    <3>1. i \in Nat /\ i - Len(old) \in 1 .. Len(rows)
      BY <2>2, <2>4
    <3>2. (old \o rows)[i] = rows[i - Len(old)]
      BY <2>1, <2>2, <2>4
    <3> QED
      BY <1>2, <2>1, <3>1, <3>2 DEF old
  <2> QED
    BY <2>2, <2>3, <2>4
<1> QED
  BY <1>1, <1>2

(* Steps that debit only fresh orders keep every order debited once.       *)
LEMMA DebitStepKeeps ==
  ASSUME MoneyTypeOK, LinksKnown, Calm => NoTwoDebits, DebitStep, issued \subseteq issued'
  PROVE  LinksKnown' /\ (Calm => NoTwoDebits')
<1>1. CASE UNCHANGED ledger
  BY <1>1 DEF LinksKnown, NoTwoDebits
<1>2. ASSUME NEW p \in OrderIds, Unlink(p)
      PROVE  LinksKnown' /\ (Calm => NoTwoDebits')
  <2>1. NoOrder \notin OrderIds
    BY BalanceAssumption
  <2>2. ASSUME NEW u \in Users
        PROVE  /\ DOMAIN ledger'[u] = DOMAIN ledger[u]
               /\ \A i \in DOMAIN ledger[u] :
                     \/ ledger'[u][i] = ledger[u][i]
                     \/ ledger'[u][i].order = NoOrder
    <3>1. \A i \in DOMAIN ledger[u] : ledger[u][i] \in LedgerRow
      BY DEF MoneyTypeOK
    <3> QED
      BY <1>2, <3>1 DEF Unlink, LedgerRow
  <2> QED
    BY <2>1, <2>2 DEF LinksKnown, NoTwoDebits
<1>3. ASSUME NEW u \in Users, NEW rows \in Seq(LedgerRow), FreshRows(rows), PostRows(u, rows)
      PROVE  LinksKnown' /\ (Calm => NoTwoDebits')
  <2> DEFINE New(i) == i - Len(ledger[u])
  <2>1. ASSUME NEW v \in Users, NEW i \in DOMAIN ledger'[v]
        PROVE  \/ i \in DOMAIN ledger[v] /\ ledger'[v][i] = ledger[v][i]
               \/ /\ v = u /\ i \in Nat /\ New(i) \in 1 .. Len(rows)
                  /\ ledger'[v][i] = rows[New(i)]
    BY <1>3, PostEntries
  <2>2. LinksKnown'
    BY <1>3, <2>1 DEF LinksKnown, FreshRows
  <2>3. ASSUME Calm, NEW o \in OrderIds, NEW v \in Users, NEW w \in Users,
               NEW i \in DOMAIN ledger'[v], NEW j \in DOMAIN ledger'[w],
               ledger'[v][i].order = o, ledger'[v][i].amount < 0,
               ledger'[w][j].order = o, ledger'[w][j].amount < 0
        PROVE  v = w /\ i = j
    <3>1. o # NoOrder
      BY BalanceAssumption
    <3>2. CASE HasDebit(o)
      <4>1. \A k \in 1 .. Len(rows) : rows[k].order # o
        BY <1>3, <2>3, <3>1, <3>2 DEF FreshRows
      <4>2. /\ i \in DOMAIN ledger[v] /\ ledger'[v][i] = ledger[v][i]
            /\ j \in DOMAIN ledger[w] /\ ledger'[w][j] = ledger[w][j]
        BY <2>1, <2>3, <4>1
      <4> QED
        BY <2>3, <4>2 DEF NoTwoDebits
    <3>3. CASE ~HasDebit(o)
      <4>1. /\ v = u /\ i \in Nat /\ New(i) \in 1 .. Len(rows) /\ rows[New(i)].order = o
            /\ w = u /\ j \in Nat /\ New(j) \in 1 .. Len(rows) /\ rows[New(j)].order = o
        BY <2>1, <2>3, <3>3 DEF HasDebit
      <4>2. New(i) = New(j)
        BY <1>3, <3>1, <4>1 DEF FreshRows
      <4>3. Len(ledger[u]) \in Nat
        BY DEF MoneyTypeOK
      <4> QED
        BY <4>1, <4>2, <4>3
    <3> QED
      BY <3>2, <3>3
  <2> QED
    BY <2>2, <2>3 DEF NoTwoDebits
<1> QED
  BY <1>1, <1>2, <1>3 DEF DebitStep

-----------------------------------------------------------------------------
(* A change of the balance for an order that has no debit, or for no       *)
(* order, is a careful step of the ledger (applyChange).                   *)
LEMMA ApplyChangeIsDebitStep ==
  ASSUME TypeOK, NEW u \in Users, NEW delta \in Int,
         NEW ref \in References \cup {NoOrder},
         balance[u] + delta >= 0, ApplyChange(u, delta, ref),
         ref \in OrderIds => ref \in issued' /\ (Calm => ~HasDebit(ref))
  PROVE  DebitStep
<1> DEFINE row == RowOf(ref, delta, balance[u] + delta)
<1>1. row \in LedgerRow
  BY BalanceAssumption DEF TypeOK, MoneyTypeOK, RowOf, LedgerRow
<1>2. row.order = NoOrder \/ (row.order \in issued' /\ (Calm => ~HasDebit(row.order)))
  BY DEF RowOf
<1> HIDE DEF row
<1>3. <<row>> \in Seq(LedgerRow) /\ Len(<<row>>) = 1 /\ <<row>>[1] = row
  BY <1>1
<1>4. FreshRows(<<row>>)
  BY <1>2, <1>3 DEF FreshRows
<1>5. PostRows(u, <<row>>)
  BY DEF ApplyChange, row
<1> QED
  BY <1>3, <1>4, <1>5 DEF DebitStep

(* So is debiting, at its price, an order that has no debit.               *)
LEMMA FreshDebitIsDebitStep ==
  ASSUME TypeOK, NEW u \in Users, NEW o \in OrderIds, NEW t \in OrderTypes,
         Debit(u, Price[t], o), o \in issued', Calm => ~HasDebit(o)
  PROVE  DebitStep
<1>1. Price[t] \in Nat /\ balance[u] \in Nat /\ o \in References
  BY OrderBillingAssumption, BalanceAssumption DEF TypeOK, MoneyTypeOK
<1> QED
  BY <1>1, ApplyChangeIsDebitStep DEF Debit, Covers

(* An id that was never issued has no debit (balance_transactions.order_id *)
(* references orders).                                                     *)
LEMMA NewOrderHasNoDebit ==
  ASSUME LinksKnown, NEW o \in OrderIds, o \notin issued
  PROVE  ~HasDebit(o)
<1>1. o # NoOrder
  BY BalanceAssumption
<1> QED
  BY <1>1 DEF LinksKnown, HasDebit

(* A request that moves on holds an id that was issued, and, if it is to   *)
(* start an order, what it read of the debits is true.                     *)
LEMMA MoveTold ==
  ASSUME TypeOK, RequestsKnown, NEW r \in Requests, Served(r), NEW q, Goto(r, q),
         issued \subseteq issued',
         q.pc \in Holding \cup Starting => q.order \in issued',
         q.pc \in Starting => "start" \in setting.ops,
         (Calm /\ q.pc \in Charging /\ q.charge) => ~HasDebit(q.order)'
  PROVE  RequestsKnown'
<1>1. setting' = setting /\ (Calm' <=> Calm)
  BY DEF Served, Calm
<1>2. req'[r] = q /\ \A x \in Requests \ {r} : req'[x] = req[x]
  BY DEF TypeOK, Goto
<1>3. ASSUME NEW x \in Requests \ {r}, Calm
      PROVE  req[x].pc \notin Charging
  BY <1>3 DEF RequestsKnown, Served, Calm, InFlight, Starting, Charging
<1> QED
  BY <1>1, <1>2, <1>3 DEF RequestsKnown

(* A request that does not move on to start an order.                      *)
LEMMA MoveKnown ==
  ASSUME TypeOK, RequestsKnown, NEW r \in Requests, Served(r), NEW q, Goto(r, q),
         issued \subseteq issued', q.pc \notin Starting,
         q.pc \in Holding => q.order \in issued'
  PROVE  RequestsKnown'
  BY MoveTold DEF Starting

(* A request that ends holds nothing.                                      *)
LEMMA FinishKnown ==
  ASSUME TypeOK, RequestsKnown, NEW r \in Requests, Served(r), Finish(r),
         issued \subseteq issued'
  PROVE  RequestsKnown'
  BY MoveKnown DEF Finish, Holding, Starting, Charging

(* Rows written for issued ids leave the table within the issued ids.      *)
LEMMA WriteKnown ==
  ASSUME TypeOK, OrdersKnown, NEW o \in issued, NEW row,
         orders' = [orders EXCEPT ![o] = row] \/ UNCHANGED orders, UNCHANGED issued
  PROVE  OrdersKnown'
  BY DEF TypeOK, OrdersKnown, Live

(* An inserted row takes an id that is issued from then on.                *)
LEMMA InsertKnown ==
  ASSUME TypeOK, OrdersKnown, NEW o \in OrderIds, NEW row, Insert(o, row)
  PROVE  OrdersKnown' /\ issued \subseteq issued' /\ o \in issued' /\ o \notin issued
  BY DEF TypeOK, OrdersKnown, Live, Insert

(* insertScanOrder debits only the id it gives.                            *)
LEMMA InsertScanOrderCareful ==
  ASSUME DebitInv, NEW u \in Users, NEW o \in OrderIds, NEW c \in Codes, NEW skip \in BOOLEAN,
         InsertScanOrder(u, o, c, skip)
  PROVE  DebitStep /\ issued \subseteq issued' /\ OrdersKnown'
<1>1. PICK row : Insert(o, row)
  BY DEF InsertScanOrder
<1>2. /\ OrdersKnown' /\ issued \subseteq issued'
      /\ o \in issued' /\ ~HasDebit(o)
  BY <1>1, InsertKnown, NewOrderHasNoDebit DEF DebitInv
<1>3. "active_tracking" \in OrderTypes
  BY DEF OrderTypes
<1>4. DebitStep
  BY <1>2, <1>3, FreshDebitIsDebitStep DEF InsertScanOrder, DebitInv, DebitStep, moneyVars
<1> QED
  BY <1>2, <1>4

(* The requests by which customers create orders are careful.              *)
LEMMA CustomerCreatesCareful ==
  ASSUME DebitInv, NEW r \in Requests, Served(r), CustomerCreates(r)
  PROVE  Careful
<1>1. ASSUME NEW u \in Users, NEW o \in OrderIds, NEW c \in Codes,
             CreateScanLabelOrder(r, u, o, c)
      PROVE  Careful
  BY <1>1, InsertScanOrderCareful, FinishKnown DEF CreateScanLabelOrder, Careful, DebitInv
<1>2. ASSUME NEW u \in Users, NEW o \in OrderIds, NEW c \in Codes,
             NEW type \in OrderTypes, CreateOrderFromLabel(r, u, o, type, c)
      PROVE  Careful
  <2>1. OrdersKnown' /\ issued \subseteq issued' /\ o \in issued'
    BY <1>2, InsertKnown DEF CreateOrderFromLabel, DebitInv
  <2>2. RequestsKnown'
    BY <1>2, <2>1, MoveKnown DEF CreateOrderFromLabel, DebitInv, Holding, Starting, Charging
  <2> QED
    BY <1>2, <2>1, <2>2 DEF CreateOrderFromLabel, Careful, DebitStep, moneyVars
<1>3. ASSUME NEW u \in Users, NEW o \in OrderIds, CreateDesignOrder(r, u, o)
      PROVE  Careful
  <2>1. PICK row : Insert(o, row)
    BY <1>3 DEF CreateDesignOrder
  <2>2. /\ OrdersKnown' /\ issued \subseteq issued'
        /\ o \in issued' /\ ~HasDebit(o)
    BY <2>1, InsertKnown, NewOrderHasNoDebit DEF DebitInv
  <2>3. "design" \in OrderTypes
    BY DEF OrderTypes
  <2>4. DebitStep
    BY <1>3, <2>2, <2>3, FreshDebitIsDebitStep
       DEF CreateDesignOrder, DebitInv, DebitStep, moneyVars
  <2> QED
    BY <1>3, <2>2, <2>4, FinishKnown DEF CreateDesignOrder, Careful, DebitInv
<1>4. ASSUME NEW u \in Users, NEW codes \in SUBSET Codes, ImportTrackingBulk(r, u, codes)
      PROVE  Careful
  <2>1. RequestsKnown'
    BY <1>4, MoveKnown DEF ImportTrackingBulk, DebitInv, Holding, Starting, Charging
  <2> QED
    BY <1>4, <2>1
       DEF ImportTrackingBulk, Careful, DebitInv, DebitStep, moneyVars, OrdersKnown, Live
<1> QED
  BY <1>1, <1>2, <1>3, <1>4 DEF CustomerCreates

(* Each imported row is careful.                                           *)
LEMMA ImportRowCareful ==
  ASSUME DebitInv, NEW r \in Requests, Served(r), NEW o \in OrderIds, NEW c \in Codes, ImportRow(r, o, c)
  PROVE  Careful
<1> DEFINE q == req[r]
<1>1. q.user \in Users /\ q.exhausted \in BOOLEAN
  BY RequestFields DEF DebitInv, TypeOK, ImportRow
<1>2. DebitStep /\ issued \subseteq issued' /\ OrdersKnown'
  BY <1>1, InsertScanOrderCareful DEF ImportRow
<1>3. PICK p \in {"imported", "import"} : \E u, t, e, rs :
        Goto(r, [pc |-> p, user |-> u, todo |-> t, exhausted |-> e, results |-> rs])
  BY DEF ImportRow
<1>4. RequestsKnown'
  BY <1>2, <1>3, MoveKnown DEF DebitInv, Holding, Starting, Charging
<1> QED
  BY <1>2, <1>4 DEF Careful

(* The automatic payment of a label order looks for a debit first.         *)
LEMMA AutoPayCareful ==
  ASSUME DebitInv, NEW r \in Requests, Served(r), AutoPayOrderIfPossible(r)
  PROVE  Careful
<1> DEFINE q == req[r]
<1>1. q.order \in OrderIds /\ q.user \in Users /\ q.order \in issued /\ issued' = issued
  BY RequestFields DEF DebitInv, TypeOK, AutoPayOrderIfPossible, RequestsKnown, Holding
<1>2. OrdersKnown'
  <2>1. \E row : orders' = [orders EXCEPT ![q.order] = row] \/ UNCHANGED orders
    BY DEF AutoPayOrderIfPossible
  <2> QED
    BY <1>1, <2>1, WriteKnown DEF DebitInv
<1>3. DebitStep
  <2>1. CASE UNCHANGED moneyVars
    BY <2>1 DEF DebitStep, moneyVars
  <2>2. CASE /\ q.order \in Live /\ ~HasDebit(q.order)
             /\ Debit(q.user, Price[orders[q.order].type], q.order)
    <3>1. orders[q.order].type \in OrderTypes
      BY <2>2, LiveIsOrder DEF DebitInv, Order
    <3> QED
      BY <1>1, <2>2, <3>1, FreshDebitIsDebitStep DEF DebitInv
  <2> QED
    BY <2>1, <2>2 DEF AutoPayOrderIfPossible
<1> QED
  BY <1>1, <1>2, <1>3, FinishKnown DEF AutoPayOrderIfPossible, Careful, DebitInv

(* A batch payment debits only orders in the table that have no debit.     *)
LEMMA PayOrdersCareful ==
  ASSUME DebitInv, NEW r \in Requests, Served(r), NEW u \in Users, NEW ids \in PayBatches,
         PayOrders(r, u, ids)
  PROVE  Careful
<1>1. issued' = issued
  BY DEF PayOrders
<1>2. DebitStep
  <2>1. CASE UNCHANGED moneyVars
    BY <2>1 DEF DebitStep, moneyVars
  <2>2. ASSUME NEW rows \in Seq(LedgerRow), PostRows(u, rows),
               \A k \in 1 .. Len(rows) :
                 /\ rows[k].order \in Live /\ ~HasDebit(rows[k].order)
                 /\ \A j \in 1 .. Len(rows) : rows[j].order = rows[k].order => j = k
        PROVE  DebitStep
    <3>1. FreshRows(rows)
      BY <1>1, <2>2 DEF FreshRows, DebitInv, OrdersKnown
    <3> QED
      BY <2>2, <3>1 DEF DebitStep
  <2> QED
    BY <2>1, <2>2, PayOrdersPosts DEF DebitInv
<1>3. OrdersKnown'
  <2>1. \A o \in OrderIds : orders'[o] = orders[o] \/ o \in Live
    BY DEF PayOrders
  <2> QED
    BY <1>1, <2>1 DEF DebitInv, OrdersKnown, Live
<1> QED
  BY <1>1, <1>2, <1>3, FinishKnown DEF PayOrders, Careful, DebitInv

(* Steps that leave orders, ids and ledger alone, and move a request on    *)
(* with an order of the table or of its own, are careful.                  *)
LEMMA ReadingIsCareful ==
  ASSUME DebitInv, NEW r \in Requests, Served(r), NEW q, Goto(r, q),
         UNCHANGED <<moneyVars, orders, issued>>,
         q.pc \notin Starting, q.pc \in Holding => q.order \in issued
  PROVE  Careful
<1>1. RequestsKnown'
  BY MoveKnown DEF DebitInv
<1> QED
  BY <1>1 DEF Careful, DebitStep, DebitInv, OrdersKnown, Live, moneyVars

(* Steps that only write the row of an issued id are careful.              *)
LEMMA SavingIsCareful ==
  ASSUME DebitInv, NEW r \in Requests, Served(r), NEW q, Goto(r, q), NEW o \in issued, NEW row,
         orders' = [orders EXCEPT ![o] = row] \/ UNCHANGED orders,
         UNCHANGED <<moneyVars, issued>>,
         q.pc \notin Starting, q.pc \in Holding => q.order \in issued
  PROVE  Careful
<1>1. RequestsKnown'
  BY MoveKnown DEF DebitInv
<1>2. OrdersKnown'
  BY WriteKnown DEF DebitInv
<1> QED
  BY <1>1, <1>2 DEF Careful, DebitStep, moneyVars

(* The UPDATE of a save writes one row, if that.                           *)
LEMMA UpdateWrites ==
  ASSUME NEW q, UpdateSelected(q)
  PROVE  \E row : orders' = [orders EXCEPT ![q.order] = row] \/ UNCHANGED orders
<1>1. CASE q.order \in Live
  <2> DEFINE row == Patched(orders[q.order], q.row, q.seen)
  <2>1. orders' = [orders EXCEPT ![q.order] = row]
    BY <1>1 DEF UpdateSelected
  <2> HIDE DEF row
  <2> QED
    BY <2>1
<1>2. CASE q.order \notin Live
  BY <1>2 DEF UpdateSelected
<1> QED
  BY <1>1, <1>2

(* The administrators' requests are careful.                               *)
LEMMA AdminRequestCareful ==
  ASSUME DebitInv, NEW r \in Requests, Served(r), AdminRequest(r)
  PROVE  Careful
<1> USE DEF Holding, Starting, Charging
<1>1. \A o \in Live : o \in issued
  BY DEF DebitInv, OrdersKnown
<1>2. ASSUME NEW o \in OrderIds, StartRead(r, o) PROVE Careful
  <2> DEFINE q == [pc |-> "start_tx", order |-> o, user |-> orders[o].user]
  <2>1. RequestsKnown'
    BY <1>1, <1>2, MoveTold DEF StartRead, Admit, DebitInv
  <2> QED
    BY <1>2, <2>1 DEF StartRead, Careful, DebitStep, DebitInv, OrdersKnown, Live, moneyVars
<1>3. ASSUME NEW o \in Live, NEW row, HoldForSave(r, o, row) PROVE Careful
  BY <1>1, <1>3, ReadingIsCareful DEF HoldForSave
<1>4. ASSUME NEW o \in OrderIds, NEW refund, BulkMarkFailed(r, o, refund) PROVE Careful
  BY <1>1, <1>4, ReadingIsCareful DEF BulkMarkFailed
<1>5. ASSUME NEW o \in OrderIds, DeleteOrder(r, o) PROVE Careful
  <2>1. OrdersKnown'
    BY <1>1, <1>5, WriteKnown DEF DeleteOrder, DebitInv
  <2>2. RequestsKnown'
    BY <1>5, FinishKnown DEF DeleteOrder, DebitInv
  <2> QED
    BY <1>5, <2>1, <2>2 DEF DeleteOrder, Careful, DebitStep
<1>6. ASSUME NEW os \in SUBSET OrderIds, BulkArchive(r, os) PROVE Careful
  <2>1. OrdersKnown'
    BY <1>6 DEF BulkArchive, DebitInv, OrdersKnown, Live
  <2>2. RequestsKnown'
    BY <1>6, FinishKnown DEF BulkArchive, DebitInv
  <2> QED
    BY <1>6, <2>1, <2>2 DEF BulkArchive, Careful, DebitStep, moneyVars
<1> QED
  BY <1>2, <1>3, <1>4, <1>5, <1>6
     DEF AdminRequest, UpdateOrderStatus, UpdatePaymentStatus, UpdateResultUrl, UpdateAdminNote

(* Paying, and moving money without an order, are careful.                 *)
LEMMA MoneyStepCareful ==
  ASSUME DebitInv, NEW r \in Requests, Served(r), MoneyStep(r)
  PROVE  Careful
<1>1. ASSUME NEW u \in Users, NEW a \in Amounts, AdjustUserCredit(r, u, a)
      PROVE  Careful
  <2>1. a \in Nat /\ balance[u] \in Nat /\ NoOrder \notin OrderIds
    BY OrderBillingAssumption, BalanceAssumption DEF DebitInv, TypeOK, MoneyTypeOK
  <2>2. DebitStep
    BY <1>1, <2>1, ApplyChangeIsDebitStep DEF AdjustUserCredit, Credit, Debit, Covers, DebitInv
  <2>3. RequestsKnown'
    BY <1>1, FinishKnown DEF AdjustUserCredit, DebitInv
  <2> QED
    BY <1>1, <2>2, <2>3 DEF AdjustUserCredit, Careful, DebitInv, OrdersKnown, Live
<1> QED
  BY <1>1, PayOrdersCareful DEF MoneyStep

(* startProcessing reloads the order and looks for its debit: a careful    *)
(* step, which remembers what it saw.                                      *)
LEMMA StartReloadCareful ==
  ASSUME DebitInv, NEW r \in Requests, Served(r), StartReload(r)
  PROVE  Careful
<1> DEFINE q == req[r]
           owes == orders[q.order].payment = "unpaid" /\ ~HasDebit(q.order)
           next == [pc |-> "start_debit", order |-> q.order, user |-> q.user,
                    row |-> orders[q.order], charge |-> owes]
<1>1. q.pc = "start_tx" /\ q.order \in issued /\ "start" \in setting.ops
  BY DEF StartReload, DebitInv, RequestsKnown, Starting, Charging
<1>2. UNCHANGED <<moneyVars, orders, issued>>
  BY DEF StartReload
<1>3. ASSUME Goto(r, next) PROVE RequestsKnown'
  <2>1. next.pc = "start_debit" /\ next.order = q.order /\ next.charge = owes
    OBVIOUS
  <2>2. (owes => ~HasDebit(q.order)) /\ \A o : HasDebit(o)' <=> HasDebit(o)
    BY <1>2 DEF moneyVars, HasDebit
  <2> HIDE DEF next, owes
  <2> QED
    BY <1>1, <1>2, <1>3, <2>1, <2>2, MoveTold DEF DebitInv
<1>4. ASSUME Finish(r) PROVE RequestsKnown'
  BY <1>2, <1>4, FinishKnown DEF DebitInv
<1>5. RequestsKnown'
  <2>1. Goto(r, next) \/ Finish(r)
    BY DEF StartReload
  <2> HIDE DEF next
  <2> QED
    BY <1>3, <1>4, <2>1
<1> QED
  BY <1>2, <1>5 DEF Careful, DebitStep, DebitInv, OrdersKnown, Live, moneyVars

(* It selects the row it saves: a careful step, which forgets nothing.     *)
LEMMA StartSaveCareful ==
  ASSUME DebitInv, NEW r \in Requests, Served(r), StartSave(r)
  PROVE  Careful
<1> DEFINE q == req[r]
<1>1. /\ q.order \in issued /\ "start" \in setting.ops
      /\ (Calm /\ q.charge) => ~HasDebit(q.order)
  BY DEF StartSave, DebitInv, RequestsKnown, Starting, Charging
<1>2. UNCHANGED <<moneyVars, orders, issued>>
  BY DEF StartSave
<1>3. PICK next : /\ Goto(r, next)
                  /\ next.pc \in {"done", "start_update"}
                  /\ next.pc = "start_update" => next.order = q.order /\ next.charge = q.charge
  <2>1. CASE Finish(r)
    BY <2>1 DEF Finish
  <2>2. ASSUME NEW row,
               Goto(r, [pc |-> "start_update", order |-> q.order, user |-> q.user, row |-> row,
                        seen |-> orders[q.order], charge |-> q.charge])
        PROVE  \E next : /\ Goto(r, next)
                         /\ next.pc \in {"done", "start_update"}
                         /\ next.pc = "start_update" =>
                              next.order = q.order /\ next.charge = q.charge
    BY <2>2
  <2> QED
    BY <2>1, <2>2 DEF StartSave
<1>4. \A o : HasDebit(o)' <=> HasDebit(o)
  BY <1>2 DEF moneyVars, HasDebit
<1>5. RequestsKnown'
  BY <1>1, <1>2, <1>3, <1>4, MoveTold DEF DebitInv, Starting, Charging, Holding
<1> QED
  BY <1>2, <1>5 DEF Careful, DebitStep, DebitInv, OrdersKnown, Live, moneyVars

(* startProcessing debits, where it is calm, only an order it saw without  *)
(* a debit.                                                                *)
LEMMA StartCommitCareful ==
  ASSUME DebitInv, NEW r \in Requests, Served(r), StartCommit(r)
  PROVE  Careful
<1> DEFINE q == req[r]
<1>1. /\ q.pc = "start_update" /\ q.order \in issued /\ issued' = issued
      /\ (Calm /\ q.charge) => ~HasDebit(q.order)
  BY DEF StartCommit, DebitInv, RequestsKnown, Starting, Charging
<1>2. q.order \in OrderIds /\ q.user \in Users /\ q.row.type \in OrderTypes
  BY RequestFields DEF DebitInv, TypeOK, StartCommit, Order
<1>3. DebitStep
  BY <1>1, <1>2, FreshDebitIsDebitStep DEF StartCommit, DebitInv, DebitStep, moneyVars
<1>4. OrdersKnown'
  <2>1. UpdateSelected(q) \/ UNCHANGED orders
    BY DEF StartCommit
  <2> QED
    BY <1>1, <2>1, UpdateWrites, WriteKnown DEF DebitInv
<1> QED
  BY <1>1, <1>3, <1>4, FinishKnown DEF StartCommit, Careful, DebitInv

(* The later steps of requests are careful.                                *)
LEMMA ContinueCareful ==
  ASSUME DebitInv, NEW r \in Requests, Served(r), Continue(r)
  PROVE  Careful
<1> DEFINE q == req[r]
<1> USE DEF Holding, Starting, Charging
<1>1. q.pc \in Holding => q.order \in issued /\ q.order \in OrderIds
  BY RequestFields DEF DebitInv, TypeOK, RequestsKnown
<1>3. CASE SaveEdit(r)
  BY <1>1, <1>3, ReadingIsCareful DEF SaveEdit, Finish
<1>4. CASE FailSaveNote(r)
  BY <1>1, <1>4, ReadingIsCareful DEF FailSaveNote, Finish
<1>5. CASE FailRead(r)
  BY <1>1, <1>5, ReadingIsCareful DEF FailRead, Finish
<1>6. CASE FailSave(r)
  BY <1>1, <1>6, ReadingIsCareful DEF FailSave
<1> QED
  BY <1>3, <1>4, <1>5, <1>6, ImportRowCareful, AutoPayCareful,
     StartReloadCareful, StartSaveCareful DEF Continue

(* So are the updates that end their saves.                                *)
LEMMA UpdateCareful ==
  ASSUME DebitInv, NEW r \in Requests, Served(r), Update(r)
  PROVE  Careful
<1> DEFINE q == req[r]
<1> USE DEF Holding, Starting, Charging
<1>1. q.pc \in Holding => q.order \in issued /\ q.order \in OrderIds
  BY RequestFields DEF DebitInv, TypeOK, RequestsKnown
<1>2. CASE UpdateEdit(r)
  BY <1>1, <1>2, UpdateWrites, SavingIsCareful DEF UpdateEdit, Finish
<1>3. CASE FailUpdateNote(r)
  BY <1>1, <1>3, UpdateWrites, SavingIsCareful DEF FailUpdateNote
<1>4. CASE FailUpdate(r)
  <2>1. \E row : orders' = [orders EXCEPT ![q.order] = row] \/ UNCHANGED orders
    BY <1>4, UpdateWrites DEF FailUpdate
  <2> QED
    BY <1>1, <1>4, <2>1, SavingIsCareful DEF FailUpdate, Finish
<1> QED
  BY <1>2, <1>3, <1>4, StartCommitCareful DEF Update

-----------------------------------------------------------------------------
\* The steps of one request.
Step(r) ==
  CustomerCreates(r) \/ MoneyStep(r) \/ AdminRequest(r) \/ Continue(r) \/ Update(r)

(* Each step is one of a request that is admitted, or already in flight,   *)
(* and moves no other.                                                     *)
LEMMA OneMoves ==
  ASSUME TypeOK, NEW r \in Requests,
         Step(r)
  PROVE  /\ r \in InFlight \/ Cardinality(InFlight) < setting.overlap
         /\ \A x \in Requests \ {r} : req'[x] = req[x]
<1>1. ASSUME NEW q, Goto(r, q)
      PROVE  \A x \in Requests \ {r} : req'[x] = req[x]
  BY <1>1 DEF Goto, TypeOK
<1>2. ASSUME Finish(r)
      PROVE  \A x \in Requests \ {r} : req'[x] = req[x]
  BY <1>1, <1>2 DEF Finish
<1>3. CASE CustomerCreates(r)
  BY <1>1, <1>2, <1>3
     DEF CustomerCreates, CreateScanLabelOrder, CreateOrderFromLabel, CreateDesignOrder,
         ImportTrackingBulk, Admit
<1>4. CASE MoneyStep(r)
  BY <1>1, <1>2, <1>4 DEF MoneyStep, PayOrders, AdjustUserCredit, Admit
<1>5. CASE AdminRequest(r)
  BY ZenonT(60), <1>1, <1>2, <1>5
     DEF AdminRequest, StartRead, UpdateOrderStatus, UpdatePaymentStatus, UpdateResultUrl,
         UpdateAdminNote, HoldForSave, BulkMarkFailed, DeleteOrder, BulkArchive, Admit
<1>6. CASE Continue(r)
  <2>1. r \in InFlight
    BY <1>6 DEF Continue, InFlight, ImportRow, AutoPayOrderIfPossible, StartReload,
                StartSave, SaveEdit, FailSaveNote, FailRead, FailSave
  <2>2. (\E q : Goto(r, q)) \/ Finish(r)
    BY <1>6 DEF Continue, ImportRow, AutoPayOrderIfPossible, StartReload,
                StartSave, SaveEdit, FailSaveNote, FailRead, FailSave
  <2> QED
    BY <1>1, <1>2, <2>1, <2>2
<1>7. CASE Update(r)
  BY <1>1, <1>2, <1>7 DEF Update, InFlight, StartCommit, UpdateEdit, FailUpdateNote, FailUpdate
<1> QED
  BY <1>3, <1>4, <1>5, <1>6, <1>7 DEF Step

(* So where requests do not overlap, a request is served alone.            *)
LEMMA ServedAlone ==
  ASSUME TypeOK, Alone, NEW r \in Requests, UNCHANGED setting,
         Step(r)
  PROVE  Served(r) /\ Alone'
<1>1. setting.overlap \in Nat
  BY OrderBillingAssumption DEF TypeOK
<1>2. ASSUME setting.overlap <= 1
      PROVE  InFlight \subseteq {r}
  <2>1. CASE r \in InFlight
    BY <1>2, <2>1 DEF Alone
  <2>2. CASE Cardinality(InFlight) < setting.overlap
    <3>1. IsFiniteSet(InFlight)
      <4>1. CASE InFlight = {}
        BY <4>1, FS_EmptySet
      <4>2. CASE InFlight # {}
        <5>1. PICK x \in InFlight : InFlight = {x}
          BY <1>2, <4>2 DEF Alone
        <5> QED
          BY <5>1, FS_Singleton
      <4> QED
        BY <4>1, <4>2
    <3>2. Cardinality(InFlight) = 0
      BY <1>1, <1>2, <2>2, <3>1, FS_CardinalityType
    <3> QED
      BY <3>1, <3>2, FS_EmptySet
  <2> QED
    BY <2>1, <2>2, OneMoves
<1>3. Served(r)
  BY <1>2 DEF Served
<1>4. Alone'
  <2>1. ASSUME setting.overlap <= 1, NEW x \in InFlight'
        PROVE  x = r
    BY <1>2, <2>1, OneMoves DEF InFlight
  <2> QED
    BY <2>1 DEF Alone
<1> QED
  BY <1>3, <1>4

(* Every step is careful.                                                  *)
LEMMA NextCareful == DebitInv /\ [Next]_vars => DebitInv'
<1> SUFFICES ASSUME DebitInv, [Next]_vars PROVE DebitInv'
  OBVIOUS
<1>1. UNCHANGED setting /\ (Calm' <=> Calm)
  BY DEF Next, vars, Calm
<1>2. Careful /\ Alone'
  <2>1. CASE UNCHANGED vars
    BY <2>1 DEF vars, Careful, DebitStep, DebitInv, OrdersKnown, Live, RequestsKnown,
                Alone, InFlight, Calm, HasDebit
  <2>2. ASSUME NEW r \in Requests,
               Step(r)
        PROVE  Careful /\ Alone'
    <3>1. Served(r) /\ Alone'
      BY <1>1, <2>2, ServedAlone DEF DebitInv
    <3> QED
      BY <2>2, <3>1, CustomerCreatesCareful, MoneyStepCareful, AdminRequestCareful,
         ContinueCareful, UpdateCareful DEF Step
  <2> QED
    BY <2>1, <2>2 DEF Next, Step
<1>3. TypeOK'
  BY NextSound DEF DebitInv
<1>4. LinksKnown' /\ (Calm => NoTwoDebits')
  BY <1>2, DebitStepKeeps DEF DebitInv, TypeOK, Careful
<1> QED
  BY <1>1, <1>2, <1>3, <1>4 DEF Careful, DebitInv

(* The empty table has nothing that was debited.                           *)
LEMMA InitCareful == Init => DebitInv
<1> SUFFICES ASSUME Init PROVE DebitInv
  OBVIOUS
<1>1. TypeOK
  BY InitTyped
<1>2. OrdersKnown /\ RequestsKnown /\ Alone
  BY DEF Init, OrdersKnown, Live, RequestsKnown, Holding, Starting, Charging, Alone,
            InFlight
<1>3. \A u \in Users : \A i \in DOMAIN ledger[u] : ledger[u][i].order = NoOrder
  BY BalanceAssumption DEF Init, MoneyInit, RowOf
<1>4. LinksKnown /\ NoTwoDebits
  BY <1>3, BalanceAssumption DEF LinksKnown, NoTwoDebits
<1> QED
  BY <1>1, <1>2, <1>4 DEF DebitInv

(***************************************************************************)
(* An order is never debited twice, however many pay, import and label     *)
(* requests overlap, with stale saves, failures and deletes among them,    *)
(* unless startProcessing, which looks for a debit without the lock of the *)
(* order (orders.service.ts:438-463), overlaps with another request.       *)
(***************************************************************************)
THEOREM NoDoubleDebit == Spec => []DebitedOnce
<1>1. DebitInv => DebitedOnce
  BY AtMostOneDebitAlt DEF DebitInv, DebitedOnce, Calm
<1> QED
  BY <1>1, InitCareful, NextCareful, PTL DEF Spec

-----------------------------------------------------------------------------
(* Paid exactly when charged                                               *)

Editless == setting.ops \subseteq NoEdits

\* Where a request can stand when nobody edits, fails or deletes.
EditlessStates ==
  {"idle", "done", "import", "imported", "autopay"} \cup Starting

\* The payment and status columns agree with whether a debit exists.
Settled(row, debited) ==
  /\ row.payment = "paid" <=> debited
  /\ row.status = "processing" => row.payment = "paid"

\* Whatever startProcessing does not mean to charge was charged before.
RequestsPaid ==
  \A x \in Requests :
     /\ req[x].pc \in EditlessStates
     /\ (req[x].pc \in Charging /\ ~req[x].charge) => HasDebit(req[x].order)
     /\ req[x].pc = "start_update" =>
          /\ req[x].row.payment = "paid"
          /\ req[x].seen.payment = "paid" => HasDebit(req[x].order)

PaidInv == DebitInv /\ (Editless => RequestsPaid /\ PaidIffCharged)

\* What a step keeps, where nobody edits: debits are never taken back.
PaidKept ==
  /\ \A p \in OrderIds : HasDebit(p) => HasDebit(p)'
  /\ \A p \in OrderIds : orders'[p] # NoRow => Settled(orders'[p], HasDebit(p)')
  /\ RequestsPaid'

(* PaidIffCharged is that every row of the table is settled.               *)
LEMMA PaidIffChargedAlt ==
  ASSUME TypeOK
  PROVE  PaidIffCharged <=> \A p \in OrderIds : orders[p] # NoRow => Settled(orders[p], HasDebit(p))
  BY DEF PaidIffCharged, Settled, Live

(* After a transaction the debits are the earlier ones and those of its    *)
(* rows (the existingTx the handlers look up, orders.service.ts:449-455).  *)
LEMMA PostedDebits ==
  ASSUME MoneyTypeOK, NEW u \in Users, NEW rows \in Seq(LedgerRow), PostRows(u, rows),
         NEW p \in OrderIds
  PROVE  HasDebit(p)' <=>
           HasDebit(p) \/ \E k \in 1 .. Len(rows) : rows[k].order = p /\ rows[k].amount < 0
<1>1. ASSUME HasDebit(p)'
      PROVE  HasDebit(p) \/ \E k \in 1 .. Len(rows) : rows[k].order = p /\ rows[k].amount < 0
  <2>1. PICK v \in Users : \E i \in DOMAIN ledger'[v] :
          ledger'[v][i].order = p /\ ledger'[v][i].amount < 0
    BY <1>1 DEF HasDebit
  <2>2. PICK i \in DOMAIN ledger'[v] : ledger'[v][i].order = p /\ ledger'[v][i].amount < 0
    BY <2>1
  <2> QED
    BY <2>2, PostEntries DEF HasDebit
<1>2. /\ ledger[u] \in Seq(LedgerRow) /\ ledger'[u] = ledger[u] \o rows
      /\ \A v \in Users : v # u => ledger'[v] = ledger[v]
  BY DEF PostRows, MoneyTypeOK
<1>3. ASSUME HasDebit(p)
      PROVE  HasDebit(p)'
  <2>1. PICK v \in Users : \E i \in DOMAIN ledger[v] :
          ledger[v][i].order = p /\ ledger[v][i].amount < 0
    BY <1>3 DEF HasDebit
  <2>2. PICK i \in DOMAIN ledger[v] : ledger[v][i].order = p /\ ledger[v][i].amount < 0
    BY <2>1
  <2>3. i \in DOMAIN ledger'[v] /\ ledger'[v][i] = ledger[v][i]
    <3>1. CASE v = u
      <4> DEFINE old == ledger[u]
      <4>1. i \in 1 .. Len(old) /\ old \in Seq(LedgerRow) /\ ledger'[u] = old \o rows
        BY <1>2, <2>2, <3>1
      <4> HIDE DEF old
      <4>2. i \in DOMAIN (old \o rows) /\ (old \o rows)[i] = old[i]
        BY <4>1
      <4> QED
        BY <3>1, <4>1, <4>2 DEF old
    <3>2. CASE v # u
      BY <1>2, <2>2, <3>2
    <3> QED
      BY <3>1, <3>2
  <2> QED
    BY <2>2, <2>3 DEF HasDebit
<1>4. ASSUME NEW k \in 1 .. Len(rows), rows[k].order = p, rows[k].amount < 0
      PROVE  HasDebit(p)'
  <2> DEFINE i == Len(ledger[u]) + k
  <2>1. i \in DOMAIN ledger'[u] /\ ledger'[u][i] = rows[k]
    BY <1>2
  <2> QED
    BY <1>4, <2>1 DEF HasDebit
<1> QED
  BY <1>1, <1>3, <1>4

(* A transaction of one row.                                               *)
LEMMA PostedDebit ==
  ASSUME MoneyTypeOK, NEW u \in Users, NEW row \in LedgerRow, PostRows(u, <<row>>),
         NEW p \in OrderIds
  PROVE  HasDebit(p)' <=> HasDebit(p) \/ (row.order = p /\ row.amount < 0)
<1> DEFINE rows == <<row>>
<1>1. rows \in Seq(LedgerRow) /\ 1 .. Len(rows) = {1} /\ rows[1] = row
  OBVIOUS
<1>2. PostRows(u, rows)
  OBVIOUS
<1> HIDE DEF rows
<1>3. HasDebit(p)' <=> HasDebit(p) \/ \E k \in 1 .. Len(rows) : rows[k].order = p /\ rows[k].amount < 0
  BY <1>1, <1>2, PostedDebits
<1> QED
  BY <1>1, <1>3

(* A debit at an order's price marks that order and no other.              *)
LEMMA DebitMarks ==
  ASSUME TypeOK, NEW u \in Users, NEW o \in OrderIds, NEW t \in OrderTypes,
         Debit(u, Price[t], o), NEW p \in OrderIds
  PROVE  HasDebit(p)' <=> HasDebit(p) \/ p = o
<1> DEFINE row == RowOf(o, 0 - Price[t], balance[u] - Price[t])
<1>1. Price[t] \in Nat \ {0} /\ balance[u] \in Nat /\ balance[u] >= Price[t] /\ o \in References
  BY OrderBillingAssumption, BalanceAssumption DEF TypeOK, MoneyTypeOK, Debit, Covers
<1>2. row \in LedgerRow /\ row.order = o /\ row.amount < 0
  BY <1>1 DEF RowOf, LedgerRow
<1>3. balance[u] + (0 - Price[t]) = balance[u] - Price[t]
  BY <1>1
<1>4. PostRows(u, <<row>>)
  BY <1>3 DEF Debit, ApplyChange
<1> HIDE DEF row
<1> QED
  BY <1>2, <1>4, PostedDebit DEF TypeOK

(* A change of the balance for no order marks none.                        *)
LEMMA AdjustMarks ==
  ASSUME TypeOK, NEW u \in Users, NEW a \in Amounts,
         Credit(u, a, NoOrder) \/ Debit(u, a, NoOrder), NEW p \in OrderIds
  PROVE  HasDebit(p)' <=> HasDebit(p)
<1>1. a \in Nat /\ balance[u] \in Nat /\ NoOrder \notin OrderIds /\ p # NoOrder
  BY OrderBillingAssumption, BalanceAssumption DEF TypeOK, MoneyTypeOK
<1>2. PICK d \in Int : balance[u] + d >= 0 /\ ApplyChange(u, d, NoOrder)
  BY <1>1 DEF Credit, Debit, Covers
<1> DEFINE row == RowOf(NoOrder, d, balance[u] + d)
<1>3. row \in LedgerRow /\ row.order = NoOrder
  BY <1>1, <1>2 DEF RowOf, LedgerRow
<1>4. PostRows(u, <<row>>)
  BY <1>2 DEF ApplyChange
<1> HIDE DEF row
<1> QED
  BY <1>1, <1>3, <1>4, PostedDebit DEF TypeOK

(* Money left alone marks none.                                            *)
LEMMA NothingMarked ==
  ASSUME UNCHANGED moneyVars, NEW p
  PROVE  HasDebit(p)' <=> HasDebit(p)
  BY DEF HasDebit, moneyVars

(* One row written settled, and no other order marked, keeps the rest      *)
(* settled.                                                                *)
LEMMA WriteSettled ==
  ASSUME TypeOK, PaidIffCharged, NEW o \in OrderIds, NEW row,
         orders' = [orders EXCEPT ![o] = row],
         \A p \in OrderIds \ {o} : HasDebit(p)' <=> HasDebit(p),
         Settled(row, HasDebit(o)'), NEW p \in OrderIds, orders'[p] # NoRow
  PROVE  Settled(orders'[p], HasDebit(p)')
<1>1. CASE p = o
  BY <1>1 DEF TypeOK
<1>2. CASE p # o
  <2>1. orders'[p] = orders[p] /\ (HasDebit(p)' <=> HasDebit(p))
    BY <1>2 DEF TypeOK
  <2>2. Settled(orders[p], HasDebit(p))
    BY <2>1, PaidIffChargedAlt
  <2> QED
    BY <2>1, <2>2 DEF Settled
<1> QED
  BY <1>1, <1>2

(* No row written, and no order marked, keeps every row settled.           *)
LEMMA LeaveSettled ==
  ASSUME TypeOK, PaidIffCharged, UNCHANGED orders,
         \A p \in OrderIds : HasDebit(p)' <=> HasDebit(p)
  PROVE  /\ \A p \in OrderIds : HasDebit(p) => HasDebit(p)'
         /\ \A p \in OrderIds : orders'[p] # NoRow => Settled(orders'[p], HasDebit(p)')
  BY PaidIffChargedAlt DEF Settled

(* A request that moves on to a step an edit would not take.               *)
LEMMA MovePaid ==
  ASSUME TypeOK, RequestsPaid, NEW r \in Requests, NEW q, Goto(r, q),
         \A p \in OrderIds : HasDebit(p) => HasDebit(p)',
         q.pc \in EditlessStates,
         (q.pc \in Charging /\ ~q.charge) => HasDebit(q.order)',
         q.pc = "start_update" =>
           q.row.payment = "paid" /\ (q.seen.payment = "paid" => HasDebit(q.order)')
  PROVE  RequestsPaid'
<1>1. req'[r] = q /\ \A x \in Requests \ {r} : req'[x] = req[x]
  BY DEF TypeOK, Goto
<1>2. \A x \in Requests : req[x].pc \in Charging => req[x].order \in OrderIds
  BY RequestFields DEF TypeOK, Charging
<1> QED
  BY <1>1, <1>2 DEF RequestsPaid, Charging

(* A request that ends.                                                    *)
LEMMA FinishPaid ==
  ASSUME TypeOK, RequestsPaid, NEW r \in Requests, Finish(r),
         \A p \in OrderIds : HasDebit(p) => HasDebit(p)'
  PROVE  RequestsPaid'
  BY MovePaid DEF Finish, EditlessStates, Charging

(* An order inserted paid was debited, one inserted unpaid was not.        *)
LEMMA InsertSettled ==
  ASSUME PaidInv, Editless, NEW u \in Users, NEW o \in OrderIds, NEW row,
         Insert(o, row), NEW t \in OrderTypes,
         \/ Debit(u, Price[t], o) /\ row.payment = "paid"
         \/ UNCHANGED moneyVars /\ row.payment = "unpaid" /\ row.status = "pending"
  PROVE  /\ \A p \in OrderIds : HasDebit(p) => HasDebit(p)'
         /\ \A p \in OrderIds : orders'[p] # NoRow => Settled(orders'[p], HasDebit(p)')
<1>1. TypeOK /\ PaidIffCharged /\ orders' = [orders EXCEPT ![o] = row] /\ ~HasDebit(o)
  BY NewOrderHasNoDebit DEF PaidInv, DebitInv, Insert
<1>2. CASE Debit(u, Price[t], o) /\ row.payment = "paid"
  <2>1. \A p \in OrderIds : HasDebit(p)' <=> HasDebit(p) \/ p = o
    BY <1>1, <1>2, DebitMarks
  <2>2. Settled(row, HasDebit(o)')
    BY <1>2, <2>1 DEF Settled
  <2> QED
    BY <1>1, <2>1, <2>2, WriteSettled
<1>3. CASE UNCHANGED moneyVars /\ row.payment = "unpaid" /\ row.status = "pending"
  <2>1. \A p \in OrderIds : HasDebit(p)' <=> HasDebit(p)
    BY <1>3, NothingMarked
  <2>2. Settled(row, HasDebit(o)')
    BY <1>1, <1>3, <2>1 DEF Settled
  <2> QED
    BY <1>1, <2>1, <2>2, WriteSettled
<1> QED
  BY <1>2, <1>3

(* insertScanOrder leaves what it inserts settled.                         *)
LEMMA InsertScanOrderPaid ==
  ASSUME PaidInv, Editless, NEW u \in Users, NEW o \in OrderIds, NEW c \in Codes,
         NEW skip \in BOOLEAN, InsertScanOrder(u, o, c, skip)
  PROVE  /\ \A p \in OrderIds : HasDebit(p) => HasDebit(p)'
         /\ \A p \in OrderIds : orders'[p] # NoRow => Settled(orders'[p], HasDebit(p)')
<1> DEFINE paid == NewOrder(u, "active_tracking", c, "processing", "paid")
           unpaid == NewOrder(u, "active_tracking", c, "pending", "unpaid")
<1>1. /\ paid.payment = "paid" /\ unpaid.payment = "unpaid" /\ unpaid.status = "pending"
      /\ "active_tracking" \in OrderTypes
  BY DEF NewOrder, OrderTypes
<1>2. \/ Debit(u, Price["active_tracking"], o) /\ Insert(o, paid)
      \/ UNCHANGED moneyVars /\ Insert(o, unpaid)
  BY DEF InsertScanOrder
<1> HIDE DEF paid, unpaid
<1> QED
  BY <1>1, <1>2, InsertSettled

(* Orders are created settled, those of a label before their payment.      *)
LEMMA CustomerCreatesPaid ==
  ASSUME PaidInv, Editless, NEW r \in Requests, CustomerCreates(r)
  PROVE  PaidKept
<1> USE DEF EditlessStates, Starting, Charging
<1>1. TypeOK /\ RequestsPaid /\ PaidIffCharged
  BY DEF PaidInv, DebitInv
<1>2. ASSUME NEW u \in Users, NEW o \in OrderIds, NEW c \in Codes,
             CreateScanLabelOrder(r, u, o, c)
      PROVE  PaidKept
  BY <1>1, <1>2, InsertScanOrderPaid, FinishPaid DEF CreateScanLabelOrder, PaidKept
<1>3. ASSUME NEW u \in Users, NEW o \in OrderIds, NEW c \in Codes,
             NEW type \in OrderTypes, CreateOrderFromLabel(r, u, o, type, c)
      PROVE  PaidKept
  <2> DEFINE row == NewOrder(u, type, c, "pending", "unpaid")
  <2>1. row.payment = "unpaid" /\ row.status = "pending"
    BY DEF NewOrder
  <2>2. Insert(o, row) /\ UNCHANGED moneyVars
    BY <1>3 DEF CreateOrderFromLabel
  <2> HIDE DEF row
  <2>3. /\ \A p \in OrderIds : HasDebit(p) => HasDebit(p)'
        /\ \A p \in OrderIds : orders'[p] # NoRow => Settled(orders'[p], HasDebit(p)')
    BY <2>1, <2>2, InsertSettled
  <2>4. RequestsPaid'
    BY <1>1, <1>3, <2>3, MovePaid DEF CreateOrderFromLabel
  <2> QED
    BY <2>3, <2>4 DEF PaidKept
<1>4. ASSUME NEW u \in Users, NEW o \in OrderIds, CreateDesignOrder(r, u, o)
      PROVE  PaidKept
  <2> DEFINE paid == NewOrder(u, "design", NoCode, "pending", "paid")
             unpaid == NewOrder(u, "design", NoCode, "pending", "unpaid")
  <2>1. /\ paid.payment = "paid" /\ unpaid.payment = "unpaid" /\ unpaid.status = "pending"
        /\ "design" \in OrderTypes
    BY DEF NewOrder, OrderTypes
  <2>2. \/ Debit(u, Price["design"], o) /\ Insert(o, paid)
        \/ UNCHANGED moneyVars /\ Insert(o, unpaid)
    BY <1>4 DEF CreateDesignOrder
  <2> HIDE DEF paid, unpaid
  <2>3. /\ \A p \in OrderIds : HasDebit(p) => HasDebit(p)'
        /\ \A p \in OrderIds : orders'[p] # NoRow => Settled(orders'[p], HasDebit(p)')
    BY <2>1, <2>2, InsertSettled
  <2> QED
    BY <1>1, <1>4, <2>3, FinishPaid DEF CreateDesignOrder, PaidKept
<1>5. ASSUME NEW u \in Users, NEW codes \in SUBSET Codes, ImportTrackingBulk(r, u, codes)
      PROVE  PaidKept
  <2>1. UNCHANGED <<moneyVars, orders>>
    BY <1>5 DEF ImportTrackingBulk
  <2>2. /\ \A p \in OrderIds : HasDebit(p) => HasDebit(p)'
        /\ \A p \in OrderIds : orders'[p] # NoRow => Settled(orders'[p], HasDebit(p)')
    BY <1>1, <2>1, NothingMarked, LeaveSettled
  <2> QED
    BY <1>1, <1>5, <2>2, MovePaid DEF ImportTrackingBulk, PaidKept
<1> QED
  BY <1>2, <1>3, <1>4, <1>5 DEF CustomerCreates

(* Each imported row is settled.                                           *)
LEMMA ImportRowPaid ==
  ASSUME PaidInv, Editless, NEW r \in Requests, NEW o \in OrderIds, NEW c \in Codes,
         ImportRow(r, o, c)
  PROVE  PaidKept
<1>1. req[r].user \in Users /\ req[r].exhausted \in BOOLEAN
  BY RequestFields DEF PaidInv, DebitInv, TypeOK, ImportRow
<1>2. /\ \A p \in OrderIds : HasDebit(p) => HasDebit(p)'
      /\ \A p \in OrderIds : orders'[p] # NoRow => Settled(orders'[p], HasDebit(p)')
  BY <1>1, InsertScanOrderPaid DEF ImportRow
<1>3. PICK pc \in {"imported", "import"} : \E u, t, e, rs :
        Goto(r, [pc |-> pc, user |-> u, todo |-> t, exhausted |-> e, results |-> rs])
  BY DEF ImportRow
<1>4. RequestsPaid'
  BY <1>2, <1>3, MovePaid DEF PaidInv, DebitInv, EditlessStates, Charging
<1> QED
  BY <1>2, <1>4 DEF PaidKept

(* The automatic payment marks the order paid with the debit it makes.     *)
LEMMA AutoPayPaid ==
  ASSUME PaidInv, Editless, NEW r \in Requests, AutoPayOrderIfPossible(r)
  PROVE  PaidKept
<1> DEFINE o == req[r].order
           row == [orders[o] EXCEPT !.payment = "paid"]
<1>1. TypeOK /\ RequestsPaid /\ PaidIffCharged
  BY DEF PaidInv, DebitInv
<1>2. o \in OrderIds /\ req[r].user \in Users
  BY <1>1, RequestFields DEF TypeOK, AutoPayOrderIfPossible
<1>3. /\ \A p \in OrderIds : HasDebit(p) => HasDebit(p)'
      /\ \A p \in OrderIds : orders'[p] # NoRow => Settled(orders'[p], HasDebit(p)')
  <2>1. CASE UNCHANGED <<moneyVars, orders>>
    BY <1>1, <2>1, NothingMarked, LeaveSettled
  <2>2. CASE /\ o \in Live /\ orders' = [orders EXCEPT ![o].payment = "paid"]
             /\ \/ HasDebit(o) /\ UNCHANGED moneyVars
                \/ Debit(req[r].user, Price[orders[o].type], o)
    <3>1. orders[o] \in Order /\ orders' = [orders EXCEPT ![o] = row]
      BY <1>1, <2>2, LiveIsOrder
    <3>2. row.payment = "paid" /\ orders[o].type \in OrderTypes
      BY <3>1 DEF Order
    <3>3. \A p \in OrderIds : HasDebit(p)' <=> HasDebit(p) \/ p = o
      <4>1. CASE HasDebit(o) /\ UNCHANGED moneyVars
        BY <4>1, NothingMarked
      <4>2. CASE Debit(req[r].user, Price[orders[o].type], o)
        BY <1>1, <1>2, <3>2, <4>2, DebitMarks
      <4> QED
        BY <2>2, <4>1, <4>2
    <3> HIDE DEF o, row
    <3>4. \A p \in OrderIds : p = o => Settled(row, HasDebit(p)')
      BY <3>2, <3>3 DEF Settled
    <3>5. ASSUME NEW p \in OrderIds, orders'[p] # NoRow
          PROVE  Settled(orders'[p], HasDebit(p)')
      <4>1. CASE p = o
        BY <1>1, <1>2, <3>1, <3>4, <4>1 DEF TypeOK
      <4>2. CASE p # o
        <5>1. orders'[p] = orders[p] /\ (HasDebit(p)' <=> HasDebit(p))
          BY <1>1, <3>1, <3>3, <4>2 DEF TypeOK
        <5> QED
          BY <1>1, <3>5, <5>1, PaidIffChargedAlt DEF Settled
      <4> QED
        BY <4>1, <4>2
    <3> QED
      BY <3>3, <3>5
  <2> QED
    BY <2>1, <2>2 DEF AutoPayOrderIfPossible
<1> QED
  BY <1>1, <1>3, FinishPaid DEF AutoPayOrderIfPossible, PaidKept

(* startProcessing saves the order paid: it debited it, or it saw the      *)
(* debit, or the payment that a debit backs, before.                       *)
LEMMA StartPaid ==
  ASSUME PaidInv, Editless, NEW r \in Requests
  PROVE  /\ \A o \in OrderIds : StartRead(r, o) => PaidKept
         /\ StartReload(r) => PaidKept
         /\ StartSave(r) => PaidKept
         /\ StartCommit(r) => PaidKept
<1> USE DEF EditlessStates, Starting, Charging
<1> DEFINE q == req[r]
<1>1. TypeOK /\ RequestsPaid /\ PaidIffCharged
  BY DEF PaidInv, DebitInv
<1>2. ASSUME UNCHANGED <<moneyVars, orders>>
      PROVE  /\ \A p \in OrderIds : HasDebit(p) => HasDebit(p)'
             /\ \A p \in OrderIds : orders'[p] # NoRow => Settled(orders'[p], HasDebit(p)')
  BY <1>1, <1>2, NothingMarked, LeaveSettled
<1>3. ASSUME NEW o \in OrderIds, StartRead(r, o)
      PROVE  PaidKept
  BY <1>1, <1>2, <1>3, MovePaid DEF StartRead, PaidKept
<1>4. ASSUME StartReload(r)
      PROVE  PaidKept
  <2> DEFINE owes == orders[q.order].payment = "unpaid" /\ ~HasDebit(q.order)
             next == [pc |-> "start_debit", order |-> q.order, user |-> q.user,
                      row |-> orders[q.order], charge |-> owes]
  <2>1. UNCHANGED <<moneyVars, orders>>
    BY <1>4 DEF StartReload
  <2>2. q.order \in OrderIds
    BY <1>1, <1>4, RequestFields DEF TypeOK, StartReload
  <2>3. ASSUME q.order \in Live, Goto(r, next)
        PROVE  RequestsPaid'
    <3>1. next.pc = "start_debit" /\ next.order = q.order /\ next.charge = owes
      OBVIOUS
    <3>2. ~owes => HasDebit(q.order)
      <4>1. orders[q.order].payment \in PaymentStatuses
        BY <1>1, <2>3, LiveIsOrder DEF Order
      <4> QED
        BY <1>1, <2>3, <4>1 DEF PaidIffCharged, PaymentStatuses
    <3>3. \A p \in OrderIds : HasDebit(p) => HasDebit(p)'
      BY <1>2, <2>1
    <3> HIDE DEF next, owes
    <3> QED
      BY <1>1, <2>2, <2>3, <3>1, <3>2, <3>3, MovePaid
  <2>4. ASSUME Finish(r)
        PROVE  RequestsPaid'
    BY <1>1, <1>2, <2>1, <2>4, FinishPaid
  <2>5. RequestsPaid'
    <3>1. (q.order \in Live /\ Goto(r, next)) \/ Finish(r)
      BY <1>4 DEF StartReload
    <3> HIDE DEF next
    <3> QED
      BY <2>3, <2>4, <3>1
  <2> QED
    BY <1>2, <2>1, <2>5 DEF PaidKept
<1>5. ASSUME StartSave(r)
      PROVE  PaidKept
  <2> DEFINE row == EnforceDesignRules([q.row EXCEPT !.payment = "paid", !.status = "processing"])
             next == [pc |-> "start_update", order |-> q.order, user |-> q.user, row |-> row,
                      seen |-> orders[q.order], charge |-> q.charge]
  <2>1. UNCHANGED <<moneyVars, orders>>
    BY <1>5 DEF StartSave
  <2>2. q.order \in OrderIds /\ q.row \in Order
    BY <1>1, <1>5, RequestFields DEF TypeOK, StartSave
  <2>3. row.payment = "paid"
    BY <2>2 DEF Order, EnforceDesignRules
  <2>4. ASSUME q.order \in Live, Goto(r, next)
        PROVE  RequestsPaid'
    <3>1. /\ next.pc = "start_update" /\ next.order = q.order /\ next.charge = q.charge
          /\ next.row = row /\ next.seen = orders[q.order]
      OBVIOUS
    <3>2. orders[q.order].payment = "paid" => HasDebit(q.order)
      BY <1>1, <2>4 DEF PaidIffCharged
    <3>3. ~q.charge => HasDebit(q.order)
      BY <1>1, <1>5 DEF StartSave, RequestsPaid
    <3>4. \A p \in OrderIds : HasDebit(p) => HasDebit(p)'
      BY <1>2, <2>1
    <3> HIDE DEF next, row
    <3> QED
      BY <1>1, <2>2, <2>3, <2>4, <3>1, <3>2, <3>3, <3>4, MovePaid
  <2>5. ASSUME Finish(r)
        PROVE  RequestsPaid'
    BY <1>1, <1>2, <2>1, <2>5, FinishPaid
  <2>6. RequestsPaid'
    <3>1. (q.order \in Live /\ Goto(r, next)) \/ Finish(r)
      BY <1>5 DEF StartSave
    <3> HIDE DEF next
    <3> QED
      BY <2>4, <2>5, <3>1
  <2> QED
    BY <1>2, <2>1, <2>6 DEF PaidKept
<1>6. ASSUME StartCommit(r)
      PROVE  PaidKept
  <2> DEFINE o == q.order
             row == Patched(orders[o], q.row, q.seen)
  <2>1. /\ o \in OrderIds /\ q.user \in Users /\ q.row \in Order /\ q.charge \in BOOLEAN
        /\ q.row.type \in OrderTypes
    BY <1>1, <1>6, RequestFields DEF TypeOK, StartCommit, Order
  <2>2. /\ ~q.charge => HasDebit(o)
        /\ q.row.payment = "paid" /\ (q.seen.payment = "paid" => HasDebit(o))
    BY <1>1, <1>6 DEF StartCommit, RequestsPaid
  <2>3. o \in Live => row.payment = "paid"
    <3>1. ASSUME o \in Live, q.seen.payment = "paid"
          PROVE  orders[o].payment = "paid"
      BY <1>1, <2>2, <3>1 DEF PaidIffCharged
    <3>2. o \in Live => orders[o] \in Order
      BY <1>1, LiveIsOrder
    <3> QED
      BY <2>1, <2>2, <3>1, <3>2, PatchedTyped
  <2>4. /\ \A p \in OrderIds : HasDebit(p) => HasDebit(p)'
        /\ \A p \in OrderIds : orders'[p] # NoRow => Settled(orders'[p], HasDebit(p)')
    <3>1. CASE UNCHANGED <<moneyVars, orders>>
      BY <1>2, <3>1
    <3>2. CASE /\ UpdateSelected(q)
               /\ \/ q.charge /\ Debit(q.user, Price[q.row.type], o)
                  \/ ~q.charge /\ UNCHANGED moneyVars
      <4>1. \A p \in OrderIds : HasDebit(p)' <=> HasDebit(p) \/ p = o
        <5>1. CASE q.charge /\ Debit(q.user, Price[q.row.type], o)
          BY <1>1, <2>1, <5>1, DebitMarks
        <5>2. CASE ~q.charge /\ UNCHANGED moneyVars
          BY <2>2, <5>2, NothingMarked
        <5> QED
          BY <3>2, <5>1, <5>2
      <4>2. IF o \in Live THEN orders' = [orders EXCEPT ![o] = row] ELSE orders' = orders
        BY <3>2 DEF UpdateSelected
      <4> HIDE DEF o, row
      <4>3. ASSUME NEW p \in OrderIds, orders'[p] # NoRow
            PROVE  Settled(orders'[p], HasDebit(p)')
        <5>1. CASE p = o
          BY <1>1, <2>1, <2>3, <4>1, <4>2, <4>3, <5>1 DEF TypeOK, Settled, Live
        <5>2. CASE p # o
          <6>1. orders'[p] = orders[p] /\ (HasDebit(p)' <=> HasDebit(p))
            BY <1>1, <4>1, <4>2, <5>2 DEF TypeOK
          <6> QED
            BY <1>1, <4>3, <6>1, PaidIffChargedAlt DEF Settled
        <5> QED
          BY <5>1, <5>2
      <4> QED
        BY <4>1, <4>3
    <3> QED
      BY <1>6, <3>1, <3>2 DEF StartCommit
  <2> QED
    BY <1>1, <1>6, <2>4, FinishPaid DEF StartCommit, PaidKept
<1> QED
  BY <1>3, <1>4, <1>5, <1>6

(* An increasing enumeration reaches every position.                       *)
LEMMA EnumerationCovers ==
  ASSUME NEW S \in SUBSET Int, IsFiniteSet(S), NEW at \in Enumerations(S)
  PROVE  /\ Cardinality(S) \in Nat
         /\ at \in [1 .. Cardinality(S) -> S]
         /\ \A i, j \in 1 .. Cardinality(S) : i < j => at[i] < at[j]
         /\ \A s \in S : \E k \in 1 .. Cardinality(S) : at[k] = s
<1> DEFINE c == Cardinality(S)
<1>1. c \in Nat
  BY FS_CardinalityType
<1>2. at \in [1 .. c -> S] /\ \A i, j \in 1 .. c : i < j => at[i] < at[j]
  BY DEF Enumerations
<1> HIDE DEF c
<1>3. ASSUME NEW i \in 1 .. c, NEW j \in 1 .. c, at[i] = at[j]
      PROVE  i = j
  <2>1. at[i] \in S /\ S \subseteq Int
    BY <1>2
  <2>2. at[i] \in Int
    BY <2>1
  <2>3. ~(i < j) /\ ~(j < i)
    BY <1>2, <1>3, <2>2
  <2> QED
    BY <1>1, <2>3
<1>4. at \in Injection(1 .. c, S)
  BY <1>2, <1>3 DEF Injection, IsInjective
<1>5. IsFiniteSet(1 .. c) /\ Cardinality(1 .. c) = c
  BY <1>1, FS_Interval
<1>6. at \in Surjection(1 .. c, S)
  BY <1>4, <1>5, FS_Injection DEF c
<1>7. \A s \in S : \E k \in 1 .. c : at[k] = s
  BY <1>6 DEF Surjection
<1> QED
  BY <1>1, <1>2, <1>7 DEF c

(* A batch payment marks paid what it debits and what was debited before,  *)
(* and debits nothing it does not mark (payOrders breaks at the first      *)
(* order the balance does not cover).                                      *)
LEMMA PayOrdersPaid ==
  ASSUME PaidInv, Editless, NEW r \in Requests, NEW u \in Users, NEW ids \in PayBatches,
         PayOrders(r, u, ids)
  PROVE  PaidKept
<1> DEFINE owing == Owing(u, ids)
           cost(i) == Price[orders[ids[i]].type]
           rows(at, n, after) ==
             [k \in 1 .. n |-> RowOf(ids[at[k]], 0 - cost(at[k]), after[k])]
           stop(at, n) == IF n < Cardinality(owing) THEN at[n + 1] ELSE Len(ids) + 1
           reached(at, n, o) == \E i \in DOMAIN ids :
             i < stop(at, n) /\ ids[i] = o /\ o \in Live /\ orders[o].user = u
           debited(at, n, o) == \E k \in 1 .. n : ids[at[k]] = o
<1>1. TypeOK /\ RequestsPaid /\ PaidIffCharged
  BY DEF PaidInv, DebitInv
<1>2. PICK at \in Enumerations(owing), n \in 0 .. Cardinality(owing) :
        \E after \in [0 .. n -> 0 .. balance[u]] :
          /\ orders' = [o \in OrderIds |->
                          IF reached(at, n, o) THEN PaidRow(orders[o], debited(at, n, o))
                          ELSE orders[o]]
          /\ IF n = 0 THEN UNCHANGED moneyVars ELSE PostRows(u, rows(at, n, after))
  BY DEF PayOrders
<1>3. PICK after \in [0 .. n -> 0 .. balance[u]] :
        /\ orders' = [o \in OrderIds |->
                        IF reached(at, n, o) THEN PaidRow(orders[o], debited(at, n, o))
                        ELSE orders[o]]
        /\ IF n = 0 THEN UNCHANGED moneyVars ELSE PostRows(u, rows(at, n, after))
  BY <1>2
<1>4. PICK len \in 1 .. setting.batch : ids \in [1 .. len -> OrderIds]
  BY DEF PayBatches
<1>5. Len(ids) = len /\ DOMAIN ids = 1 .. len /\ len \in Nat
  <2>1. len \in Nat
    BY OrderBillingAssumption DEF TypeOK
  <2> QED
    BY <1>4, <2>1, IndexedIsSeq
<1>6. owing \in SUBSET Int /\ IsFiniteSet(owing)
  <2>1. owing \subseteq 1 .. len /\ IsFiniteSet(1 .. len)
    BY <1>5, FS_Interval DEF Owing
  <2> QED
    BY <2>1, FS_Subset
<1>7. /\ Cardinality(owing) \in Nat
      /\ at \in [1 .. Cardinality(owing) -> owing]
      /\ \A i, j \in 1 .. Cardinality(owing) : i < j => at[i] < at[j]
      /\ \A s \in owing : \E k \in 1 .. Cardinality(owing) : at[k] = s
  BY <1>6, EnumerationCovers
<1>8. ASSUME NEW i \in owing
      PROVE  /\ i \in 1 .. len /\ ids[i] \in Live /\ orders[ids[i]].user = u
             /\ ids[i] \in OrderIds /\ cost(i) \in Nat \ {0}
  <2>1. i \in 1 .. len /\ ids[i] \in Live /\ orders[ids[i]].user = u
    BY <1>5 DEF Owing
  <2>2. orders[ids[i]].type \in OrderTypes
    BY <1>1, <2>1, LiveIsOrder DEF Order
  <2> QED
    BY <1>4, <2>1, <2>2, OrderBillingAssumption
<1>9. n \in Nat /\ n <= Cardinality(owing) /\ \A k \in 1 .. n : at[k] \in owing
  BY <1>7
<1>10. \A k \in 1 .. n : at[k] < stop(at, n)
  <2>1. CASE n < Cardinality(owing)
    BY <1>7, <1>9, <2>1
  <2>2. CASE ~(n < Cardinality(owing))
    BY <1>5, <1>8, <1>9, <2>2
  <2> QED
    BY <2>1, <2>2
<1>11. \A k \in 1 .. n : reached(at, n, ids[at[k]])
  BY <1>5, <1>8, <1>9, <1>10
<1>12. ASSUME NEW o \in OrderIds, reached(at, n, o), ~HasDebit(o)
       PROVE  debited(at, n, o)
  <2>1. PICK i \in DOMAIN ids : i < stop(at, n) /\ ids[i] = o /\ o \in Live /\ orders[o].user = u
    BY <1>12
  <2>2. orders[o].payment \in PaymentStatuses
    BY <1>1, <2>1, LiveIsOrder DEF Order
  <2>3. i \in owing
    BY <1>1, <1>12, <2>1, <2>2 DEF Owing, PaidIffCharged, PaymentStatuses
  <2>4. PICK k \in 1 .. Cardinality(owing) : at[k] = i
    BY <1>7, <2>3
  <2>5. k <= n
    <3>1. CASE n < Cardinality(owing)
      <4>1. n + 1 \in 1 .. Cardinality(owing)
        BY <1>7, <1>9, <3>1
      <4>2. stop(at, n) = at[n + 1]
        BY <3>1
      <4>3. at[k] < at[n + 1]
        BY <2>1, <2>4, <4>2
      <4>4. at[k] \in owing /\ at[n + 1] \in owing
        BY <1>7, <4>1
      <4>5. at[k] \in Int /\ at[n + 1] \in Int
        BY <1>6, <4>4
      <4> HIDE DEF owing, stop
      <4>6. ~(n + 1 < k) /\ n + 1 # k
        BY <1>7, <4>1, <4>3, <4>5
      <4> QED
        BY <1>7, <1>9, <4>6
    <3>2. CASE ~(n < Cardinality(owing))
      BY <1>7, <1>9, <3>2
    <3> QED
      BY <3>1, <3>2
  <2> QED
    BY <2>1, <2>4, <2>5
<1>13. ASSUME NEW p \in OrderIds
       PROVE  HasDebit(p)' <=> HasDebit(p) \/ debited(at, n, p)
  <2>1. CASE n = 0
    BY <1>3, <2>1, NothingMarked
  <2>2. CASE n # 0
    <3> DEFINE posted == rows(at, n, after)
    <3>1. ASSUME NEW k \in 1 .. n
          PROVE  posted[k] \in LedgerRow /\ posted[k].order = ids[at[k]] /\ posted[k].amount < 0
      <4>1. ids[at[k]] \in OrderIds /\ ids[at[k]] \in References /\ cost(at[k]) \in Nat \ {0}
        BY <1>8, <1>9, BalanceAssumption
      <4>2. after[k] \in Nat
        BY <1>1, <1>9 DEF TypeOK, MoneyTypeOK
      <4>3. posted[k] = RowOf(ids[at[k]], 0 - cost(at[k]), after[k])
        OBVIOUS
      <4> HIDE DEF posted, cost
      <4> QED
        BY <4>1, <4>2, <4>3 DEF RowOf, LedgerRow
    <3>2. posted \in [1 .. n -> LedgerRow]
      BY <3>1
    <3>3. PostRows(u, posted)
      BY <1>3, <2>2
    <3> HIDE DEF posted
    <3>4. posted \in Seq(LedgerRow) /\ Len(posted) = n
      BY <1>9, <3>2, IndexedIsSeq
    <3>5. HasDebit(p)' <=>
            HasDebit(p) \/ \E k \in 1 .. Len(posted) : posted[k].order = p /\ posted[k].amount < 0
      BY <1>1, <3>3, <3>4, PostedDebits DEF TypeOK
    <3> QED
      BY <3>1, <3>4, <3>5
  <2> QED
    BY <2>1, <2>2
<1>14. ASSUME NEW p \in OrderIds, orders'[p] # NoRow
       PROVE  Settled(orders'[p], HasDebit(p)')
  <2>1. CASE reached(at, n, p)
    <3>1. p \in Live /\ orders[p] \in Order /\ HasDebit(p)'
      BY <1>1, <1>12, <1>13, <2>1, LiveIsOrder
    <3>2. \E d \in BOOLEAN : orders'[p] = PaidRow(orders[p], d)
      BY <1>3, <2>1
    <3>3. orders'[p].payment = "paid"
      BY <3>1, <3>2 DEF PaidRow, Order
    <3> QED
      BY <3>1, <3>3 DEF Settled
  <2>2. CASE ~reached(at, n, p)
    <3>1. orders'[p] = orders[p] /\ ~debited(at, n, p)
      BY <1>3, <1>11, <2>2
    <3>2. HasDebit(p)' <=> HasDebit(p)
      BY <1>13, <3>1
    <3>3. Settled(orders[p], HasDebit(p))
      BY <1>1, <1>14, <3>1, PaidIffChargedAlt
    <3> HIDE DEF debited, reached
    <3> QED
      BY <3>1, <3>2, <3>3 DEF Settled
  <2> QED
    BY <2>1, <2>2
<1>15. RequestsPaid'
  BY <1>1, <1>13, FinishPaid DEF PayOrders
<1> QED
  BY <1>13, <1>14, <1>15 DEF PaidKept

(* Paying, and moving money without an order, keep every row settled.      *)
LEMMA MoneyStepPaid ==
  ASSUME PaidInv, Editless, NEW r \in Requests, MoneyStep(r)
  PROVE  PaidKept
<1>1. ASSUME NEW u \in Users, NEW a \in Amounts, AdjustUserCredit(r, u, a)
      PROVE  PaidKept
  <2>1. TypeOK /\ RequestsPaid /\ PaidIffCharged
    BY DEF PaidInv, DebitInv
  <2>2. \A p \in OrderIds : HasDebit(p)' <=> HasDebit(p)
    BY <1>1, <2>1, AdjustMarks DEF AdjustUserCredit
  <2>3. /\ \A p \in OrderIds : HasDebit(p) => HasDebit(p)'
        /\ \A p \in OrderIds : orders'[p] # NoRow => Settled(orders'[p], HasDebit(p)')
    BY <1>1, <2>1, <2>2, LeaveSettled DEF AdjustUserCredit
  <2> QED
    BY <1>1, <2>1, <2>3, FinishPaid DEF AdjustUserCredit, PaidKept
<1> QED
  BY <1>1, PayOrdersPaid DEF MoneyStep

(* Of the administrators' requests only startProcessing is called, and of  *)
(* the later steps only its own, the imports' and the label orders'.       *)
LEMMA EditlessStepPaid ==
  ASSUME PaidInv, Editless, NEW r \in Requests, AdminRequest(r) \/ Continue(r)
  PROVE  PaidKept
<1>1. \A op \in AllOps \ NoEdits : ~Admit(r, op)
  BY DEF Editless, Admit
<1>2. CASE AdminRequest(r)
  <2>1. \E o \in OrderIds : StartRead(r, o)
    BY <1>1, <1>2 DEF AdminRequest, UpdateOrderStatus, UpdatePaymentStatus, UpdateResultUrl,
                      UpdateAdminNote, BulkMarkFailed, DeleteOrder, BulkArchive, AllOps, NoEdits
  <2> QED
    BY <2>1, StartPaid
<1>3. CASE Continue(r)
  <2>1. req[r].pc \in EditlessStates
    BY DEF PaidInv, RequestsPaid
  <2>2. ~SaveEdit(r) /\ ~FailSaveNote(r) /\ ~FailRead(r) /\ ~FailSave(r)
    BY <2>1 DEF EditlessStates, Starting, Charging, SaveEdit, FailSaveNote, FailRead, FailSave
  <2> QED
    BY <1>3, <2>2, ImportRowPaid, AutoPayPaid, StartPaid DEF Continue
<1> QED
  BY <1>2, <1>3

(* And the only update that ends a save is that of startProcessing.        *)
LEMMA EditlessUpdatePaid ==
  ASSUME PaidInv, Editless, NEW r \in Requests, Update(r)
  PROVE  PaidKept
<1>1. req[r].pc \in EditlessStates
  BY DEF PaidInv, RequestsPaid
<1>2. ~UpdateEdit(r) /\ ~FailUpdateNote(r) /\ ~FailUpdate(r)
  BY <1>1 DEF EditlessStates, Starting, Charging, UpdateEdit, FailUpdateNote, FailUpdate
<1> QED
  BY <1>2, StartPaid DEF Update

(* Every step keeps every row settled, where nobody edits.                 *)
LEMMA NextPaid == PaidInv /\ [Next]_vars => PaidInv'
<1> SUFFICES ASSUME PaidInv, [Next]_vars PROVE PaidInv'
  OBVIOUS
<1>1. DebitInv'
  BY NextCareful DEF PaidInv
<1>2. Editless' <=> Editless
  BY DEF Next, vars, Editless
<1>3. ASSUME Editless PROVE RequestsPaid' /\ PaidIffCharged'
  <2>1. PaidKept
    <3>1. CASE UNCHANGED vars
      <4>1. UNCHANGED <<moneyVars, orders, req>>
        BY <3>1 DEF vars, moneyVars
      <4>2. \A p \in OrderIds : HasDebit(p)' <=> HasDebit(p)
        BY <4>1, NothingMarked
      <4>3. RequestsPaid'
        BY <1>3, <4>1 DEF PaidInv, RequestsPaid, HasDebit, moneyVars
      <4> QED
        BY <1>3, <4>1, <4>2, <4>3, LeaveSettled DEF PaidInv, DebitInv, PaidKept
    <3> QED
      BY <1>3, <3>1, CustomerCreatesPaid, MoneyStepPaid, EditlessStepPaid, EditlessUpdatePaid
         DEF Next
  <2>2. TypeOK'
    BY <1>1 DEF DebitInv
  <2>3. PaidIffCharged'
    BY <2>1, <2>2 DEF PaidKept, PaidIffCharged, Settled, Live
  <2> QED
    BY <2>1, <2>3 DEF PaidKept
<1> QED
  BY <1>1, <1>2, <1>3 DEF PaidInv

(***************************************************************************)
(* Where administrators only start orders and do not edit them, an order   *)
(* shows paid exactly when a debit stands behind it, however many imports, *)
(* label orders, batch payments and starts overlap, the unlocked reload of *)
(* startProcessing (orders.service.ts:438-463) included.                   *)
(***************************************************************************)
THEOREM PaidWhenCharged == Spec => []PaidExactlyWhenCharged
<1>1. Init => PaidInv
  <2> SUFFICES ASSUME Init PROVE PaidInv
    OBVIOUS
  <2>1. RequestsPaid /\ PaidIffCharged
    BY DEF Init, RequestsPaid, EditlessStates, Charging, PaidIffCharged, Live
  <2> QED
    BY <2>1, InitCareful DEF PaidInv
<1>2. PaidInv => PaidExactlyWhenCharged
  BY DEF PaidInv, PaidExactlyWhenCharged, Editless
<1> QED
  BY <1>1, <1>2, NextPaid, PTL DEF Spec

-----------------------------------------------------------------------------
(***************************************************************************)
(* Proofs of the rules orders keep although administrators save snapshots  *)
(* of them: designs not torn by crossing saves are completed with a        *)
(* result, imports pay a prefix of their rows, deleted orders stay         *)
(* deleted.  Each needs the same said of what the requests hold, not of    *)
(* the committed rows only.                                                *)
(***************************************************************************)

Snapshots == {"save", "update", "start_debit", "start_update", "fail_note",
              "fail_note_update", "fail_save", "fail_update"}

\* The rule of updateOrderStatus, of one row.
ResultIfCompleted(row) == (row.type = "design" /\ row.status = "completed") => row.result

\* A row or a snapshot of order o.
Intact(o, row) == o \notin torn => ResultIfCompleted(row)

\* It holds of the rows, and of every snapshot that may yet be saved, of the
\* orders that were not torn.
ResultInv ==
  /\ TypeOK
  /\ \A o \in Live : Intact(o, orders[o])
  /\ \A x \in Requests : req[x].pc \in Snapshots => Intact(req[x].order, req[x].row)

\* What a step keeps.
RowsKept ==
  /\ torn \subseteq torn'
  /\ \A o \in OrderIds \ torn' : orders'[o] # NoRow => ResultIfCompleted(orders'[o])
  /\ \A x \in Requests : req'[x].pc \in Snapshots =>
        Intact(req'[x].order, req'[x].row)

(* A request that moves on without a completed design in hand.             *)
LEMMA MoveKept ==
  ASSUME ResultInv, NEW r \in Requests, NEW q, Goto(r, q), torn \subseteq torn',
         q.pc \in Snapshots => Intact(q.order, q.row),
         \A o \in OrderIds \ torn' : orders'[o] # NoRow => ResultIfCompleted(orders'[o])
  PROVE  RowsKept
  BY DEF RowsKept, ResultInv, TypeOK, Goto

(* Writing a row that keeps the rule.                                      *)
LEMMA WriteKept ==
  ASSUME ResultInv, NEW o, NEW row, torn \subseteq torn',
         o \notin torn' => ResultIfCompleted(row),
         orders' = [orders EXCEPT ![o] = row] \/ UNCHANGED orders, NEW p \in OrderIds \ torn',
         orders'[p] # NoRow
  PROVE  ResultIfCompleted(orders'[p])
  BY DEF ResultInv, Intact, TypeOK, Live

(* The rule survives what the handlers change of a row.                    *)
LEMMA RowChangesKept ==
  ASSUME NEW row \in Order, ResultIfCompleted(row)
  PROVE  /\ \A debited \in BOOLEAN : ResultIfCompleted(PaidRow(row, debited))
         /\ ResultIfCompleted([row EXCEPT !.payment = "paid"])
         /\ ResultIfCompleted([row EXCEPT !.archived = TRUE])
         /\ ResultIfCompleted([row EXCEPT !.result = TRUE])
         /\ ResultIfCompleted([row EXCEPT !.status = "failed"])
         /\ ResultIfCompleted([row EXCEPT !.payment = "paid", !.status = "processing"])
         /\ \A p \in PaymentStatuses : ResultIfCompleted([row EXCEPT !.payment = p])
         /\ ResultIfCompleted(EnforceDesignRules(row))
<1>1. \A debited \in BOOLEAN : /\ PaidRow(row, debited).type = row.type
                               /\ PaidRow(row, debited).result = row.result
                               /\ \/ PaidRow(row, debited).status = row.status
                                  \/ PaidRow(row, debited).status = "processing"
  BY DEF PaidRow, Order
<1>2. ResultIfCompleted(EnforceDesignRules(row))
  BY DesignRulesTyped DEF ResultIfCompleted
<1> QED
  BY <1>1, <1>2 DEF ResultIfCompleted, Order

(* Orders are created pending or processing.                               *)
LEMMA NewOrderKept ==
  ASSUME NEW u, NEW t, NEW c, NEW s \in {"pending", "processing"}, NEW p
  PROVE  ResultIfCompleted(NewOrder(u, t, c, s, p))
  BY DEF NewOrder, ResultIfCompleted

(* Inserting an order keeps the rule.                                      *)
LEMMA CreatesKept ==
  ASSUME ResultInv, NEW r \in Requests, UNCHANGED torn, CustomerCreates(r) \/
         (\E o \in OrderIds, c \in Codes : ImportRow(r, o, c))
  PROVE  RowsKept
<1> USE DEF Snapshots
<1>1. ASSUME NEW o \in OrderIds, NEW row, Insert(o, row), ResultIfCompleted(row),
             NEW p \in OrderIds \ torn', orders'[p] # NoRow
      PROVE  ResultIfCompleted(orders'[p])
  BY <1>1, WriteKept DEF Insert
<1>2. ASSUME NEW u \in Users, NEW o \in OrderIds, NEW c \in Codes, NEW skip \in BOOLEAN,
             InsertScanOrder(u, o, c, skip), NEW p \in OrderIds \ torn', orders'[p] # NoRow
      PROVE  ResultIfCompleted(orders'[p])
  <2>1. PICK s \in {"pending", "processing"}, pay \in PaymentStatuses :
           Insert(o, NewOrder(u, "active_tracking", c, s, pay))
    BY <1>2 DEF InsertScanOrder, PaymentStatuses
  <2> QED
    BY <1>1, <1>2, <2>1, NewOrderKept
<1>3. ASSUME NEW u \in Users, NEW o \in OrderIds, NEW c \in Codes, CreateScanLabelOrder(r, u, o, c)
      PROVE  RowsKept
  BY <1>2, <1>3, MoveKept DEF CreateScanLabelOrder, Finish
<1>4. ASSUME NEW u \in Users, NEW o \in OrderIds, NEW c \in Codes, NEW type \in OrderTypes,
             CreateOrderFromLabel(r, u, o, type, c)
      PROVE  RowsKept
  BY <1>1, <1>4, NewOrderKept, MoveKept DEF CreateOrderFromLabel
<1>5. ASSUME NEW u \in Users, NEW o \in OrderIds, CreateDesignOrder(r, u, o)
      PROVE  RowsKept
  <2>1. PICK pay \in PaymentStatuses :
           Insert(o, NewOrder(u, "design", NoCode, "pending", pay))
    BY <1>5 DEF CreateDesignOrder, PaymentStatuses
  <2> QED
    BY <1>1, <1>5, <2>1, NewOrderKept, MoveKept DEF CreateDesignOrder, Finish
<1>6. ASSUME NEW u \in Users, NEW codes \in SUBSET Codes, ImportTrackingBulk(r, u, codes)
      PROVE  RowsKept
  BY <1>6, MoveKept DEF ImportTrackingBulk, ResultInv, Intact, Live, TypeOK
<1>7. ASSUME NEW o \in OrderIds, NEW c \in Codes, ImportRow(r, o, c)
      PROVE  RowsKept
  <2>1. req[r].user \in Users /\ req[r].exhausted \in BOOLEAN
    BY <1>7, RequestFields DEF ResultInv, TypeOK, ImportRow
  <2>2. PICK p \in {"imported", "import"} : \E u, t, e, rs :
          Goto(r, [pc |-> p, user |-> u, todo |-> t, exhausted |-> e, results |-> rs])
    BY <1>7 DEF ImportRow
  <2> QED
    BY <1>2, <1>7, <2>1, <2>2, MoveKept DEF ImportRow
<1> QED
  BY <1>3, <1>4, <1>5, <1>6, <1>7 DEF CustomerCreates

(* Paying keeps the rule: it only ever moves a status to processing.       *)
LEMMA PaysKept ==
  ASSUME ResultInv, NEW r \in Requests, UNCHANGED torn, MoneyStep(r) \/ AutoPayOrderIfPossible(r)
  PROVE  RowsKept
<1> USE DEF Snapshots
<1>1. \A o \in Live : orders[o] \in Order /\ (o \notin torn => ResultIfCompleted(orders[o]))
  BY LiveIsOrder DEF ResultInv, Intact
<1>2. ASSUME NEW u \in Users, NEW ids \in PayBatches, PayOrders(r, u, ids)
      PROVE  RowsKept
  <2>1. \A o \in OrderIds : orders'[o] = orders[o]
          \/ (o \in Live /\ \E debited \in BOOLEAN : orders'[o] = PaidRow(orders[o], debited))
    BY <1>2 DEF PayOrders
  <2>2. \A o \in OrderIds \ torn' : orders'[o] # NoRow => ResultIfCompleted(orders'[o])
    BY <1>1, <2>1, RowChangesKept DEF Live
  <2> QED
    BY <1>2, <2>2, MoveKept DEF PayOrders, Finish
<1>3. ASSUME NEW u \in Users, NEW a \in Amounts, AdjustUserCredit(r, u, a)
      PROVE  RowsKept
  BY <1>1, <1>3, MoveKept DEF AdjustUserCredit, Finish, Live
<1>4. ASSUME AutoPayOrderIfPossible(r)
      PROVE  RowsKept
  <2> DEFINE o == req[r].order
  <2>1. UNCHANGED orders
        \/ (o \in Live /\ orders' = [orders EXCEPT ![o] = [orders[o] EXCEPT !.payment = "paid"]])
    BY <1>4 DEF AutoPayOrderIfPossible
  <2>2. \A p \in OrderIds \ torn' : orders'[p] # NoRow => ResultIfCompleted(orders'[p])
    <3>1. CASE UNCHANGED orders
      BY <1>1, <3>1 DEF Live
    <3>2. CASE o \in Live /\ orders' = [orders EXCEPT ![o] = [orders[o] EXCEPT !.payment = "paid"]]
      <4>1. o \notin torn' => ResultIfCompleted([orders[o] EXCEPT !.payment = "paid"])
        BY <1>1, <3>2, RowChangesKept
      <4> QED
        BY <3>2, <4>1, WriteKept
    <3> QED
      BY <2>1, <3>1, <3>2
  <2> QED
    BY <1>4, <2>2, MoveKept DEF AutoPayOrderIfPossible, Finish
<1> QED
  BY <1>2, <1>3, <1>4 DEF MoneyStep

(* An edit takes a row of the table, changes it and holds it.              *)
LEMMA AdminKept ==
  ASSUME ResultInv, NEW r \in Requests, UNCHANGED torn, AdminRequest(r)
  PROVE  RowsKept
<1> USE DEF Snapshots
<1>1. \A o \in Live : o \in OrderIds /\ orders[o] \in Order
                     /\ (o \notin torn => ResultIfCompleted(orders[o]))
  BY LiveIsOrder DEF ResultInv, Intact
<1>2. (UNCHANGED orders) =>
        \A p \in OrderIds \ torn' : orders'[p] # NoRow => ResultIfCompleted(orders'[p])
  BY <1>1 DEF Live
<1>3. ASSUME NEW o \in OrderIds, NEW row \in Order, Intact(o, row), HoldForSave(r, o, row)
      PROVE  RowsKept
  <2>1. Intact(o, EnforceDesignRules(row))
    BY <1>3, RowChangesKept DEF Intact
  <2> QED
    BY <1>2, <1>3, <2>1, MoveKept DEF HoldForSave
<1>4. ASSUME NEW o \in OrderIds, StartRead(r, o)
      PROVE  RowsKept
  BY <1>2, <1>4, MoveKept DEF StartRead
<1>5. ASSUME NEW o \in OrderIds, NEW s \in OrderStatuses, UpdateOrderStatus(r, o, s)
      PROVE  RowsKept
  <2>1. o \in Live /\ ((s = "completed" /\ orders[o].type = "design") => orders[o].result)
        /\ HoldForSave(r, o, [orders[o] EXCEPT !.status = s])
    BY <1>5 DEF UpdateOrderStatus
  <2>2. Intact(o, [orders[o] EXCEPT !.status = s])
        /\ [orders[o] EXCEPT !.status = s] \in Order
    BY <1>1, <2>1 DEF Intact, ResultIfCompleted, Order
  <2> QED
    BY <1>3, <2>1, <2>2
<1>6. ASSUME NEW o \in OrderIds, NEW p \in PaymentStatuses, UpdatePaymentStatus(r, o, p)
      PROVE  RowsKept
  <2>1. [orders[o] EXCEPT !.payment = p] \in Order
    BY <1>1, <1>6 DEF UpdatePaymentStatus, Order
  <2> QED
    BY <1>1, <1>3, <1>6, <2>1, RowChangesKept DEF UpdatePaymentStatus, Intact
<1>7. ASSUME NEW o \in OrderIds, UpdateResultUrl(r, o) \/ UpdateAdminNote(r, o)
      PROVE  RowsKept
  <2>1. o \in Live => [orders[o] EXCEPT !.result = TRUE] \in Order
    BY <1>1 DEF Order
  <2> QED
    BY <1>1, <1>3, <1>7, <2>1, RowChangesKept DEF UpdateResultUrl, UpdateAdminNote, Intact
<1>8. ASSUME NEW o \in OrderIds, NEW refund \in BOOLEAN, BulkMarkFailed(r, o, refund)
      PROVE  RowsKept
  BY <1>1, <1>2, <1>8, MoveKept DEF BulkMarkFailed, Intact
<1>9. ASSUME NEW o \in OrderIds, DeleteOrder(r, o)
      PROVE  RowsKept
  <2>1. \A p \in OrderIds \ torn' : orders'[p] # NoRow => ResultIfCompleted(orders'[p])
    BY <1>1, <1>9 DEF DeleteOrder, Live, ResultInv, TypeOK
  <2> QED
    BY <1>9, <2>1, MoveKept DEF DeleteOrder, Finish
<1>10. ASSUME NEW os \in SUBSET OrderIds, BulkArchive(r, os)
       PROVE  RowsKept
  <2>1. \A p \in OrderIds \ torn' : orders'[p] # NoRow => ResultIfCompleted(orders'[p])
    <3>1. \A p \in OrderIds : orders'[p] = orders[p]
            \/ (p \in Live /\ orders'[p] = [orders[p] EXCEPT !.archived = TRUE])
      BY <1>10 DEF BulkArchive
    <3> QED
      BY <1>1, <3>1, RowChangesKept DEF Live
  <2> QED
    BY <1>10, <2>1, MoveKept DEF BulkArchive, Finish
<1> QED
  BY <1>4, <1>5, <1>6, <1>7, <1>8, <1>9, <1>10 DEF AdminRequest

(* A save, or a start, selects the row for a snapshot that keeps the rule. *)
LEMMA ContinueKept ==
  ASSUME ResultInv, NEW r \in Requests, UNCHANGED torn, Continue(r)
  PROVE  RowsKept
<1> DEFINE q == req[r]
<1> USE DEF Snapshots
<1>1. \A o \in Live : o \in OrderIds /\ orders[o] \in Order /\ Intact(o, orders[o])
  BY LiveIsOrder DEF ResultInv
<1>2. (UNCHANGED orders) =>
        \A p \in OrderIds \ torn' : orders'[p] # NoRow => ResultIfCompleted(orders'[p])
  BY <1>1 DEF Live, Intact
<1>3. q.pc \in Snapshots => q.row \in Order /\ Intact(q.order, q.row)
  BY RequestFields DEF ResultInv, TypeOK
<1>4. CASE StartReload(r)
  BY <1>1, <1>2, <1>4, MoveKept DEF StartReload, Finish
<1>5. CASE StartSave(r)
  <2> DEFINE row == [q.row EXCEPT !.payment = "paid", !.status = "processing"]
  <2>1. q.row \in Order /\ Intact(q.order, q.row)
    BY <1>3, <1>5 DEF StartSave
  <2>2. row \in Order /\ Intact(q.order, row)
    BY <2>1, RowChangesKept DEF Order, PaymentStatuses, OrderStatuses, Intact
  <2>3. \/ Finish(r)
        \/ Goto(r, [pc |-> "start_update", order |-> q.order, user |-> q.user,
                    row |-> EnforceDesignRules(row), seen |-> orders[q.order],
                    charge |-> q.charge])
    BY <1>5 DEF StartSave
  <2> HIDE DEF row
  <2>4. Intact(q.order, EnforceDesignRules(row))
    BY <2>2, RowChangesKept DEF Intact
  <2>5. UNCHANGED orders
    BY <1>5 DEF StartSave
  <2> QED
    BY <1>2, <2>3, <2>4, <2>5, MoveKept DEF Finish
<1>6. CASE SaveEdit(r)
  BY <1>2, <1>3, <1>6, MoveKept DEF SaveEdit, Finish
<1>7. CASE FailSaveNote(r)
  BY <1>2, <1>3, <1>7, MoveKept DEF FailSaveNote, Finish
<1>8. CASE FailRead(r)
  <2>1. \A o \in Live : Intact(o, [orders[o] EXCEPT !.status = "failed"])
    BY <1>1, RowChangesKept DEF Intact
  <2> QED
    BY <1>2, <1>8, <2>1, MoveKept DEF FailRead, Finish
<1>9. CASE FailSave(r)
  BY <1>2, <1>3, <1>9, MoveKept DEF FailSave
<1> QED
  BY <1>4, <1>5, <1>6, <1>7, <1>8, <1>9, CreatesKept, PaysKept DEF Continue

(* An update writes the whole snapshot, or tears its order.                *)
LEMMA UpdateKept ==
  ASSUME ResultInv, NEW r \in Requests, Update(r)
  PROVE  RowsKept
<1> DEFINE q == req[r]
<1> USE DEF Snapshots
<1>1. \A o \in Live : o \in OrderIds /\ orders[o] \in Order /\ Intact(o, orders[o])
  BY LiveIsOrder DEF ResultInv
<1>2. (UNCHANGED <<orders, torn>>) =>
        \A p \in OrderIds \ torn' : orders'[p] # NoRow => ResultIfCompleted(orders'[p])
  BY <1>1 DEF Live, Intact
<1>3. q.pc \in Snapshots => q.row \in Order /\ Intact(q.order, q.row)
  BY RequestFields DEF ResultInv, TypeOK
<1>4. ASSUME q.pc \in Snapshots, UpdateSelected(q)
      PROVE  /\ torn \subseteq torn'
             /\ \A p \in OrderIds \ torn' : orders'[p] # NoRow => ResultIfCompleted(orders'[p])
  <2>1. CASE q.order \notin Live
    BY <1>2, <1>4, <2>1 DEF UpdateSelected
  <2>2. CASE q.order \in Live
    <3> DEFINE row == Patched(orders[q.order], q.row, q.seen)
    <3>1. /\ orders' = [orders EXCEPT ![q.order] = row]
          /\ torn \subseteq torn'
          /\ q.order \notin torn' => orders[q.order] = q.seen /\ q.order \notin torn
      BY <1>4, <2>2 DEF UpdateSelected
    <3>2. q.order \notin torn' => row = q.row
      BY <1>1, <1>3, <1>4, <2>2, <3>1, PatchedTyped
    <3> HIDE DEF row
    <3>3. q.order \notin torn' => ResultIfCompleted(row)
      BY <1>3, <1>4, <3>1, <3>2 DEF Intact
    <3> QED
      BY <3>1, <3>3, WriteKept
  <2> QED
    BY <2>1, <2>2
<1>5. CASE StartCommit(r)
  BY <1>2, <1>4, <1>5, MoveKept DEF StartCommit, Finish
<1>6. CASE UpdateEdit(r)
  BY <1>4, <1>6, MoveKept DEF UpdateEdit, Finish
<1>7. CASE FailUpdateNote(r)
  BY <1>4, <1>7, MoveKept DEF FailUpdateNote
<1>8. CASE FailUpdate(r)
  <2>1. q.pc \in Snapshots /\ Intact(q.order, q.row)
    BY <1>3, <1>8 DEF FailUpdate
  <2>2. /\ torn \subseteq torn'
        /\ \A p \in OrderIds \ torn' : orders'[p] # NoRow => ResultIfCompleted(orders'[p])
    <3>1. CASE UpdateSelected(q)
      BY <1>4, <2>1, <3>1
    <3>2. CASE UNCHANGED <<orders, torn>>
      BY <1>2, <3>2
    <3>3. CASE orders' = [orders EXCEPT ![q.order] = q.row] /\ UNCHANGED torn
      BY <2>1, <3>3, WriteKept DEF Intact
    <3> QED
      BY <1>8, <3>1, <3>2, <3>3 DEF FailUpdate
  <2> QED
    BY <1>8, <2>2, MoveKept DEF FailUpdate, Finish
<1> QED
  BY <1>5, <1>6, <1>7, <1>8 DEF Update

(***************************************************************************)
(* A completed design has its result (orders.service.ts:386-389) unless    *)
(* its row changed between the SELECT and the UPDATE of a save: the rule   *)
(* holds of each snapshot when it is taken, and a save onto the row it     *)
(* selected writes the whole snapshot.                                     *)
(***************************************************************************)
THEOREM DesignsHaveResults == Spec => []ResultLostInTornSaveOnly
<1>1. Init => ResultInv
  BY InitTyped DEF Init, ResultInv, Live, Snapshots
<1>2. ResultInv /\ [Next]_vars => ResultInv'
  <2> SUFFICES ASSUME ResultInv, [Next]_vars PROVE ResultInv'
    OBVIOUS
  <2>1. TypeOK'
    BY NextSound DEF ResultInv
  <2>2. RowsKept
    <3>1. CASE UNCHANGED vars
      BY <3>1 DEF vars, RowsKept, ResultInv, Intact, Live
    <3> QED
      BY <3>1, CreatesKept, PaysKept, AdminKept, ContinueKept, UpdateKept DEF Next
  <2> QED
    BY <2>1, <2>2 DEF RowsKept, ResultInv, Intact, Live
<1>3. ResultInv => ResultLostInTornSaveOnly
  BY DEF ResultInv, Intact, ResultLostInTornSaveOnly, ResultIfCompleted
<1> QED
  BY <1>1, <1>2, <1>3, PTL DEF Spec

-----------------------------------------------------------------------------
\* An import that has not run out of credits has paid every row so far.
ImportInv ==
  /\ TypeOK
  /\ ImportPaysPrefix
  /\ \A x \in Requests : (req[x].pc \in {"import", "imported"} /\ ~req[x].exhausted) =>
       \A i \in DOMAIN req[x].results : req[x].results[i] = "paid"

\* The steps of requests that are not imports.
Elsewhere(r) == \E q : Goto(r, q) /\ q.pc \notin {"import", "imported"}

(* Every other handler leaves what the imports report alone.               *)
LEMMA ElsewhereKeepsImports ==
  ASSUME ImportInv, NEW r \in Requests, Elsewhere(r)
  PROVE  ImportPaysPrefix' /\ \A x \in Requests :
           (req'[x].pc \in {"import", "imported"} /\ ~req'[x].exhausted) =>
              \A i \in DOMAIN req'[x].results : req'[x].results[i] = "paid"
<1>1. PICK q : Goto(r, q) /\ q.pc \notin {"import", "imported"}
  BY DEF Elsewhere
<1>2. \A x \in Requests : req'[x].pc \in {"import", "imported"} => req'[x] = req[x]
  BY <1>1 DEF Goto, ImportInv, TypeOK
<1> QED
  BY <1>2 DEF ImportInv, ImportPaysPrefix

(* Only importTrackingBulk and its rows move an import.                    *)
LEMMA OtherHandlersElsewhere ==
  ASSUME NEW r \in Requests,
         \/ \E u \in Users, o \in OrderIds, c \in Codes : CreateScanLabelOrder(r, u, o, c)
         \/ \E u \in Users, o \in OrderIds, c \in Codes, t \in OrderTypes :
               CreateOrderFromLabel(r, u, o, t, c)
         \/ \E u \in Users, o \in OrderIds : CreateDesignOrder(r, u, o)
         \/ MoneyStep(r) \/ AdminRequest(r) \/ AutoPayOrderIfPossible(r)
         \/ StartReload(r) \/ StartSave(r) \/ SaveEdit(r)
         \/ FailSaveNote(r) \/ FailRead(r) \/ FailSave(r) \/ Update(r)
  PROVE  Elsewhere(r)
<1>1. Finish(r) => Elsewhere(r)
  BY DEF Finish, Elsewhere
<1>2. ASSUME NEW o, NEW row, HoldForSave(r, o, row) PROVE Elsewhere(r)
  BY <1>2 DEF HoldForSave, Elsewhere
<1>3. ASSUME NEW u, NEW o, NEW c, NEW t,
             CreateScanLabelOrder(r, u, o, c) \/ CreateOrderFromLabel(r, u, o, t, c)
             \/ CreateDesignOrder(r, u, o)
      PROVE  Elsewhere(r)
  <2>1. CreateOrderFromLabel(r, u, o, t, c) => Elsewhere(r)
    BY DEF CreateOrderFromLabel, Elsewhere
  <2>2. (CreateScanLabelOrder(r, u, o, c) \/ CreateDesignOrder(r, u, o)) => Finish(r)
    BY DEF CreateScanLabelOrder, CreateDesignOrder
  <2> QED
    BY <1>1, <1>3, <2>1, <2>2
<1>4. MoneyStep(r) => Elsewhere(r)
  BY <1>1 DEF MoneyStep, PayOrders, AdjustUserCredit
<1>5. ASSUME NEW o, NEW s, NEW os, NEW refund,
             \/ StartRead(r, o) \/ UpdateOrderStatus(r, o, s) \/ UpdatePaymentStatus(r, o, s)
             \/ UpdateResultUrl(r, o) \/ UpdateAdminNote(r, o)
             \/ BulkMarkFailed(r, o, refund) \/ DeleteOrder(r, o) \/ BulkArchive(r, os)
      PROVE  Elsewhere(r)
  BY <1>1, <1>2, <1>5
     DEF StartRead, UpdateOrderStatus, UpdatePaymentStatus, UpdateResultUrl, UpdateAdminNote,
         BulkMarkFailed, DeleteOrder, BulkArchive, Elsewhere
<1>6. AdminRequest(r) => Elsewhere(r)
  BY <1>5 DEF AdminRequest
<1>7. (AutoPayOrderIfPossible(r) \/ StartReload(r) \/ StartSave(r)) => Elsewhere(r)
  <2>1. AutoPayOrderIfPossible(r) => Elsewhere(r)
    BY <1>1 DEF AutoPayOrderIfPossible, Elsewhere
  <2>2. StartReload(r) => Elsewhere(r)
    BY <1>1 DEF StartReload, Elsewhere
  <2>3. StartSave(r) => Elsewhere(r)
    BY <1>1 DEF StartSave, Elsewhere
  <2> QED
    BY <2>1, <2>2, <2>3
<1>8. (SaveEdit(r) \/ FailSaveNote(r) \/ FailRead(r) \/ FailSave(r)) => Elsewhere(r)
  <2>1. SaveEdit(r) => Elsewhere(r)
    BY <1>1 DEF SaveEdit, Elsewhere
  <2>2. FailSaveNote(r) => Elsewhere(r)
    BY <1>1 DEF FailSaveNote, Elsewhere
  <2>3. FailRead(r) => Elsewhere(r)
    BY <1>1 DEF FailRead, Elsewhere
  <2>4. FailSave(r) => Elsewhere(r)
    BY <1>1 DEF FailSave, Elsewhere
  <2> QED
    BY <2>1, <2>2, <2>3, <2>4
<1>9. Update(r) => Elsewhere(r)
  <2>1. (StartCommit(r) \/ UpdateEdit(r)) => Elsewhere(r)
    BY <1>1 DEF StartCommit, UpdateEdit
  <2>2. FailUpdateNote(r) => Elsewhere(r)
    BY DEF FailUpdateNote, Elsewhere
  <2>3. FailUpdate(r) => Elsewhere(r)
    BY <1>1 DEF FailUpdate, Elsewhere
  <2> QED
    BY <2>1, <2>2, <2>3 DEF Update
<1> QED
  BY <1>3, <1>4, <1>6, <1>7, <1>8, <1>9

(* A row is reported paid only if every row before it was.                 *)
LEMMA ImportRowKeepsPrefix ==
  ASSUME ImportInv, NEW r \in Requests, NEW o \in OrderIds, NEW c \in Codes, ImportRow(r, o, c)
  PROVE  ImportPaysPrefix' /\ \A x \in Requests :
           (req'[x].pc \in {"import", "imported"} /\ ~req'[x].exhausted) =>
              \A i \in DOMAIN req'[x].results : req'[x].results[i] = "paid"
<1> DEFINE q == req[r]
           new == req'[r]
           result == orders'[o].payment
<1>1. q.pc = "import" /\ q.user \in Users /\ q.exhausted \in BOOLEAN
      /\ q.results \in Seq(PaymentStatuses)
  BY RequestFields DEF ImportInv, TypeOK, ImportRow
<1>2. new.results = Append(q.results, result)
      /\ (new.exhausted <=> (q.exhausted \/ result = "unpaid"))
      /\ \A x \in Requests \ {r} : req'[x] = req[x]
  BY DEF ImportRow, Goto, ImportInv, TypeOK
<1>3. result \in {"paid", "unpaid"} /\ (q.exhausted => result = "unpaid")
  <2>1. result \in PaymentStatuses
    BY <1>1, InsertScanOrderSound DEF ImportRow, ImportInv
  <2>2. q.exhausted => Insert(o, NewOrder(q.user, "active_tracking", c, "pending", "unpaid"))
    BY DEF ImportRow, InsertScanOrder
  <2>3. q.exhausted => result = "unpaid"
    BY <2>2 DEF Insert, NewOrder, ImportInv, TypeOK
  <2> QED
    BY <2>1, <2>3 DEF PaymentStatuses
<1>4. /\ ~q.exhausted => \A i \in DOMAIN q.results : q.results[i] = "paid"
      /\ \A i, j \in DOMAIN q.results :
           (i < j /\ q.results[j] = "paid") => q.results[i] = "paid"
  BY <1>1 DEF ImportInv, ImportPaysPrefix
<1> HIDE DEF result, q
<1>5. DOMAIN new.results = 1 .. Len(q.results) + 1 /\ Len(q.results) \in Nat
      /\ DOMAIN q.results = 1 .. Len(q.results)
      /\ \A i \in 1 .. Len(q.results) + 1 :
           new.results[i] = IF i = Len(q.results) + 1 THEN result ELSE q.results[i]
  BY <1>1, <1>2, <1>3 DEF PaymentStatuses
<1> HIDE DEF new
<1>6. ASSUME NEW i \in DOMAIN new.results, NEW j \in DOMAIN new.results, i < j,
             new.results[j] = "paid"
      PROVE  new.results[i] = "paid"
  <2>1. i \in 1 .. Len(q.results) /\ new.results[i] = q.results[i]
    BY <1>5, <1>6
  <2>2. CASE j = Len(q.results) + 1
    BY <1>3, <1>4, <1>5, <1>6, <2>1, <2>2
  <2>3. CASE j # Len(q.results) + 1
    BY <1>4, <1>5, <1>6, <2>1, <2>3
  <2> QED
    BY <2>2, <2>3
<1>7. ~new.exhausted => \A i \in DOMAIN new.results : new.results[i] = "paid"
  BY <1>2, <1>3, <1>4, <1>5
<1>8. \A x \in Requests :
        req'[x].pc \in {"import", "imported"} =>
          /\ \A i, j \in DOMAIN req'[x].results :
                (i < j /\ req'[x].results[j] = "paid") => req'[x].results[i] = "paid"
          /\ ~req'[x].exhausted => \A i \in DOMAIN req'[x].results : req'[x].results[i] = "paid"
  <2>1. ASSUME NEW x \in Requests \ {r}, req'[x].pc \in {"import", "imported"}
        PROVE  /\ \A i, j \in DOMAIN req'[x].results :
                    (i < j /\ req'[x].results[j] = "paid") => req'[x].results[i] = "paid"
               /\ ~req'[x].exhausted =>
                    \A i \in DOMAIN req'[x].results : req'[x].results[i] = "paid"
    BY <1>2, <2>1 DEF ImportInv, ImportPaysPrefix
  <2> QED
    BY <1>6, <1>7, <2>1 DEF new
<1> QED
  BY <1>8 DEF ImportPaysPrefix

(***************************************************************************)
(* Every import, at every moment, has paid a prefix of the rows it went    *)
(* through (orders.service.ts:355-366), though any other request may top   *)
(* up or spend the customer's credits between two of its rows.             *)
(***************************************************************************)
THEOREM ImportsPayPrefix == Spec => []ImportPaysPrefix
<1>1. Init => ImportInv
  BY InitTyped DEF Init, ImportInv, ImportPaysPrefix
<1>2. ImportInv /\ [Next]_vars => ImportInv'
  <2> SUFFICES ASSUME ImportInv, [Next]_vars PROVE ImportInv'
    OBVIOUS
  <2>1. TypeOK'
    BY NextSound DEF ImportInv
  <2>2. CASE UNCHANGED vars
    BY <2>1, <2>2 DEF vars, ImportInv, ImportPaysPrefix
  <2>3. ASSUME NEW r \in Requests, Elsewhere(r) PROVE ImportInv'
    BY <2>1, <2>3, ElsewhereKeepsImports DEF ImportInv
  <2>4. ASSUME NEW r \in Requests, NEW o \in OrderIds, NEW c \in Codes, ImportRow(r, o, c)
        PROVE  ImportInv'
    BY <2>1, <2>4, ImportRowKeepsPrefix DEF ImportInv
  <2>5. ASSUME NEW r \in Requests, NEW u \in Users, NEW codes \in SUBSET Codes,
               ImportTrackingBulk(r, u, codes)
        PROVE  ImportInv'
    BY <2>1, <2>5 DEF ImportTrackingBulk, Goto, ImportInv, ImportPaysPrefix, TypeOK
  <2> QED
    BY <2>2, <2>3, <2>4, <2>5, OtherHandlersElsewhere DEF Next, CustomerCreates, Continue
<1>3. ImportInv => ImportPaysPrefix
  BY DEF ImportInv
<1> QED
  BY <1>1, <1>2, <1>3, PTL DEF Spec

-----------------------------------------------------------------------------
Failing == {"fail_note", "fail_note_update", "fail_mark", "fail_save", "fail_update"}

\* No delete comes between the reads and the save of markScanFailure, which
\* alone saves an order loaded with its user and so can insert its row again.
FailsAlone == "fail" \notin setting.ops \/ setting.overlap <= 1

\* Only bulkMarkFailed begins to fail an order, and where requests do not
\* overlap the order that is about to be saved as failed is still there.
FailsKnown ==
  \A x \in Requests :
     /\ req[x].pc \in Failing => "fail" \in setting.ops
     /\ (setting.overlap <= 1 /\ req[x].pc = "fail_save") => req[x].order \in Live
     /\ (setting.overlap <= 1 /\ req[x].pc = "fail_update") => req[x].seen # NoRow

GoneInv == TypeOK /\ Alone /\ FailsKnown

\* What a step then does with the ids of deleted orders.
GoneStay == \A o \in issued : o \notin Live => orders'[o] = NoRow

(* Inserts take new ids, and the updates of saves need their row.          *)
LEMMA WritesLeaveGone ==
  ASSUME TypeOK
  PROVE  /\ UNCHANGED orders => GoneStay
         /\ \A o \in OrderIds : \A row : Insert(o, row) => GoneStay
         /\ \A q : UpdateSelected(q) => GoneStay
<1>1. \A p \in issued : p \in OrderIds /\ (p \notin Live => orders[p] = NoRow)
  BY DEF TypeOK, Live
<1>2. UNCHANGED orders => GoneStay
  BY <1>1 DEF GoneStay
<1>3. ASSUME NEW o \in OrderIds, NEW row, Insert(o, row) PROVE GoneStay
  BY <1>1, <1>3 DEF Insert, GoneStay, TypeOK
<1>4. ASSUME NEW q, UpdateSelected(q) PROVE GoneStay
  <2>1. CASE q.order \in Live
    <3> DEFINE row == Patched(orders[q.order], q.row, q.seen)
    <3>1. orders' = [orders EXCEPT ![q.order] = row]
      BY <1>4, <2>1 DEF UpdateSelected
    <3> HIDE DEF row
    <3> QED
      BY <1>1, <2>1, <3>1 DEF GoneStay, TypeOK
  <2>2. CASE q.order \notin Live
    BY <1>2, <1>4, <2>2 DEF UpdateSelected
  <2> QED
    BY <2>1, <2>2
<1> QED
  BY <1>2, <1>3, <1>4

(* No handler but markScanFailure brings a deleted order back, and it does *)
(* not where no delete overlaps with it.                                   *)
LEMMA NextLeavesGone ==
  ASSUME GoneInv, FailsAlone, [Next]_vars
  PROVE  GoneStay
<1>1. TypeOK /\ \A p \in issued : p \in OrderIds /\ (p \notin Live => orders[p] = NoRow)
  BY DEF GoneInv, TypeOK, Live
<1>2. ASSUME NEW u, NEW o \in OrderIds, NEW c, NEW skip, InsertScanOrder(u, o, c, skip)
      PROVE  GoneStay
  BY <1>1, <1>2, WritesLeaveGone DEF InsertScanOrder
<1>3. ASSUME NEW r \in Requests, CustomerCreates(r) PROVE GoneStay
  <2>1. ASSUME NEW u, NEW o \in OrderIds, NEW c, CreateScanLabelOrder(r, u, o, c) PROVE GoneStay
    BY <1>2, <2>1 DEF CreateScanLabelOrder
  <2>2. ASSUME NEW u, NEW o \in OrderIds, NEW c, NEW t, CreateOrderFromLabel(r, u, o, t, c)
        PROVE  GoneStay
    BY <1>1, <2>2, WritesLeaveGone DEF CreateOrderFromLabel
  <2>3. ASSUME NEW u, NEW o \in OrderIds, CreateDesignOrder(r, u, o) PROVE GoneStay
    BY <1>1, <2>3, WritesLeaveGone DEF CreateDesignOrder
  <2>4. ASSUME NEW u, NEW codes, ImportTrackingBulk(r, u, codes) PROVE GoneStay
    BY <1>1, <2>4, WritesLeaveGone DEF ImportTrackingBulk
  <2> QED
    BY <1>3, <2>1, <2>2, <2>3, <2>4 DEF CustomerCreates
<1>4. ASSUME NEW r \in Requests, MoneyStep(r) PROVE GoneStay
  <2>1. ASSUME NEW u, NEW ids, PayOrders(r, u, ids) PROVE GoneStay
    <3>1. \A o \in OrderIds : o \notin Live => orders'[o] = orders[o]
      BY <2>1 DEF PayOrders
    <3> QED
      BY <1>1, <3>1 DEF GoneStay
  <2>2. ASSUME NEW u, NEW a, AdjustUserCredit(r, u, a) PROVE GoneStay
    BY <1>1, <2>2, WritesLeaveGone DEF AdjustUserCredit
  <2> QED
    BY <1>4, <2>1, <2>2 DEF MoneyStep
<1>5. ASSUME NEW r \in Requests, AdminRequest(r) PROVE GoneStay
  <2>1. ASSUME NEW o \in OrderIds, DeleteOrder(r, o) PROVE GoneStay
    BY <1>1, <2>1 DEF DeleteOrder, GoneStay, TypeOK
  <2>2. ASSUME NEW os, BulkArchive(r, os) PROVE GoneStay
    BY <1>1, <2>2 DEF BulkArchive, GoneStay
  <2>3. (\E o \in OrderIds : DeleteOrder(r, o)) \/ (\E os : BulkArchive(r, os))
        \/ UNCHANGED orders
    BY <1>5 DEF AdminRequest, StartRead, UpdateOrderStatus, UpdatePaymentStatus,
                UpdateResultUrl, UpdateAdminNote, BulkMarkFailed, HoldForSave
  <2> QED
    BY <1>1, <2>1, <2>2, <2>3, WritesLeaveGone
<1>6. ASSUME NEW r \in Requests, Continue(r) PROVE GoneStay
  <2> DEFINE q == req[r]
  <2>2. ASSUME NEW o \in OrderIds, NEW c, ImportRow(r, o, c) PROVE GoneStay
    BY <1>2, <2>2 DEF ImportRow
  <2>3. CASE AutoPayOrderIfPossible(r)
    <3>1. UNCHANGED orders
          \/ (q.order \in Live /\ orders' = [orders EXCEPT ![q.order].payment = "paid"])
      BY <2>3 DEF AutoPayOrderIfPossible
    <3> QED
      BY <1>1, <3>1, WritesLeaveGone DEF GoneStay, TypeOK
  <2>4. CASE StartReload(r) \/ StartSave(r) \/ SaveEdit(r)
    BY <1>1, <2>4, WritesLeaveGone DEF StartReload, StartSave, SaveEdit
  <2>5. CASE FailSaveNote(r) \/ FailRead(r) \/ FailSave(r)
    BY <1>1, <2>5, WritesLeaveGone DEF FailSaveNote, FailRead, FailSave
  <2> QED
    BY <1>6, <2>2, <2>3, <2>4, <2>5 DEF Continue
<1>8. ASSUME NEW r \in Requests, Update(r) PROVE GoneStay
  <2>1. UpdateSelected(req[r]) \/ UNCHANGED orders
    <3>1. CASE FailUpdate(r)
      <4>1. req[r].seen # NoRow
        BY <3>1 DEF FailUpdate, GoneInv, FailsKnown, FailsAlone, Failing
      <4> QED
        BY <3>1, <4>1 DEF FailUpdate
    <3> QED
      BY <1>8, <3>1 DEF Update, StartCommit, UpdateEdit, FailUpdateNote
  <2> QED
    BY <1>1, <2>1, WritesLeaveGone
<1>7. CASE UNCHANGED vars
  BY <1>1, <1>7, WritesLeaveGone DEF vars
<1> QED
  BY <1>3, <1>4, <1>5, <1>6, <1>7, <1>8 DEF Next

(* A request that moves on, and is not failing an order then.              *)
LEMMA MoveFailless ==
  ASSUME GoneInv, NEW r \in Requests, Served(r), NEW q, Goto(r, q),
         q.pc \in Failing => "fail" \in setting.ops,
         q.pc = "fail_save" => q.order \in Live',
         (setting.overlap <= 1 /\ q.pc = "fail_update") => q.seen # NoRow
  PROVE  FailsKnown'
<1>1. req'[r] = q /\ \A x \in Requests \ {r} : req'[x] = req[x]
  BY DEF GoneInv, TypeOK, Goto
<1>2. ASSUME NEW x \in Requests \ {r}, setting.overlap <= 1
      PROVE  req[x].pc \notin {"fail_save", "fail_update"}
  BY <1>2 DEF Served, InFlight
<1> QED
  BY <1>1, <1>2 DEF FailsKnown, GoneInv, Served

(* A request that ends.                                                    *)
LEMMA FinishFailless ==
  ASSUME GoneInv, NEW r \in Requests, Served(r), Finish(r)
  PROVE  FailsKnown'
  BY MoveFailless DEF Finish, Failing

(* Every step keeps what is known of the orders being failed.              *)
LEMMA StepKeepsFails ==
  ASSUME GoneInv, NEW r \in Requests, Served(r),
         Step(r)
  PROVE  FailsKnown'
<1> USE DEF Failing
<1> DEFINE q == req[r]
<1>1. CASE CustomerCreates(r)
  <2>1. ASSUME NEW u, NEW o, NEW c, NEW t, CreateOrderFromLabel(r, u, o, t, c)
        PROVE  FailsKnown'
    BY <2>1, MoveFailless DEF CreateOrderFromLabel
  <2>2. ASSUME NEW u, NEW codes, ImportTrackingBulk(r, u, codes) PROVE FailsKnown'
    BY <2>2, MoveFailless DEF ImportTrackingBulk
  <2>3. ASSUME NEW u, NEW o, NEW c, CreateScanLabelOrder(r, u, o, c) PROVE FailsKnown'
    BY <2>3, FinishFailless DEF CreateScanLabelOrder
  <2>4. ASSUME NEW u, NEW o, CreateDesignOrder(r, u, o) PROVE FailsKnown'
    BY <2>4, FinishFailless DEF CreateDesignOrder
  <2> QED
    BY <1>1, <2>1, <2>2, <2>3, <2>4 DEF CustomerCreates
<1>2. CASE MoneyStep(r)
  BY <1>2, FinishFailless DEF MoneyStep, PayOrders, AdjustUserCredit
<1>3. CASE AdminRequest(r)
  <2>1. ASSUME NEW o, NEW row, HoldForSave(r, o, row) PROVE FailsKnown'
    BY <2>1, MoveFailless DEF HoldForSave
  <2>2. ASSUME NEW o, StartRead(r, o) PROVE FailsKnown'
    BY <2>2, MoveFailless DEF StartRead
  <2>3. ASSUME NEW o, NEW s, UpdateOrderStatus(r, o, s) \/ UpdatePaymentStatus(r, o, s)
               \/ UpdateResultUrl(r, o) \/ UpdateAdminNote(r, o)
        PROVE  FailsKnown'
    BY <2>1, <2>3
       DEF UpdateOrderStatus, UpdatePaymentStatus, UpdateResultUrl, UpdateAdminNote
  <2>4. ASSUME NEW o, NEW refund, BulkMarkFailed(r, o, refund) PROVE FailsKnown'
    BY <2>4, MoveFailless DEF BulkMarkFailed, Admit
  <2>5. ASSUME NEW o, NEW os, DeleteOrder(r, o) \/ BulkArchive(r, os) PROVE FailsKnown'
    BY <2>5, FinishFailless DEF DeleteOrder, BulkArchive
  <2> QED
    BY <1>3, <2>2, <2>3, <2>4, <2>5 DEF AdminRequest
<1>4. CASE Continue(r)
  <2>1. ASSUME NEW o, NEW c, ImportRow(r, o, c) PROVE FailsKnown'
    <3>1. PICK p \in {"imported", "import"} : \E u, t, e, rs :
            Goto(r, [pc |-> p, user |-> u, todo |-> t, exhausted |-> e, results |-> rs])
      BY <2>1 DEF ImportRow
    <3> QED
      BY <3>1, MoveFailless
  <2>2. CASE StartReload(r) \/ StartSave(r)
    BY <2>2, MoveFailless, FinishFailless DEF StartReload, StartSave
  <2>3. CASE AutoPayOrderIfPossible(r) \/ SaveEdit(r)
    BY <2>3, MoveFailless, FinishFailless DEF AutoPayOrderIfPossible, SaveEdit
  <2>4. q.pc \in Failing => "fail" \in setting.ops
    BY DEF GoneInv, FailsKnown
  <2>5. CASE FailSaveNote(r)
    BY <2>4, <2>5, MoveFailless, FinishFailless DEF FailSaveNote
  <2>6. CASE FailRead(r)
    <3>1. UNCHANGED orders
      BY <2>6 DEF FailRead
    <3>2. \A o \in Live : o \in Live'
      BY <3>1 DEF Live
    <3> QED
      BY <2>4, <2>6, <3>2, MoveFailless, FinishFailless DEF FailRead
  <2>7. CASE FailSave(r)
    <3>1. setting.overlap <= 1 => orders[q.order] # NoRow
      BY <2>7 DEF FailSave, GoneInv, FailsKnown, Live
    <3> QED
      BY <2>4, <2>7, <3>1, MoveFailless DEF FailSave
  <2> QED
    BY <1>4, <2>1, <2>2, <2>3, <2>5, <2>6, <2>7 DEF Continue
<1>5. CASE Update(r)
  <2>1. q.pc \in Failing => "fail" \in setting.ops
    BY DEF GoneInv, FailsKnown
  <2>2. CASE FailUpdateNote(r)
    BY <2>1, <2>2, MoveFailless DEF FailUpdateNote
  <2>3. CASE FailUpdate(r)
    BY <2>1, <2>3, MoveFailless, FinishFailless DEF FailUpdate
  <2> QED
    BY <1>5, <2>2, <2>3, FinishFailless DEF Update, StartCommit, UpdateEdit
<1> QED
  BY <1>1, <1>2, <1>3, <1>4, <1>5 DEF Step

(***************************************************************************)
(* A deleted order stays deleted, whatever snapshot taken before the       *)
(* delete is saved after it: the saves of entities loaded without their    *)
(* user cannot insert (orders.service.ts:917-922), and the one of          *)
(* markScanFailure (937-948) finds the row where no delete overlaps.       *)
(***************************************************************************)
THEOREM DeletedStaysDeleted == Spec => DeletedForGood
<1>1. Init => GoneInv
  BY InitTyped, InitCareful DEF Init, GoneInv, DebitInv, FailsKnown, Failing
<1>2. GoneInv /\ [Next]_vars => GoneInv'
  <2> SUFFICES ASSUME GoneInv, [Next]_vars PROVE GoneInv'
    OBVIOUS
  <2>1. TypeOK'
    BY NextSound DEF GoneInv
  <2>2. CASE UNCHANGED vars
    BY <2>1, <2>2 DEF vars, GoneInv, Alone, InFlight, FailsKnown, Live
  <2>3. ASSUME NEW r \in Requests, UNCHANGED setting,
               Step(r)
        PROVE  Alone' /\ FailsKnown'
    BY <2>3, ServedAlone, StepKeepsFails DEF GoneInv
  <2> QED
    BY <2>1, <2>2, <2>3 DEF Next, Step, GoneInv
<1>3. GoneInv /\ [Next]_vars =>
        [("fail" \notin setting.ops \/ setting.overlap <= 1) =>
            \A o \in issued : o \notin Live => orders'[o] = NoRow]_vars
  BY NextLeavesGone DEF GoneStay, FailsAlone
<1> QED
  BY <1>1, <1>2, <1>3, PTL DEF Spec, DeletedForGood

=============================================================================
