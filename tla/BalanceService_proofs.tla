----------------------- MODULE BalanceService_proofs ------------------------
(***************************************************************************)
(* What every service inherits from BalanceService.applyChange: whichever  *)
(* service posts the rows of a transaction, and whether or not an order's  *)
(* rows are unlinked afterwards, the ledger keeps backing the balance and  *)
(* the step is a step of CreditLedger.                                     *)
(***************************************************************************)
EXTENDS BalanceService, SequenceTheorems, TLAPS

\* The rows of one transaction start at the balance of u and form a chain.
Chained(u, rows) ==
  /\ rows \in Seq(LedgerRow)
  /\ Len(rows) > 0
  /\ \A k \in 1 .. Len(rows) :
        rows[k].after = (IF k = 1 THEN balance[u] ELSE rows[k - 1].after) + rows[k].amount

\* Everything a service may do to balances and ledgers in one step.
MoneyNext ==
  \/ \E u \in Users : \E rows \in Seq(LedgerRow) : Chained(u, rows) /\ PostRows(u, rows)
  \/ \E o \in OrderIds : Unlink(o)
  \/ UNCHANGED moneyVars

\* LedgerBacksBalance of one customer, said of the ledger itself.
Backed(credit, rows) ==
  /\ credit = IF Len(rows) = 0 THEN 0 ELSE rows[Len(rows)].after
  /\ \A i \in 1 .. Len(rows) :
        rows[i].after = (IF i = 1 THEN 0 ELSE rows[i - 1].after) + rows[i].amount

-----------------------------------------------------------------------------
(* A function over 1..n is a sequence of length n: how the rows, lines and *)
(* batches that the services build by index are seen to be sequences.      *)
LEMMA IndexedIsSeq ==
  ASSUME NEW S, NEW n \in Nat, NEW f \in [1 .. n -> S]
  PROVE  f \in Seq(S) /\ Len(f) = n
<1>1. f \in Seq(S)
  BY SeqDef
<1> QED
  BY <1>1, LenProperties

(* A statement has the lines of its ledger (the read side of               *)
(* balance_transactions, balance.service.ts:36-86).                        *)
LEMMA LinesOfRows ==
  ASSUME NEW rows \in Seq(LedgerRow)
  PROVE  /\ Len(Lines(rows)) = Len(rows)
         /\ Lines(rows) \in Seq([amount : Int, after : Nat])
         /\ \A i \in 1 .. Len(rows) : /\ Lines(rows)[i].amount = rows[i].amount
                                      /\ Lines(rows)[i].after = rows[i].after
                                      /\ Lines(rows)[i].after \in Nat
                                      /\ Lines(rows)[i].amount \in Int
<1>1. Len(rows) \in Nat /\ \A i \in 1 .. Len(rows) : rows[i] \in LedgerRow
  OBVIOUS
<1>2. \A i \in 1 .. Len(rows) : rows[i].amount \in Int /\ rows[i].after \in Nat
  BY <1>1 DEF LedgerRow
<1>3. Lines(rows) \in [1 .. Len(rows) -> [amount : Int, after : Nat]]
  BY <1>2 DEF Lines
<1>4. Lines(rows) \in Seq([amount : Int, after : Nat]) /\ Len(Lines(rows)) = Len(rows)
  BY <1>1, <1>3, IndexedIsSeq
<1>5. \A i \in 1 .. Len(rows) : /\ Lines(rows)[i].amount = rows[i].amount
                                /\ Lines(rows)[i].after = rows[i].after
  BY DEF Lines
<1> QED
  BY <1>2, <1>4, <1>5

(* Whether a customer's statement balances can be told from the ledger.    *)
LEMMA BackedIsBalanced ==
  ASSUME NEW credit, NEW rows \in Seq(LedgerRow)
  PROVE  Backed(credit, rows) <=>
           /\ credit = CL!ClosingBalance(Lines(rows))
           /\ \A i \in 1 .. Len(Lines(rows)) : CL!Continues(Lines(rows), i)
<1>1. Len(rows) \in Nat /\ (Len(rows) # 0 => Len(rows) \in 1 .. Len(rows))
  OBVIOUS
<1>2. CL!ClosingBalance(Lines(rows)) = IF Len(rows) = 0 THEN 0 ELSE rows[Len(rows)].after
  BY <1>1, LinesOfRows DEF CL!ClosingBalance
<1>3. ASSUME NEW i \in 1 .. Len(rows)
      PROVE  CL!Continues(Lines(rows), i) <=>
               rows[i].after = (IF i = 1 THEN 0 ELSE rows[i - 1].after) + rows[i].amount
  <2>1. i = 1 \/ i - 1 \in 1 .. Len(rows)
    BY <1>1
  <2>2. CL!Before(Lines(rows), i) = IF i = 1 THEN 0 ELSE rows[i - 1].after
    BY <2>1, LinesOfRows DEF CL!Before
  <2> QED
    BY <2>2, LinesOfRows DEF CL!Continues
<1> QED
  BY <1>2, <1>3, LinesOfRows DEF Backed

(* A transaction types and backs the ledger it extends, and appends to it  *)
(* without rewriting a row (applyChange, balance.service.ts:36-87).        *)
LEMMA ChainedAppends ==
  ASSUME MoneyTypeOK, NEW u \in Users, NEW rows \in Seq(LedgerRow),
         Chained(u, rows), PostRows(u, rows)
  PROVE  /\ MoneyTypeOK'
         /\ ledger'[u] = ledger[u] \o rows
         /\ balance'[u] = rows[Len(rows)].after
         /\ \A v \in Users \ {u} : balance'[v] = balance[v] /\ ledger'[v] = ledger[v]
<1>1. rows[Len(rows)] \in LedgerRow
  BY DEF Chained
<1>2. rows[Len(rows)].after \in Nat
  BY <1>1 DEF LedgerRow
<1>3. ledger[u] \o rows \in Seq(LedgerRow)
  BY DEF MoneyTypeOK
<1> QED
  BY <1>2, <1>3 DEF MoneyTypeOK, PostRows

(* The extended ledger backs the new balance if the old one backed the     *)
(* balance the transaction started from.                                   *)
LEMMA ChainedBacks ==
  ASSUME MoneyTypeOK, NEW u \in Users, NEW rows \in Seq(LedgerRow),
         Chained(u, rows), Backed(balance[u], ledger[u])
  PROVE  Backed(rows[Len(rows)].after, ledger[u] \o rows)
<1> DEFINE old == ledger[u]
           new == old \o rows
<1>1. /\ old \in Seq(LedgerRow) /\ Len(old) \in Nat /\ Len(rows) \in Nat \ {0}
      /\ Len(new) = Len(old) + Len(rows)
      /\ \A i \in 1 .. Len(new) :
            new[i] = IF i <= Len(old) THEN old[i] ELSE rows[i - Len(old)]
  BY DEF MoneyTypeOK, Chained
<1>4. /\ balance[u] = IF Len(old) = 0 THEN 0 ELSE old[Len(old)].after
      /\ \A i \in 1 .. Len(old) :
            old[i].after = (IF i = 1 THEN 0 ELSE old[i - 1].after) + old[i].amount
  BY DEF Backed
<1>5. \A k \in 1 .. Len(rows) :
        rows[k].after = (IF k = 1 THEN balance[u] ELSE rows[k - 1].after) + rows[k].amount
  BY DEF Chained
<1> HIDE DEF old, new
<1>2. new[Len(new)] = rows[Len(rows)] /\ Len(new) # 0
  BY <1>1
<1>3. ASSUME NEW i \in 1 .. Len(new)
      PROVE  new[i].after = (IF i = 1 THEN 0 ELSE new[i - 1].after) + new[i].amount
  <2>1. CASE i <= Len(old)
    <3>1. i \in 1 .. Len(old) /\ (i = 1 \/ i - 1 \in 1 .. Len(old))
      BY <2>1, <1>1
    <3>2. new[i] = old[i] /\ (i # 1 => new[i - 1] = old[i - 1])
      BY <3>1, <1>1
    <3> QED
      BY <3>1, <3>2, <1>4
  <2>2. CASE i = Len(old) + 1
    <3>1. new[i] = rows[1] /\ (i # 1 => new[i - 1] = old[Len(old)])
      BY <2>2, <1>1
    <3>2. balance[u] = IF i = 1 THEN 0 ELSE new[i - 1].after
      BY <2>2, <3>1, <1>1, <1>4
    <3>3. rows[1].after = balance[u] + rows[1].amount
      BY <1>1, <1>5
    <3> QED
      BY <3>1, <3>2, <3>3
  <2>3. CASE i > Len(old) + 1
    <3>1. i - Len(old) \in 1 .. Len(rows) /\ i - Len(old) # 1 /\ i # 1 /\ i - 1 \in 1 .. Len(new)
      BY <2>3, <1>1
    <3>2. new[i] = rows[i - Len(old)] /\ new[i - 1] = rows[(i - Len(old)) - 1]
      BY <2>3, <3>1, <1>1
    <3> QED
      BY <3>1, <3>2, <1>5
  <2> QED
    BY <1>1, <2>1, <2>2, <2>3
<1> QED
  <2>1. Backed(new[Len(new)].after, new)
    BY <1>2, <1>3 DEF Backed
  <2> QED
    BY <2>1, <1>2 DEF new, old

(* Unlinking an order's rows keeps every statement line for line           *)
(* (ON DELETE SET NULL on balance_transactions.order_id).                  *)
LEMMA UnlinkKeepsLines ==
  ASSUME MoneyTypeOK, NEW o \in OrderIds, Unlink(o)
  PROVE  MoneyTypeOK' /\ balance' = balance /\ Statement' = Statement
<1>1. ASSUME NEW u \in Users
      PROVE  ledger'[u] \in Seq(LedgerRow) /\ Lines(ledger'[u]) = Lines(ledger[u])
  <2> DEFINE old == ledger[u]
             new == ledger'[u]
  <2>1. old \in Seq(LedgerRow) /\ Len(old) \in Nat /\ DOMAIN old = 1 .. Len(old)
        /\ \A i \in 1 .. Len(old) : old[i] \in LedgerRow
    BY DEF MoneyTypeOK
  <2>2. new = [i \in 1 .. Len(old) |-> IF old[i].order = o
                                      THEN [old[i] EXCEPT !.order = NoOrder] ELSE old[i]]
    BY <2>1 DEF Unlink
  <2>3. ASSUME NEW i \in 1 .. Len(old)
        PROVE  new[i] \in LedgerRow /\ new[i].amount = old[i].amount
               /\ new[i].after = old[i].after
    BY <2>1, <2>2 DEF LedgerRow
  <2>5. new \in [1 .. Len(old) -> LedgerRow]
    BY <2>2, <2>3
  <2> HIDE DEF new, old
  <2>4. new \in Seq(LedgerRow) /\ Len(new) = Len(old)
    BY <2>1, <2>5, IndexedIsSeq
  <2> QED
    BY <2>3, <2>4 DEF Lines, new, old
<1> QED
  BY <1>1 DEF MoneyTypeOK, Unlink, Statement

-----------------------------------------------------------------------------
(* The opening ledger is typed and backs the opening balance.              *)
LEMMA MoneyInitBacked == MoneyInit => MoneyTypeOK /\ LedgerBacksBalance
<1> SUFFICES ASSUME MoneyInit PROVE MoneyTypeOK /\ LedgerBacksBalance
  OBVIOUS
<1>1. ASSUME NEW u \in Users
      PROVE  ledger[u] \in Seq(LedgerRow) /\ Backed(balance[u], ledger[u])
  <2>1. Opening[u] \in Nat
    BY BalanceAssumption
  <2>2. CASE Opening[u] = 0
    BY <2>1, <2>2 DEF MoneyInit, Backed
  <2>3. CASE Opening[u] # 0
    <3>1. RowOf(NoOrder, Opening[u], Opening[u]) \in LedgerRow
      BY <2>1, BalanceAssumption DEF RowOf, LedgerRow
    <3>2. ledger[u] = <<RowOf(NoOrder, Opening[u], Opening[u])>> /\ balance[u] = Opening[u]
      BY <2>3 DEF MoneyInit
    <3>3. ledger[u] \in Seq(LedgerRow) /\ Len(ledger[u]) = 1
          /\ ledger[u][1].amount = Opening[u] /\ ledger[u][1].after = Opening[u]
      BY <3>1, <3>2 DEF RowOf
    <3> QED
      BY <3>2, <3>3, <2>1 DEF Backed
  <2> QED
    BY <2>2, <2>3
<1>2. MoneyTypeOK
  BY <1>1, BalanceAssumption DEF MoneyTypeOK, MoneyInit
<1> QED
  BY <1>1, <1>2, BackedIsBalanced DEF LedgerBacksBalance, CL!Balanced, Statement

(* Every step the services take keeps the types of balances and ledgers.   *)
LEMMA MoneyNextTyped == MoneyTypeOK /\ MoneyNext => MoneyTypeOK'
  BY ChainedAppends, UnlinkKeepsLines DEF MoneyNext, moneyVars, MoneyTypeOK

(* Every step the services take keeps the ledger backing the balance.      *)
LEMMA MoneyNextBacks ==
  MoneyTypeOK /\ LedgerBacksBalance /\ MoneyNext => LedgerBacksBalance'
<1> SUFFICES ASSUME MoneyTypeOK, LedgerBacksBalance, MoneyNext
             PROVE  LedgerBacksBalance'
  OBVIOUS
<1>1. \A v \in Users : Backed(balance[v], ledger[v])
  BY BackedIsBalanced DEF MoneyTypeOK, LedgerBacksBalance, CL!Balanced, Statement
<1>2. CASE \E u \in Users : \E rows \in Seq(LedgerRow) :
              Chained(u, rows) /\ PostRows(u, rows)
  <2>1. PICK u \in Users, rows \in Seq(LedgerRow) : Chained(u, rows) /\ PostRows(u, rows)
    BY <1>2
  <2>2. \A v \in Users : ledger'[v] \in Seq(LedgerRow) /\ Backed(balance'[v], ledger'[v])
    BY <1>1, <2>1, ChainedAppends, ChainedBacks DEF MoneyTypeOK
  <2> QED
    BY <2>2, BackedIsBalanced DEF LedgerBacksBalance, CL!Balanced, Statement
<1>3. CASE (\E o \in OrderIds : Unlink(o)) \/ UNCHANGED moneyVars
  <2>1. balance' = balance /\ Statement' = Statement
    BY <1>3, UnlinkKeepsLines DEF moneyVars, Statement
  <2> QED
    BY <2>1 DEF LedgerBacksBalance, CL!Balanced
<1> QED
  BY <1>2, <1>3 DEF MoneyNext

(* Every step the services take is a transaction of CreditLedger, or       *)
(* leaves balances and statements alone.                                   *)
LEMMA MoneyNextKeepsPromise ==
  MoneyTypeOK /\ LedgerBacksBalance /\ MoneyNext => [CL!CLNext]_(CL!clVars)
<1> SUFFICES ASSUME MoneyTypeOK, LedgerBacksBalance, MoneyNext
             PROVE  CL!CLNext \/ (balance' = balance /\ Statement' = Statement)
  BY DEF CL!clVars
<1>1. CASE \E u \in Users : \E rows \in Seq(LedgerRow) :
              Chained(u, rows) /\ PostRows(u, rows)
  <2>1. PICK u \in Users, rows \in Seq(LedgerRow) : Chained(u, rows) /\ PostRows(u, rows)
    BY <1>1
  <2>2. /\ MoneyTypeOK' /\ LedgerBacksBalance'
        /\ ledger'[u] = ledger[u] \o rows
        /\ \A v \in Users \ {u} : balance'[v] = balance[v] /\ ledger'[v] = ledger[v]
    BY <2>1, ChainedAppends, MoneyNextBacks
  <2>3. \A v \in Users : Statement[v] = Lines(ledger[v]) /\ Statement'[v] = Lines(ledger'[v])
    BY DEF Statement
  <2>4. /\ ledger[u] \in Seq(LedgerRow) /\ ledger'[u] \in Seq(LedgerRow)
        /\ Len(rows) > 0 /\ Len(ledger'[u]) = Len(ledger[u]) + Len(rows)
        /\ Len(ledger[u]) \in Nat /\ Len(rows) \in Nat
        /\ \A i \in 1 .. Len(ledger[u]) : ledger'[u][i] = ledger[u][i]
    BY <2>1, <2>2 DEF MoneyTypeOK, Chained
  <2>5. /\ Len(Statement'[u]) = Len(ledger'[u]) /\ Len(Statement[u]) = Len(ledger[u])
        /\ \A i \in 1 .. Len(Statement[u]) : Statement'[u][i] = Statement[u][i]
    <3>1. /\ Len(Lines(ledger'[u])) = Len(ledger'[u]) /\ Len(Lines(ledger[u])) = Len(ledger[u])
      BY <2>4, LinesOfRows
    <3>2. ASSUME NEW i \in 1 .. Len(ledger[u])
          PROVE  Lines(ledger'[u])[i] = Lines(ledger[u])[i]
      <4>1. i \in 1 .. Len(ledger'[u]) /\ ledger'[u][i] = ledger[u][i]
        BY <2>4
      <4> QED
        BY <4>1 DEF Lines
    <3> QED
      BY <2>3, <3>1, <3>2
  <2>6. CL!Balanced(u)'
    BY <2>2 DEF LedgerBacksBalance
  <2>7. CL!Post(u)
    BY <2>2, <2>3, <2>4, <2>5, <2>6 DEF CL!Post, CL!Balanced
  <2> QED
    BY <2>7 DEF CL!CLNext
<1>2. CASE (\E o \in OrderIds : Unlink(o)) \/ UNCHANGED moneyVars
  BY <1>2, UnlinkKeepsLines DEF moneyVars, Statement
<1> QED
  BY <1>1, <1>2 DEF MoneyNext

(* One call of applyChange by which the balance stays covered is such a    *)
(* step: how consume and creditAmount are used.                            *)
LEMMA ApplyChangeIsMoneyNext ==
  ASSUME MoneyTypeOK, NEW u \in Users, NEW delta \in Int,
         NEW ref \in References \cup {NoOrder},
         balance[u] + delta >= 0, ApplyChange(u, delta, ref)
  PROVE  MoneyNext
<1> DEFINE row == RowOf(ref, delta, balance[u] + delta)
<1>1. row \in LedgerRow
  BY BalanceAssumption DEF MoneyTypeOK, RowOf, LedgerRow
<1>2. row.after = balance[u] + row.amount
  BY DEF RowOf
<1> HIDE DEF row
<1>3. <<row>> \in Seq(LedgerRow) /\ Len(<<row>>) = 1 /\ <<row>>[1] = row
  BY <1>1
<1>4. Chained(u, <<row>>)
  BY <1>2, <1>3 DEF Chained
<1>5. PostRows(u, <<row>>)
  BY DEF ApplyChange, row
<1> QED
  BY <1>3, <1>4, <1>5 DEF MoneyNext

(* Debits and credits of known amounts are such steps.                     *)
LEMMA DebitCreditIsMoneyNext ==
  ASSUME MoneyTypeOK, NEW u \in Users, NEW amount \in Nat,
         NEW ref \in References \cup {NoOrder},
         Debit(u, amount, ref) \/ Credit(u, amount, ref)
  PROVE  MoneyNext
<1>1. balance[u] \in Nat
  BY DEF MoneyTypeOK
<1> QED
  BY <1>1, ApplyChangeIsMoneyNext DEF Debit, Credit, Covers

=============================================================================
