--------------------------- MODULE BalanceService ---------------------------
(***************************************************************************)
(* The one writer of users.credit_balance that the order, design, top-up   *)
(* and admin services share: BalanceService.applyChange.  It locks the     *)
(* user row, refuses a debit the balance does not cover, and writes the    *)
(* new balance and a balance_transactions row in the caller's database     *)
(* transaction, so that one call is one step here.                         *)
(*                                                                         *)
(* Amounts are whole units: the two-decimal rounding is not modelled.      *)
(***************************************************************************)
EXTENDS Integers, Sequences

CONSTANTS Users,      \* customers
          OrderIds,   \* identifiers an order row can be given
          References, \* what a caller may name as the cause of a change
          NoOrder,    \* order_id, or reference, IS NULL
          Opening     \* Opening[u]: what u topped up before the model starts

ASSUME BalanceAssumption ==
  /\ OrderIds \subseteq References
  /\ NoOrder \notin References
  /\ Opening \in [Users -> Nat]

VARIABLES balance,    \* balance[u]: users.credit_balance
          ledger      \* ledger[u]: u's balance_transactions rows, oldest first

moneyVars == <<balance, ledger>>

\* A balance_transactions row: order_id, reference, signed amount, balance_after.
LedgerRow == [order : OrderIds \cup {NoOrder}, reference : References \cup {NoOrder},
              amount : Int, after : Nat]

\* Faulty: the amount is recorded without its sign.
RowUnsigned(ref, delta, after) ==
  [order |-> IF ref \in OrderIds THEN ref ELSE NoOrder,
   reference |-> ref, amount |-> IF delta < 0 THEN 0 - delta ELSE delta, after |-> after]

\* The row of a change: a reference that is an order's id also links the order.
RowOf(ref, delta, after) ==
  [order |-> IF ref \in OrderIds THEN ref ELSE NoOrder,
   reference |-> ref, amount |-> delta, after |-> after]

MoneyTypeOK ==
  /\ balance \in [Users -> Nat]
  /\ ledger \in [Users -> Seq(LedgerRow)]

MoneyInit ==
  /\ balance = Opening
  /\ ledger = [u \in Users |->
                 IF Opening[u] = 0 THEN << >>
                 ELSE <<RowOf(NoOrder, Opening[u], Opening[u])>>]

-----------------------------------------------------------------------------
\* INSUFFICIENT_BALANCE is thrown exactly when this is false.
Covers(u, cost) == balance[u] >= cost

\* Faulty: the balance moves and no ledger row is written.
PostNoRows(u, rows) ==
  /\ balance' = [balance EXCEPT ![u] = rows[Len(rows)].after]
  /\ UNCHANGED ledger

(***************************************************************************)
(* Commit the ledger rows of one transaction and the balance of the last.  *)
(***************************************************************************)
PostRows(u, rows) ==
  /\ ledger' = [ledger EXCEPT ![u] = @ \o rows]
  /\ balance' = [balance EXCEPT ![u] = rows[Len(rows)].after]

ApplyChange(u, delta, ref) ==
  PostRows(u, <<RowOf(ref, delta, balance[u] + delta)>>)

\* Faulty: the balance is not looked at.
DebitUnchecked(u, cost, ref) == ApplyChange(u, 0 - cost, ref)

Debit(u, cost, ref) == Covers(u, cost) /\ ApplyChange(u, 0 - cost, ref)

Credit(u, amount, ref) == ApplyChange(u, amount, ref)

\* Some debit row of the order exists: the "existingTx" the handlers look up.
HasDebit(o) ==
  \E u \in Users : \E i \in DOMAIN ledger[u] :
     ledger[u][i].order = o /\ ledger[u][i].amount < 0

\* Faulty: ON DELETE CASCADE, the rows go with the order.
UnlinkCascade(o) ==
  /\ ledger' = [u \in Users |-> SelectSeq(ledger[u], LAMBDA row : row.order # o)]
  /\ UNCHANGED balance

\* ON DELETE SET NULL of balance_transactions.order_id.
Unlink(o) ==
  /\ ledger' = [u \in Users |-> [i \in DOMAIN ledger[u] |->
                  IF ledger[u][i].order = o
                  THEN [ledger[u][i] EXCEPT !.order = NoOrder]
                  ELSE ledger[u][i]]]
  /\ UNCHANGED balance

-----------------------------------------------------------------------------
\* Ledger rows without what caused them, the lines of a statement.
Lines(rows) == [i \in 1 .. Len(rows) |->
                  [amount |-> rows[i].amount, after |-> rows[i].after]]

\* What CreditLedger calls the statement.
Statement == [u \in Users |-> Lines(ledger[u])]

CL == INSTANCE CreditLedger WITH credit <- balance, statement <- Statement

(***************************************************************************)
(* Every balance is the balance_after of the customer's last ledger row,   *)
(* every row continues the one before it, and no row left a debt: the      *)
(* "single source of truth" of balance.service.ts:11-14.                   *)
(***************************************************************************)
LedgerBacksBalance == \A u \in Users : CL!Balanced(u)

(***************************************************************************)
(* Nothing any service does rewrites or drops a line of a customer's       *)
(* statement, or moves two customers' money in one transaction: the        *)
(* services implement the abstract ledger of CreditLedger.                 *)
(***************************************************************************)
KeepsLedgerPromise == CL!CLSpec
=============================================================================
