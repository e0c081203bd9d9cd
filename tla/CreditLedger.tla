---------------------------- MODULE CreditLedger ----------------------------
(***************************************************************************)
(* What the credit system promises a customer, whatever the service that   *)
(* moves the money: a balance that is never negative, and a statement to   *)
(* which lines are only ever appended, each line continuing the balance    *)
(* of the line before it, the last one being the balance shown.            *)
(*                                                                         *)
(* The detailed modules (OrderBilling, CreditTopups) are shown to          *)
(* implement this one.                                                     *)
(***************************************************************************)
EXTENDS Integers, Sequences

CONSTANT Users

VARIABLES credit,       \* credit[u]: the balance customer u sees
          statement     \* statement[u]: the lines <<amount, after>> of u

clVars == <<credit, statement>>

\* The balance in force when line i of a statement is written.
Before(lines, i) == IF i = 1 THEN 0 ELSE lines[i - 1].after

\* Line i continues its predecessor and leaves no debt.
Continues(lines, i) ==
  /\ lines[i].after = Before(lines, i) + lines[i].amount
  /\ lines[i].after >= 0

\* The balance a statement accounts for.
ClosingBalance(lines) == IF Len(lines) = 0 THEN 0 ELSE lines[Len(lines)].after

Balanced(u) ==
  /\ credit[u] = ClosingBalance(statement[u])
  /\ \A i \in 1 .. Len(statement[u]) : Continues(statement[u], i)

CLInit == \A u \in Users : Balanced(u)

-----------------------------------------------------------------------------
(***************************************************************************)
(* One committed transaction: it appends at least one line to the          *)
(* statement of one customer, rewrites none, and touches nobody else.      *)
(***************************************************************************)
Post(u) ==
  /\ Len(statement'[u]) > Len(statement[u])
  /\ \A i \in 1 .. Len(statement[u]) : statement'[u][i] = statement[u][i]
  /\ \A i \in (Len(statement[u]) + 1) .. Len(statement'[u]) :
        Continues(statement'[u], i)
  /\ credit'[u] = ClosingBalance(statement'[u])
  /\ \A v \in Users \ {u} : /\ credit'[v] = credit[v]
                            /\ statement'[v] = statement[v]

CLNext == \E u \in Users : Post(u)

CLSpec == CLInit /\ [][CLNext]_clVars
=============================================================================
