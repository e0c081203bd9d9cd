--------------------------- MODULE AdjustmentForm ---------------------------
(***************************************************************************)
(* The page on which staff adjust the credits of any user                  *)
(* (admin/BalanceAdjustments.tsx): a form that is never disabled, a button *)
(* that waits for the adjustment under way and for what is loaded after    *)
(* it, what the page says of the adjustment, and the newest rows of the    *)
(* ledger.                                                                 *)
(*                                                                         *)
(* The server applies an adjustment in one step; UserAccounts takes it     *)
(* apart.  Amounts are told apart by being typed, not by their value.      *)
(***************************************************************************)
EXTENDS Naturals, Sequences

CONSTANTS Users,       \* accounts in the selection
          MaxTyped,    \* amounts that are typed
          MaxPresses,  \* presses of Apply
          Limit,       \* rows that are loaded
          MaxRows,     \* rows of the ledger
          AnswersLost, \* requests and answers can be lost
          Asked,       \* what a fetch has read that has read nothing
          None         \* null

AdjustmentFormAssumption ==
  /\ {MaxTyped, MaxPresses, MaxRows} \subseteq Nat /\ Limit \in Nat \ {0}
  /\ AnswersLost \in BOOLEAN /\ None \notin Users

Typed == 0 .. MaxTyped      \* 0: the field is empty

\* A row of the ledger: which press made it, 0 for those of others.
Row == [press : 0 .. MaxPresses, user : Users]
Adjustment == [user : Users, amount : 1 .. MaxTyped,
               at : {"sent", "applied", "refused",
                     "refreshing", "loading_users", "ended"},
               fresh : BOOLEAN]  \* the rows are loaded after it

VARIABLES user,   \* userId
          amount, \* amount: which of those that were typed
          typed,  \* how many were typed
          press,  \* the adjustments that were pressed and sent
          shown,  \* what the page says of the last press
          ledger, \* the rows of the server, oldest first
          rows,   \* transactions
          failed, \* the rows could not be loaded
          fetch   \* what the load under way has read

formVars == <<user, amount, typed>>
listVars == <<rows, failed, fetch>>
vars == <<formVars, press, shown, ledger, listVars>>

AdjustmentFormTypeOK ==
  /\ user \in Users \cup {None}
  /\ amount \in Typed /\ typed \in Typed /\ amount <= typed
  /\ press \in Seq(Adjustment) /\ Len(press) <= MaxPresses
  /\ shown \in {"nothing", "pending", "applied", "error"}
  /\ ledger \in Seq(Row) /\ Len(ledger) <= MaxRows
  /\ rows \in Seq(Row) \cup {None}
  /\ failed \in BOOLEAN
  /\ fetch \in Seq(Row) \cup {Asked, None}

Init ==
  /\ user = None /\ amount = 0 /\ typed = 0
  /\ press = << >> /\ shown = "nothing"
  /\ ledger = << >>
  /\ rows = None /\ failed = FALSE /\ fetch = Asked

-----------------------------------------------------------------------------
(* The form                                                                *)

SelectUser(u) ==
  /\ user' = u
  /\ UNCHANGED <<amount, typed, press, shown, ledger, listVars>>

\* What is said of the last press stays.
TypeAmount ==
  /\ typed < MaxTyped
  /\ typed' = typed + 1
  /\ amount' = typed'
  /\ UNCHANGED <<user, press, shown, ledger, listVars>>

\* mutationFn: nothing is sent without a user and an amount.
Apply ==
  /\ shown # "pending"
  /\ IF user = None \/ amount = 0
     THEN shown' = "error" /\ UNCHANGED press
     ELSE /\ Len(press) < MaxPresses
          /\ press' = Append(press, [user |-> user, amount |-> amount,
                                     at |-> "sent", fresh |-> FALSE])
          /\ shown' = "pending"
  /\ UNCHANGED <<formVars, ledger, listVars>>

-----------------------------------------------------------------------------
(* The server                                                              *)

\* adjustUserCredit, which refuses what the balance does not cover.
AdjustUserCredit(p) ==
  /\ press[p].at = "sent"
  /\ \/ /\ Len(ledger) < MaxRows
        /\ ledger' = Append(ledger, [press |-> p, user |-> press[p].user])
        /\ press' = [press EXCEPT ![p].at = "applied"]
     \/ /\ press' = [press EXCEPT ![p].at = "refused"]
        /\ UNCHANGED ledger
  /\ UNCHANGED <<formVars, shown, listVars>>

\* Other staff, payments and top-ups.
Others(u) ==
  /\ Len(ledger) < MaxRows
  /\ ledger' = Append(ledger, [press |-> 0, user |-> u])
  /\ UNCHANGED <<formVars, press, shown, listVars>>

\* fetchRecentCreditTransactions: the newest rows, the newest first.
Recent == LET n == Len(ledger)
          IN [k \in 1 .. (IF n > Limit THEN Limit ELSE n) |-> ledger[n + 1 - k]]

ReadRows ==
  /\ fetch = Asked
  /\ fetch' = Recent
  /\ UNCHANGED <<formVars, press, shown, ledger, rows, failed>>

-----------------------------------------------------------------------------
(* Answers                                                                 *)

Refused(p) ==
  /\ press[p].at = "refused"
  /\ press' = [press EXCEPT ![p].at = "ended"]
  /\ shown' = "error"
  /\ UNCHANGED <<formVars, ledger, listVars>>

Lost(p) ==
  /\ AnswersLost
  /\ press[p].at \in {"sent", "applied"}
  /\ press' = [press EXCEPT ![p].at = "ended"]
  /\ shown' = "error"
  /\ UNCHANGED <<formVars, ledger, listVars>>

\* The amount is emptied, one that was typed meanwhile as well; a load that is
\* under way is dropped for a new one, except the first, which goes on.
Applied(p) ==
  /\ press[p].at = "applied"
  /\ press' = [press EXCEPT ![p].at = "refreshing",
                            ![p].fresh = rows # None \/ fetch = None]
  /\ amount' = 0
  /\ fetch' = IF rows = None /\ fetch # None THEN fetch ELSE Asked
  /\ UNCHANGED <<user, typed, shown, ledger, rows, failed>>

\* An adjustment waits for the rows, and then for the list of users.
Waiting == {p \in DOMAIN press : press[p].at = "refreshing"}
NowUsers == press' = [p \in DOMAIN press |->
  IF p \in Waiting THEN [press[p] EXCEPT !.at = "loading_users"] ELSE press[p]]

RowsLoaded ==
  /\ fetch \notin {Asked, None}
  /\ rows' = fetch /\ failed' = FALSE /\ fetch' = None
  /\ NowUsers
  /\ UNCHANGED <<formVars, shown, ledger>>

RowsFail ==
  /\ AnswersLost
  /\ fetch # None
  /\ failed' = TRUE /\ fetch' = None
  /\ NowUsers
  /\ UNCHANGED <<formVars, shown, ledger, rows>>

\* The users have been loaded, or not.
Succeed(p) ==
  /\ press[p].at = "loading_users"
  /\ press' = [press EXCEPT ![p].at = "ended"]
  /\ shown' = "applied"
  /\ UNCHANGED <<formVars, ledger, listVars>>

\* The window is focused again: a load that is under way goes on.
Refocus ==
  /\ fetch = None
  /\ fetch' = Asked
  /\ UNCHANGED <<formVars, press, shown, ledger, rows, failed>>

-----------------------------------------------------------------------------
Next ==
  \/ \E u \in Users : SelectUser(u) \/ Others(u)
  \/ TypeAmount \/ Apply
  \/ \E p \in DOMAIN press : \/ AdjustUserCredit(p) \/ Refused(p) \/ Lost(p)
                             \/ Applied(p) \/ Succeed(p)
  \/ ReadRows \/ RowsLoaded \/ RowsFail \/ Refocus

Spec == Init /\ [][Next]_vars

-----------------------------------------------------------------------------
(* Properties                                                              *)

InLedger(p) == \E i \in DOMAIN ledger : ledger[i].press = p

(***************************************************************************)
(* An amount that was typed once is applied once at most, if no answer is  *)
(* lost: the button waits, and success empties the field                   *)
(* (BalanceAdjustments.tsx:62-63, 117).                                    *)
(***************************************************************************)
OncePerTyping ==
  \A p, q \in DOMAIN press :
    press[p].amount = press[q].amount /\ InLedger(p) /\ InLedger(q) => p = q

(***************************************************************************)
(* "Adjustment applied successfully." (BalanceAdjustments.tsx:131) is said *)
(* when the rows under it show the adjustment, as long as it is among the  *)
(* newest, or could not be loaded, which is said.  An adjustment that is   *)
(* answered during the very first load is an exception: that load goes on, *)
(* and may have read the rows before.                                      *)
(***************************************************************************)
Shows(list, p) == \E i \in DOMAIN list : list[i].press = p

AppliedIsListed ==
  LET p == Len(press) IN
  shown = "applied" /\ press[p].fresh /\ ~failed /\ Shows(Recent, p) => Shows(rows, p)
=============================================================================
