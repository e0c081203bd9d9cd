------------------------------ MODULE UserDesk ------------------------------
(***************************************************************************)
(* The page on which staff look a user up and add or deduct credits        *)
(* (admin/Users.tsx).  A click on a row loads the user and then the user's *)
(* history, the dialog shows whatever has been loaded last, and the modal  *)
(* opened from it adjusts the user that the dialog shows when Submit is    *)
(* pressed.  Loads and adjustments can be under way together, answer in    *)
(* any order, and fail.                                                    *)
(*                                                                         *)
(* The server applies an adjustment in one step; UserAccounts takes it     *)
(* apart.                                                                  *)
(***************************************************************************)
EXTENDS Naturals, FiniteSets

CONSTANTS Users,    \* rows of the table
          Loads,    \* clicks on rows, numbered as they are made
          Presses,  \* presses of Submit, numbered as they are made
          Fails,    \* requests and answers can be lost
          None      \* null

Load == [user : Users, at : {"user", "history", "ended"}]
Adjustment == [user : Users, at : {"sent", "applied", "refreshing", "ended"},
               applied : BOOLEAN, opening : Nat]

UserDeskAssumption ==
  /\ Loads \subseteq Nat /\ Presses \subseteq Nat
  /\ None \notin Users \cup Loads \cup Presses \cup Load \cup Adjustment

VARIABLES load,       \* the loads made
          selected,   \* selectedUserId
          detail,     \* the user whose data is loaded
          history,    \* the user whose history is loaded, None when empty
          modal,      \* the modal of the adjustment is open
          intended,   \* the user the dialog showed when the modal was opened,
                      \* None if it was opened while something was under way
          openings,   \* how many times the modal was opened
          press,      \* the adjustments sent
          misdirected,\* presses that went to another user than intended
          hasty,      \* presses sent while something was under way
          muddled     \* something was begun while something else was under way,
                      \* and no row was clicked and loaded alone since

vars == <<load, selected, detail, history, modal, intended, openings, press,
          misdirected, hasty, muddled>>

UserDeskTypeOK ==
  /\ load \in [Loads -> Load \cup {None}]
  /\ selected \in Users \cup {None}
  /\ detail \in Users \cup {None} /\ history \in Users \cup {None}
  /\ modal \in BOOLEAN
  /\ intended \in Users \cup {None}
  /\ openings \in 0..(Cardinality(Loads) + Cardinality(Presses) + 1)
  /\ press \in [Presses -> Adjustment \cup {None}]
  /\ misdirected \in SUBSET Presses /\ hasty \in SUBSET Presses
  /\ muddled \in BOOLEAN
  /\ modal => detail # None

Init ==
  /\ load = [l \in Loads |-> None]
  /\ selected = None /\ detail = None /\ history = None
  /\ modal = FALSE /\ intended = None /\ openings = 0
  /\ press = [p \in Presses |-> None]
  /\ misdirected = {} /\ hasty = {} /\ muddled = FALSE

\* How often a run opens the modal.
MaxOpenings == Cardinality(Presses) + 1

-----------------------------------------------------------------------------
(* The dialog of a user                                                    *)

Loading == \E l \in Loads : load[l] # None /\ load[l].at # "ended"
Adjusting == \E p \in Presses : press[p] # None /\ press[p].at # "ended"
Shown == selected # None /\ detail # None
Busy == Loading \/ Adjusting

modalVars == <<modal, intended, openings, press, misdirected, hasty>>

\* A row can be clicked while neither the dialog nor the modal covers it.
Click(l, u) ==
  /\ load[l] = None /\ \A k \in Loads : k < l => load[k] # None
  /\ ~Shown /\ ~modal
  /\ selected' = u
  /\ load' = [load EXCEPT ![l] = [user |-> u, at |-> "user"]]
  /\ muddled' = (muddled \/ Busy)
  /\ UNCHANGED <<detail, history, modalVars>>

\* Faulty: the user is loaded without the history (loadDetail).
UserLoadedOnly(l) ==
  /\ load[l] # None /\ load[l].at = "user"
  /\ detail' = load[l].user
  /\ load' = [load EXCEPT ![l].at = "ended"]
  /\ UNCHANGED <<selected, history, modalVars, muddled>>

\* Only load l is under way, and it is of the row that was clicked last.
Alone(l) ==
  /\ load[l].user = selected /\ ~Adjusting
  /\ \A k \in Loads \ {l} : load[k] # None => load[k].at = "ended"

UserLoaded(l) ==
  /\ load[l] # None /\ load[l].at = "user"
  /\ detail' = load[l].user
  /\ load' = [load EXCEPT ![l].at = "history"]
  /\ muddled' = (muddled /\ ~Alone(l))
  /\ UNCHANGED <<selected, history, modalVars>>

\* Nobody catches the error: what was loaded before stays.
UserNotLoaded(l) ==
  /\ Fails
  /\ load[l] # None /\ load[l].at = "user"
  /\ load' = [load EXCEPT ![l].at = "ended"]
  /\ UNCHANGED <<selected, detail, history, modalVars, muddled>>

HistoryLoaded(l) ==
  /\ load[l] # None /\ load[l].at = "history"
  /\ \/ history' = load[l].user
     \/ Fails /\ history' = None
  /\ load' = [load EXCEPT ![l].at = "ended"]
  /\ UNCHANGED <<selected, detail, modalVars, muddled>>

\* Faulty: the dialog forgets its user when it closes, under the modal too.
CloseUnder ==
  /\ Shown
  /\ selected' = None /\ detail' = None
  /\ UNCHANGED <<load, history, modalVars, muddled>>

Close ==
  /\ Shown /\ ~modal
  /\ selected' = None
  /\ UNCHANGED <<load, detail, history, modalVars, muddled>>

-----------------------------------------------------------------------------
(* The modal                                                               *)

\* Add Credit and Deduct Credit.
OpenModal ==
  /\ Shown /\ ~modal
  /\ openings < MaxOpenings
  /\ modal' = TRUE
  /\ intended' = IF Busy THEN None ELSE detail
  /\ openings' = openings + 1
  /\ UNCHANGED <<load, selected, detail, history, press, misdirected, hasty, muddled>>

CancelModal ==
  /\ modal
  /\ modal' = FALSE
  /\ UNCHANGED <<load, selected, detail, history, intended, openings, press, misdirected, hasty, muddled>>

\* Submit is not disabled while an adjustment is under way.
Submit(p) ==
  /\ press[p] = None /\ \A q \in Presses : q < p => press[q] # None
  /\ modal
  /\ press' = [press EXCEPT ![p] =
       [user |-> detail, at |-> "sent", applied |-> FALSE, opening |-> openings]]
  /\ misdirected' = IF intended \in {detail, None} THEN misdirected ELSE misdirected \cup {p}
  /\ hasty' = IF Busy THEN hasty \cup {p} ELSE hasty
  /\ muddled' = (muddled \/ Busy)
  /\ UNCHANGED <<load, selected, detail, history, modal, intended, openings>>

\* adjustUserCredit
Apply(p) ==
  /\ press[p] # None /\ press[p].at = "sent"
  /\ press' = [press EXCEPT ![p].at = "applied", ![p].applied = TRUE]
  /\ UNCHANGED <<load, selected, detail, history, modal, intended, openings, misdirected, hasty, muddled>>

\* The user that was adjusted is loaded and shown.
ReloadUser(p) ==
  /\ press[p] # None /\ press[p].at = "applied"
  /\ detail' = press[p].user
  /\ press' = [press EXCEPT ![p].at = "refreshing"]
  /\ UNCHANGED <<load, selected, history, modal, intended, openings, misdirected, hasty, muddled>>

\* So is the history, and the modal that is open by then is closed.
ReloadHistory(p) ==
  /\ press[p] # None /\ press[p].at = "refreshing"
  /\ history' = press[p].user
  /\ modal' = FALSE
  /\ press' = [press EXCEPT ![p].at = "ended"]
  /\ UNCHANGED <<load, selected, detail, intended, openings, misdirected, hasty, muddled>>

\* Any of the three requests fails, or its answer is lost.
PressFails(p) ==
  /\ Fails
  /\ press[p] # None /\ press[p].at # "ended"
  /\ press' = [press EXCEPT ![p].at = "ended"]
  /\ UNCHANGED <<load, selected, detail, history, modal, intended, openings, misdirected, hasty, muddled>>

-----------------------------------------------------------------------------
Next ==
  \/ \E l \in Loads : \/ \E u \in Users : Click(l, u)
                      \/ UserLoaded(l) \/ UserNotLoaded(l) \/ HistoryLoaded(l)
  \/ Close \/ OpenModal \/ CancelModal
  \/ \E p \in Presses : \/ Submit(p) \/ Apply(p)
                        \/ ReloadUser(p) \/ ReloadHistory(p) \/ PressFails(p)

Spec == Init /\ [][Next]_vars

-----------------------------------------------------------------------------
(* Properties                                                              *)

(***************************************************************************)
(* When nothing is under way, the dialog shows the user whose row was      *)
(* clicked with that user's history, or with none if it could not be had,  *)
(* though both outlive the dialog of the user before (Users.tsx:67-77), if *)
(* no request is lost.  It may not where requests overlapped; a row that   *)
(* is clicked and loaded alone puts that right.                            *)
(***************************************************************************)
ShownIsClicked ==
  ~muddled /\ Shown /\ ~Busy => detail = selected /\ history \in {selected, None}

(***************************************************************************)
(* One opening of the modal applies one adjustment at most of those that   *)
(* were sent while nothing was under way, if no request is lost.           *)
(***************************************************************************)
OncePerOpening ==
  \A p, q \in Presses \ hasty :
    /\ press[p] # None /\ press[q] # None
    /\ press[p].applied /\ press[q].applied
    /\ press[p].opening = press[q].opening
    => p = q

(***************************************************************************)
(* What the dialog says (Users.tsx:143 "User Detail", 172 "Recent credit   *)
(* history"): the history is of the user it stands under, once everything  *)
(* is loaded, also after requests failed.  Two clicks can answer in any    *)
(* order; a row that is clicked and loaded alone puts that right.          *)
(***************************************************************************)
HistoryIsOfUser ==
  ~muddled /\ Shown /\ ~Busy /\ history # None => history = detail

(***************************************************************************)
(* What the button says (Users.tsx:159, "Add Credit", in the dialog of a   *)
(* user): the credit is added to that user.  The modal names nobody, and   *)
(* the user under it is replaced when a load or an adjustment of another   *)
(* user answers; if none was under way as the modal was opened, no answer  *)
(* does, however often and however fast Submit is pressed.                 *)
(***************************************************************************)
AddedToShown == misdirected = {}

(***************************************************************************)
(* What the toast says (Users.tsx:230, "Adjustment failed"): nothing was   *)
(* adjusted.                                                               *)
(***************************************************************************)
FailedIsNotAdjusted ==
  [][\A p \in Presses : PressFails(p) => ~press[p].applied]_vars
=============================================================================
