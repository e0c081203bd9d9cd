----------------------------- MODULE ReviewDesk -----------------------------
(***************************************************************************)
(* The two pages on which staff review what customers ask for: top-ups     *)
(* (admin/CreditTopups.tsx) and registrations (admin/Requests.tsx).  Both  *)
(* list what is pending, open a dialog to approve and one to reject, and   *)
(* send each confirmation as a call whose answer may be overtaken or lost. *)
(* They differ in what they wait for: the top-up page closes a dialog when *)
(* its latest call succeeds, after the list has been fetched again; the    *)
(* other page closes the dialog whenever any call ends.                    *)
(*                                                                         *)
(* The top-up page lists them by a search, a page and a page size, and     *)
(* react-query keeps a list for each: a view.  A view that is not shown    *)
(* stays as it was; it is shown at once when chosen again, and is fetched  *)
(* meanwhile.  Every view here lists all pending top-ups.  The page stays  *)
(* open, and fetches succeed in the end.                                   *)
(*                                                                         *)
(* The server handles a call in one step; CreditTopups and Registration    *)
(* take it apart.  Other staff may review meanwhile, where OthersReview.   *)
(***************************************************************************)
EXTENDS FiniteSets

CONSTANTS Page,          \* "topups" or "requests"
          Items,         \* top-ups, or registration requests
          Views,         \* searches, pages and page sizes of the list
          Calls,         \* calls this page makes, each one made once
          OthersReview,  \* other staff review too
          AnswersLost,   \* answers can be lost
          None,          \* null
          Asked          \* what a fetch has read before the server answers it

Pending == "pending"
Decisions == {"approve", "reject"}
Outcome == [approve |-> "approved", reject |-> "rejected"]
Call == [item : Items, decision : Decisions, at : {"sent", "ok", "refused", "refreshing", "ended"}]

ReviewDeskAssumption ==
  /\ Page \in {"topups", "requests"} /\ {OthersReview, AnswersLost} \subseteq BOOLEAN
  /\ Page = "requests" => \A v, w \in Views : v = w
  /\ None \notin Items \cup Calls \cup Call /\ Asked # None
  /\ \A R \in SUBSET Items : R \notin {None, Asked}

VARIABLES status,   \* the server's rows
          dialog,   \* for each decision the item its dialog is open for
          call,     \* the calls made
          latest,   \* the latest call of each mutation, which is the one shown
          view,     \* the view that is shown
          rows,     \* the rows cached for each view
          fetch,    \* the fetch of each view: what it has read
          joined,   \* views whose last fetch was joined after it was begun
          waits     \* the calls that wait for the fetch of each view

listVars == <<rows, fetch, joined, waits>>
deskVars == <<dialog, latest, view, listVars>>
vars == <<status, call, deskVars>>

DeskTypeOK ==
  /\ status \in [Items -> {"pending", "approved", "rejected"}]
  /\ dialog \in [Decisions -> Items \cup {None}]
  /\ call \in [Calls -> Call \cup {None}]
  /\ latest \in [Decisions -> Calls \cup {None}]
  /\ view \in Views
  /\ rows \in [Views -> (SUBSET Items) \cup {None}]
  /\ fetch \in [Views -> (SUBSET Items) \cup {None, Asked}]
  /\ joined \in SUBSET Views /\ waits \in [Views -> SUBSET Calls]
  /\ \E d \in Decisions : dialog[d] = None
  /\ \A v \in Views : fetch[v] = None => waits[v] = {}

Init ==
  /\ status = [i \in Items |-> Pending]
  /\ dialog = [d \in Decisions |-> None]
  /\ call = [c \in Calls |-> None]
  /\ latest = [d \in Decisions |-> None]
  /\ view \in Views
  /\ rows = [v \in Views |-> None]
  /\ fetch = [v \in Views |-> IF v = view THEN Asked ELSE None]
  /\ joined = {} /\ waits = [v \in Views |-> {}]

-----------------------------------------------------------------------------
(* The server                                                              *)

PendingItems == {i \in Items : status[i] = Pending}

\* A top-up is reviewed once; a registration as often as it is asked for.
Reviewable(i) == Page = "topups" => status[i] = Pending

Handle(c) ==
  /\ call[c] # None /\ call[c].at = "sent"
  /\ IF Reviewable(call[c].item)
     THEN /\ status' = [status EXCEPT ![call[c].item] = Outcome[call[c].decision]]
          /\ call' = [call EXCEPT ![c].at = "ok"]
     ELSE /\ call' = [call EXCEPT ![c].at = "refused"]
          /\ UNCHANGED status
  /\ UNCHANGED deskVars

ReviewByOther(i, d) ==
  /\ OthersReview
  /\ status[i] = Pending
  /\ status' = [status EXCEPT ![i] = Outcome[d]]
  /\ UNCHANGED <<call, deskVars>>

\* The server reads the rows for the fetch of a view.
ReadRows(v) ==
  /\ fetch[v] = Asked
  /\ fetch' = [fetch EXCEPT ![v] = PendingItems]
  /\ UNCHANGED <<status, call, dialog, latest, view, rows, joined, waits>>

-----------------------------------------------------------------------------
(* The page                                                                *)

\* isPending of a mutation: its latest call has not ended.
IsPending(d) == latest[d] # None /\ call[latest[d]].at # "ended"

\* Faulty: the buttons of a row are not disabled while a review is under way.
QuietAlways == TRUE

\* The buttons of the rows are disabled while a review is under way.
Quiet == \A d \in Decisions : ~IsPending(d)

\* The rows arrive, shown or not, and whoever waited for them goes on.
RowsAnswered(v) ==
  /\ fetch[v] \notin {None, Asked}
  /\ rows' = [rows EXCEPT ![v] = fetch[v]]
  /\ fetch' = [fetch EXCEPT ![v] = None]
  /\ waits' = [waits EXCEPT ![v] = {}]
  /\ UNCHANGED <<status, call, dialog, latest, view, joined>>

\* A query runs one fetch at a time.
Begin(v) == fetch' = [fetch EXCEPT ![v] = Asked] /\ joined' = joined \ {v}
Join(v) == joined' = joined \cup {v} /\ UNCHANGED fetch

NoDialog == \A e \in Decisions : dialog[e] = None   \* a dialog covers the page

\* setQ, setPage, setLimit: the cached rows of the view are shown, and fetched
\* again unless that is under way.
ChooseView(v) ==
  /\ v # view /\ NoDialog
  /\ view' = v
  /\ IF fetch[v] = None THEN Begin(v) ELSE Join(v)
  /\ UNCHANGED <<status, call, dialog, latest, rows, waits>>

\* Approve and Reject of a row.
OpenDialog(i, d) ==
  /\ rows[view] # None /\ i \in rows[view]
  /\ Quiet /\ NoDialog
  /\ dialog' = [dialog EXCEPT ![d] = i]
  /\ UNCHANGED <<status, call, latest, view, listVars>>

\* Only the approval of a top-up waits for the one under way (confirmDisabled).
Confirmable(d) ==
  /\ dialog[d] # None
  /\ Page = "topups" /\ d = "approve" => ~IsPending(d)

Confirm(c, d) ==
  /\ call[c] = None
  /\ Confirmable(d)
  /\ call' = [call EXCEPT ![c] = [item |-> dialog[d], decision |-> d, at |-> "sent"]]
  /\ latest' = [latest EXCEPT ![d] = c]
  /\ UNCHANGED <<status, dialog, view, listVars>>

Cancel(d) ==
  /\ dialog[d] # None
  /\ dialog' = [dialog EXCEPT ![d] = None]
  /\ UNCHANGED <<status, call, latest, view, listVars>>

\* invalidateQueries: the view that is shown is fetched again.  A fetch that
\* is under way is dropped, and nobody waits for it any more; but the first
\* one of a view goes on.
Loading == rows[view] = None /\ fetch[view] # None
Refresh == IF Loading THEN Join(view) ELSE Begin(view)
Await(C) == waits' = [waits EXCEPT ![view] = IF Loading THEN @ \cup C ELSE C]

\* onSuccess of the top-up page: it waits for the list before it ends the call.
Succeeded(c) ==
  /\ Page = "topups"
  /\ call[c] # None /\ call[c].at = "ok"
  /\ Refresh /\ Await({c})
  /\ call' = [call EXCEPT ![c].at = "refreshing"]
  /\ UNCHANGED <<status, dialog, latest, view, rows>>

\* Only the call the mutation shows has its dialog closed.
ClosedBy(c) ==
  IF c = latest[call[c].decision]
  THEN [dialog EXCEPT ![call[c].decision] = None] ELSE dialog

Refreshed(c) ==
  /\ call[c] # None /\ call[c].at = "refreshing"
  /\ \A v \in Views : c \notin waits[v]
  /\ call' = [call EXCEPT ![c].at = "ended"]
  /\ dialog' = ClosedBy(c)
  /\ UNCHANGED <<status, latest, view, listVars>>

\* onError of the top-up page: the dialog stays.
FailTopup(c) ==
  /\ Page = "topups"
  /\ UNCHANGED dialog

\* The registration page has no onError, and onSettled closes the dialog.
FailRequest(c) ==
  /\ Page = "requests"
  /\ dialog' = [dialog EXCEPT ![call[c].decision] = None]

Failed(c) ==
  /\ call[c] # None
  /\ \/ call[c].at = "refused"
     \/ AnswersLost /\ call[c].at = "ok"
  /\ call' = [call EXCEPT ![c].at = "ended"]
  /\ FailTopup(c) \/ FailRequest(c)
  /\ UNCHANGED <<status, latest, view, listVars>>

\* onSuccess and onSettled of the registration page.
Settled(c) ==
  /\ Page = "requests"
  /\ call[c] # None /\ call[c].at = "ok"
  /\ Refresh /\ Await({})
  /\ dialog' = [dialog EXCEPT ![call[c].decision] = None]
  /\ call' = [call EXCEPT ![c].at = "ended"]
  /\ UNCHANGED <<status, latest, view, rows>>

\* A request that does not reach the server.
Unsent(c) ==
  /\ AnswersLost
  /\ call[c] # None /\ call[c].at = "sent"
  /\ call' = [call EXCEPT ![c].at = "refused"]
  /\ UNCHANGED <<status, deskVars>>

-----------------------------------------------------------------------------
Next ==
  \/ \E i \in Items, d \in Decisions : ReviewByOther(i, d) \/ OpenDialog(i, d)
  \/ \E d \in Decisions : Cancel(d)
  \/ \E c \in Calls, d \in Decisions : Confirm(c, d)
  \/ \E c \in Calls : \/ Handle(c) \/ Unsent(c) \/ Failed(c)
                      \/ Succeeded(c) \/ Refreshed(c) \/ Settled(c)
  \/ \E v \in Views : ReadRows(v) \/ RowsAnswered(v) \/ ChooseView(v)

Spec == Init /\ [][Next]_vars

-----------------------------------------------------------------------------
(* Properties                                                              *)

(***************************************************************************)
(* A dialog closes by itself only over an item that was reviewed from it:  *)
(* an answer that comes late never closes the dialog of another item       *)
(* (CreditTopups.tsx:177-189, 247-253).                                    *)
(***************************************************************************)
ClosedIsReviewed ==
  \A d \in Decisions :
    dialog[d] # None /\ dialog'[d] = None =>
      \/ Cancel(d)
      \/ \E c \in Calls : /\ call[c] # None
                          /\ call[c].item = dialog[d] /\ call[c].decision = d

(***************************************************************************)
(* With no other staff and no lost answer, no button that can be pressed   *)
(* offers a top-up that was approved, in rows that are not fetched again:  *)
(* whoever returns to a view sees what it was before, while it is fetched. *)
(* The exception is a fetch that was begun before a review and joined      *)
(* after it: it brings the rows as they were, and nothing fetches them     *)
(* again (CreditTopups.tsx:36-55, 177-189).                                *)
(***************************************************************************)
UpToDate(v) == rows[v] # None /\ fetch[v] = None /\ v \notin joined

OfferedIsNotApproved ==
  Quiet /\ UpToDate(view) => \A i \in rows[view] : status[i] # "approved"

(***************************************************************************)
(* When no call is under way, the rows in view that are not fetched again  *)
(* are the ones the server has pending, with the same exception, no other  *)
(* staff and no lost answer.                                               *)
(***************************************************************************)
QuietRowsArePending ==
  /\ UpToDate(view)
  /\ \A c \in Calls : call[c] # None => call[c].at = "ended"
  => rows[view] = PendingItems

(***************************************************************************)
(* What the toast says (CreditTopups.tsx:62, "Reject failed"): the top-up  *)
(* was not rejected.  The button of the dialog is not disabled, and a      *)
(* second press is refused after the first has rejected it.                *)
(***************************************************************************)
FailedIsNotRejected ==
  [][\A c \in Calls :
       Failed(c) /\ call[c].decision = "reject" => status[call[c].item] # "rejected"]_vars

(***************************************************************************)
(* What the dialog says (Requests.tsx:123, "User will be activated."): a   *)
(* registration whose approval was confirmed is approved once the dialog   *)
(* has closed.  The dialog closes in the same way when the call failed.    *)
(***************************************************************************)
ConfirmedIsActivated ==
  \A c \in Calls :
    /\ call[c] # None /\ call[c].at = "ended" /\ call[c].decision = "approve"
    /\ dialog["approve"] = None
    => status[call[c].item] = "approved"
=============================================================================
