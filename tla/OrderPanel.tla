------------------------------ MODULE OrderPanel ------------------------------
(***************************************************************************)
(* The panel in which staff look at one order of the list and edit it:     *)
(* AdminOrderDetailModal, with the queries and mutations that              *)
(* AdminOrdersPage gives it.  What the panel shows is a copy: the order's  *)
(* own query, or, until that has an answer, the order's row in the list.   *)
(*                                                                         *)
(* Every mutation is answered with the whole order as the server saved it  *)
(* and both copies take it over; the list is then fetched again, the       *)
(* order's own query is not.  The server serves one request at a time      *)
(* here: what its handlers can do to each other is the subject of          *)
(* OrderBilling.  Nobody else edits the orders.                            *)
(***************************************************************************)
EXTENDS Naturals, Sequences, FiniteSets

CONSTANTS Orders, NoOrder,
          Texts,      \* notes and URLs that are typed, but for the empty one
          Fields,     \* "note", "result": the texts that are edited
          Selects,    \* the selects that are used: "status", "payment"
          MaxCalls,   \* mutations
          Overlap     \* actions are taken while others are under way

Empty == ""
Drafted == Texts \cup {Empty}
Statuses == {"processing", "completed", "failed"}

PanelAssumption ==
  /\ NoOrder \notin Orders /\ Empty \notin Texts
  /\ Fields \subseteq {"note", "result"}
  /\ Selects \subseteq {"status", "payment"}
  /\ MaxCalls \in Nat /\ Overlap \in BOOLEAN

VARIABLES row,      \* row[o]: the order in the database
          listed,   \* listed[o]: its row in the cache of the list
          detail,   \* detail[o]: the cache of its own query
          look,     \* look[o]: the fetch of that query under way
          relist,   \* the fetch of the list under way
          open,     \* the order in the panel
          draft,    \* notesDraft and resultDraft
          asking,   \* pendingAction
          notice,   \* actionNotice
          calls     \* the mutations, in the order they were started

vars == <<row, listed, detail, look, relist, open, draft, asking, notice, calls>>
caches == <<listed, detail>>
panel == <<open, draft, asking, notice>>

Order == [status : Statuses, payment : {"unpaid", "paid"}, note : Drafted, result : Drafted]
None == [kind |-> "none"]
Asking == {None} \cup [kind : {"complete", "fail"}, order : Orders, text : Texts]
Notice == {None} \cup [kind : {"success", "error"}, order : Orders]
Kinds == {"status", "payment", "result", "note"}

Call == [kind : Kinds, order : Orders,
         value : Statuses \cup {"unpaid", "paid", "error"} \cup Drafted,
         next : Statuses \cup {"none"},   \* the status that is set after it
         by : {"panel", "dialog"},       \* dialog: Mark Completed, Mark Failed
         pc : {"sent", "answered", "refused", "dropped", "done", "lost"},
         answer : Order]

Fetch(value) == {None} \cup [kind : {"sent"}] \cup [kind : {"answered"}, value : value]

-----------------------------------------------------------------------------
Over == {"done", "lost"}

\* isSavingStatus and the like: the last mutation of that kind is pending.
Saving(kind) ==
  \E i \in 1..Len(calls) :
    /\ calls[i].kind = kind /\ calls[i].pc \notin Over
    /\ \A j \in (i + 1)..Len(calls) : calls[j].kind # kind

UnderWay == {i \in 1..Len(calls) : calls[i].pc \notin Over}

Quiet ==
  /\ UnderWay = {}
  /\ relist = None /\ \A o \in Orders : look[o] = None

\* Only one thing at a time, where that is asked for, and a bound on them all.
MayStart(n) ==
  /\ Len(calls) + n <= MaxCalls
  /\ Overlap \/ Quiet

\* selectedOrder
Shown(o, dt, ls) == IF dt[o].kind = "row" THEN dt[o].value ELSE ls[o]

\* What the effect on the drafts depends on.  Only rows of the list have
\* internalNotes, so that the source of the order tells, too.
Depends(o, dt, ls) ==
  IF o = NoOrder THEN None
  ELSE [kind |-> dt[o].kind, note |-> Shown(o, dt, ls).note, result |-> Shown(o, dt, ls).result]

\* The effects of a change of the order shown: drafts are those of the order
\* again when a value they depend on changed.
Effects(typed) ==
  draft' = IF Depends(open', detail', listed') = Depends(open, detail, listed) THEN typed
           ELSE IF open' = NoOrder THEN [note |-> Empty, result |-> Empty]
           ELSE [note |-> Shown(open', detail', listed').note,
                 result |-> Shown(open', detail', listed').result]

\* Types, and: a confirmation is about the order in the panel.
PanelTypeOK ==
  /\ row \in [Orders -> Order] /\ listed \in [Orders -> Order]
  /\ \A o \in Orders : detail[o] \in {None} \cup [kind : {"row"}, value : Order]
  /\ \A o \in Orders : look[o] \in Fetch(Order)
  /\ relist \in Fetch([Orders -> Order])
  /\ open \in Orders \cup {NoOrder}
  /\ draft \in [note : Drafted, result : Drafted]
  /\ asking \in Asking /\ notice \in Notice
  /\ calls \in Seq(Call)
  /\ asking # None => asking.order = open

Init ==
  /\ row = [o \in Orders |-> [status |-> "processing", payment |-> "unpaid",
                              note |-> Empty, result |-> Empty]]
  /\ listed = row
  /\ detail = [o \in Orders |-> None]
  /\ look = [o \in Orders |-> None]
  /\ relist = None
  /\ open = NoOrder
  /\ draft = [note |-> Empty, result |-> Empty]
  /\ asking = None /\ notice = None
  /\ calls = << >>

-----------------------------------------------------------------------------
\* A row of the list is clicked: the order's own query is mounted, and fetches.
Open(o) ==
  /\ open = NoOrder
  /\ Overlap \/ Quiet
  /\ open' = o
  /\ look' = [look EXCEPT ![o] = IF @ = None THEN [kind |-> "sent"] ELSE @]
  /\ asking' = None /\ notice' = None
  /\ UNCHANGED <<row, caches, relist, calls>>
  /\ Effects(draft)

\* onClose
Close ==
  /\ open # NoOrder
  /\ open' = NoOrder
  /\ asking' = None /\ notice' = None
  /\ UNCHANGED <<row, caches, look, relist, calls>>
  /\ Effects(draft)

Type(field, text) ==
  /\ open # NoOrder
  /\ field = "result" => ~Saving("result")
  /\ draft' = [draft EXCEPT ![field] = text]
  /\ UNCHANGED <<row, caches, look, relist, open, asking, notice, calls>>

-----------------------------------------------------------------------------
NewCall(kind, o, value, next, by) ==
  [kind |-> kind, order |-> o, value |-> value, next |-> next, by |-> by,
   pc |-> "sent", answer |-> row[o]]

Start(kind, o, value, next, by) ==
  /\ calls' = Append(calls, NewCall(kind, o, value, next, by))
  /\ UNCHANGED <<row, caches, look, relist, open, draft, notice>>

\* The selects; the one for the status offers "error", which is none.
Choose(kind, value) ==
  /\ open # NoOrder /\ kind \in Selects
  /\ ~Saving(kind) /\ MayStart(1)
  /\ value # Shown(open, detail, listed)[kind]
  /\ value \in IF kind = "status" THEN {"processing", "completed", "error"} ELSE {"unpaid", "paid"}
  /\ Start(kind, open, value, "none", "panel")
  /\ UNCHANGED asking

\* Save result and Save notes
Save(field) ==
  /\ open # NoOrder
  /\ ~Saving(field) /\ MayStart(1)
  /\ Start(field, open, draft[field], "none", "panel")
  /\ UNCHANGED asking

FieldOf(action) == IF action = "complete" THEN "result" ELSE "note"

\* Mark Completed and Mark Failed, which want a text first.
Ask(action) ==
  /\ open # NoOrder
  /\ Shown(open, detail, listed).status = "processing"
  /\ ~Saving(FieldOf(action)) /\ ~Saving("status")
  /\ draft[FieldOf(action)] # Empty
  /\ asking' = [kind |-> action, order |-> open, text |-> draft[FieldOf(action)]]
  /\ UNCHANGED <<row, caches, look, relist, open, draft, notice, calls>>

CancelAsk ==
  /\ asking # None
  /\ asking' = None
  /\ UNCHANGED <<row, caches, look, relist, open, draft, notice, calls>>

\* completeOrder and failOrder, up to their first request.
ConfirmAsk ==
  /\ asking # None /\ MayStart(2)
  /\ asking' = None
  /\ Start(FieldOf(asking.kind), asking.order, asking.text,
           IF asking.kind = "complete" THEN "completed" ELSE "failed", "dialog")

-----------------------------------------------------------------------------
\* The server sets the field, or refuses to: "error" is no OrderStatus, and
\* an empty text is no URL.
Serve(i) ==
  LET c == calls[i] IN
  /\ c.pc = "sent"
  /\ \/ /\ c.value # "error"
        /\ c.kind = "result" => c.value # Empty
        /\ row' = [row EXCEPT ![c.order][c.kind] = c.value]
        /\ calls' = [calls EXCEPT ![i].pc = "answered", ![i].answer = row'[c.order]]
     \/ /\ calls' = [calls EXCEPT ![i].pc = "refused"]
        /\ UNCHANGED row
  /\ UNCHANGED <<caches, look, relist, panel>>

\* The answer is lost on its way: a failure to the page.
Lose(i) ==
  /\ calls[i].pc = "answered"
  /\ calls' = [calls EXCEPT ![i].pc = "dropped"]
  /\ UNCHANGED <<row, caches, look, relist, panel>>

\* patchOrderCaches
Patch(o, order) ==
  /\ listed' = [listed EXCEPT ![o] = order]
  /\ detail' = [detail EXCEPT ![o] = IF @ = None THEN None ELSE [kind |-> "row", value |-> order]]

\* runActionWithNotice: the notice of an action's last request, and of its first
\* that failed.
Tell(c) ==
  IF c.pc # "answered" THEN [kind |-> "error", order |-> c.order]
  ELSE IF c.next = "none" THEN [kind |-> "success", order |-> c.order] ELSE notice

\* onSuccess, onSettled, and what awaits the mutation.  The list is fetched
\* again, from the start if it was on its way.
Receive(i) ==
  LET c == calls[i]
      done == [calls EXCEPT ![i].pc = IF @ = "dropped" THEN "lost" ELSE "done"]
  IN  /\ c.pc \in {"answered", "refused", "dropped"}
      /\ IF c.pc = "answered" THEN Patch(c.order, c.answer) ELSE UNCHANGED caches
      /\ calls' = IF c.pc = "answered" /\ c.next # "none"
                  THEN Append(done, NewCall("status", c.order, c.next, "none", "dialog")) ELSE done
      /\ relist' = [kind |-> "sent"]
      /\ notice' = Tell(c)
      /\ UNCHANGED <<row, look, open, asking>>
      /\ Effects(draft)

ServeDetail(o) ==
  /\ look[o] = [kind |-> "sent"]
  /\ look' = [look EXCEPT ![o] = [kind |-> "answered", value |-> row[o]]]
  /\ UNCHANGED <<row, caches, relist, panel, calls>>

DetailArrives(o) ==
  /\ look[o].kind = "answered"
  /\ detail' = [detail EXCEPT ![o] = [kind |-> "row", value |-> look[o].value]]
  /\ look' = [look EXCEPT ![o] = None]
  /\ UNCHANGED <<row, listed, relist, open, asking, notice, calls>>
  /\ Effects(draft)

ServeList ==
  /\ relist = [kind |-> "sent"]
  /\ relist' = [kind |-> "answered", value |-> row]
  /\ UNCHANGED <<row, caches, look, panel, calls>>

ListArrives ==
  /\ relist.kind = "answered"
  /\ listed' = relist.value
  /\ relist' = None
  /\ UNCHANGED <<row, detail, look, open, asking, notice, calls>>
  /\ Effects(draft)

Next ==
  \/ \E o \in Orders : Open(o) \/ ServeDetail(o) \/ DetailArrives(o)
  \/ Close
  \/ \E field \in Fields, text \in Drafted : Type(field, text)
  \/ \E kind \in Selects, value \in Statuses \cup {"unpaid", "paid", "error"} : Choose(kind, value)
  \/ \E field \in Fields : Save(field)
  \/ \E action \in {"complete", "fail"} : Ask(action)
  \/ CancelAsk \/ ConfirmAsk
  \/ \E i \in 1..Len(calls) : Serve(i) \/ Lose(i) \/ Receive(i)
  \/ ServeList \/ ListArrives

Spec == Init /\ [][Next]_vars

-----------------------------------------------------------------------------
\* Whatever overlaps, the list has the orders as they are once nothing is on
\* its way: the fetch after a mutation is begun anew by the next one.
ListCatchesUp ==
  UnderWay = {} /\ relist = None => listed = row

\* Taken one at a time, actions leave the panel with the order as it is, as
\* long as no answer is lost: the order's own query is not fetched again.
PanelCatchesUp ==
  /\ Quiet /\ open # NoOrder
  /\ \A i \in 1..Len(calls) : calls[i].order = open => calls[i].pc # "lost"
  => Shown(open, detail, listed) = row[open]

\* Taken one at a time, Mark Completed and Mark Failed set the status of an
\* order that has the text they asked for: after it was saved, and not when
\* it was refused.  The select of the panel sets a status without any text.
ClosedWithText ==
  \A i \in 1..Len(calls) :
    LET c == calls[i] IN
      c.kind = "status" /\ c.by = "dialog" /\ c.pc = "sent" /\ calls'[i].pc = "answered"
        => row[c.order][IF c.value = "completed" THEN "result" ELSE "note"] # Empty

\* The comment in the effect on the order shown: "clear any stale
\* confirmations".  What the panel tells is about the order it shows.
NoticeIsAboutShown ==
  open # NoOrder /\ notice # None => notice.order = open

=============================================================================
