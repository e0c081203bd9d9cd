----------------------------- MODULE LabelImport -----------------------------
(***************************************************************************)
(* Confirming an Excel preview.  A preview is a list of checked rows that  *)
(* Redis keeps for an hour; confirming it makes, row by row and each in a  *)
(* statement or transaction of its own, a label, its order, the payment of *)
(* the order and the job for the worker, and at the end deletes the        *)
(* preview.  Two confirmations of one preview, or of two previews with the *)
(* same client request ids, may run at once, and one may stop anywhere:    *)
(* the unique index on (user_id, client_request_id) fails its insert, or   *)
(* Redis its push, or the process ends.                                    *)
(***************************************************************************)
EXTENDS Integers, Sequences, FiniteSets

CONSTANTS Users,
          RequestIds,    \* client request ids customers put in their files
          NoRequestId,   \* client_request_id IS NULL
          Previews,      \* previews made
          Rows,          \* Rows[p]: the checked rows of preview p
          Owner,         \* Owner[p]: who uploaded it
          Confirmations, \* confirm requests, each served once
          MaxOverlap,    \* confirmations served at once
          MaxFaults      \* failed pushes and process ends of a behaviour

\* A row of a preview: what the file said of it, and what validateRow said.
Row == [request : RequestIds \cup {NoRequestId}, valid : BOOLEAN]

LabelImportAssumption ==
  /\ NoRequestId \notin RequestIds
  /\ Rows \in [Previews -> Seq(Row)]
  /\ Owner \in [Previews -> Users]
  /\ MaxOverlap \in Nat
  /\ MaxFaults \in Nat

VARIABLES made,     \* previews answered with an id
          stored,   \* previews Redis has
          labels,   \* rows of the labels table, in the order of their inserts
          orders,   \* their orders, likewise
          conf,     \* conf[c]: where confirmation c stands
          faults

vars == <<made, stored, labels, orders, conf, faults>>

Label == [user : Users, request : RequestIds \cup {NoRequestId},
          preview : Previews, row : Nat]

LabelOrder == [label : Nat, paid : BOOLEAN]

\* i: the row; label, order: positions of what was made for it; labelIds,
\* paid, unpaid: the lists of the reply.
Confirmation ==
  [pc : {"idle", "row", "insert", "order", "pay", "push", "delete", "done", "failed"},
   preview : Previews, i : Nat, label : Nat, order : Nat, exhausted : BOOLEAN,
   labelIds : Seq(Nat), paid : Seq(Nat), unpaid : Seq(Nat)]

LabelTypeOK ==
  /\ stored \subseteq made /\ made \subseteq Previews
  /\ labels \in Seq(Label)
  /\ orders \in Seq(LabelOrder)
  /\ conf \in [Confirmations -> Confirmation]
  /\ \A c \in Confirmations : conf[c].labelIds \in Seq(DOMAIN labels)
  /\ faults \in 0 .. MaxFaults

Start(p) == [pc |-> "row", preview |-> p, i |-> 1, label |-> 0, order |-> 0,
             exhausted |-> FALSE, labelIds |-> << >>, paid |-> << >>, unpaid |-> << >>]

Init ==
  /\ made = {} /\ stored = {}
  /\ labels = << >> /\ orders = << >>
  /\ \E p \in Previews : conf = [c \in Confirmations |-> [Start(p) EXCEPT !.pc = "idle"]]
  /\ faults = 0

-----------------------------------------------------------------------------
Ended == {"idle", "done", "failed"}

Running == {c \in Confirmations : conf[c].pc \notin Ended}

Goto(c, state) == conf' = [conf EXCEPT ![c] = state]

Fault == faults < MaxFaults /\ faults' = faults + 1

\* createPreview: setex is not awaited, the id is answered even if it fails.
CreatePreview(p) ==
  /\ p \notin made
  /\ made' = made \cup {p}
  /\ \/ stored' = stored \cup {p} /\ UNCHANGED faults
     \/ Fault /\ UNCHANGED stored
  /\ UNCHANGED <<labels, orders, conf>>

\* The key's time to live is over.
PreviewExpires(p) ==
  /\ p \in stored
  /\ stored' = stored \ {p}
  /\ UNCHANGED <<made, labels, orders, conf, faults>>

\* getPreview: the preview is there and is the caller's own.
Confirm(c, u, p) ==
  /\ conf[c].pc = "idle"
  /\ Cardinality(Running) < MaxOverlap
  /\ p \in stored
  /\ Owner[p] = u
  /\ Goto(c, Start(p))
  /\ UNCHANGED <<made, stored, labels, orders, faults>>

\* Labels of one customer with one client request id.
SameRequest(u, id) ==
  {l \in DOMAIN labels : labels[l].user = u /\ labels[l].request = id}

\* Faulty: a row that is there already is passed over in silence.
NextRowSilent(c) ==
  LET q == conf[c]
      u == Owner[q.preview] IN
  /\ q.pc = "row"
  /\ IF q.i > Len(Rows[q.preview]) THEN Goto(c, [q EXCEPT !.pc = "delete"])
     ELSE LET row == Rows[q.preview][q.i] IN
          Goto(c, IF ~row.valid \/ SameRequest(u, row.request) # {}
                  THEN [q EXCEPT !.i = @ + 1] ELSE [q EXCEPT !.pc = "insert"])
  /\ UNCHANGED <<made, stored, labels, orders, faults>>

(***************************************************************************)
(* The next row: invalid ones are counted, those whose client request id   *)
(* already has a label are answered with it, the others go on.             *)
(***************************************************************************)
NextRow(c) ==
  LET q == conf[c]
      u == Owner[q.preview] IN
  /\ q.pc = "row"
  /\ IF q.i > Len(Rows[q.preview]) THEN Goto(c, [q EXCEPT !.pc = "delete"])
     ELSE LET row == Rows[q.preview][q.i] IN
          \/ /\ ~row.valid
             /\ Goto(c, [q EXCEPT !.i = @ + 1])
          \/ /\ row.valid /\ row.request # NoRequestId
             /\ \E l \in SameRequest(u, row.request) :
                   Goto(c, [q EXCEPT !.i = @ + 1, !.labelIds = Append(@, l)])
          \/ /\ row.valid
             /\ row.request # NoRequestId => SameRequest(u, row.request) = {}
             /\ Goto(c, [q EXCEPT !.pc = "insert"])
  /\ UNCHANGED <<made, stored, labels, orders, faults>>

\* ux_labels_user_client_req
Taken(u, id) == id # NoRequestId /\ SameRequest(u, id) # {}

\* Saving the label; the unique index refuses a second one and with it the
\* whole request.
InsertLabel(c) ==
  LET q == conf[c]
      u == Owner[q.preview]
      row == Rows[q.preview][q.i] IN
  /\ q.pc = "insert"
  /\ \/ /\ Taken(u, row.request)
        /\ Goto(c, [q EXCEPT !.pc = "failed"])
        /\ UNCHANGED labels
     \/ /\ ~Taken(u, row.request)
        /\ labels' = Append(labels, [user |-> u, request |-> row.request,
                                     preview |-> q.preview, row |-> q.i])
        /\ Goto(c, [q EXCEPT !.pc = "order", !.label = Len(labels'),
                             !.labelIds = Append(@, Len(labels'))])
  /\ UNCHANGED <<made, stored, orders, faults>>

\* createOrderFromLabel: the orders that exist for the label.
OrdersOf(l) == {o \in DOMAIN orders : orders[o].label = l}

CreateOrderFromLabel(c) ==
  LET q == conf[c] IN
  /\ q.pc = "order"
  /\ \/ /\ OrdersOf(q.label) = {}
        /\ orders' = Append(orders, [label |-> q.label, paid |-> FALSE])
        /\ Goto(c, [q EXCEPT !.pc = "pay", !.order = Len(orders')])
     \/ /\ \E o \in OrdersOf(q.label) : Goto(c, [q EXCEPT !.pc = "pay", !.order = o])
        /\ UNCHANGED orders
  /\ UNCHANGED <<made, stored, labels, faults>>

\* autoPayOrderIfPossible, unless the balance ran out at an earlier row; an
\* error of it counts as not paid.  Whether the balance covers it is free.
AutoPay(c, covered) ==
  LET q == conf[c] IN
  /\ q.pc = "pay"
  /\ covered => ~q.exhausted
  /\ orders' = [orders EXCEPT ![q.order].paid = @ \/ covered]
  /\ Goto(c, [q EXCEPT !.pc = "push", !.exhausted = ~covered,
                       !.paid = IF covered THEN Append(@, q.order) ELSE @,
                       !.unpaid = IF covered THEN @ ELSE Append(@, q.order)])
  /\ UNCHANGED <<made, stored, labels, faults>>

Enqueue(c) ==
  /\ conf[c].pc = "push"
  /\ Goto(c, [conf[c] EXCEPT !.pc = "row", !.i = @ + 1])
  /\ UNCHANGED <<made, stored, labels, orders, faults>>

EnqueueFails(c) ==
  /\ conf[c].pc = "push"
  /\ Fault
  /\ Goto(c, [conf[c] EXCEPT !.pc = "failed"])
  /\ UNCHANGED <<made, stored, labels, orders>>

DeletePreview(c) ==
  /\ conf[c].pc = "delete"
  /\ stored' = stored \ {conf[c].preview}
  /\ Goto(c, [conf[c] EXCEPT !.pc = "done"])
  /\ UNCHANGED <<made, labels, orders, faults>>

\* The process ends and is restarted: its confirmations are gone.
ProcessEnds ==
  /\ Running # {}
  /\ Fault
  /\ conf' = [c \in Confirmations |->
                IF c \in Running THEN [conf[c] EXCEPT !.pc = "failed"] ELSE conf[c]]
  /\ UNCHANGED <<made, stored, labels, orders>>

Next ==
  \/ \E p \in Previews : CreatePreview(p) \/ PreviewExpires(p)
  \/ \E c \in Confirmations :
       \/ \E u \in Users, p \in Previews : Confirm(c, u, p)
       \/ NextRow(c) \/ InsertLabel(c) \/ CreateOrderFromLabel(c)
       \/ \E covered \in BOOLEAN : AutoPay(c, covered)
       \/ Enqueue(c) \/ EnqueueFails(c) \/ DeletePreview(c)
  \/ ProcessEnds

Spec == Init /\ [][Next]_vars

-----------------------------------------------------------------------------
(***************************************************************************)
(* A client request id makes one label and one order, however many files   *)
(* name it and however their confirmations overlap or break off            *)
(* (labels.service.ts:375-381 and the unique index).                       *)
(***************************************************************************)
OnePerRequestId ==
  \A u \in Users, id \in RequestIds :
     Cardinality({o \in DOMAIN orders : orders[o].label \in SameRequest(u, id)}) <= 1

(***************************************************************************)
(* Each label has an order of its own, unless its confirmation is about to *)
(* make it or died between the two statements.                             *)
(***************************************************************************)
OnlyCrashesOrphanLabels ==
  faults = 0 =>
    \A l \in DOMAIN labels :
       \/ \E o \in DOMAIN orders : orders[o].label = l
       \/ \E c \in Confirmations : conf[c].pc = "order" /\ conf[c].label = l

(***************************************************************************)
(* A finished confirmation answers with one label per valid row: the label *)
(* of that row, or one made before for the same client request id.         *)
(***************************************************************************)
\* The valid rows among the first n, and so the place of one of them.
ValidRows(p, n) == {k \in 1 .. n : Rows[p][k].valid}
Place(p, k) == Cardinality(ValidRows(p, k))

ReplyNamesEveryRow ==
  \A c \in Confirmations : conf[c].pc = "done" =>
     LET p == conf[c].preview
         ids == conf[c].labelIds
         last == Len(Rows[p]) IN
     /\ Len(ids) = Place(p, last)
     /\ \A k \in ValidRows(p, last) : labels[ids[Place(p, k)]].request = Rows[p][k].request

(***************************************************************************)
(* A confirmation pays a prefix of the rows it imports, whatever credits   *)
(* arrive meanwhile (labels.service.ts:400-416).                           *)
(***************************************************************************)
ConfirmPaysPrefix ==
  \A c \in Confirmations :
     \A j \in DOMAIN conf[c].paid, k \in DOMAIN conf[c].unpaid :
        conf[c].paid[j] < conf[c].unpaid[k]

(***************************************************************************)
(* As long as confirmations do not overlap, each row of a preview is       *)
(* imported at most once, with a client request id or without: the preview *)
(* is gone when the first confirmation ends.                               *)
(***************************************************************************)
EachRowOnce ==
  \A k, l \in DOMAIN labels :
     labels[k].preview = labels[l].preview /\ labels[k].row = labels[l].row => k = l

(***************************************************************************)
(* "Credits will be deducted when admin starts processing", and nobody     *)
(* starts an order here (ImportLabelsModal.tsx:465).                       *)
(***************************************************************************)
ChargedWhenStarted == \A k \in DOMAIN orders : ~orders[k].paid
=============================================================================
