----------------------------- MODULE CarrierSync -----------------------------
(***************************************************************************)
(* runByeastsideSync: what the carrier knows of a label becomes the note   *)
(* and the status of the orders with its tracking code.                    *)
(*                                                                         *)
(* The function runs in the API process when an administrator asks for it  *)
(* and in the cron process every night, so that two runs may overlap. It   *)
(* loads orders, and saves each of them whole after awaits. A save is two  *)
(* statements: TypeORM selects the row once more, and later updates the    *)
(* columns in which the loaded order differs from what it saw then. Spec   *)
(* is about the labels of one PDF, which stands for all. An order that is  *)
(* deleted meanwhile ends the run (its insert is refused), which SyncFails *)
(* covers.                                                                 *)
(*                                                                         *)
(* A run finds the PDFs by paging: the carrier lists them newest first,    *)
(* one page per request, from the page of the settings on, until a page is *)
(* the last, is short, or enough have been collected. The carrier may      *)
(* record new PDFs between two requests, which moves the older ones        *)
(* towards later pages, and it serves the page size it is asked for.       *)
(* PagesSpec is about this loop.                                           *)
(***************************************************************************)
EXTENDS Integers, Sequences, FiniteSets, SequencesExt

CONSTANTS OrderIds, Codes,
          Code,         \* Code[o]: the tracking code of an order, in any case
          Syncs,        \* runs of the synchronisation
          MaxOverlap,   \* runs at once
          MaxEvents,    \* events the carrier records
          Others,       \* what others do: "pay", "start", "fail"; "during" a run too
          MaxPdfs,      \* PDFs the carrier ever has
          MaxSize       \* first pages, page sizes and limits that are asked for

CarrierAssumption ==
  /\ Code \in [OrderIds -> Codes]
  /\ MaxOverlap \in Nat /\ MaxEvents \in Nat
  /\ Others \subseteq {"pay", "start", "fail", "during"}
  /\ MaxPdfs \in Nat /\ MaxSize \in Nat \ {0}

VARIABLES orders,   \* orders[o]: the row
          carrier,  \* carrier[c]: the label with code c
          sync,     \* sync[s]: what run s still has to do
          torn      \* orders updated by a save after they changed under it

vars == <<orders, carrier, sync, torn>>

Statuses == {"pending", "processing", "completed", "failed"}
Order == [paid : BOOLEAN, status : Statuses, note : Nat]

\* The carrier's label: its latest event (0: none yet) and whether it is PICKED.
Label == [event : Nat, picked : BOOLEAN]

Open(row) == row.status \in {"pending", "processing"}

\* The save of an order that has selected its row, and not updated it yet.
Save == [order : OrderIds, entity : Order, seen : Order]

\* labels: what was fetched; left: the codes to go through; loaded: the rows
\* read, still to be saved; save: the save under way, if there is one.
Points == {"idle", "fetch", "note", "noting", "complete", "completing", "done"}
SyncState == [pc : Points, labels : [Codes -> Label], left : Seq(Codes), loaded : SUBSET (OrderIds \X Order),
              save : SUBSET Save]

Init ==
  /\ orders \in [OrderIds -> [paid : BOOLEAN, status : {"pending"}, note : {0}]]
  /\ carrier = [c \in Codes |-> [event |-> 0, picked |-> FALSE]]
  /\ sync = [s \in Syncs |-> [pc |-> "idle", labels |-> carrier, left |-> << >>, loaded |-> {},
                            save |-> {}]]
  /\ torn = {}

-----------------------------------------------------------------------------
Running == {s \in Syncs : sync[s].pc \notin {"idle", "done"}}

\* fetchJson of the labels of a PDF.
FetchLabels(s) ==
  /\ sync[s].pc = "idle"
  /\ Cardinality(Running) < MaxOverlap
  /\ \E order \in SetToSeqs(Codes) :
       sync' = [sync EXCEPT ![s] = [@ EXCEPT !.pc = "note", !.labels = carrier, !.left = order]]
  /\ UNCHANGED <<orders, carrier, torn>>

Rows(ids) == {<<o, orders[o]>> : o \in ids}

\* The open orders with the label's code, if it has an event summary.
LoadForNote(s) ==
  LET c == Head(sync[s].left)
      summary == sync[s].labels[c].event IN
  /\ sync[s].pc = "note"
  /\ sync' = [sync EXCEPT ![s].pc = "noting",
       ![s].loaded = IF summary = 0 THEN {}
                     ELSE Rows({o \in OrderIds : Code[o] = c /\ Open(orders[o])})]
  /\ UNCHANGED <<orders, carrier, torn>>

\* Repository.save selects the row...
Selected(o, entity) == [order |-> o, entity |-> entity, seen |-> orders[o]]

\* ...and updates the columns in which the entity differs from what it saw.
Patched(row, entity, seen) ==
  [c \in DOMAIN row |-> IF entity[c] # seen[c] THEN entity[c] ELSE row[c]]

\* Each gets the summary as its note and is saved, unless it has it already.
SaveNote(s) ==
  LET summary == sync[s].labels[Head(sync[s].left)].event IN
  /\ sync[s].pc = "noting" /\ sync[s].save = {}
  /\ \E l \in sync[s].loaded :
       sync' = [sync EXCEPT ![s].loaded = @ \ {l},
                  ![s].save = IF l[2].note = summary THEN {}
                              ELSE {Selected(l[1], [l[2] EXCEPT !.note = summary])}]
  /\ UNCHANGED <<orders, carrier, torn>>

\* The UPDATE of a save, whatever was written since its SELECT.
UpdateSaved(s) ==
  \E w \in sync[s].save :
    /\ orders' = [orders EXCEPT ![w.order] = Patched(@, w.entity, w.seen)]
    /\ torn' = IF orders[w.order] = w.seen THEN torn ELSE torn \cup {w.order}
    /\ sync' = [sync EXCEPT ![s].save = {}]
    /\ UNCHANGED carrier

\* On to the next label, or the end.
NextLabel(s) ==
  LET left == sync[s].left IN
  sync' = [sync EXCEPT ![s] = [@ EXCEPT !.left = Tail(left), !.loaded = {},
             !.pc = IF Len(left) = 1 THEN "done" ELSE "note"]]

NotesSaved(s) ==
  /\ sync[s].pc = "noting" /\ sync[s].loaded = {} /\ sync[s].save = {}
  /\ IF sync[s].labels[Head(sync[s].left)].picked
     THEN sync' = [sync EXCEPT ![s].pc = "complete"]
     ELSE NextLabel(s)
  /\ UNCHANGED <<orders, carrier, torn>>

\* Faulty: orders are completed whether or not they are paid.
LoadAllForCompletion(s) ==
  /\ sync[s].pc = "complete"
  /\ sync' = [sync EXCEPT ![s].pc = "completing",
       ![s].loaded = Rows({o \in OrderIds : Code[o] = Head(sync[s].left) /\ Open(orders[o])})]
  /\ UNCHANGED <<orders, carrier, torn>>

\* For a label that was PICKED: the open orders with its code that are paid.
LoadForCompletion(s) ==
  /\ sync[s].pc = "complete"
  /\ sync' = [sync EXCEPT ![s].pc = "completing",
       ![s].loaded = Rows({o \in OrderIds : Code[o] = Head(sync[s].left)
                              /\ orders[o].paid /\ Open(orders[o])})]
  /\ UNCHANGED <<orders, carrier, torn>>

\* Each is completed and saved; an empty note gets the summary.
SaveCompleted(s) ==
  LET summary == sync[s].labels[Head(sync[s].left)].event IN
  /\ sync[s].pc = "completing" /\ sync[s].save = {}
  /\ \E l \in sync[s].loaded :
       sync' = [sync EXCEPT ![s].loaded = @ \ {l}, ![s].save =
                  {Selected(l[1], [l[2] EXCEPT !.status = "completed",
                                     !.note = IF @ = 0 THEN summary ELSE @])}]
  /\ UNCHANGED <<orders, carrier, torn>>

LabelDone(s) ==
  /\ sync[s].pc = "completing" /\ sync[s].loaded = {} /\ sync[s].save = {}
  /\ NextLabel(s)
  /\ UNCHANGED <<orders, carrier, torn>>

\* fetch or a query fails: the run ends where it is.
SyncFails(s) ==
  /\ s \in Running
  /\ sync' = [sync EXCEPT ![s] = [@ EXCEPT !.pc = "done", !.loaded = {}, !.save = {}]]
  /\ UNCHANGED <<orders, carrier, torn>>

-----------------------------------------------------------------------------
\* The carrier records an event of a label; a label that is picked stays so.
CarrierEvent(c) ==
  LET last == Max({carrier[d].event : d \in Codes}) IN
  /\ last < MaxEvents
  /\ \E p \in BOOLEAN :
       /\ carrier[c].picked => p
       /\ carrier' = [carrier EXCEPT ![c] = [event |-> last + 1, picked |-> p]]
  /\ UNCHANGED <<orders, sync, torn>>

\* What customers and administrators do to an order, in transactions.
Other(o) ==
  /\ "during" \in Others \/ Running = {}
  /\ \/ /\ "pay" \in Others /\ Open(orders[o])
        /\ orders' = [orders EXCEPT ![o].paid = TRUE]
     \/ /\ "start" \in Others /\ orders[o].paid /\ orders[o].status = "pending"
        /\ orders' = [orders EXCEPT ![o].status = "processing"]
     \/ /\ "fail" \in Others /\ Open(orders[o])
        /\ orders' = [orders EXCEPT ![o].status = "failed"]
  /\ UNCHANGED <<carrier, sync, torn>>

Next ==
  \/ \E s \in Syncs :
       \/ FetchLabels(s) \/ LoadForNote(s) \/ SaveNote(s) \/ UpdateSaved(s) \/ NotesSaved(s)
       \/ LoadForCompletion(s) \/ SaveCompleted(s) \/ LabelDone(s) \/ SyncFails(s)
  \/ \E c \in Codes : CarrierEvent(c)
  \/ \E o \in OrderIds : Other(o)

Spec == Init /\ [][Next]_vars

-----------------------------------------------------------------------------
CarrierTypeOK ==
  /\ orders \in [OrderIds -> Order]
  /\ carrier \in [Codes -> Label]
  /\ torn \subseteq OrderIds
  /\ \A s \in Syncs : /\ sync[s].pc \in Points
                      /\ sync[s].labels \in [Codes -> Label]
                      /\ Range(sync[s].left) \subseteq Codes
                      /\ s \in Running => sync[s].left # << >>
                      /\ \A l \in sync[s].loaded : l[1] \in OrderIds /\ l[2] \in Order
                      /\ sync[s].save \subseteq Save

(***************************************************************************)
(* Whatever overlaps, two runs and payments among it, an order is          *)
(* completed only if it is paid, although a run reads it long before it    *)
(* saves it. The exception is an order that a save updated after it had    *)
(* changed under that save: where the saves of two runs cross, one may     *)
(* write the status and the other the old payment.                         *)
(***************************************************************************)
CompletedIsPaid ==
  \A o \in OrderIds \ torn : orders[o].status = "completed" => orders[o].paid

(***************************************************************************)
(* A run that ends, with nothing done to the orders meanwhile, leaves no   *)
(* paid order open whose label it fetched as PICKED.                       *)
(***************************************************************************)
Ends(s) == sync[s].pc \in {"noting", "completing"} /\ sync[s].loaded = {} /\ sync[s].save = {}
           /\ sync'[s].pc = "done" /\ Len(sync[s].left) = 1 /\ sync'[s].left = << >>

PickedIsCompleted ==
  \A s \in Syncs : Ends(s) => \A o \in OrderIds :
    sync[s].labels[Code[o]].picked /\ orders[o].paid => ~Open(orders[o])

(***************************************************************************)
(* ...and every order that is still open shows the carrier's event, also   *)
(* when an earlier run stopped half-way.                                   *)
(***************************************************************************)
OpenShowsEvent ==
  \A s \in Syncs : Ends(s) => \A o \in OrderIds :
    (Open(orders[o]) /\ sync[s].labels[Code[o]].event # 0)
       => orders[o].note = sync[s].labels[Code[o]].event

(***************************************************************************)
(* With nothing done to the orders during a run, no run changes an order   *)
(* that is completed or failed, not even its note.                         *)
(***************************************************************************)
ClosedLeftAlone ==
  \A o \in OrderIds : ~Open(orders[o]) => orders'[o] = orders[o]

-----------------------------------------------------------------------------
(* The loop over the pages of the carrier's list of PDFs                   *)

VARIABLES pdfs,       \* the carrier's PDFs, newest first; a PDF is its number
          atStart,    \* those it had when the run began
          pageSize, limit,
          firstPage,  \* the page the run starts at
          page,       \* currentPage
          items,      \* pdfItems
          listing     \* the loop goes on

pagesVars == <<pdfs, atStart, pageSize, limit, firstPage, page, items, listing>>

Newest(n) == [i \in 1 .. n |-> n + 1 - i]

\* normalizeSettings clamps all three to at least 1.
PagesInit ==
  /\ \E n \in 0 .. MaxPdfs : pdfs = Newest(n)
  /\ atStart = Len(pdfs)
  /\ pageSize \in 1 .. MaxSize /\ limit \in 1 .. MaxSize
  /\ firstPage \in 1 .. MaxSize
  /\ page = firstPage
  /\ items = << >>
  /\ listing = TRUE

\* The answer to ?page=..&pageSize=...
PageItems == SubSeq(pdfs, (page - 1) * pageSize + 1, Min({page * pageSize, Len(pdfs)}))
TotalPages == (Len(pdfs) + pageSize - 1) \div pageSize

\* The breaks of the loop: nothing, the last page, a short page.
LastPage == PageItems = << >> \/ page >= TotalPages \/ Len(PageItems) < pageSize

\* Faulty: a page is left out.
NextPageTwice == page + 2

NextPage == page + 1

\* One turn of the loop.
FetchPage ==
  /\ listing
  /\ items' = items \o PageItems
  /\ listing' = (~LastPage /\ Len(items') < limit)
  /\ page' = IF LastPage THEN page ELSE NextPage
  /\ UNCHANGED <<pdfs, atStart, pageSize, limit, firstPage>>

NewPdf ==
  /\ Len(pdfs) < MaxPdfs
  /\ pdfs' = Newest(Len(pdfs) + 1)
  /\ UNCHANGED <<atStart, pageSize, limit, firstPage, page, items, listing>>

PagesNext == FetchPage \/ NewPdf

\* The loop goes on as long as the carrier answers.
PagesSpec == PagesInit /\ [][PagesNext]_pagesVars /\ WF_pagesVars(FetchPage)

\* pdfItems.slice(0, limit)
LimitedPdfItems == SubSeq(items, 1, Min({limit, Len(items)}))

-----------------------------------------------------------------------------
\* The PDFs on the pages before the first: a run never sees them.
Skipped == (firstPage - 1) * pageSize

(***************************************************************************)
(* A run that stops before its limit has gone through every PDF that the   *)
(* carrier had when it began, but for those on the pages before its first  *)
(* page, whatever is added meanwhile. With the first page of the default   *)
(* settings, 1, these are all; with a later one the newest PDFs are never  *)
(* read.                                                                   *)
(***************************************************************************)
NothingMissed ==
  (~listing /\ Len(items) < limit) => 1 .. atStart - Skipped \subseteq Range(items)

(***************************************************************************)
(* If nothing is added during the run, it goes through the newest PDFs     *)
(* after the skipped ones, as many as the limit allows, each once.         *)
(***************************************************************************)
NewestOnce ==
  (~listing /\ Len(pdfs) = atStart) =>
     LimitedPdfItems = SubSeq(pdfs, Skipped + 1, Min({Skipped + limit, atStart}))

(***************************************************************************)
(* A run stops listing.                                                    *)
(***************************************************************************)
ListingEnds == <>~listing
=============================================================================
