----------------------------- MODULE OrderViewer -----------------------------
(***************************************************************************)
(* A customer looks at the orders (OrdersTable.tsx, OrderDetailModal.tsx   *)
(* and the detail of app/Orders.tsx): the table of a fetched list, the     *)
(* dialog of one order, which shows the row that was clicked until the     *)
(* order itself has been fetched, or what is cached of it, and the         *)
(* pictures, which can be enlarged.  Staff set results meanwhile.          *)
(*                                                                         *)
(* The answers of fetches come in any order or not at all; the library     *)
(* keeps one fetch per order, whose answer alone is heard.  Zoom is        *)
(* counted in quarters.                                                    *)
(***************************************************************************)
EXTENDS Naturals, Sequences, FiniteSets, FiniteSetsExt

CONSTANTS Orders,
          MaxResults,       \* bound on the times that the result of an order is set
          MaxFetches,       \* bound on the fetches of orders
          MinZoom, MaxZoom, \* 2 and 16 quarters in the code
          AnswersLost,      \* a fetch may fail
          None              \* null

Normal == 4

VARIABLES type,      \* type of each order
          label,     \* whether it has the address of a label
          result,    \* how often its result has been set
          list,      \* the list on the page
          selected,  \* the row that was clicked
          detail,    \* the cache of the details
          fetches,   \* fetches under way
          heard,     \* the last fetch of each order
          picture,   \* the enlarged picture
          zoom

rowVars == <<type, label, result>>
fetchVars == <<detail, fetches, heard>>
vars == <<rowVars, list, selected, fetchVars, picture, zoom>>

Types == {"tracking", "design"}
Results == 0 .. MaxResults
Link == {<<"result", n>> : n \in 1 .. MaxResults} \cup {<<"label", 0>>, <<"asset", 0>>}

\* What the page holds of an order; the list leaves its assets out.
Held == [id : Orders, result : Results, assets : BOOLEAN]
Fetch == [no : 1 .. MaxFetches, id : Orders, read : Held \cup {None}]
Picture == [of : Orders, link : Link, by : {"table", "detail"}]

OrderViewerAssumption ==
  /\ MinZoom \in Nat /\ MaxZoom \in Nat /\ MinZoom <= Normal /\ Normal <= MaxZoom
  /\ MaxResults \in Nat /\ MaxFetches \in Nat
  /\ None \notin Held \cup Picture

OrderViewerTypeOK ==
  /\ type \in [Orders -> Types] /\ label \in [Orders -> BOOLEAN] /\ result \in [Orders -> Results]
  /\ list \in [Orders -> Held \cup {None}]
  /\ selected \in Held \cup {None}
  /\ detail \in [Orders -> Held \cup {None}]
  /\ fetches \in SUBSET Fetch
  /\ heard \in [Orders -> 0 .. MaxFetches]
  /\ picture \in Picture \cup {None}
  /\ zoom \in MinZoom .. MaxZoom
  /\ picture = None => zoom = Normal

Init ==
  /\ type \in [Orders -> Types] /\ label \in [Orders -> BOOLEAN]
  /\ \A o \in Orders : type[o] = "design" => ~label[o]
  /\ result = [o \in Orders |-> 0]
  /\ list = [o \in Orders |-> None] /\ selected = None
  /\ detail = [o \in Orders |-> None] /\ fetches = {} /\ heard = [o \in Orders |-> 0]
  /\ picture = None /\ zoom = Normal

-----------------------------------------------------------------------------
(* The server                                                              *)

\* updateResultUrl.
SetResult(o) ==
  /\ result[o] < MaxResults
  /\ result' = [result EXCEPT ![o] = @ + 1]
  /\ UNCHANGED <<type, label, list, selected, fetchVars, picture, zoom>>

\* A row as listOrders maps it, and the whole of it, as getOrderById returns it.
ListItem(o) == [id |-> o, result |-> result[o], assets |-> FALSE]
Whole(o) == [id |-> o, result |-> result[o], assets |-> type[o] = "design"]

-----------------------------------------------------------------------------
(* What is shown of an order: its links in the order of the code, each if  *)
(* the page holds it                                                       *)

Has(h, l) ==
  CASE l[1] = "result" -> h.result = l[2]
    [] l[1] = "label" -> label[h.id]
    [] l[1] = "asset" -> h.assets

Links(h) == {l \in Link : Has(h, l)}

First(kinds, h) ==
  LET held == SelectSeq(kinds, LAMBDA k : \E l \in Links(h) : l[1] = k)
  IN IF held = << >> THEN None ELSE CHOOSE l \in Links(h) : l[1] = Head(held)

\* resolvePrimaryResultUrl of the dialog.
PrimaryResult(h) ==
  IF type[h.id] = "design" THEN First(<<"result", "label", "asset">>, h)
                           ELSE First(<<"label", "result", "asset">>, h)

\* resolvePrimaryUrl and resolveAssets of the table.
TableLink(h) ==
  IF type[h.id] = "design" THEN First(<<"result", "label">>, h) ELSE First(<<"label", "result">>, h)
TableAssets(h) == IF type[h.id] = "design" THEN Links(h) ELSE {}

\* detailOrder.
Shown == IF detail[selected.id] # None THEN detail[selected.id] ELSE selected

-----------------------------------------------------------------------------
(* Fetching                                                                *)

ListFetched ==
  /\ list' = [o \in Orders |-> ListItem(o)]
  /\ UNCHANGED <<rowVars, selected, fetchVars, picture, zoom>>

UnderWay(o) == \E f \in fetches : f.id = o /\ f.no = heard[o]

Ask(o) ==
  LET no == Max({heard[p] : p \in Orders}) + 1
  IN /\ no <= MaxFetches
     /\ fetches' = fetches \cup {[no |-> no, id |-> o, read |-> None]}
     /\ heard' = [heard EXCEPT ![o] = no]
     /\ UNCHANGED detail

\* A fetch under way is joined.
Join(o) == IF UnderWay(o) THEN UNCHANGED fetchVars ELSE Ask(o)

ReadOrder(f) ==
  /\ f.read = None
  /\ fetches' = (fetches \ {f}) \cup {[f EXCEPT !.read = Whole(f.id)]}
  /\ UNCHANGED <<rowVars, list, selected, detail, heard, picture, zoom>>

Heard(f) == f.no = heard[f.id]

\* The key of the query.
Key(f) == f.id

\* Faulty: the answer of a fetch that was given up is cached as well.
DetailAnsweredAny(f) ==
  /\ f.read # None
  /\ fetches' = fetches \ {f}
  /\ detail' = [detail EXCEPT ![Key(f)] = f.read]
  /\ UNCHANGED <<rowVars, list, selected, heard, picture, zoom>>

DetailAnswered(f) ==
  /\ f.read # None
  /\ fetches' = fetches \ {f}
  /\ detail' = IF Heard(f) THEN [detail EXCEPT ![Key(f)] = f.read] ELSE detail
  /\ UNCHANGED <<rowVars, list, selected, heard, picture, zoom>>

FetchFails(f) ==
  /\ AnswersLost /\ fetches' = fetches \ {f}
  /\ UNCHANGED <<rowVars, list, selected, detail, heard, picture, zoom>>

\* The window gets the focus.
Focus ==
  /\ selected # None /\ Join(selected.id)
  /\ UNCHANGED <<rowVars, list, selected, picture, zoom>>

\* The orders are invalidated: a fetch of what is cached already is given up for another.
Invalidate ==
  /\ selected # None
  /\ IF detail[selected.id] # None THEN Ask(selected.id) ELSE Join(selected.id)
  /\ UNCHANGED <<rowVars, list, selected, picture, zoom>>

-----------------------------------------------------------------------------
(* The dialog and the pictures                                             *)

OpenDetail(o) ==
  /\ selected = None /\ picture = None /\ list[o] # None
  /\ selected' = list[o] /\ Join(o)
  /\ UNCHANGED <<rowVars, list, picture, zoom>>

\* The dialog returns before its hooks, so that it begins anew each time.
Forget == picture' = None /\ zoom' = Normal

CloseDetail ==
  /\ selected # None /\ selected' = None /\ Forget
  /\ UNCHANGED <<rowVars, list, fetchVars>>

\* The zoom goes back to normal whenever the picture changes.
Enlarge(p) ==
  /\ picture' = p
  /\ zoom' = IF picture = p THEN zoom ELSE Normal
  /\ UNCHANGED <<rowVars, list, selected, fetchVars>>

OpenPicture ==
  /\ selected # None
  /\ \E l \in Links(Shown) : Enlarge([of |-> selected.id, link |-> l, by |-> "detail"])

OpenTablePicture(o) ==
  /\ selected = None /\ picture = None /\ list[o] # None
  /\ \E l \in TableAssets(list[o]) : Enlarge([of |-> o, link |-> l, by |-> "table"])

ClosePicture == picture # None /\ Enlarge(None)

\* The keys and the buttons of the enlarged picture.
Zoom ==
  /\ picture # None
  /\ zoom' \in {Min({zoom + 1, MaxZoom}), Max({zoom - 1, MinZoom}), Normal}
  /\ UNCHANGED <<rowVars, list, selected, fetchVars, picture>>

Next ==
  \/ ListFetched \/ Focus \/ Invalidate \/ CloseDetail
  \/ OpenPicture \/ ClosePicture \/ Zoom
  \/ \E o \in Orders : SetResult(o) \/ OpenDetail(o) \/ OpenTablePicture(o)
  \/ \E f \in fetches : ReadOrder(f) \/ DetailAnswered(f) \/ FetchFails(f)

Spec == Init /\ [][Next]_vars

-----------------------------------------------------------------------------
(* Properties                                                              *)

\* The dialog shows the order that was clicked, whichever answers arrive
\* (app/Orders.tsx:157-162).
ShownIsSelected == selected # None => Shown.id = selected.id

\* What is cached of an order only gets newer, however often it is asked for
\* and in whatever order the answers come (app/Orders.tsx:156-160).
CacheOnlyNewer ==
  \A o \in Orders : detail[o] # None /\ detail'[o] # None => detail'[o].result >= detail[o].result

\* A picture enlarged in the dialog is one of the order that is open
\* (OrderDetailModal.tsx:58-64).
PictureIsOfOrder ==
  (picture # None /\ picture.by = "detail") => selected # None /\ picture.of = selected.id

\* "Result" (OrderDetailModal.tsx:130) of a design is its result, and "No result
\* URL." (line 172) is said when it has none.
ResultIsResult ==
  (selected # None /\ type[selected.id] = "design") =>
     LET l == PrimaryResult(Shown) IN IF Shown.result = 0 THEN l = None ELSE l[1] = "result"

\* "Assets" (OrdersTable.tsx:347): the table of designs shows what the order has.
TableHasAssets ==
  \A o \in Orders : (list[o] # None /\ type[o] = "design") => <<"asset", 0>> \in TableAssets(list[o])
=============================================================================
