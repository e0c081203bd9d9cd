------------------------- MODULE Fulfilment_proofs --------------------------
(***************************************************************************)
(* Proofs about MCFulfilment. First its other parts, for every file of     *)
(* labels and any number of requests: the confirmations of a file that     *)
(* overlap, those that do not, and the row locks. Then the invariants of   *)
(* all parts together: they share no variables and one of them acts, so    *)
(* that each stays true while another moves. At the end the properties of  *)
(* the run.                                                                *)
(***************************************************************************)
EXTENDS FulfilmentParts_proofs

(* The place of a valid row is one more than the number of those before it,*)
(* and an invalid row changes nothing.                                     *)
LEMMA PlaceOfRow ==
  ASSUME NEW p \in DOMAIN SheetRows, NEW n \in Nat
  PROVE  /\ Labels!Place(p, 0) = 0 /\ Labels!ValidRows(p, 0) = {}
         /\ Labels!Place(p, n) \in Nat
         /\ SheetRows[p][n + 1].valid =>
              /\ Labels!Place(p, n + 1) = Labels!Place(p, n) + 1
              /\ Labels!ValidRows(p, n + 1) = Labels!ValidRows(p, n) \cup {n + 1}
         /\ ~SheetRows[p][n + 1].valid =>
              /\ Labels!Place(p, n + 1) = Labels!Place(p, n)
              /\ Labels!ValidRows(p, n + 1) = Labels!ValidRows(p, n)
<1>1. \A k : Labels!Place(p, k) = Cardinality(Labels!ValidRows(p, k))
  BY DEF Labels!Place, Labels!Cardinality, Cardinality
<1>2. IsFiniteSet(Labels!ValidRows(p, n)) /\ Cardinality(Labels!ValidRows(p, n)) \in Nat
  <2>1. Labels!ValidRows(p, n) \subseteq 1 .. n
    BY DEF Labels!ValidRows
  <2>2. IsFiniteSet(1 .. n)
    BY FS_Interval
  <2> QED
    BY <2>1, <2>2, FS_Subset, FS_CardinalityType
<1>3. Labels!ValidRows(p, 0) = {}
  BY DEF Labels!ValidRows
<1>4. CASE SheetRows[p][n + 1].valid
  <2> DEFINE rows == Labels!ValidRows(p, n)
  <2>1. Labels!ValidRows(p, n + 1) = rows \cup {n + 1} /\ n + 1 \notin rows
    BY <1>4 DEF Labels!ValidRows
  <2> HIDE DEF rows
  <2>2. Cardinality(rows \cup {n + 1}) = Cardinality(rows) + 1
    BY <1>2, <2>1, FS_AddElement DEF rows
  <2> QED
    BY <1>1, <1>2, <1>3, <1>4, <2>1, <2>2, FS_EmptySet DEF rows
<1>5. CASE ~SheetRows[p][n + 1].valid
  <2>1. Labels!ValidRows(p, n + 1) = Labels!ValidRows(p, n)
    BY <1>5 DEF Labels!ValidRows
  <2> QED
    BY <1>1, <1>2, <1>3, <1>5, <2>1, FS_EmptySet
<1> QED
  BY <1>4, <1>5

\* The reply of confirmation q so far: a label for each of the first n rows
\* that are valid.
NamesRows(q, n, labels) ==
  LET p == q.preview
      ids == q.labelIds
  IN
  /\ Len(ids) = Labels!Place(p, n)
  /\ \A k \in Labels!ValidRows(p, n) :
       /\ Labels!Place(p, k) \in DOMAIN ids /\ ids[Labels!Place(p, k)] \in DOMAIN labels
       /\ labels[ids[Labels!Place(p, k)]].request = SheetRows[p][k].request

\* Where a confirmation stands.
ConfirmationOK(q, labels, orders) ==
  /\ q.pc \notin {"idle", "failed"} => q.i \in 1 .. Len(SheetRows[q.preview]) + 1
  /\ q.pc \in {"insert", "order", "pay", "push"} =>
       q.i <= Len(SheetRows[q.preview]) /\ SheetRows[q.preview][q.i].valid
  /\ q.pc \in {"row", "insert"} => NamesRows(q, q.i - 1, labels)
  /\ q.pc \in {"order", "pay", "push"} => NamesRows(q, q.i, labels)
  /\ q.pc \in {"delete", "done"} => NamesRows(q, Len(SheetRows[q.preview]), labels)
  /\ q.pc = "order" => q.label \in DOMAIN labels /\ \A o \in DOMAIN orders : orders[o].label # q.label
  /\ \A j \in DOMAIN q.paid : q.paid[j] \in DOMAIN orders
  /\ \A k \in DOMAIN q.unpaid : q.unpaid[k] \in DOMAIN orders /\ q.exhausted
  /\ q.pc = "pay" => /\ q.order \in DOMAIN orders
                     /\ \A j \in DOMAIN q.paid : q.paid[j] < q.order
  /\ \A j \in DOMAIN q.paid, k \in DOMAIN q.unpaid : q.paid[j] < q.unpaid[k]

LabelsTyped ==
  /\ labelStored \subseteq labelMade /\ labelMade \subseteq DOMAIN SheetRows
  /\ labelLabels \in Seq(Labels!Label)
  /\ labelOrders \in Seq(Labels!LabelOrder)
  /\ labelConf \in [Confirmations -> Labels!Confirmation]
  /\ labelFaults \in Nat

LabelsUnique ==
  \A k, l \in DOMAIN labelLabels :
    /\ labelLabels[k].user = labelLabels[l].user
    /\ labelLabels[k].request = labelLabels[l].request
    /\ labelLabels[k].request # NoClientId
    => k = l

OrdersUnique ==
  /\ \A a \in DOMAIN labelOrders : labelOrders[a].label \in DOMAIN labelLabels
  /\ \A a, b \in DOMAIN labelOrders : labelOrders[a].label = labelOrders[b].label => a = b
  /\ \A c, d \in Confirmations :
       labelConf[c].pc = "order" /\ labelConf[d].pc = "order" /\ labelConf[c].label = labelConf[d].label => c = d

LabelsInv ==
  /\ LabelsTyped /\ LabelsUnique /\ OrdersUnique
  /\ \A c \in Confirmations : ConfirmationOK(labelConf[c], labelLabels, labelOrders)
  /\ Labels!OnlyCrashesOrphanLabels

(* A label or an order more changes nothing for a confirmation that is not *)
(* about to make one.                                                      *)
LEMMA ConfirmationKept ==
  ASSUME NEW q, NEW labels, NEW orders, NEW moreLabels, NEW moreOrders,
         ConfirmationOK(q, labels, orders),
         \A l \in DOMAIN labels : l \in DOMAIN moreLabels /\ moreLabels[l].request = labels[l].request,
         DOMAIN orders \subseteq DOMAIN moreOrders,
         q.pc = "order" => \A o \in DOMAIN moreOrders : moreOrders[o].label # q.label
  PROVE  ConfirmationOK(q, moreLabels, moreOrders)
<1>1. \A n : NamesRows(q, n, labels) => NamesRows(q, n, moreLabels)
  BY DEF NamesRows
<1> QED
  BY <1>1 DEF ConfirmationOK

(* A confirmation moves, and makes nothing.                                *)
LEMMA ConfirmationMoves ==
  ASSUME LabelsInv, NEW c \in Confirmations, NEW q \in Labels!Confirmation,
         ConfirmationOK(q, labelLabels, labelOrders),
         labelConf' = [labelConf EXCEPT ![c] = q], q.pc # "order",
         labelLabels' = labelLabels, labelOrders' = labelOrders,
         labelStored' \subseteq labelStored, labelMade' = labelMade,
         labelFaults' \in Nat,
         labelFaults' = 0 => labelFaults = 0 /\ labelConf[c].pc # "order"
  PROVE  LabelsInv'
<1>1. /\ labelConf' \in [Confirmations -> Labels!Confirmation] /\ labelConf'[c] = q
      /\ \A d \in Confirmations \ {c} : labelConf'[d] = labelConf[d]
  BY DEF LabelsInv, LabelsTyped
<1>2. LabelsTyped' /\ LabelsUnique'
  BY <1>1 DEF LabelsInv, LabelsTyped, LabelsUnique
<1>3. OrdersUnique'
  BY <1>1 DEF LabelsInv, OrdersUnique
<1>4. \A d \in Confirmations : ConfirmationOK(labelConf'[d], labelLabels', labelOrders')
  BY <1>1 DEF LabelsInv
<1>5. Labels!OnlyCrashesOrphanLabels'
  BY <1>1 DEF LabelsInv, Labels!OnlyCrashesOrphanLabels
<1> QED
  BY <1>2, <1>3, <1>4, <1>5 DEF LabelsInv

(* Previews come and go.                                                   *)
LEMMA PreviewsKeep ==
  ASSUME LabelsInv, NEW p \in DOMAIN SheetRows, Labels!CreatePreview(p) \/ Labels!PreviewExpires(p)
  PROVE  LabelsInv'
<1>1. /\ labelLabels' = labelLabels /\ labelOrders' = labelOrders /\ labelConf' = labelConf
      /\ labelStored' \subseteq labelMade' /\ labelMade' \subseteq DOMAIN SheetRows
      /\ labelFaults' \in Nat /\ (labelFaults' = 0 => labelFaults = 0)
  BY DEF Labels!CreatePreview, Labels!PreviewExpires, Labels!Fault, LabelsInv, LabelsTyped
<1>2. LabelsTyped' /\ LabelsUnique' /\ OrdersUnique'
  BY <1>1 DEF LabelsInv, LabelsTyped, LabelsUnique, OrdersUnique
<1>3. Labels!OnlyCrashesOrphanLabels'
  BY <1>1 DEF LabelsInv, Labels!OnlyCrashesOrphanLabels
<1> QED
  BY <1>1, <1>2, <1>3 DEF LabelsInv

(* A confirmation starts at the first row.                                 *)
LEMMA ConfirmKeeps ==
  ASSUME LabelsInv, NEW c \in Confirmations, NEW u \in Customers, NEW p \in DOMAIN SheetRows,
         Labels!Confirm(c, u, p)
  PROVE  LabelsInv'
<1> DEFINE q == Labels!Start(p)
<1>1. /\ labelConf[c].pc = "idle" /\ labelConf' = [labelConf EXCEPT ![c] = q]
      /\ UNCHANGED <<labelMade, labelStored, labelLabels, labelOrders, labelFaults>>
  BY DEF Labels!Confirm, Labels!Goto
<1>2. Len(SheetRows[p]) \in Nat
  BY LabelsAssumption, LenProperties DEF Labels!LabelImportAssumption
<1>3. /\ q \in Labels!Confirmation /\ q.pc = "row" /\ q.preview = p /\ q.i = 1 /\ q.labelIds = << >>
      /\ q.paid = << >> /\ q.unpaid = << >>
  <2>1. << >> \in Seq(Nat)
    OBVIOUS
  <2> QED
    BY <2>1 DEF Labels!Start, Labels!Confirmation
<1>4. ConfirmationOK(q, labelLabels, labelOrders)
  <2>1. Len(<< >>) = 0 /\ 1 - 1 = 0
    OBVIOUS
  <2>2. NamesRows(q, 0, labelLabels)
    <3> HIDE DEF q
    <3> QED
      BY <1>3, <2>1, PlaceOfRow DEF NamesRows
  <2> HIDE DEF q
  <2> QED
    BY <1>2, <1>3, <2>1, <2>2 DEF ConfirmationOK
<1> HIDE DEF q
<1> QED
  BY <1>1, <1>3, <1>4, ConfirmationMoves DEF LabelsInv, LabelsTyped

(* A label for the next row is put at its place.                           *)
LEMMA NamesOneMore ==
  ASSUME NEW p \in DOMAIN SheetRows, NEW n \in Nat, NEW q, NEW z, NEW l \in Nat,
         NEW labels, NEW more,
         q.preview = p, q.labelIds \in Seq(Nat), NamesRows(q, n, labels),
         SheetRows[p][n + 1].valid,
         z.preview = p, z.labelIds = Append(q.labelIds, l),
         \A k \in DOMAIN labels : k \in DOMAIN more /\ more[k].request = labels[k].request,
         l \in DOMAIN more, more[l].request = SheetRows[p][n + 1].request
  PROVE  NamesRows(z, n + 1, more)
<1> DEFINE ids == q.labelIds
           place == Labels!Place(p, n)
<1>1. /\ Labels!Place(p, n + 1) = place + 1 /\ place \in Nat
      /\ Labels!ValidRows(p, n + 1) = Labels!ValidRows(p, n) \cup {n + 1}
  BY PlaceOfRow
<1>2. /\ Len(ids) = place /\ DOMAIN ids = 1 .. place
      /\ Len(Append(ids, l)) = place + 1 /\ DOMAIN Append(ids, l) = 1 .. place + 1
      /\ Append(ids, l)[place + 1] = l
      /\ \A i \in 1 .. place : Append(ids, l)[i] = ids[i]
  <2> HIDE DEF place
  <2>1. ids \in Seq(Nat) /\ Len(ids) = place
    BY DEF NamesRows, place
  <2> QED
    BY <2>1, AppendProperties, LenProperties
<1>3. ASSUME NEW k \in Labels!ValidRows(p, n + 1)
      PROVE  LET j == Labels!Place(p, k) IN
             /\ j \in DOMAIN z.labelIds /\ z.labelIds[j] \in DOMAIN more
             /\ more[z.labelIds[j]].request = SheetRows[p][k].request
  <2>1. CASE k = n + 1
    <3>1. place + 1 \in 1 .. place + 1
      BY <1>1
    <3> QED
      BY <1>1, <1>2, <2>1, <3>1
  <2>2. CASE k # n + 1
    <3> DEFINE j == Labels!Place(p, k)
    <3>1. k \in Labels!ValidRows(p, n)
      BY <1>1, <2>2
    <3>2. j \in DOMAIN ids /\ ids[j] \in DOMAIN labels /\ labels[ids[j]].request = SheetRows[p][k].request
      BY <3>1 DEF NamesRows
    <3> HIDE DEF j
    <3>3. j \in 1 .. place + 1 /\ Append(ids, l)[j] = ids[j]
      BY <1>1, <1>2, <3>2
    <3> QED
      BY <1>2, <3>2, <3>3 DEF j
  <2> QED
    BY <2>1, <2>2
<1> QED
  BY <1>1, <1>2, <1>3 DEF NamesRows

(* A row that is passed over has no place.                                 *)
LEMMA NamesSame ==
  ASSUME NEW q, NEW z, z.preview = q.preview, z.labelIds = q.labelIds, NEW n, NEW labels,
         NamesRows(q, n, labels)
  PROVE  /\ NamesRows(z, n, labels)
         /\ q.preview \in DOMAIN SheetRows /\ n \in Nat /\ ~SheetRows[q.preview][n + 1].valid =>
              NamesRows(z, n + 1, labels)
<1>1. NamesRows(z, n, labels)
  BY DEF NamesRows
<1>2. ASSUME q.preview \in DOMAIN SheetRows, n \in Nat, ~SheetRows[q.preview][n + 1].valid
      PROVE  NamesRows(z, n + 1, labels)
  <2>1. /\ Labels!Place(q.preview, n + 1) = Labels!Place(q.preview, n)
        /\ Labels!ValidRows(q.preview, n + 1) = Labels!ValidRows(q.preview, n)
    BY <1>2, PlaceOfRow
  <2> QED
    BY <2>1 DEF NamesRows
<1> QED
  BY <1>1, <1>2

(* What the confirmation of a row knows.                                   *)
LEMMA ConfirmationFacts ==
  ASSUME LabelsInv, NEW c \in Confirmations
  PROVE  LET q == labelConf[c]
             p == q.preview
         IN
         /\ q \in Labels!Confirmation /\ ConfirmationOK(q, labelLabels, labelOrders)
         /\ p \in DOMAIN SheetRows /\ SheetRows[p] \in Seq(Labels!Row) /\ Len(SheetRows[p]) \in Nat
         /\ q.i \in Nat /\ q.labelIds \in Seq(Nat) /\ q.paid \in Seq(Nat) /\ q.unpaid \in Seq(Nat)
         /\ SheetOwner[p] \in Customers
<1> DEFINE q == labelConf[c]
<1>1. q \in Labels!Confirmation /\ ConfirmationOK(q, labelLabels, labelOrders)
  BY DEF LabelsInv, LabelsTyped
<1>2. /\ q.preview \in DOMAIN SheetRows /\ q.i \in Nat /\ q.labelIds \in Seq(Nat)
      /\ q.paid \in Seq(Nat) /\ q.unpaid \in Seq(Nat)
  BY <1>1 DEF Labels!Confirmation
<1> HIDE DEF q
<1>3. SheetRows[q.preview] \in Seq(Labels!Row) /\ SheetOwner[q.preview] \in Customers
  BY <1>2, LabelsAssumption DEF Labels!LabelImportAssumption
<1> QED
  BY <1>1, <1>2, <1>3, LenProperties DEF q

(* On to the next row, with a label or without.                            *)
LEMMA NextRowRecord ==
  ASSUME NEW q \in Labels!Confirmation, NEW ids \in Seq(Nat)
  PROVE  LET a == [q EXCEPT !.i = @ + 1]
             b == [q EXCEPT !.i = @ + 1, !.labelIds = ids]
         IN
         /\ a \in Labels!Confirmation /\ a.pc = q.pc /\ a.i = q.i + 1 /\ a.preview = q.preview
         /\ a.labelIds = q.labelIds /\ a.paid = q.paid /\ a.unpaid = q.unpaid /\ a.exhausted = q.exhausted
         /\ b \in Labels!Confirmation /\ b.pc = q.pc /\ b.i = q.i + 1 /\ b.preview = q.preview
         /\ b.labelIds = ids /\ b.paid = q.paid /\ b.unpaid = q.unpaid /\ b.exhausted = q.exhausted
<1>1. q.i + 1 \in Nat
  BY DEF Labels!Confirmation
<1> QED
  BY <1>1 DEF Labels!Confirmation

(* The next row is passed over, answered, or will be inserted.             *)
LEMMA NextRowKeeps ==
  ASSUME LabelsInv, NEW c \in Confirmations, Labels!NextRow(c)
  PROVE  LabelsInv'
<1> DEFINE q == labelConf[c]
           p == q.preview
           rows == SheetRows[p]
<1>1. /\ q \in Labels!Confirmation /\ ConfirmationOK(q, labelLabels, labelOrders)
      /\ p \in DOMAIN SheetRows /\ rows \in Seq(Labels!Row) /\ Len(rows) \in Nat
      /\ q.i \in Nat /\ q.labelIds \in Seq(Nat)
  BY ConfirmationFacts
<1>2. /\ q.pc = "row" /\ labelFaults' = labelFaults /\ labelFaults \in Nat
      /\ UNCHANGED <<labelMade, labelStored, labelLabels, labelOrders>>
  BY DEF Labels!NextRow, LabelsInv, LabelsTyped
<1>3. q.i \in 1 .. Len(rows) + 1 /\ NamesRows(q, q.i - 1, labelLabels) /\ q.i - 1 \in Nat /\ q.i - 1 + 1 = q.i
  BY <1>1, <1>2 DEF ConfirmationOK
<1>4. ASSUME NEW z \in Labels!Confirmation, Labels!Goto(c, z), ConfirmationOK(z, labelLabels, labelOrders),
             z.pc # "order"
      PROVE  LabelsInv'
  BY <1>2, <1>4, ConfirmationMoves DEF Labels!Goto
<1>5. CASE q.i > Len(rows) /\ Labels!Goto(c, [q EXCEPT !.pc = "delete"])
  <2> DEFINE z == [q EXCEPT !.pc = "delete"]
  <2> HIDE DEF q
  <2>1. /\ z \in Labels!Confirmation /\ z.pc = "delete" /\ z.i = q.i /\ z.preview = p /\ z.labelIds = q.labelIds
        /\ z.paid = q.paid /\ z.unpaid = q.unpaid /\ z.exhausted = q.exhausted
    BY <1>1 DEF Labels!Confirmation
  <2>2. Labels!Goto(c, z)
    BY <1>5
  <2> HIDE DEF z, rows
  <2>3. q.i - 1 = Len(rows)
    BY <1>1, <1>3, <1>5
  <2>4. NamesRows(z, Len(rows), labelLabels)
    BY <1>3, <2>1, <2>3, NamesSame
  <2>5. ConfirmationOK(z, labelLabels, labelOrders)
    BY <1>1, <1>3, <2>1, <2>4 DEF ConfirmationOK, rows
  <2> QED
    BY <1>4, <2>1, <2>2, <2>5
<1>6. CASE q.i <= Len(rows) /\ ~rows[q.i].valid /\ Labels!Goto(c, [q EXCEPT !.i = @ + 1])
  <2> DEFINE z == [q EXCEPT !.i = @ + 1]
  <2> HIDE DEF q
  <2>1. /\ z \in Labels!Confirmation /\ z.pc = "row" /\ z.i = q.i + 1 /\ z.preview = p /\ z.labelIds = q.labelIds
        /\ z.paid = q.paid /\ z.unpaid = q.unpaid /\ z.exhausted = q.exhausted
    BY <1>1, <1>2, NextRowRecord
  <2>2. Labels!Goto(c, z)
    BY <1>6
  <2> HIDE DEF z
  <2>3. NamesRows(z, q.i - 1 + 1, labelLabels)
    BY <1>1, <1>3, <1>6, <2>1, NamesSame
  <2>4. q.i + 1 - 1 = q.i /\ q.i + 1 \in 1 .. Len(rows) + 1
    BY <1>1, <1>6
  <2>5. ConfirmationOK(z, labelLabels, labelOrders)
    BY <1>1, <1>3, <2>1, <2>3, <2>4 DEF ConfirmationOK
  <2> QED
    BY <1>4, <2>1, <2>2, <2>5
<1>7. ASSUME q.i <= Len(rows), rows[q.i].valid, NEW l \in Labels!SameRequest(SheetOwner[p], rows[q.i].request),
             Labels!Goto(c, [q EXCEPT !.i = @ + 1, !.labelIds = Append(@, l)])
      PROVE  LabelsInv'
  <2> DEFINE z == [q EXCEPT !.i = @ + 1, !.labelIds = Append(q.labelIds, l)]
  <2>1. l \in DOMAIN labelLabels /\ labelLabels[l].request = rows[q.i].request /\ l \in Nat
    <3>1. l \in DOMAIN labelLabels /\ labelLabels[l].request = rows[q.i].request
      BY <1>7 DEF Labels!SameRequest
    <3>2. DOMAIN labelLabels = 1 .. Len(labelLabels)
      BY LenProperties DEF LabelsInv, LabelsTyped
    <3> QED
      BY <3>1, <3>2
  <2> HIDE DEF q
  <2>2. Append(q.labelIds, l) \in Seq(Nat)
    BY <1>1, <2>1, AppendProperties
  <2>3. /\ z \in Labels!Confirmation /\ z.pc = "row" /\ z.i = q.i + 1 /\ z.preview = p
        /\ z.labelIds = Append(q.labelIds, l)
        /\ z.paid = q.paid /\ z.unpaid = q.unpaid /\ z.exhausted = q.exhausted
    BY ZenonT(60), <1>1, <1>2, <2>2, NextRowRecord
  <2>4. Labels!Goto(c, z)
    BY <1>1, <1>7 DEF Labels!Confirmation
  <2> HIDE DEF z
  <2>5. NamesRows(z, q.i - 1 + 1, labelLabels)
    <3> HIDE DEF rows, p
    <3>1. SheetRows[p][q.i - 1 + 1].valid /\ labelLabels[l].request = SheetRows[p][q.i - 1 + 1].request
      BY <1>3, <1>7, <2>1 DEF rows
    <3>2. q.preview = p
      BY DEF p
    <3> QED
      BY <1>1, <1>3, <2>1, <2>3, <3>1, <3>2, NamesOneMore
  <2>6. q.i + 1 - 1 = q.i /\ q.i + 1 \in 1 .. Len(rows) + 1
    BY <1>1, <1>7
  <2>7. ConfirmationOK(z, labelLabels, labelOrders)
    BY <1>1, <1>3, <2>3, <2>5, <2>6 DEF ConfirmationOK
  <2> QED
    BY <1>4, <2>3, <2>4, <2>7
<1>8. CASE q.i <= Len(rows) /\ rows[q.i].valid /\ Labels!Goto(c, [q EXCEPT !.pc = "insert"])
  <2> DEFINE z == [q EXCEPT !.pc = "insert"]
  <2> HIDE DEF q
  <2>1. /\ z \in Labels!Confirmation /\ z.pc = "insert" /\ z.i = q.i /\ z.preview = p /\ z.labelIds = q.labelIds
        /\ z.paid = q.paid /\ z.unpaid = q.unpaid /\ z.exhausted = q.exhausted
    BY <1>1 DEF Labels!Confirmation
  <2>2. Labels!Goto(c, z)
    BY <1>8
  <2> HIDE DEF z
  <2>3. NamesRows(z, q.i - 1, labelLabels)
    BY <1>3, <2>1, NamesSame
  <2>4. ConfirmationOK(z, labelLabels, labelOrders)
    BY <1>1, <1>3, <1>8, <2>1, <2>3 DEF ConfirmationOK
  <2> QED
    BY <1>4, <2>1, <2>2, <2>4
<1>9. ~(q.i > Len(rows)) => q.i <= Len(rows)
  BY <1>1
<1> QED
  BY <1>5, <1>6, <1>7, <1>8, <1>9 DEF Labels!NextRow

(* A label that is inserted is the first of its request, and its order is  *)
(* still to be made.                                                       *)
LEMMA InsertLabelKeeps ==
  ASSUME LabelsInv, NEW c \in Confirmations, Labels!InsertLabel(c)
  PROVE  LabelsInv'
<1> DEFINE q == labelConf[c]
           p == q.preview
           u == SheetOwner[p]
           row == SheetRows[p][q.i]
           n == Len(labelLabels) + 1
           new == [user |-> u, request |-> row.request, preview |-> p, row |-> q.i]
           fail == [q EXCEPT !.pc = "failed"]
           z == [q EXCEPT !.pc = "order", !.label = n, !.labelIds = Append(q.labelIds, n)]
<1>1. /\ q \in Labels!Confirmation /\ ConfirmationOK(q, labelLabels, labelOrders)
      /\ p \in DOMAIN SheetRows /\ SheetRows[p] \in Seq(Labels!Row) /\ Len(SheetRows[p]) \in Nat
      /\ q.i \in Nat /\ q.labelIds \in Seq(Nat) /\ u \in Customers
  BY ConfirmationFacts
<1>2. q.pc = "insert" /\ UNCHANGED <<labelMade, labelStored, labelOrders, labelFaults>>
  BY DEF Labels!InsertLabel
<1>3. /\ q.i \in 1 .. Len(SheetRows[p]) /\ row.valid /\ NamesRows(q, q.i - 1, labelLabels)
      /\ q.i - 1 \in Nat /\ q.i - 1 + 1 = q.i /\ row \in Labels!Row
  <2>1. q.i \in 1 .. Len(SheetRows[p]) /\ row.valid /\ NamesRows(q, q.i - 1, labelLabels)
    BY <1>1, <1>2 DEF ConfirmationOK
  <2> QED
    BY <1>1, <2>1
<1>4. CASE Labels!Goto(c, fail) /\ labelLabels' = labelLabels
  <2> HIDE DEF q
  <2>1. /\ fail \in Labels!Confirmation /\ fail.pc = "failed"
        /\ fail.paid = q.paid /\ fail.unpaid = q.unpaid /\ fail.exhausted = q.exhausted
    BY <1>1 DEF Labels!Confirmation
  <2> HIDE DEF fail
  <2>2. ConfirmationOK(fail, labelLabels, labelOrders)
    BY <1>1, <2>1 DEF ConfirmationOK
  <2>3. labelConf' = [labelConf EXCEPT ![c] = fail]
    BY <1>4 DEF Labels!Goto
  <2>4. labelFaults \in Nat /\ labelConf[c].pc # "order"
    BY <1>2 DEF LabelsInv, LabelsTyped, q
  <2> QED
    BY <1>2, <1>4, <2>1, <2>2, <2>3, <2>4, ConfirmationMoves
<1>5. CASE ~Labels!Taken(u, row.request) /\ labelLabels' = Append(labelLabels, new)
           /\ Labels!Goto(c, [q EXCEPT !.pc = "order", !.label = Len(labelLabels'),
                                       !.labelIds = Append(@, Len(labelLabels'))])
  <2>1. /\ labelLabels \in Seq(Labels!Label) /\ labelOrders \in Seq(Labels!LabelOrder)
        /\ labelFaults \in Nat /\ labelStored \subseteq labelMade /\ labelMade \subseteq DOMAIN SheetRows
        /\ labelConf \in [Confirmations -> Labels!Confirmation]
    BY DEF LabelsInv, LabelsTyped
  <2>2. new \in Labels!Label /\ new.user = u /\ new.request = row.request
    BY <1>1, <1>3 DEF Labels!Label, Labels!Row
  <2> HIDE DEF new
  <2>3. /\ Len(labelLabels) \in Nat /\ DOMAIN labelLabels = 1 .. Len(labelLabels)
        /\ labelLabels' \in Seq(Labels!Label) /\ Len(labelLabels') = n /\ DOMAIN labelLabels' = 1 .. n
        /\ labelLabels'[n] = new /\ n \in Nat /\ n \in 1 .. n /\ n \notin DOMAIN labelLabels
        /\ \A l \in DOMAIN labelLabels : labelLabels'[l] = labelLabels[l] /\ l \in 1 .. n
        /\ \A l \in 1 .. n : l \in DOMAIN labelLabels \/ l = n
    BY <1>5, <2>1, <2>2, AppendProperties, LenProperties
  <2>4. /\ z \in Labels!Confirmation /\ z.pc = "order" /\ z.label = n /\ z.i = q.i /\ z.preview = p
        /\ z.labelIds = Append(q.labelIds, n)
        /\ z.paid = q.paid /\ z.unpaid = q.unpaid /\ z.exhausted = q.exhausted
        /\ Labels!Goto(c, z)
    <3>1. Labels!Goto(c, z)
      BY <1>1, <1>5, <2>3 DEF Labels!Confirmation
    <3> HIDE DEF q, n
    <3>2. Append(q.labelIds, n) \in Seq(Nat)
      BY <1>1, <2>3, AppendProperties
    <3> QED
      BY <1>1, <2>3, <3>1, <3>2 DEF Labels!Confirmation
  <2> HIDE DEF z, n
  <2>5. /\ labelConf' \in [Confirmations -> Labels!Confirmation] /\ labelConf'[c] = z
        /\ \A d \in Confirmations \ {c} : labelConf'[d] = labelConf[d]
    BY <2>1, <2>4 DEF Labels!Goto
  <2>6. NamesRows(z, q.i, labelLabels')
    <3> HIDE DEF p, q
    <3>1. SheetRows[p][q.i - 1 + 1].valid /\ labelLabels'[n].request = SheetRows[p][q.i - 1 + 1].request
      BY <1>3, <2>2, <2>3 DEF row
    <3>2. q.preview = p
      BY DEF p
    <3>3. \A k \in DOMAIN labelLabels : k \in DOMAIN labelLabels' /\ labelLabels'[k].request = labelLabels[k].request
      BY <2>3
    <3>4. NamesRows(z, q.i - 1 + 1, labelLabels')
      BY <1>1, <1>3, <2>3, <2>4, <3>1, <3>2, <3>3, NamesOneMore
    <3> QED
      BY <1>3, <3>4
  <2>7. \A a \in DOMAIN labelOrders : labelOrders[a].label # n
    BY <2>3 DEF LabelsInv, OrdersUnique
  <2>8. ConfirmationOK(z, labelLabels', labelOrders')
    <3> HIDE DEF q
    <3>1. ConfirmationOK(q, labelLabels, labelOrders) /\ q.pc = "insert"
      BY <1>1, <1>2
    <3>2. z.preview = q.preview
      BY <2>4
    <3> QED
      BY <1>2, <1>3, <2>3, <2>4, <2>6, <2>7, <3>1, <3>2 DEF ConfirmationOK
  <2>9. \A d \in Confirmations : ConfirmationOK(labelConf'[d], labelLabels', labelOrders')
    <3> TAKE d \in Confirmations
    <3>1. CASE d = c
      BY <2>5, <2>8, <3>1
    <3>2. CASE d # c
      <4>1. ConfirmationOK(labelConf[d], labelLabels, labelOrders)
        BY DEF LabelsInv
      <4>2. labelConf[d].pc = "order" => \A o \in DOMAIN labelOrders : labelOrders[o].label # labelConf[d].label
        BY <4>1 DEF ConfirmationOK
      <4>3. \A l \in DOMAIN labelLabels : l \in DOMAIN labelLabels' /\ labelLabels'[l].request = labelLabels[l].request
        BY <2>3
      <4>4. ConfirmationOK(labelConf[d], labelLabels', labelOrders)
        BY <4>1, <4>2, <4>3, ConfirmationKept
      <4> QED
        BY <1>2, <2>5, <3>2, <4>4
    <3> QED
      BY <3>1, <3>2
  <2>10. LabelsTyped'
    BY <1>2, <2>1, <2>3, <2>5 DEF LabelsTyped
  <2>11. LabelsUnique'
    <3>1. \A l \in DOMAIN labelLabels : labelLabels[l].user = u /\ labelLabels[l].request = row.request
                                         => row.request = NoClientId
      BY <1>5 DEF Labels!Taken, Labels!SameRequest
    <3> HIDE DEF u, row
    <3> QED
      BY <2>2, <2>3, <3>1 DEF LabelsInv, LabelsUnique
  <2>12. OrdersUnique'
    <3>1. \A d \in Confirmations : labelConf[d].pc = "order" => labelConf[d].label \in DOMAIN labelLabels
      BY DEF LabelsInv, ConfirmationOK
    <3>2. \A d, e \in Confirmations :
            labelConf'[d].pc = "order" /\ labelConf'[e].pc = "order" /\ labelConf'[d].label = labelConf'[e].label => d = e
      BY <2>3, <2>4, <2>5, <3>1 DEF LabelsInv, OrdersUnique
    <3>3. \A a \in DOMAIN labelOrders' : labelOrders'[a].label \in DOMAIN labelLabels'
      BY <1>2, <2>3 DEF LabelsInv, OrdersUnique
    <3> QED
      BY <1>2, <3>2, <3>3 DEF LabelsInv, OrdersUnique
  <2>13. Labels!OnlyCrashesOrphanLabels'
    <3> SUFFICES ASSUME labelFaults = 0, NEW l \in 1 .. n
                 PROVE  \/ \E o \in DOMAIN labelOrders : labelOrders[o].label = l
                        \/ \E d \in Confirmations : labelConf'[d].pc = "order" /\ labelConf'[d].label = l
      BY <1>2, <2>3 DEF Labels!OnlyCrashesOrphanLabels
    <3>1. CASE l = n
      BY <2>4, <2>5, <3>1
    <3>2. CASE l \in DOMAIN labelLabels
      <4>1. CASE \E o \in DOMAIN labelOrders : labelOrders[o].label = l
        BY <4>1
      <4>2. CASE \E d \in Confirmations : labelConf[d].pc = "order" /\ labelConf[d].label = l
        BY <1>2, <2>5, <4>2
      <4> QED
        BY <3>2, <4>1, <4>2 DEF LabelsInv, Labels!OnlyCrashesOrphanLabels
    <3> QED
      BY <2>3, <3>1, <3>2
  <2> QED
    BY <2>9, <2>10, <2>11, <2>12, <2>13 DEF LabelsInv
<1> QED
  BY <1>4, <1>5 DEF Labels!InsertLabel

(* The order is the first for its label, and the newest of all.            *)
LEMMA CreateOrderKeeps ==
  ASSUME LabelsInv, NEW c \in Confirmations, Labels!CreateOrderFromLabel(c)
  PROVE  LabelsInv'
<1> DEFINE q == labelConf[c]
           n == Len(labelOrders) + 1
           new == [label |-> q.label, paid |-> FALSE]
           z == [q EXCEPT !.pc = "pay", !.order = n]
<1>1. /\ q \in Labels!Confirmation /\ ConfirmationOK(q, labelLabels, labelOrders) /\ q.pc = "order"
      /\ q.label \in DOMAIN labelLabels /\ q.label \in Nat
      /\ \A o \in DOMAIN labelOrders : labelOrders[o].label # q.label
  <2>1. q \in Labels!Confirmation /\ ConfirmationOK(q, labelLabels, labelOrders)
    BY ConfirmationFacts
  <2>2. q.pc = "order"
    BY DEF Labels!CreateOrderFromLabel
  <2> HIDE DEF q
  <2> QED
    BY <2>1, <2>2 DEF ConfirmationOK, Labels!Confirmation
<1>2. /\ labelOrders' = Append(labelOrders, new) /\ Labels!Goto(c, [q EXCEPT !.pc = "pay", !.order = Len(labelOrders')])
      /\ UNCHANGED <<labelMade, labelStored, labelLabels, labelFaults>>
  BY <1>1 DEF Labels!CreateOrderFromLabel, Labels!OrdersOf
<1>3. /\ labelLabels \in Seq(Labels!Label) /\ labelOrders \in Seq(Labels!LabelOrder)
      /\ labelFaults \in Nat /\ labelStored \subseteq labelMade /\ labelMade \subseteq DOMAIN SheetRows
      /\ labelConf \in [Confirmations -> Labels!Confirmation]
  BY DEF LabelsInv, LabelsTyped
<1>4. new \in Labels!LabelOrder /\ new.label = q.label
  BY <1>1 DEF Labels!LabelOrder
<1> HIDE DEF new
<1>5. /\ Len(labelOrders) \in Nat /\ DOMAIN labelOrders = 1 .. Len(labelOrders)
      /\ labelOrders' \in Seq(Labels!LabelOrder) /\ Len(labelOrders') = n /\ DOMAIN labelOrders' = 1 .. n
      /\ labelOrders'[n] = new /\ n \in Nat /\ n \in 1 .. n /\ n \notin DOMAIN labelOrders
      /\ \A l \in DOMAIN labelOrders : labelOrders'[l] = labelOrders[l] /\ l \in 1 .. n /\ l < n
      /\ \A l \in 1 .. n : l \in DOMAIN labelOrders \/ l = n
  BY <1>2, <1>3, <1>4, AppendProperties, LenProperties
<1>6. /\ z \in Labels!Confirmation /\ z.pc = "pay" /\ z.order = n /\ z.i = q.i /\ z.preview = q.preview
      /\ z.labelIds = q.labelIds
      /\ z.paid = q.paid /\ z.unpaid = q.unpaid /\ z.exhausted = q.exhausted
      /\ Labels!Goto(c, z)
  <2>1. Labels!Goto(c, z)
    BY <1>2, <1>5
  <2> HIDE DEF q, n
  <2> QED
    BY <1>1, <1>5, <2>1 DEF Labels!Confirmation
<1> HIDE DEF z, n
<1>7. /\ labelConf' \in [Confirmations -> Labels!Confirmation] /\ labelConf'[c] = z
      /\ \A d \in Confirmations \ {c} : labelConf'[d] = labelConf[d]
  BY <1>3, <1>6 DEF Labels!Goto
<1>8. ConfirmationOK(z, labelLabels', labelOrders')
  <2> HIDE DEF q
  <2>1. NamesRows(z, q.i, labelLabels)
    <3>1. NamesRows(q, q.i, labelLabels)
      BY <1>1 DEF ConfirmationOK
    <3> QED
      BY <1>6, <3>1, NamesSame
  <2>2. /\ \A j \in DOMAIN q.paid : q.paid[j] \in DOMAIN labelOrders
        /\ \A k \in DOMAIN q.unpaid : q.unpaid[k] \in DOMAIN labelOrders /\ q.exhausted
        /\ \A j \in DOMAIN q.paid, k \in DOMAIN q.unpaid : q.paid[j] < q.unpaid[k]
        /\ q.i \in 1 .. Len(SheetRows[q.preview]) + 1
        /\ q.i <= Len(SheetRows[q.preview]) /\ SheetRows[q.preview][q.i].valid
    BY <1>1 DEF ConfirmationOK
  <2> QED
    BY <1>2, <1>5, <1>6, <2>1, <2>2 DEF ConfirmationOK
<1>9. \A d \in Confirmations : ConfirmationOK(labelConf'[d], labelLabels', labelOrders')
  <2> TAKE d \in Confirmations
  <2>1. CASE d = c
    BY <1>7, <1>8, <2>1
  <2>2. CASE d # c
    <3>1. ConfirmationOK(labelConf[d], labelLabels, labelOrders)
      BY DEF LabelsInv
    <3>2. labelConf[d].pc = "order" => labelConf[d].label # q.label
      BY <1>1, <2>2 DEF LabelsInv, OrdersUnique
    <3>3. labelConf[d].pc = "order" => \A o \in DOMAIN labelOrders' : labelOrders'[o].label # labelConf[d].label
      <4>1. labelConf[d].pc = "order" => \A o \in DOMAIN labelOrders : labelOrders[o].label # labelConf[d].label
        BY <3>1 DEF ConfirmationOK
      <4> HIDE DEF q
      <4> QED
        BY <1>4, <1>5, <3>2, <4>1
    <3>4. DOMAIN labelOrders \subseteq DOMAIN labelOrders'
      BY <1>5
    <3>5. ConfirmationOK(labelConf[d], labelLabels, labelOrders')
      BY <3>1, <3>3, <3>4, ConfirmationKept
    <3> QED
      BY <1>2, <1>7, <2>2, <3>5
  <2> QED
    BY <2>1, <2>2
<1>10. LabelsTyped' /\ LabelsUnique'
  BY <1>2, <1>3, <1>5, <1>7 DEF LabelsTyped, LabelsInv, LabelsUnique
<1>11. OrdersUnique'
  <2>1. \A d, e \in Confirmations :
          labelConf'[d].pc = "order" /\ labelConf'[e].pc = "order" /\ labelConf'[d].label = labelConf'[e].label => d = e
    BY <1>6, <1>7 DEF LabelsInv, OrdersUnique
  <2> HIDE DEF q
  <2>2. \A a \in DOMAIN labelOrders' : labelOrders'[a].label \in DOMAIN labelLabels'
    BY <1>1, <1>2, <1>4, <1>5 DEF LabelsInv, OrdersUnique
  <2>3. \A a, b \in DOMAIN labelOrders' : labelOrders'[a].label = labelOrders'[b].label => a = b
    BY <1>1, <1>4, <1>5 DEF LabelsInv, OrdersUnique
  <2> QED
    BY <2>1, <2>2, <2>3 DEF OrdersUnique
<1>12. Labels!OnlyCrashesOrphanLabels'
  <2> SUFFICES ASSUME labelFaults = 0, NEW l \in DOMAIN labelLabels
               PROVE  \/ \E o \in 1 .. n : labelOrders'[o].label = l
                      \/ \E d \in Confirmations : labelConf'[d].pc = "order" /\ labelConf'[d].label = l
    BY <1>2, <1>5 DEF Labels!OnlyCrashesOrphanLabels
  <2>1. CASE \E o \in DOMAIN labelOrders : labelOrders[o].label = l
    BY <1>5, <2>1
  <2>2. CASE \E d \in Confirmations : labelConf[d].pc = "order" /\ labelConf[d].label = l
    BY <1>4, <1>5, <1>7, <2>2
  <2> QED
    BY <2>1, <2>2 DEF LabelsInv, Labels!OnlyCrashesOrphanLabels
<1> QED
  BY <1>9, <1>10, <1>11, <1>12 DEF LabelsInv
(* A payment is of the newest order: it is paid while the balance lasts.   *)
LEMMA AutoPayKeeps ==
  ASSUME LabelsInv, NEW c \in Confirmations, NEW covered \in BOOLEAN, Labels!AutoPay(c, covered)
  PROVE  LabelsInv'
<1> DEFINE q == labelConf[c]
           paid == IF covered THEN Append(q.paid, q.order) ELSE q.paid
           unpaid == IF covered THEN q.unpaid ELSE Append(q.unpaid, q.order)
           z == [q EXCEPT !.pc = "push", !.exhausted = ~covered, !.paid = paid, !.unpaid = unpaid]
<1>1. /\ q \in Labels!Confirmation /\ ConfirmationOK(q, labelLabels, labelOrders)
      /\ q.paid \in Seq(Nat) /\ q.unpaid \in Seq(Nat)
  BY ConfirmationFacts
<1>2. /\ q.pc = "pay" /\ (covered => ~q.exhausted)
      /\ labelOrders' = [labelOrders EXCEPT ![q.order].paid = @ \/ covered]
      /\ UNCHANGED <<labelMade, labelStored, labelLabels, labelFaults>>
  BY DEF Labels!AutoPay
<1>3. /\ labelLabels \in Seq(Labels!Label) /\ labelOrders \in Seq(Labels!LabelOrder)
      /\ labelFaults \in Nat /\ labelStored \subseteq labelMade /\ labelMade \subseteq DOMAIN SheetRows
      /\ labelConf \in [Confirmations -> Labels!Confirmation]
  BY DEF LabelsInv, LabelsTyped
<1>4. Labels!Goto(c, z)
  BY <1>1 DEF Labels!AutoPay, Labels!Confirmation
<1> HIDE DEF q
<1>5. /\ q.order \in DOMAIN labelOrders /\ q.order \in Nat
      /\ \A j \in DOMAIN q.paid : q.paid[j] \in DOMAIN labelOrders /\ q.paid[j] < q.order
      /\ \A k \in DOMAIN q.unpaid : q.unpaid[k] \in DOMAIN labelOrders /\ q.exhausted
      /\ \A j \in DOMAIN q.paid, k \in DOMAIN q.unpaid : q.paid[j] < q.unpaid[k]
      /\ NamesRows(q, q.i, labelLabels)
      /\ q.i \in 1 .. Len(SheetRows[q.preview]) + 1
      /\ q.i <= Len(SheetRows[q.preview]) /\ SheetRows[q.preview][q.i].valid
  BY <1>1, <1>2 DEF ConfirmationOK, Labels!Confirmation
<1>6. ASSUME NEW s \in Seq(Nat)
      PROVE  /\ Append(s, q.order) \in Seq(Nat)
             /\ \A j \in DOMAIN Append(s, q.order) :
                  \/ j \in DOMAIN s /\ Append(s, q.order)[j] = s[j]
                  \/ Append(s, q.order)[j] = q.order
  <2>1. /\ Append(s, q.order) \in Seq(Nat) /\ DOMAIN s = 1 .. Len(s) /\ Len(s) \in Nat
        /\ DOMAIN Append(s, q.order) = 1 .. Len(s) + 1 /\ Append(s, q.order)[Len(s) + 1] = q.order
        /\ \A j \in 1 .. Len(s) : Append(s, q.order)[j] = s[j]
    BY <1>5, AppendProperties, LenProperties
  <2>2. \A j \in 1 .. Len(s) + 1 : j \in 1 .. Len(s) \/ j = Len(s) + 1
    BY <2>1
  <2> QED
    BY <2>1, <2>2
<1>7. /\ paid \in Seq(Nat) /\ unpaid \in Seq(Nat)
      /\ \A j \in DOMAIN paid : paid[j] \in DOMAIN labelOrders
      /\ \A k \in DOMAIN unpaid : unpaid[k] \in DOMAIN labelOrders /\ ~covered
      /\ \A j \in DOMAIN paid, k \in DOMAIN unpaid : paid[j] < unpaid[k]
  <2>1. CASE covered
    BY <1>1, <1>2, <1>5, <1>6, <2>1
  <2>2. CASE ~covered
    BY <1>1, <1>2, <1>5, <1>6, <2>2
  <2> QED
    BY <2>1, <2>2
<1> HIDE DEF paid, unpaid
<1>8. /\ z \in Labels!Confirmation /\ z.pc = "push" /\ z.i = q.i /\ z.preview = q.preview
      /\ z.labelIds = q.labelIds /\ z.exhausted = ~covered /\ z.paid = paid /\ z.unpaid = unpaid
  BY <1>1, <1>7 DEF Labels!Confirmation
<1> HIDE DEF z
<1>9. /\ labelConf' \in [Confirmations -> Labels!Confirmation] /\ labelConf'[c] = z
      /\ \A d \in Confirmations \ {c} : labelConf'[d] = labelConf[d]
  BY <1>3, <1>4, <1>8 DEF Labels!Goto
<1>10. /\ labelOrders' \in Seq(Labels!LabelOrder) /\ DOMAIN labelOrders' = DOMAIN labelOrders
       /\ \A a \in DOMAIN labelOrders : labelOrders'[a].label = labelOrders[a].label
  <2> DEFINE new == [labelOrders[q.order] EXCEPT !.paid = @ \/ covered]
  <2>1. labelOrders[q.order] \in Labels!LabelOrder
    BY <1>3, <1>5, ElementOfSeq, LenProperties
  <2>2. new \in Labels!LabelOrder /\ new.label = labelOrders[q.order].label
    BY <2>1 DEF Labels!LabelOrder
  <2>3. labelOrders' = [labelOrders EXCEPT ![q.order] = new]
    BY <1>2
  <2> HIDE DEF new
  <2> QED
    BY <1>3, <1>5, <2>2, <2>3, ExceptSeq, LenProperties
<1>11. ConfirmationOK(z, labelLabels', labelOrders')
  <2>1. NamesRows(z, q.i, labelLabels)
    BY <1>5, <1>8, NamesSame
  <2> QED
    BY <1>2, <1>5, <1>7, <1>8, <1>10, <2>1 DEF ConfirmationOK
<1>12. \A d \in Confirmations : ConfirmationOK(labelConf'[d], labelLabels', labelOrders')
  <2> TAKE d \in Confirmations
  <2>1. CASE d = c
    BY <1>9, <1>11, <2>1
  <2>2. CASE d # c
    <3>1. ConfirmationOK(labelConf[d], labelLabels, labelOrders)
      BY DEF LabelsInv
    <3>2. labelConf[d].pc = "order" => \A o \in DOMAIN labelOrders' : labelOrders'[o].label # labelConf[d].label
      BY <1>10, <3>1 DEF ConfirmationOK
    <3>3. ConfirmationOK(labelConf[d], labelLabels, labelOrders')
      BY <1>10, <3>1, <3>2, ConfirmationKept
    <3> QED
      BY <1>2, <1>9, <2>2, <3>3
  <2> QED
    BY <2>1, <2>2
<1>13. LabelsTyped' /\ LabelsUnique'
  BY <1>2, <1>3, <1>9, <1>10 DEF LabelsTyped, LabelsInv, LabelsUnique
<1>14. OrdersUnique'
  BY <1>2, <1>8, <1>9, <1>10 DEF LabelsInv, OrdersUnique
<1>15. Labels!OnlyCrashesOrphanLabels'
  <2> SUFFICES ASSUME labelFaults = 0, NEW l \in DOMAIN labelLabels
               PROVE  \/ \E o \in DOMAIN labelOrders : labelOrders'[o].label = l
                      \/ \E d \in Confirmations : labelConf'[d].pc = "order" /\ labelConf'[d].label = l
    BY <1>2, <1>10 DEF Labels!OnlyCrashesOrphanLabels
  <2>1. CASE \E o \in DOMAIN labelOrders : labelOrders[o].label = l
    BY <1>10, <2>1
  <2>2. CASE \E d \in Confirmations : labelConf[d].pc = "order" /\ labelConf[d].label = l
    <3>1. labelConf[c].pc # "order"
      BY <1>2 DEF q
    <3> QED
      BY <1>9, <2>2, <3>1
  <2> QED
    BY <2>1, <2>2 DEF LabelsInv, Labels!OnlyCrashesOrphanLabels
<1> QED
  BY <1>12, <1>13, <1>14, <1>15 DEF LabelsInv

(* The job is pushed, or the push fails; the preview is deleted.           *)
LEMMA LastStepsKeep ==
  ASSUME LabelsInv, NEW c \in Confirmations,
         Labels!Enqueue(c) \/ Labels!EnqueueFails(c) \/ Labels!DeletePreview(c)
  PROVE  LabelsInv'
<1> DEFINE q == labelConf[c]
<1>1. /\ q \in Labels!Confirmation /\ ConfirmationOK(q, labelLabels, labelOrders)
      /\ q.preview \in DOMAIN SheetRows /\ Len(SheetRows[q.preview]) \in Nat /\ q.i \in Nat
      /\ q.labelIds \in Seq(Nat)
  BY ConfirmationFacts
<1>2. labelFaults \in Nat /\ MaxFaults \in Nat
  BY LabelsAssumption DEF LabelsInv, LabelsTyped, Labels!LabelImportAssumption
<1>3. CASE Labels!Enqueue(c)
  <2> DEFINE z == [q EXCEPT !.pc = "row", !.i = @ + 1]
             y == [q EXCEPT !.pc = "row"]
  <2>1. /\ q.pc = "push" /\ Labels!Goto(c, z)
        /\ UNCHANGED <<labelMade, labelStored, labelLabels, labelOrders, labelFaults>>
    BY <1>3 DEF Labels!Enqueue
  <2> HIDE DEF q
  <2>2. z \in Labels!Confirmation /\ z.pc = "row" /\ z.i = q.i + 1 /\ z.preview = q.preview
        /\ z.labelIds = q.labelIds /\ z.paid = q.paid /\ z.unpaid = q.unpaid /\ z.exhausted = q.exhausted
    <3>1. y \in Labels!Confirmation /\ y.pc = "row" /\ y.i = q.i /\ y.preview = q.preview
          /\ y.labelIds = q.labelIds /\ y.paid = q.paid /\ y.unpaid = q.unpaid /\ y.exhausted = q.exhausted
      BY <1>1 DEF Labels!Confirmation
    <3>2. z = [y EXCEPT !.i = @ + 1]
      BY <1>1 DEF Labels!Confirmation
    <3> HIDE DEF y, z
    <3> QED
      BY <1>1, <3>1, <3>2, NextRowRecord
  <2> HIDE DEF z
  <2>3. NamesRows(z, q.i, labelLabels)
    <3>1. NamesRows(q, q.i, labelLabels)
      BY <1>1, <2>1 DEF ConfirmationOK
    <3> QED
      BY <2>2, <3>1, NamesSame
  <2>4. q.i + 1 - 1 = q.i /\ q.i + 1 \in 1 .. Len(SheetRows[q.preview]) + 1
    BY <1>1, <2>1 DEF ConfirmationOK
  <2>5. ConfirmationOK(z, labelLabels, labelOrders)
    BY <1>1, <2>1, <2>2, <2>3, <2>4 DEF ConfirmationOK
  <2>6. labelConf' = [labelConf EXCEPT ![c] = z] /\ labelConf[c].pc # "order"
    BY <2>1 DEF Labels!Goto, q
  <2> QED
    BY <1>2, <2>1, <2>2, <2>5, <2>6, ConfirmationMoves
<1>4. CASE Labels!EnqueueFails(c)
  <2> DEFINE z == [q EXCEPT !.pc = "failed"]
  <2>1. /\ q.pc = "push" /\ Labels!Goto(c, z) /\ labelFaults' = labelFaults + 1
        /\ UNCHANGED <<labelMade, labelStored, labelLabels, labelOrders>>
    BY <1>4 DEF Labels!EnqueueFails, Labels!Fault
  <2> HIDE DEF q
  <2>2. z \in Labels!Confirmation /\ z.pc = "failed"
        /\ z.paid = q.paid /\ z.unpaid = q.unpaid /\ z.exhausted = q.exhausted
    BY <1>1 DEF Labels!Confirmation
  <2> HIDE DEF z
  <2>3. ConfirmationOK(z, labelLabels, labelOrders)
    BY <1>1, <2>2 DEF ConfirmationOK
  <2>4. labelConf' = [labelConf EXCEPT ![c] = z] /\ labelFaults' \in Nat /\ labelFaults' # 0
    BY <1>2, <2>1 DEF Labels!Goto
  <2>5. z.pc # "order" /\ labelStored' \subseteq labelStored
    BY <2>1, <2>2
  <2> HIDE DEF q
  <2> QED
    BY <1>1, <2>1, <2>2, <2>3, <2>4, <2>5, ConfirmationMoves
<1>5. CASE Labels!DeletePreview(c)
  <2> DEFINE z == [q EXCEPT !.pc = "done"]
  <2>1. /\ q.pc = "delete" /\ Labels!Goto(c, z) /\ labelStored' = labelStored \ {q.preview}
        /\ UNCHANGED <<labelMade, labelLabels, labelOrders, labelFaults>>
    BY <1>5 DEF Labels!DeletePreview
  <2> HIDE DEF q
  <2>2. z \in Labels!Confirmation /\ z.pc = "done" /\ z.i = q.i /\ z.preview = q.preview
        /\ z.labelIds = q.labelIds /\ z.paid = q.paid /\ z.unpaid = q.unpaid /\ z.exhausted = q.exhausted
    BY <1>1 DEF Labels!Confirmation
  <2> HIDE DEF z
  <2>3. NamesRows(z, Len(SheetRows[q.preview]), labelLabels)
    <3>1. NamesRows(q, Len(SheetRows[q.preview]), labelLabels)
      BY <1>1, <2>1 DEF ConfirmationOK
    <3> QED
      BY <2>2, <3>1, NamesSame
  <2>4. ConfirmationOK(z, labelLabels, labelOrders)
    BY <1>1, <2>1, <2>2, <2>3 DEF ConfirmationOK
  <2>5. labelConf' = [labelConf EXCEPT ![c] = z] /\ labelConf[c].pc # "order" /\ labelStored' \subseteq labelStored
    BY <2>1 DEF Labels!Goto, q
  <2> QED
    BY <1>2, <2>1, <2>2, <2>4, <2>5, ConfirmationMoves
<1> QED
  BY <1>3, <1>4, <1>5

(* The process ends, and its confirmations with it.                        *)
LEMMA ImportDiesKeeps ==
  ASSUME LabelsInv, Labels!ProcessEnds
  PROVE  LabelsInv'
<1>1. /\ UNCHANGED <<labelMade, labelStored, labelLabels, labelOrders>> /\ labelFaults' = labelFaults + 1
      /\ \A c \in Confirmations :
           labelConf'[c] = labelConf[c] \/ labelConf'[c] = [labelConf[c] EXCEPT !.pc = "failed"]
      /\ labelConf' = [c \in Confirmations |-> labelConf'[c]]
  BY DEF Labels!ProcessEnds, Labels!Fault
<1>2. labelFaults' \in Nat /\ labelFaults' # 0
  BY <1>1 DEF LabelsInv, LabelsTyped
<1>3. ASSUME NEW c \in Confirmations
      PROVE  /\ labelConf'[c] \in Labels!Confirmation
             /\ ConfirmationOK(labelConf'[c], labelLabels', labelOrders')
             /\ labelConf'[c].pc = "order" => labelConf'[c] = labelConf[c]
  <2> DEFINE q == labelConf[c]
             z == labelConf'[c]
  <2>1. q \in Labels!Confirmation /\ ConfirmationOK(q, labelLabels, labelOrders)
    BY ConfirmationFacts
  <2>2. CASE z = q
    BY <1>1, <2>1, <2>2
  <2>3. CASE z = [q EXCEPT !.pc = "failed"]
    <3>1. z = [q EXCEPT !.pc = "failed"]
      BY <2>3
    <3> HIDE DEF q, z
    <3>2. z \in Labels!Confirmation /\ z.pc = "failed"
          /\ z.paid = q.paid /\ z.unpaid = q.unpaid /\ z.exhausted = q.exhausted
      BY <2>1, <3>1 DEF Labels!Confirmation
    <3>3. ConfirmationOK(z, labelLabels', labelOrders')
      BY <1>1, <2>1, <3>2 DEF ConfirmationOK
    <3> QED
      BY <3>2, <3>3 DEF q, z
  <2> QED
    BY <1>1, <2>2, <2>3
<1>4. LabelsTyped' /\ LabelsUnique'
  BY <1>1, <1>2, <1>3 DEF LabelsTyped, LabelsInv, LabelsUnique
<1>5. OrdersUnique'
  BY <1>1, <1>3 DEF LabelsInv, OrdersUnique
<1>6. Labels!OnlyCrashesOrphanLabels'
  BY <1>2 DEF Labels!OnlyCrashesOrphanLabels
<1> QED
  BY <1>3, <1>4, <1>5, <1>6 DEF LabelsInv

(* The invariant of the imports.                                           *)
LEMMA LabelsInvHolds ==
  /\ Labels!Init => LabelsInv
  /\ LabelsInv /\ Labels!Next => LabelsInv'
  /\ LabelsInv /\ UNCHANGED <<labelMade, labelStored, labelLabels, labelOrders, labelConf, labelFaults>> => LabelsInv'
<1>1. ASSUME Labels!Init
      PROVE  LabelsInv
  <2> PICK p \in DOMAIN SheetRows : labelConf = [c \in Confirmations |-> [Labels!Start(p) EXCEPT !.pc = "idle"]]
    BY <1>1 DEF Labels!Init
  <2>1. << >> \in Seq(Nat) /\ << >> \in Seq(Labels!Label) /\ << >> \in Seq(Labels!LabelOrder) /\ DOMAIN << >> = {}
    OBVIOUS
  <2>2. /\ labelMade = {} /\ labelStored = {} /\ labelLabels = << >> /\ labelOrders = << >> /\ labelFaults = 0
    BY <1>1 DEF Labels!Init
  <2>3. \A c \in Confirmations :
          /\ labelConf[c] \in Labels!Confirmation /\ labelConf[c].pc = "idle"
          /\ labelConf[c].paid = << >> /\ labelConf[c].unpaid = << >>
    BY <2>1 DEF Labels!Start, Labels!Confirmation
  <2>4. LabelsTyped
    BY <2>1, <2>2, <2>3 DEF LabelsTyped
  <2>5. \A c \in Confirmations : ConfirmationOK(labelConf[c], labelLabels, labelOrders)
    BY <2>1, <2>2, <2>3 DEF ConfirmationOK
  <2>6. LabelsUnique /\ OrdersUnique /\ Labels!OnlyCrashesOrphanLabels
    BY <2>1, <2>2, <2>3 DEF LabelsUnique, OrdersUnique, Labels!OnlyCrashesOrphanLabels
  <2> QED
    BY <2>4, <2>5, <2>6 DEF LabelsInv
<1>2. ASSUME LabelsInv, Labels!Next
      PROVE  LabelsInv'
  BY <1>2, PreviewsKeep, ConfirmKeeps, NextRowKeeps, InsertLabelKeeps, CreateOrderKeeps, AutoPayKeeps,
     LastStepsKeep, ImportDiesKeeps DEF Labels!Next
<1>3. ASSUME LabelsInv, UNCHANGED <<labelMade, labelStored, labelLabels, labelOrders, labelConf, labelFaults>>
      PROVE  LabelsInv'
  BY <1>3 DEF LabelsInv, LabelsTyped, LabelsUnique, OrdersUnique, ConfirmationOK, NamesRows,
              Labels!OnlyCrashesOrphanLabels
<1> QED
  BY <1>1, <1>2, <1>3

(* What it says of the requests of a customer, of the replies and of the   *)
(* payments.                                                               *)
LEMMA LabelsInvGives ==
  ASSUME LabelsInv
  PROVE  /\ Labels!OnePerRequestId /\ Labels!OnlyCrashesOrphanLabels
         /\ Labels!ReplyNamesEveryRow /\ Labels!ConfirmPaysPrefix
<1>1. Labels!OnePerRequestId
  <2> SUFFICES ASSUME NEW u \in Customers, NEW id \in ClientIds
               PROVE  Labels!Cardinality({o \in DOMAIN labelOrders :
                                            labelOrders[o].label \in Labels!SameRequest(u, id)}) <= 1
    BY DEF Labels!OnePerRequestId
  <2> DEFINE S == {o \in DOMAIN labelOrders : labelOrders[o].label \in Labels!SameRequest(u, id)}
  <2>1. \A a, b \in S : a = b
    <3>1. id # NoClientId
      BY LabelsAssumption DEF Labels!LabelImportAssumption
    <3> QED
      BY <3>1 DEF LabelsInv, LabelsUnique, OrdersUnique, Labels!SameRequest
  <2> HIDE DEF S
  <2>2. S = {} \/ \E a : S = {a}
    BY <2>1
  <2>3. Cardinality(S) <= 1
    <3>1. CASE S = {}
      <4>1. Cardinality(S) = 0
        BY <3>1, FS_EmptySet
      <4> QED
        BY <4>1
    <3>2. CASE \E a : S = {a}
      <4>1. PICK a : S = {a}
        BY <3>2
      <4>2. Cardinality(S) = 1
        BY <4>1, FS_Singleton
      <4> QED
        BY <4>2
    <3> QED
      BY <2>2, <3>1, <3>2
  <2>4. Labels!Cardinality(S) = Cardinality(S)
    BY DEF Labels!Cardinality, Cardinality
  <2> QED
    BY <2>3, <2>4 DEF S
<1>2. Labels!OnlyCrashesOrphanLabels
  BY DEF LabelsInv
<1>3. Labels!ReplyNamesEveryRow
  BY DEF LabelsInv, ConfirmationOK, NamesRows, Labels!ReplyNamesEveryRow
<1>4. Labels!ConfirmPaysPrefix
  BY DEF LabelsInv, ConfirmationOK, Labels!ConfirmPaysPrefix
<1> QED
  BY <1>1, <1>2, <1>3, <1>4

-----------------------------------------------------------------------------
\* Where a confirmation without others stands, and what its preview has in
\* the table by then.
StandsAlone(q, labels) ==
  /\ q.preview \in DOMAIN SheetRows /\ q.i \in Nat \ {0}
  /\ \A k \in DOMAIN labels : labels[k].preview = q.preview =>
       /\ q.pc \in {"row", "insert"} => labels[k].row < q.i
       /\ q.pc \in {"order", "pay", "push"} => labels[k].row <= q.i
  /\ q.pc = "insert" =>
       LET row == SheetRows[q.preview][q.i] IN
       /\ q.i <= Len(SheetRows[q.preview])
       /\ \A k \in DOMAIN labels :
            labels[k].user = SheetOwner[q.preview] /\ labels[k].request = row.request
              => row.request = NoClientId

AloneInv ==
  /\ labelStored \subseteq labelMade /\ labelMade \subseteq DOMAIN SheetRows
  /\ labelLabels \in Seq(LabelsAlone!Label)
  /\ DOMAIN labelConf = Calls
  /\ \A c \in Calls : {"pc", "preview", "i"} \subseteq DOMAIN labelConf[c]
  /\ labelFaults = 0
  /\ \A c, d \in LabelsAlone!Running : c = d
  /\ \A c \in LabelsAlone!Running :
       labelConf[c].preview \in labelMade /\ StandsAlone(labelConf[c], labelLabels)
  /\ \A k \in DOMAIN labelLabels :
       /\ labelLabels[k].preview \in labelMade
       /\ labelLabels[k].preview \in labelStored =>
            \E c \in LabelsAlone!Running : labelConf[c].preview = labelLabels[k].preview
  /\ LabelsAlone!EachRowOnce

(* Rows are numbers.                                                       *)
LEMMA AloneRows ==
  ASSUME AloneInv
  PROVE  \A k \in DOMAIN labelLabels : labelLabels[k].row \in Nat
<1>1. ASSUME NEW k \in DOMAIN labelLabels
      PROVE  labelLabels[k].row \in Nat
  <2>1. labelLabels \in Seq(LabelsAlone!Label)
    BY DEF AloneInv
  <2>2. labelLabels[k] \in LabelsAlone!Label
    BY <2>1, ElementOfSeq, LenProperties
  <2> QED
    BY <2>2 DEF LabelsAlone!Label
<1> QED
  BY <1>1

(* The one confirmation that runs goes on, or ends with its preview.       *)
LEMMA AloneMoves ==
  ASSUME AloneInv, NEW c \in LabelsAlone!Running, NEW z, {"pc", "preview", "i"} \subseteq DOMAIN z,
         labelConf' = [labelConf EXCEPT ![c] = z], z.preview = labelConf[c].preview,
         labelMade' = labelMade, labelLabels' = labelLabels, labelFaults' = labelFaults,
         \/ z.pc \notin LabelsAlone!Ended /\ labelStored' = labelStored /\ StandsAlone(z, labelLabels)
         \/ z.pc \in LabelsAlone!Ended /\ labelStored' = labelStored \ {z.preview}
  PROVE  AloneInv'
<1>1. /\ c \in Calls /\ DOMAIN labelConf' = Calls /\ labelConf'[c] = z
      /\ \A d \in Calls \ {c} : labelConf'[d] = labelConf[d] /\ d \notin LabelsAlone!Running
      /\ \A d \in LabelsAlone!Running : d = c
  BY DEF AloneInv, LabelsAlone!Running
<1>2. /\ LabelsAlone!Running' \subseteq {c}
      /\ z.pc \notin LabelsAlone!Ended => LabelsAlone!Running' = {c}
  BY <1>1 DEF LabelsAlone!Running, LabelsAlone!Ended
<1>3. \A d \in Calls : {"pc", "preview", "i"} \subseteq DOMAIN labelConf'[d]
  BY <1>1 DEF AloneInv
<1>4. \A d \in LabelsAlone!Running' : labelConf'[d].preview \in labelMade' /\ StandsAlone(labelConf'[d], labelLabels')
  <2>1. \A d \in LabelsAlone!Running' : d = c /\ z.pc \notin LabelsAlone!Ended
    BY <1>1, <1>2 DEF LabelsAlone!Running, LabelsAlone!Ended
  <2>2. z.preview \in labelMade
    BY DEF AloneInv
  <2> QED
    BY <1>1, <2>1, <2>2
<1>5. ASSUME NEW k \in DOMAIN labelLabels, labelLabels[k].preview \in labelStored'
      PROVE  \E d \in LabelsAlone!Running' : labelConf'[d].preview = labelLabels[k].preview
  <2>1. labelLabels[k].preview \in labelStored
    BY <1>5
  <2>2. labelLabels[k].preview = z.preview
    BY <1>1, <2>1 DEF AloneInv
  <2> QED
    BY <1>1, <1>2, <1>5, <2>2
<1>6. LabelsAlone!EachRowOnce'
  BY DEF AloneInv, LabelsAlone!EachRowOnce
<1> QED
  BY <1>1, <1>2, <1>3, <1>4, <1>5, <1>6 DEF AloneInv

(* What is known of the confirmation that runs.                            *)
LEMMA AloneFacts ==
  ASSUME AloneInv, NEW c \in Calls, labelConf[c].pc \notin LabelsAlone!Ended
  PROVE  LET q == labelConf[c]
             p == q.preview
         IN
         /\ c \in LabelsAlone!Running /\ StandsAlone(q, labelLabels)
         /\ {"pc", "preview", "i"} \subseteq DOMAIN q
         /\ p \in DOMAIN SheetRows /\ p \in labelMade /\ q.i \in Nat \ {0}
         /\ SheetRows[p] \in Seq(LabelsAlone!Row) /\ Len(SheetRows[p]) \in Nat
         /\ SheetOwner[p] \in Customers
<1> DEFINE q == labelConf[c]
<1>1. /\ c \in LabelsAlone!Running /\ StandsAlone(q, labelLabels) /\ {"pc", "preview", "i"} \subseteq DOMAIN q
      /\ q.preview \in labelMade
  BY DEF AloneInv, LabelsAlone!Running
<1> HIDE DEF q
<1>2. q.preview \in DOMAIN SheetRows /\ q.i \in Nat \ {0}
  BY <1>1 DEF StandsAlone
<1>3. SheetRows[q.preview] \in Seq(LabelsAlone!Row) /\ SheetOwner[q.preview] \in Customers
  BY <1>2, LabelsAloneAssumption DEF LabelsAlone!LabelImportAssumption
<1> QED
  BY <1>1, <1>2, <1>3, LenProperties DEF q

(* Previews come and go, and a confirmation starts when no other runs.     *)
LEMMA AloneStarts ==
  ASSUME AloneInv,
         \/ \E p \in DOMAIN SheetRows : LabelsAlone!CreatePreview(p) \/ LabelsAlone!PreviewExpires(p)
         \/ \E c \in Calls, u \in Customers, p \in DOMAIN SheetRows : LabelsAlone!Confirm(c, u, p)
  PROVE  AloneInv'
<1>1. ASSUME NEW p \in DOMAIN SheetRows, LabelsAlone!CreatePreview(p)
      PROVE  AloneInv'
  <2>1. ~LabelsAlone!Fault
    BY DEF AloneInv, LabelsAlone!Fault
  <2>2. /\ p \notin labelMade /\ labelMade' = labelMade \cup {p} /\ labelStored' = labelStored \cup {p}
        /\ UNCHANGED <<labelLabels, labelConf, labelFaults>>
    BY <1>1, <2>1 DEF LabelsAlone!CreatePreview
  <2>3. LabelsAlone!Running' = LabelsAlone!Running
    BY <2>2 DEF LabelsAlone!Running
  <2> QED
    BY <2>2, <2>3 DEF AloneInv, LabelsAlone!EachRowOnce
<1>2. ASSUME NEW p \in DOMAIN SheetRows, LabelsAlone!PreviewExpires(p)
      PROVE  AloneInv'
  <2>1. /\ labelStored' \subseteq labelStored /\ UNCHANGED <<labelMade, labelLabels, labelConf, labelFaults>>
    BY <1>2 DEF LabelsAlone!PreviewExpires
  <2>2. LabelsAlone!Running' = LabelsAlone!Running
    BY <2>1 DEF LabelsAlone!Running
  <2> QED
    BY <2>1, <2>2 DEF AloneInv, LabelsAlone!EachRowOnce
<1>3. ASSUME NEW c \in Calls, NEW u \in Customers, NEW p \in DOMAIN SheetRows, LabelsAlone!Confirm(c, u, p)
      PROVE  AloneInv'
  <2> DEFINE z == LabelsAlone!Start(p)
  <2>1. /\ labelConf' = [labelConf EXCEPT ![c] = z] /\ labelConf[c].pc = "idle" /\ p \in labelStored
        /\ UNCHANGED <<labelMade, labelStored, labelLabels, labelFaults>>
        /\ LabelsAlone!Cardinality(LabelsAlone!Running) < 1
    BY <1>3 DEF LabelsAlone!Confirm, LabelsAlone!Goto
  <2>2. z.pc = "row" /\ z.preview = p /\ z.i = 1 /\ {"pc", "preview", "i"} \subseteq DOMAIN z
    BY DEF LabelsAlone!Start
  <2> HIDE DEF z
  <2>3. LabelsAlone!Running = {}
    <3> SUFFICES ASSUME NEW d \in LabelsAlone!Running
                 PROVE  FALSE
      OBVIOUS
    <3>1. LabelsAlone!Running = {d}
      BY DEF AloneInv
    <3>2. Cardinality(LabelsAlone!Running) = 1
      BY <3>1, FS_Singleton
    <3>3. LabelsAlone!Cardinality(LabelsAlone!Running) = Cardinality(LabelsAlone!Running)
      BY DEF LabelsAlone!Cardinality, Cardinality
    <3> QED
      BY <2>1, <3>2, <3>3
  <2>4. /\ DOMAIN labelConf' = Calls /\ labelConf'[c] = z
        /\ \A d \in Calls \ {c} : labelConf'[d] = labelConf[d] /\ labelConf[d].pc \in LabelsAlone!Ended
    BY <2>1, <2>3 DEF AloneInv, LabelsAlone!Running
  <2>5. LabelsAlone!Running' = {c}
    BY <2>2, <2>4 DEF LabelsAlone!Running, LabelsAlone!Ended
  <2>6. \A k \in DOMAIN labelLabels : labelLabels[k].preview \notin labelStored
    BY <2>3 DEF AloneInv
  <2>7. StandsAlone(z, labelLabels)
    BY <2>1, <2>2, <2>6 DEF StandsAlone
  <2>8. labelStored \subseteq labelMade /\ p \in labelMade
    BY <2>1 DEF AloneInv
  <2>9. \A d \in Calls : {"pc", "preview", "i"} \subseteq DOMAIN labelConf'[d]
    BY <2>2, <2>4 DEF AloneInv
  <2> QED
    BY <2>1, <2>2, <2>4, <2>5, <2>6, <2>7, <2>8, <2>9 DEF AloneInv, LabelsAlone!EachRowOnce
<1> QED
  BY <1>1, <1>2, <1>3

(* The next row.                                                           *)
LEMMA AloneNextRow ==
  ASSUME AloneInv, NEW c \in Calls, LabelsAlone!NextRow(c)
  PROVE  AloneInv'
<1> DEFINE q == labelConf[c]
           p == q.preview
<1>1. q.pc = "row" /\ UNCHANGED <<labelMade, labelStored, labelLabels, labelFaults>>
  BY DEF LabelsAlone!NextRow
<1>2. /\ c \in LabelsAlone!Running /\ StandsAlone(q, labelLabels) /\ {"pc", "preview", "i"} \subseteq DOMAIN q
      /\ p \in DOMAIN SheetRows /\ q.i \in Nat \ {0} /\ Len(SheetRows[p]) \in Nat
  BY <1>1, AloneFacts DEF LabelsAlone!Ended
<1>3. ASSUME NEW z, LabelsAlone!Goto(c, z), {"pc", "preview", "i"} \subseteq DOMAIN z, z.preview = p,
             z.pc \in {"row", "insert", "delete"}, StandsAlone(z, labelLabels)
      PROVE  AloneInv'
  BY <1>1, <1>2, <1>3, AloneMoves DEF LabelsAlone!Goto, LabelsAlone!Ended
<1>4. CASE LabelsAlone!Goto(c, [q EXCEPT !.pc = "delete"])
  <2> DEFINE z == [q EXCEPT !.pc = "delete"]
  <2>1. {"pc", "preview", "i"} \subseteq DOMAIN z /\ z.preview = p /\ z.pc = "delete" /\ z.i = q.i
    BY <1>2
  <2>2. LabelsAlone!Goto(c, z)
    BY <1>4
  <2> HIDE DEF z
  <2>3. StandsAlone(z, labelLabels)
    BY <1>2, <2>1 DEF StandsAlone
  <2> QED
    BY <1>3, <2>1, <2>2, <2>3
<1>5. CASE LabelsAlone!Goto(c, [q EXCEPT !.i = @ + 1])
  <2> DEFINE z == [q EXCEPT !.i = @ + 1]
  <2>1. {"pc", "preview", "i"} \subseteq DOMAIN z /\ z.preview = p /\ z.pc = "row" /\ z.i = q.i + 1
    BY <1>1, <1>2
  <2>2. LabelsAlone!Goto(c, z)
    BY <1>5
  <2> HIDE DEF z, q
  <2>3. StandsAlone(z, labelLabels)
    <3>1. \A k \in DOMAIN labelLabels : labelLabels[k].row \in Nat
      BY AloneRows
    <3> QED
      BY <1>1, <1>2, <2>1, <3>1 DEF StandsAlone
  <2> QED
    BY <1>3, <2>1, <2>2, <2>3
<1>6. ASSUME NEW l, LabelsAlone!Goto(c, [q EXCEPT !.i = @ + 1, !.labelIds = Append(@, l)])
      PROVE  AloneInv'
  <2> DEFINE z == [q EXCEPT !.i = @ + 1, !.labelIds = Append(@, l)]
  <2>1. {"pc", "preview", "i"} \subseteq DOMAIN z /\ z.preview = p /\ z.pc = "row" /\ z.i = q.i + 1
    BY <1>1, <1>2
  <2>2. LabelsAlone!Goto(c, z)
    BY <1>6
  <2> HIDE DEF z, q
  <2>3. StandsAlone(z, labelLabels)
    <3>1. \A k \in DOMAIN labelLabels : labelLabels[k].row \in Nat
      BY AloneRows
    <3> QED
      BY <1>1, <1>2, <2>1, <3>1 DEF StandsAlone
  <2> QED
    BY <1>3, <2>1, <2>2, <2>3
<1>7. CASE /\ ~(q.i > Len(SheetRows[p])) /\ LabelsAlone!Goto(c, [q EXCEPT !.pc = "insert"])
           /\ SheetRows[p][q.i].request # NoClientId
                => LabelsAlone!SameRequest(SheetOwner[p], SheetRows[p][q.i].request) = {}
  <2> DEFINE z == [q EXCEPT !.pc = "insert"]
  <2>1. {"pc", "preview", "i"} \subseteq DOMAIN z /\ z.preview = p /\ z.pc = "insert" /\ z.i = q.i
    BY <1>2
  <2>2. LabelsAlone!Goto(c, z)
    BY <1>7
  <2> HIDE DEF z
  <2>3. StandsAlone(z, labelLabels)
    <3>1. \A k \in DOMAIN labelLabels :
            labelLabels[k].user = SheetOwner[p] /\ labelLabels[k].request = SheetRows[p][q.i].request
              => SheetRows[p][q.i].request = NoClientId
      BY <1>7 DEF LabelsAlone!SameRequest
    <3>2. q.i <= Len(SheetRows[p])
      BY <1>2, <1>7
    <3> QED
      BY <1>1, <1>2, <2>1, <3>1, <3>2 DEF StandsAlone
  <2> QED
    BY <1>3, <2>1, <2>2, <2>3
<1> QED
  BY <1>4, <1>5, <1>6, <1>7, ZenonT(60) DEF LabelsAlone!NextRow

(* The label of a row whose preview has only earlier ones.                 *)
LEMMA AloneInsertLabel ==
  ASSUME AloneInv, NEW c \in Calls, LabelsAlone!InsertLabel(c)
  PROVE  AloneInv'
<1> DEFINE q == labelConf[c]
           p == q.preview
           u == SheetOwner[p]
           row == SheetRows[p][q.i]
           n == Len(labelLabels) + 1
           new == [user |-> u, request |-> row.request, preview |-> p, row |-> q.i]
           z == [q EXCEPT !.pc = "order", !.label = n, !.labelIds = Append(@, n)]
<1>1. q.pc = "insert" /\ UNCHANGED <<labelMade, labelStored, labelFaults>>
  BY DEF LabelsAlone!InsertLabel
<1>2. /\ c \in LabelsAlone!Running /\ StandsAlone(q, labelLabels) /\ {"pc", "preview", "i"} \subseteq DOMAIN q
      /\ p \in DOMAIN SheetRows /\ p \in labelMade /\ q.i \in Nat \ {0} /\ Len(SheetRows[p]) \in Nat
      /\ SheetRows[p] \in Seq(LabelsAlone!Row) /\ u \in Customers
  BY <1>1, AloneFacts DEF LabelsAlone!Ended
<1>3. ~LabelsAlone!Taken(u, row.request)
  BY <1>1, <1>2 DEF StandsAlone, LabelsAlone!Taken, LabelsAlone!SameRequest
<1>4. /\ labelLabels' = Append(labelLabels, new)
      /\ LabelsAlone!Goto(c, [q EXCEPT !.pc = "order", !.label = Len(labelLabels'),
                                       !.labelIds = Append(@, Len(labelLabels'))])
  BY <1>3 DEF LabelsAlone!InsertLabel
<1>5. new \in LabelsAlone!Label /\ new.preview = p /\ new.row = q.i
  <2>1. row \in LabelsAlone!Row
    BY <1>1, <1>2, ElementOfSeq, LenProperties DEF StandsAlone
  <2> QED
    BY <1>2, <2>1 DEF LabelsAlone!Label, LabelsAlone!Row
<1>6. labelLabels \in Seq(LabelsAlone!Label)
  BY DEF AloneInv
<1> HIDE DEF new
<1>7. /\ DOMAIN labelLabels = 1 .. Len(labelLabels) /\ Len(labelLabels) \in Nat
      /\ labelLabels' \in Seq(LabelsAlone!Label) /\ Len(labelLabels') = n /\ DOMAIN labelLabels' = 1 .. n
      /\ labelLabels'[n] = new
      /\ \A k \in DOMAIN labelLabels : labelLabels'[k] = labelLabels[k]
      /\ \A k \in 1 .. n : k \in DOMAIN labelLabels \/ k = n
  BY <1>4, <1>5, <1>6, AppendProperties, LenProperties
<1>8. /\ {"pc", "preview", "i"} \subseteq DOMAIN z /\ z.preview = p /\ z.pc = "order" /\ z.i = q.i
      /\ labelConf' = [labelConf EXCEPT ![c] = z]
  BY <1>2, <1>4, <1>7 DEF LabelsAlone!Goto
<1> HIDE DEF z, n
<1>9. /\ DOMAIN labelConf' = Calls /\ labelConf'[c] = z
      /\ \A d \in Calls \ {c} : labelConf'[d] = labelConf[d] /\ d \notin LabelsAlone!Running
  BY <1>2, <1>8 DEF AloneInv, LabelsAlone!Running
<1>10. LabelsAlone!Running' = {c} /\ LabelsAlone!Running = {c}
  BY <1>2, <1>8, <1>9 DEF LabelsAlone!Running, LabelsAlone!Ended
<1>11. \A k \in DOMAIN labelLabels : labelLabels[k].preview = p => labelLabels[k].row < q.i /\ labelLabels[k].row \in Nat
  <2>1. \A k \in DOMAIN labelLabels : labelLabels[k].row \in Nat
    BY AloneRows
  <2> QED
    BY <1>1, <1>2, <2>1 DEF StandsAlone
<1> HIDE DEF q
<1>12. StandsAlone(z, labelLabels')
  BY <1>2, <1>5, <1>7, <1>8, <1>11 DEF StandsAlone
<1>13. \A d \in Calls : {"pc", "preview", "i"} \subseteq DOMAIN labelConf'[d]
  BY <1>8, <1>9 DEF AloneInv
<1>14. \A k \in DOMAIN labelLabels' :
         /\ labelLabels'[k].preview \in labelMade
         /\ labelLabels'[k].preview \in labelStored =>
              \E d \in LabelsAlone!Running' : labelConf'[d].preview = labelLabels'[k].preview
  <2> SUFFICES ASSUME NEW k \in 1 .. n
               PROVE  /\ labelLabels'[k].preview \in labelMade
                      /\ labelLabels'[k].preview \in labelStored => z.preview = labelLabels'[k].preview
    BY <1>7, <1>9, <1>10
  <2>1. CASE k = n
    BY <1>2, <1>5, <1>7, <1>8, <2>1
  <2>2. CASE k \in DOMAIN labelLabels
    BY <1>7, <1>8, <1>10, <2>2 DEF AloneInv, q
  <2> QED
    BY <1>7, <2>1, <2>2
<1>15. LabelsAlone!EachRowOnce'
  <2> SUFFICES ASSUME NEW k \in 1 .. n, NEW l \in 1 .. n,
                      labelLabels'[k].preview = labelLabels'[l].preview, labelLabels'[k].row = labelLabels'[l].row
               PROVE  k = l
    BY <1>7 DEF LabelsAlone!EachRowOnce
  <2>1. k \in DOMAIN labelLabels /\ l \in DOMAIN labelLabels => k = l
    BY <1>7 DEF AloneInv, LabelsAlone!EachRowOnce
  <2> QED
    BY <1>2, <1>5, <1>7, <1>11, <2>1
<1> QED
  BY <1>1, <1>7, <1>9, <1>10, <1>12, <1>13, <1>14, <1>15, <1>2, <1>8 DEF AloneInv

(* The order, its payment and its job; the end of the preview.             *)
LEMMA AloneLastSteps ==
  ASSUME AloneInv, NEW c \in Calls,
         \/ LabelsAlone!CreateOrderFromLabel(c) \/ \E covered \in BOOLEAN : LabelsAlone!AutoPay(c, covered)
         \/ LabelsAlone!Enqueue(c) \/ LabelsAlone!EnqueueFails(c) \/ LabelsAlone!DeletePreview(c)
  PROVE  AloneInv'
<1> DEFINE q == labelConf[c]
           p == q.preview
           Fields(z) == {"pc", "preview", "i"} \subseteq DOMAIN z /\ z.preview = p
<1>1. ASSUME q.pc \in {"order", "pay", "push", "delete"}
      PROVE  /\ c \in LabelsAlone!Running /\ StandsAlone(q, labelLabels) /\ {"pc", "preview", "i"} \subseteq DOMAIN q
             /\ p \in DOMAIN SheetRows /\ p \in labelMade /\ q.i \in Nat \ {0} /\ Len(SheetRows[p]) \in Nat
  BY <1>1, AloneFacts DEF LabelsAlone!Ended
<1>2. \A k \in DOMAIN labelLabels : labelLabels[k].row \in Nat
  BY AloneRows
<1>3. ASSUME q.pc \in {"order", "pay", "push"}, NEW z, Fields(z),
             (z.pc \in {"pay", "push"} /\ z.i = q.i) \/ (z.pc = "row" /\ z.i = q.i + 1),
             LabelsAlone!Goto(c, z), UNCHANGED <<labelMade, labelStored, labelLabels, labelFaults>>
      PROVE  AloneInv'
  <2>1. /\ c \in LabelsAlone!Running /\ StandsAlone(q, labelLabels)
        /\ p \in DOMAIN SheetRows /\ q.i \in Nat \ {0} /\ Len(SheetRows[p]) \in Nat
    BY <1>1, <1>3
  <2>2. labelConf' = [labelConf EXCEPT ![c] = z]
    BY <1>3 DEF LabelsAlone!Goto
  <2>3. StandsAlone(z, labelLabels)
    <3> HIDE DEF q
    <3>1. q.pc \in {"order", "pay", "push"}
      BY <1>3
    <3>2. z.preview = q.preview
      BY <1>3
    <3>3. CASE z.pc \in {"pay", "push"} /\ z.i = q.i
      BY <2>1, <3>1, <3>2, <3>3 DEF StandsAlone
    <3>4. CASE z.pc = "row" /\ z.i = q.i + 1
      BY <1>2, <2>1, <3>1, <3>2, <3>4 DEF StandsAlone
    <3> QED
      BY <1>3, <3>3, <3>4
  <2> QED
    BY <1>3, <2>1, <2>2, <2>3, AloneMoves DEF LabelsAlone!Ended
<1>4. CASE LabelsAlone!CreateOrderFromLabel(c)
  <2>1. q.pc = "order" /\ UNCHANGED <<labelMade, labelStored, labelLabels, labelFaults>>
    BY <1>4 DEF LabelsAlone!CreateOrderFromLabel
  <2>2. PICK o : LabelsAlone!Goto(c, [q EXCEPT !.pc = "pay", !.order = o])
    BY <1>4 DEF LabelsAlone!CreateOrderFromLabel
  <2> DEFINE z == [q EXCEPT !.pc = "pay", !.order = o]
  <2>3. Fields(z) /\ z.pc = "pay" /\ z.i = q.i /\ LabelsAlone!Goto(c, z)
    BY <1>1, <2>1, <2>2
  <2> HIDE DEF z
  <2> QED
    BY <1>3, <2>1, <2>3
<1>5. ASSUME NEW covered \in BOOLEAN, LabelsAlone!AutoPay(c, covered)
      PROVE  AloneInv'
  <2> DEFINE z == [q EXCEPT !.pc = "push", !.exhausted = ~covered,
                       !.paid = IF covered THEN Append(@, q.order) ELSE @,
                       !.unpaid = IF covered THEN @ ELSE Append(@, q.order)]
  <2>1. q.pc = "pay" /\ LabelsAlone!Goto(c, z) /\ UNCHANGED <<labelMade, labelStored, labelLabels, labelFaults>>
    BY <1>5 DEF LabelsAlone!AutoPay
  <2>2. Fields(z) /\ z.pc = "push" /\ z.i = q.i
    BY <1>1, <2>1
  <2> HIDE DEF z
  <2> QED
    BY <1>3, <2>1, <2>2
<1>6. CASE LabelsAlone!Enqueue(c)
  <2> DEFINE z == [q EXCEPT !.pc = "row", !.i = @ + 1]
  <2>1. q.pc = "push" /\ LabelsAlone!Goto(c, z) /\ UNCHANGED <<labelMade, labelStored, labelLabels, labelFaults>>
    BY <1>6 DEF LabelsAlone!Enqueue
  <2>2. Fields(z) /\ z.pc = "row" /\ z.i = q.i + 1
    BY <1>1, <2>1
  <2> HIDE DEF z
  <2> QED
    BY <1>3, <2>1, <2>2
<1>7. ~LabelsAlone!EnqueueFails(c)
  BY DEF AloneInv, LabelsAlone!EnqueueFails, LabelsAlone!Fault
<1>8. CASE LabelsAlone!DeletePreview(c)
  <2> DEFINE z == [q EXCEPT !.pc = "done"]
  <2>1. /\ q.pc = "delete" /\ labelConf' = [labelConf EXCEPT ![c] = z] /\ labelStored' = labelStored \ {p}
        /\ UNCHANGED <<labelMade, labelLabels, labelFaults>>
    BY <1>8 DEF LabelsAlone!DeletePreview, LabelsAlone!Goto
  <2>2. Fields(z) /\ z.pc = "done" /\ c \in LabelsAlone!Running
    BY <1>1, <2>1
  <2> HIDE DEF z
  <2> QED
    BY <2>1, <2>2, AloneMoves DEF LabelsAlone!Ended
<1> QED
  BY <1>4, <1>5, <1>6, <1>7, <1>8

(* The invariant of imports without overlap or faults.                     *)
LEMMA AloneInvHolds ==
  /\ LabelsAlone!Init => AloneInv
  /\ AloneInv /\ LabelsAlone!Next => AloneInv'
  /\ AloneInv /\ UNCHANGED <<labelMade, labelStored, labelLabels, labelOrders, labelConf, labelFaults>> => AloneInv'
<1>1. ASSUME LabelsAlone!Init
      PROVE  AloneInv
  <2> PICK p \in DOMAIN SheetRows : labelConf = [c \in Calls |-> [LabelsAlone!Start(p) EXCEPT !.pc = "idle"]]
    BY <1>1 DEF LabelsAlone!Init
  <2>1. << >> \in Seq(LabelsAlone!Label) /\ DOMAIN << >> = {}
    OBVIOUS
  <2>2. labelMade = {} /\ labelStored = {} /\ labelLabels = << >> /\ labelFaults = 0
    BY <1>1 DEF LabelsAlone!Init
  <2>3. \A c \in Calls : labelConf[c].pc = "idle" /\ {"pc", "preview", "i"} \subseteq DOMAIN labelConf[c]
    BY DEF LabelsAlone!Start
  <2>4. LabelsAlone!Running = {}
    BY <2>3 DEF LabelsAlone!Running, LabelsAlone!Ended
  <2> QED
    BY <2>1, <2>2, <2>3, <2>4 DEF AloneInv, LabelsAlone!EachRowOnce
<1>2. ASSUME AloneInv, LabelsAlone!Next
      PROVE  AloneInv'
  <2>1. ~LabelsAlone!ProcessEnds
    BY <1>2 DEF AloneInv, LabelsAlone!ProcessEnds, LabelsAlone!Fault
  <2> QED
    BY <1>2, <2>1, AloneStarts, AloneNextRow, AloneInsertLabel, AloneLastSteps DEF LabelsAlone!Next
<1>3. ASSUME AloneInv, UNCHANGED <<labelMade, labelStored, labelLabels, labelOrders, labelConf, labelFaults>>
      PROVE  AloneInv'
  BY <1>3 DEF AloneInv, StandsAlone, LabelsAlone!EachRowOnce, LabelsAlone!Running
<1> QED
  BY <1>1, <1>2, <1>3

-----------------------------------------------------------------------------
SmallerNumber == {pair \in Nat \X Nat : pair[1] < pair[2]}

(* A set of numbers has a smallest.                                        *)
LEMMA SmallestNumber ==
  ASSUME NEW T \in SUBSET Nat, T # {}
  PROVE  \E x \in T : \A y \in T : x <= y
<1>1. IsWellFoundedOn(SmallerNumber, Nat)
  BY NatLessThanWellFounded DEF OpToRel, SmallerNumber
<1>2. PICK x \in T : \A y \in T : ~(<<y, x>> \in SmallerNumber)
  BY <1>1, WFMin
<1>3. ASSUME NEW y \in T
      PROVE  x <= y
  <2>1. x \in Nat /\ y \in Nat
    OBVIOUS
  <2>2. ~(y < x)
    BY <1>2, <2>1 DEF SmallerNumber
  <2> QED
    BY <2>1, <2>2
<1> QED
  BY <1>3

\* f puts together the first n of a list of lists.
Flattens(f, n, seqs) == f = [i \in 1 .. n |-> IF i = 1 THEN seqs[i] ELSE f[i - 1] \o seqs[i]]

(* Lists can be put together.                                              *)
LEMMA FlattenExists ==
  ASSUME NEW seqs, NEW n \in Nat
  PROVE  \E f : Flattens(f, n, seqs)
<1> DEFINE T == {k \in 0 .. n : ~\E f : Flattens(f, k, seqs)}
<1> SUFFICES ASSUME T # {}
             PROVE  FALSE
  <2>1. n \notin T
    OBVIOUS
  <2> QED
    BY <2>1
<1>1. PICK k \in T : \A j \in T : k <= j
  <2>1. T \in SUBSET Nat
    OBVIOUS
  <2> HIDE DEF T
  <2> QED
    BY <2>1, SmallestNumber
<1>2. k \in 0 .. n /\ ~\E f : Flattens(f, k, seqs)
  OBVIOUS
<1>3. k # 0
  <2>1. Flattens([i \in 1 .. 0 |-> seqs[i]], 0, seqs)
    BY DEF Flattens
  <2> QED
    BY <1>2, <2>1
<1>4. k - 1 \in 0 .. n /\ ~(k <= k - 1) /\ k \in Nat \ {0}
  BY <1>2, <1>3
<1>5. PICK f : Flattens(f, k - 1, seqs)
  BY <1>1, <1>4
<1> DEFINE g == [i \in 1 .. k |-> IF i < k THEN f[i] ELSE IF i = 1 THEN seqs[i] ELSE f[i - 1] \o seqs[i]]
<1>6. ASSUME NEW i \in 1 .. k
      PROVE  g[i] = IF i = 1 THEN seqs[i] ELSE g[i - 1] \o seqs[i]
  <2>1. CASE i = k
    BY <1>4, <2>1
  <2>2. CASE i # k
    <3>1. i \in 1 .. k - 1 /\ i < k /\ (i # 1 => i - 1 \in 1 .. k /\ i - 1 < k)
      BY <1>4, <2>2
    <3>2. f[i] = IF i = 1 THEN seqs[i] ELSE f[i - 1] \o seqs[i]
      BY <1>5, <3>1 DEF Flattens
    <3> QED
      BY <3>1, <3>2
  <2> QED
    BY <2>1, <2>2
<1>7. g = [i \in 1 .. k |-> IF i = 1 THEN seqs[i] ELSE g[i - 1] \o seqs[i]]
  <2>1. g = [i \in 1 .. k |-> g[i]]
    OBVIOUS
  <2> HIDE DEF g
  <2> QED
    BY <1>6, <2>1
<1>8. Flattens(g, k, seqs)
  BY <1>7 DEF Flattens
<1> QED
  BY <1>2, <1>8

\* What SequencesExt's FlattenSeq is.
FlattenOf(seqs) ==
  IF Len(seqs) = 0 THEN seqs
  ELSE (CHOOSE f : Flattens(f, Len(seqs), seqs))[Len(seqs)]

(* Lists of locks put together are a list of locks.                        *)
LEMMA FlattenProperties ==
  ASSUME NEW S, NEW seqs \in Seq(Seq(S))
  PROVE  /\ FlattenOf(seqs) \in Seq(S)
         /\ Len(seqs) = 1 => FlattenOf(seqs) = seqs[1]
<1>1. Len(seqs) \in Nat /\ \A i \in 1 .. Len(seqs) : seqs[i] \in Seq(S)
  BY ElementOfSeq, LenProperties
<1>2. CASE Len(seqs) = 0
  <2>1. FlattenOf(seqs) = << >>
    BY <1>2, EmptySeq DEF FlattenOf
  <2> QED
    BY <1>2, <2>1
<1>3. CASE Len(seqs) # 0
  <2> DEFINE n == Len(seqs)
             f == CHOOSE h : Flattens(h, n, seqs)
  <2>1. Flattens(f, n, seqs) /\ FlattenOf(seqs) = f[n]
    BY <1>1, <1>3, FlattenExists DEF FlattenOf
  <2> HIDE DEF f
  <2>2. \A i \in 1 .. n : f[i] = IF i = 1 THEN seqs[i] ELSE f[i - 1] \o seqs[i]
    BY <2>1 DEF Flattens
  <2>3. n \in Nat \ {0}
    BY <1>1, <1>3
  <2>4. \A i \in 1 .. n : f[i] \in Seq(S)
    <3> DEFINE T == {i \in 1 .. n : f[i] \notin Seq(S)}
    <3> SUFFICES ASSUME T # {}
                 PROVE  FALSE
      OBVIOUS
    <3>1. PICK k \in T : \A j \in T : k <= j
      <4>1. T \in SUBSET Nat
        OBVIOUS
      <4> HIDE DEF T
      <4> QED
        BY <4>1, SmallestNumber
    <3>2. k \in 1 .. n /\ f[k] \notin Seq(S)
      OBVIOUS
    <3>3. k # 1
      BY <1>1, <2>2, <3>2
    <3>4. k - 1 \in 1 .. n /\ ~(k <= k - 1)
      BY <3>2, <3>3
    <3>5. f[k - 1] \in Seq(S)
      BY <3>1, <3>4
    <3>6. f[k] = f[k - 1] \o seqs[k] /\ seqs[k] \in Seq(S)
      BY <1>1, <2>2, <3>2, <3>3
    <3> HIDE DEF T
    <3> QED
      BY <3>2, <3>5, <3>6, ConcatProperties
  <2>5. n = 1 => f[n] = seqs[1]
    BY <2>2, <2>3
  <2> QED
    BY <2>1, <2>3, <2>4, <2>5
<1> QED
  BY <1>2, <1>3

-----------------------------------------------------------------------------
(* A transaction on a circle waits, is waited for, and who waits for it is *)
(* waited for too.                                                         *)
LEMMA CircleFacts ==
  ASSUME NEW t \in Calls, Locks!InCycle(t)
  PROVE  \E u, v, w \in Calls : Locks!WaitsFor(t, u) /\ Locks!WaitsFor(v, t) /\ Locks!WaitsFor(w, v)
<1>1. PICK u \in Calls : Locks!WaitsFor(t, u)
  BY DEF Locks!InCycle
<1>2. PICK n \in 2 .. Locks!Cardinality(Calls) : \E ring \in [1 .. n -> Calls] :
        ring[1] = t /\ \A i \in 1 .. n : Locks!WaitsFor(ring[i], ring[(i % n) + 1])
  BY DEF Locks!InCycle
<1>3. PICK ring \in [1 .. n -> Calls] :
        ring[1] = t /\ \A i \in 1 .. n : Locks!WaitsFor(ring[i], ring[(i % n) + 1])
  BY <1>2
<1>4. n \in Int /\ n >= 2
  OBVIOUS
<1>5. n % n = 0 /\ (n - 1) % n = n - 1 /\ n \in 1 .. n /\ n - 1 \in 1 .. n /\ 0 + 1 = 1 /\ n - 1 + 1 = n
  BY <1>4
<1>6. Locks!WaitsFor(ring[n], t)
  BY <1>3, <1>5
<1>7. Locks!WaitsFor(ring[n - 1], ring[n])
  BY <1>3, <1>5
<1>8. ring[n] \in Calls /\ ring[n - 1] \in Calls
  BY <1>5
<1> QED
  BY <1>1, <1>6, <1>7, <1>8
-----------------------------------------------------------------------------
\* What a request of a kind may lock: the rows of administrators only with
\* the weakest mode, and top-ups only to approve them.
LocksOf(kind) ==
  {l \in Locks!Locks : /\ l.row \in Reviewers => l.mode = "key_share"
                       /\ l.row \in Transfers => kind = "approve"}

\* How far a review, an adjustment or an edit got.
ReviewShape(kind, rest, kept) ==
  /\ kind = "approve" =>
       \/ rest = << >>
       \/ \E p \in Transfers, a \in Reviewers :
            \/ rest = <<Locks!Own(p), Locks!Share(a), Locks!Own(Customer)>> /\ kept = {}
            \/ rest = <<Locks!Share(a), Locks!Own(Customer)>> /\ kept = {Locks!Own(p)}
            \/ rest = <<Locks!Own(Customer)>> /\ kept = {Locks!Own(p), Locks!Share(a)}
  /\ kind = "adjust" =>
       \/ rest = << >>
       \/ \E a \in Reviewers :
            \/ rest = <<Locks!Own(Customer), Locks!Share(a)>> /\ kept = {}
            \/ rest = <<Locks!Share(a)>>
  /\ kind = "save" =>
       \/ rest = << >>
       \/ \E o \in Two : rest = <<Locks!Modify(o)>> /\ kept = {}

\* How far a payment of one order got.
PaymentShape(kind, rest, kept) ==
  kind \in {"pay", "autopay"} =>
    \/ rest = << >>
    \/ \E o \in Two :
         \/ rest = <<Locks!Own(o), Locks!Own(Customer)>> /\ kept = {}
         \/ rest = <<Locks!Own(o)>> /\ kept = {}
         \/ rest = <<Locks!Own(Customer)>> /\ kept = {Locks!Own(o)}

LocksInv ==
  /\ DOMAIN lockOp = Calls /\ DOMAIN lockTodo = Calls /\ DOMAIN lockHeld = Calls /\ DOMAIN lockPhase = Calls
  /\ \A t \in Calls :
       /\ lockTodo[t] \in Seq(LocksOf(lockOp[t])) /\ lockHeld[t] \subseteq LocksOf(lockOp[t])
       /\ lockPhase[t] = "idle" => lockTodo[t] = << >> /\ lockHeld[t] = {}
       /\ ReviewShape(lockOp[t], lockTodo[t], lockHeld[t])

PayingInv ==
  /\ LocksInv
  /\ \A t \in Calls :
       /\ lockOp[t] \in {"none", "pay", "autopay", "save", "approve", "adjust"}
       /\ lockOp[t] = "none" => lockTodo[t] = << >>
       /\ PaymentShape(lockOp[t], lockTodo[t], lockHeld[t])

(* The next lock of a list is granted.                                     *)
LEMMA ShapeAdvances ==
  ASSUME NEW kind, NEW rest, NEW kept, rest # << >>
  PROVE  /\ ReviewShape(kind, rest, kept) => ReviewShape(kind, Tail(rest), kept \cup {Head(rest)})
         /\ PaymentShape(kind, rest, kept) => PaymentShape(kind, Tail(rest), kept \cup {Head(rest)})
<1>1. \A x, y, z : /\ Tail(<<x, y, z>>) = <<y, z>> /\ Head(<<x, y, z>>) = x
                   /\ Tail(<<x, y>>) = <<y>> /\ Head(<<x, y>>) = x
                   /\ Tail(<<x>>) = << >> /\ Head(<<x>>) = x
  OBVIOUS
<1>2. ASSUME ReviewShape(kind, rest, kept)
      PROVE  ReviewShape(kind, Tail(rest), kept \cup {Head(rest)})
  <2>1. CASE kind = "approve"
    <3>1. PICK p \in Transfers, a \in Reviewers :
            \/ rest = <<Locks!Own(p), Locks!Share(a), Locks!Own(Customer)>> /\ kept = {}
            \/ rest = <<Locks!Share(a), Locks!Own(Customer)>> /\ kept = {Locks!Own(p)}
            \/ rest = <<Locks!Own(Customer)>> /\ kept = {Locks!Own(p), Locks!Share(a)}
      BY <1>2, <2>1 DEF ReviewShape
    <3>2. CASE rest = <<Locks!Own(p), Locks!Share(a), Locks!Own(Customer)>> /\ kept = {}
      <4>1. Tail(rest) = <<Locks!Share(a), Locks!Own(Customer)>> /\ Head(rest) = Locks!Own(p)
        BY <1>1, <3>2
      <4>2. kept \cup {Head(rest)} = {Locks!Own(p)}
        BY <3>2, <4>1
      <4> QED
        BY <2>1, <4>1, <4>2 DEF ReviewShape
    <3>3. CASE rest = <<Locks!Share(a), Locks!Own(Customer)>> /\ kept = {Locks!Own(p)}
      <4>1. Tail(rest) = <<Locks!Own(Customer)>> /\ Head(rest) = Locks!Share(a)
        BY <1>1, <3>3
      <4>2. kept \cup {Head(rest)} = {Locks!Own(p), Locks!Share(a)}
        BY <3>3, <4>1
      <4> QED
        BY <2>1, <4>1, <4>2 DEF ReviewShape
    <3>4. CASE rest = <<Locks!Own(Customer)>>
      <4>1. Tail(rest) = << >>
        BY <1>1, <3>4
      <4> QED
        BY <2>1, <4>1 DEF ReviewShape
    <3> QED
      BY <3>1, <3>2, <3>3, <3>4
  <2>2. CASE kind = "adjust"
    <3>1. PICK a \in Reviewers :
            \/ rest = <<Locks!Own(Customer), Locks!Share(a)>> /\ kept = {}
            \/ rest = <<Locks!Share(a)>>
      BY <1>2, <2>2 DEF ReviewShape
    <3>2. Tail(rest) = <<Locks!Share(a)>> \/ Tail(rest) = << >>
      BY <1>1, <3>1
    <3> QED
      BY <2>2, <3>2 DEF ReviewShape
  <2>3. CASE kind = "save"
    <3>1. PICK o \in Two : rest = <<Locks!Modify(o)>>
      BY <1>2, <2>3 DEF ReviewShape
    <3>2. Tail(rest) = << >>
      BY <1>1, <3>1
    <3> QED
      BY <2>3, <3>2 DEF ReviewShape
  <2> QED
    BY <2>1, <2>2, <2>3 DEF ReviewShape
<1>3. ASSUME PaymentShape(kind, rest, kept), kind \in {"pay", "autopay"}
      PROVE  PaymentShape(kind, Tail(rest), kept \cup {Head(rest)})
  <2>1. PICK o \in Two :
          \/ rest = <<Locks!Own(o), Locks!Own(Customer)>> /\ kept = {}
          \/ rest = <<Locks!Own(o)>> /\ kept = {}
          \/ rest = <<Locks!Own(Customer)>> /\ kept = {Locks!Own(o)}
    BY <1>3 DEF PaymentShape
  <2>2. \/ Tail(rest) = <<Locks!Own(Customer)>> /\ kept \cup {Head(rest)} = {Locks!Own(o)}
        \/ Tail(rest) = << >>
    BY <1>1, <2>1
  <2> QED
    BY <2>2 DEF PaymentShape
<1> QED
  BY <1>2, <1>3 DEF PaymentShape

(* The locks of the rows, by the kind of request.                          *)
LEMMA RowsLocked ==
  /\ \A kind : \A a \in Reviewers : Locks!Share(a) \in LocksOf(kind)
  /\ \A p \in Transfers : Locks!Own(p) \in LocksOf("approve")
  /\ \A kind : \A o \in Two : /\ Locks!Own(o) \in LocksOf(kind) /\ Locks!Share(o) \in LocksOf(kind)
                          /\ Locks!Modify(o) \in LocksOf(kind)
  /\ \A kind : Locks!Own(Customer) \in LocksOf(kind) /\ Locks!Share(Customer) \in LocksOf(kind)
  BY LocksAssumption DEF Locks!RowLocksAssumption, LocksOf, Locks!Locks, Locks!Rows, Locks!Modes,
                         Locks!Share, Locks!Own, Locks!Modify

(* One list after another.                                                 *)
LEMMA ShortLists ==
  ASSUME NEW S, NEW x \in S, NEW y \in S, NEW z \in S
  PROVE  << >> \in Seq(S) /\ <<x>> \in Seq(S) /\ <<x, y>> \in Seq(S) /\ <<x, y, z>> \in Seq(S)
  OBVIOUS

(* One more, or none.                                                      *)
LEMMA OneAndMore ==
  ASSUME NEW x, NEW y
  PROVE  <<x>> \o << >> = <<x>> /\ <<x>> \o <<y>> = <<x, y>>
<1>1. <<x>> \in Seq({x, y}) /\ <<y>> \in Seq({x, y})
  OBVIOUS
<1>2. <<x>> \o << >> = <<x>>
  BY <1>1, ConcatEmptySeq
<1>3. /\ <<x>> \o <<y>> \in Seq({x, y}) /\ Len(<<x>> \o <<y>>) = 2
      /\ (<<x>> \o <<y>>)[1] = x /\ (<<x>> \o <<y>>)[2] = y
  BY <1>1, ConcatProperties
<1>4. <<x, y>> \in Seq({x, y}) /\ Len(<<x, y>>) = 2
  OBVIOUS
<1>5. \A i \in 1 .. 2 : (<<x>> \o <<y>>)[i] = <<x, y>>[i]
  BY <1>3
<1>6. <<x>> \o <<y>> = <<x, y>>
  BY <1>3, <1>4, <1>5, SeqEqual
<1> QED
  BY <1>2, <1>6

(* Two, and one more.                                                      *)
LEMMA TwoAndMore ==
  ASSUME NEW x, NEW y, NEW z
  PROVE  <<x, y>> \o <<z>> = <<x, y, z>>
<1>1. <<x, y>> \in Seq({x, y, z}) /\ <<z>> \in Seq({x, y, z}) /\ Len(<<x, y>>) = 2 /\ Len(<<z>>) = 1
  OBVIOUS
<1>2. /\ <<x, y>> \o <<z>> \in Seq({x, y, z}) /\ Len(<<x, y>> \o <<z>>) = 3
      /\ (<<x, y>> \o <<z>>)[1] = x /\ (<<x, y>> \o <<z>>)[2] = y /\ (<<x, y>> \o <<z>>)[3] = z
  BY <1>1, ConcatProperties
<1>3. <<x, y, z>> \in Seq({x, y, z}) /\ Len(<<x, y, z>>) = 3
  OBVIOUS
<1>4. \A i \in 1 .. 3 : (<<x, y>> \o <<z>>)[i] = <<x, y, z>>[i]
  BY <1>2
<1> QED
  BY <1>2, <1>3, <1>4, SeqEqual

(* The payment of a list of orders locks orders and the customer; of one   *)
(* order, the order first.                                                 *)
LEMMA PayPlanLocks ==
  ASSUME NEW n \in Nat, NEW list \in [1 .. n -> Two], NEW paid \in SUBSET Two
  PROVE  /\ Locks!PayPlan(list, paid) \in Seq(LocksOf("pay"))
         /\ n = 1 => PaymentShape("pay", Locks!PayPlan(list, paid), {})
<1> DEFINE S == LocksOf("pay")
           each(o) == <<Locks!Own(o)>> \o IF o \in paid THEN << >> ELSE Locks!ApplyChange
           seqs == [i \in DOMAIN list |-> each(list[i])]
<1>1. ASSUME NEW o \in Two
      PROVE  /\ each(o) \in Seq(S)
             /\ each(o) = <<Locks!Own(o)>> \/ each(o) = <<Locks!Own(o), Locks!Own(Customer)>>
  <2>1. Locks!Own(o) \in S /\ Locks!Own(Customer) \in S
    BY RowsLocked
  <2> HIDE DEF S
  <2>3. each(o) = <<Locks!Own(o)>> \/ each(o) = <<Locks!Own(o), Locks!Own(Customer)>>
    BY OneAndMore DEF Locks!ApplyChange
  <2> QED
    BY <2>1, <2>3, ShortLists
<1> HIDE DEF S, each
<1>2. seqs \in [1 .. n -> Seq(S)] /\ (n = 1 => seqs[1] = each(list[1]))
  BY <1>1
<1>3. seqs \in Seq(Seq(S)) /\ Len(seqs) = n
  <2>1. seqs \in Seq(Seq(S))
    BY <1>2, SeqDef
  <2> QED
    BY <1>2, <2>1, LenProperties
<1>4. Locks!PayPlan(list, paid) = Locks!FlattenSeq(seqs)
  BY DEF Locks!PayPlan, each
<1> HIDE DEF seqs
<1>5. Locks!FlattenSeq(seqs) = FlattenOf(seqs)
  BY DEF Locks!FlattenSeq, FlattenOf, Flattens
<1>6. Locks!PayPlan(list, paid) \in Seq(S) /\ (n = 1 => Locks!PayPlan(list, paid) = each(list[1]))
  BY <1>2, <1>3, <1>4, <1>5, FlattenProperties
<1>7. ASSUME n = 1
      PROVE  PaymentShape("pay", Locks!PayPlan(list, paid), {})
  <2>1. list[1] \in Two
    BY <1>7
  <2> QED
    BY <1>1, <1>6, <1>7, <2>1 DEF PaymentShape
<1> QED
  BY <1>6, <1>7 DEF S
(* The requests that run one by one: an edit, a review, an adjustment and  *)
(* the payment of one order.                                               *)
LEMMA PlansOK ==
  ASSUME NEW kind \in Locks!AllOps, NEW plan \in Locks!Plans(kind)
  PROVE  plan \in Seq(LocksOf(kind)) /\ ReviewShape(kind, plan, {})
<1> DEFINE S == LocksOf(kind)
           C == Locks!Own(Customer)
<1>1. C \in S /\ Locks!Share(Customer) \in S
  BY RowsLocked
<1>2. \A o \in Two : Locks!Own(o) \in S /\ Locks!Share(o) \in S /\ Locks!Modify(o) \in S
  BY RowsLocked
<1>3. \A a \in Reviewers : Locks!Share(a) \in S
  BY RowsLocked
<1>4. CASE kind = "create"
  <2>1. PICK skip \in BOOLEAN : plan = Locks!CreatePlan(skip)
    BY <1>4 DEF Locks!Plans
  <2>2. plan = <<Locks!Share(Customer)>> \/ plan = <<Locks!Share(Customer), C>>
    BY <2>1, OneAndMore DEF Locks!CreatePlan, Locks!ApplyChange
  <2>3. plan \in Seq(S)
    <3> HIDE DEF S, C
    <3> QED
      BY <1>1, <2>2, ShortLists
  <2> QED
    BY <1>4, <2>3 DEF ReviewShape
<1>5. CASE kind = "pay"
  <2>1. PICK list \in Locks!Lists, paid \in SUBSET Two : plan = Locks!PayPlan(list, paid)
    BY <1>5 DEF Locks!Plans
  <2>2. PICK n \in 1 .. MaxBatch : list \in [1 .. n -> Two]
    BY DEF Locks!Lists
  <2>3. n \in Nat
    OBVIOUS
  <2>4. plan \in Seq(LocksOf("pay"))
    BY <2>1, <2>2, <2>3, PayPlanLocks
  <2> QED
    BY <1>5, <2>4 DEF ReviewShape
<1>6. CASE kind = "autopay"
  <2>1. PICK o \in Two : plan = Locks!AutoPayPlan(o)
    BY <1>6 DEF Locks!Plans
  <2>2. plan = <<Locks!Own(o), C>>
    BY <2>1, OneAndMore DEF Locks!AutoPayPlan, Locks!ApplyChange
  <2>3. plan \in Seq(S)
    <3> HIDE DEF S, C
    <3> QED
      BY <1>1, <1>2, <2>2, ShortLists
  <2> QED
    BY <1>6, <2>3 DEF ReviewShape
<1>7. CASE kind = "start"
  <2>1. PICK o \in Two, paid \in BOOLEAN : plan = Locks!StartPlan(o, paid)
    BY <1>7 DEF Locks!Plans
  <2>2. plan = << >> \o <<Locks!Modify(o)>> \/ plan = (<<C>> \o <<Locks!Share(o)>>) \o <<Locks!Modify(o)>>
    BY <2>1 DEF Locks!StartPlan, Locks!ApplyChange
  <2>3. plan \in Seq(S)
    <3> HIDE DEF S, C
    <3>1. << >> \in Seq(S) /\ <<C>> \in Seq(S) /\ <<Locks!Share(o)>> \in Seq(S) /\ <<Locks!Modify(o)>> \in Seq(S)
      BY <1>1, <1>2, ShortLists
    <3>2. <<C>> \o <<Locks!Share(o)>> \in Seq(S)
      BY <3>1, ConcatProperties
    <3> QED
      BY <2>2, <3>1, <3>2, ConcatProperties
  <2> QED
    BY <1>7, <2>3 DEF ReviewShape
<1>8. CASE kind = "save"
  <2>1. PICK o \in Two : plan = <<Locks!Modify(o)>>
    BY <1>8 DEF Locks!Plans, Locks!SavePlan
  <2>2. plan \in Seq(S)
    <3> HIDE DEF S, C
    <3> QED
      BY <1>2, <2>1, ShortLists
  <2> QED
    BY <1>8, <2>1, <2>2 DEF ReviewShape
<1>9. CASE kind = "approve"
  <2>1. PICK p \in Transfers, a \in Reviewers : plan = Locks!ApprovePlan(p, a)
    BY <1>9 DEF Locks!Plans
  <2>2. plan = <<Locks!Own(p), Locks!Share(a)>> \o <<C>>
    BY <2>1 DEF Locks!ApprovePlan, Locks!ApplyChange
  <2>3. plan = <<Locks!Own(p), Locks!Share(a), C>>
    BY <2>2, TwoAndMore
  <2>4. Locks!Own(p) \in S
    BY <1>9, RowsLocked
  <2>5. plan \in Seq(S)
    <3> HIDE DEF S, C
    <3> QED
      BY <1>1, <1>3, <2>3, <2>4, ShortLists
  <2> QED
    BY <1>9, <2>3, <2>5 DEF ReviewShape
<1>10. CASE kind = "adjust"
  <2>1. PICK a \in Reviewers : plan = Locks!AdjustPlan(a)
    BY <1>10 DEF Locks!Plans
  <2>2. plan = <<C, Locks!Share(a)>>
    BY <2>1, OneAndMore DEF Locks!AdjustPlan, Locks!ApplyChange
  <2>3. plan \in Seq(S)
    <3> HIDE DEF S, C
    <3> QED
      BY <1>1, <1>3, <2>2, ShortLists
  <2> QED
    BY <1>10, <2>2, <2>3 DEF ReviewShape
<1> QED
  BY <1>4, <1>5, <1>6, <1>7, <1>8, <1>9, <1>10 DEF Locks!AllOps

(* A payment of one order locks the order, then its customer.              *)
LEMMA PaymentPlansOK ==
  ASSUME NEW kind \in {"pay", "autopay", "save", "approve", "adjust"}, NEW plan \in LocksPaying!Plans(kind)
  PROVE  /\ plan \in Seq(LocksOf(kind)) /\ ReviewShape(kind, plan, {})
         /\ PaymentShape(kind, plan, {})
<1>1. CASE kind = "pay"
  <2>1. PICK list \in LocksPaying!Lists, paid \in SUBSET Two : plan = LocksPaying!PayPlan(list, paid)
    BY <1>1 DEF LocksPaying!Plans
  <2>2. PICK n \in 1 .. 1 : list \in [1 .. n -> Two]
    BY DEF LocksPaying!Lists
  <2>3. n = 1 /\ n \in Nat
    OBVIOUS
  <2>4. plan = Locks!PayPlan(list, paid)
    BY <2>1 DEF LocksPaying!PayPlan, Locks!PayPlan, LocksPaying!FlattenSeq, Locks!FlattenSeq,
                LocksPaying!ApplyChange, Locks!ApplyChange, LocksPaying!Own, Locks!Own
  <2>5. plan \in Seq(LocksOf("pay")) /\ PaymentShape("pay", plan, {})
    BY <2>2, <2>3, <2>4, PayPlanLocks
  <2> QED
    BY <1>1, <2>5 DEF ReviewShape
<1>2. CASE kind # "pay"
  <2>1. plan \in Locks!Plans(kind) /\ kind \in Locks!AllOps
    <3>1. /\ \A o \in Two : LocksPaying!AutoPayPlan(o) = Locks!AutoPayPlan(o)
          /\ \A o \in Two : LocksPaying!SavePlan(o) = Locks!SavePlan(o)
          /\ \A p \in Transfers, a \in Reviewers : LocksPaying!ApprovePlan(p, a) = Locks!ApprovePlan(p, a)
          /\ \A a \in Reviewers : LocksPaying!AdjustPlan(a) = Locks!AdjustPlan(a)
      BY DEF LocksPaying!AutoPayPlan, Locks!AutoPayPlan, LocksPaying!SavePlan, Locks!SavePlan,
             LocksPaying!ApprovePlan, Locks!ApprovePlan, LocksPaying!AdjustPlan, Locks!AdjustPlan,
             LocksPaying!ApplyChange, Locks!ApplyChange, LocksPaying!Own, Locks!Own,
             LocksPaying!Share, Locks!Share, LocksPaying!Modify, Locks!Modify
    <3>2. CASE kind = "autopay"
      BY <3>1, <3>2 DEF LocksPaying!Plans, Locks!Plans, Locks!AllOps
    <3>3. CASE kind = "save"
      BY <3>1, <3>3 DEF LocksPaying!Plans, Locks!Plans, Locks!AllOps
    <3>4. CASE kind = "approve"
      BY <3>1, <3>4 DEF LocksPaying!Plans, Locks!Plans, Locks!AllOps
    <3>5. CASE kind = "adjust"
      BY <3>1, <3>5 DEF LocksPaying!Plans, Locks!Plans, Locks!AllOps
    <3> QED
      BY <1>2, <3>2, <3>3, <3>4, <3>5
  <2>2. plan \in Seq(LocksOf(kind)) /\ ReviewShape(kind, plan, {})
    BY <2>1, PlansOK
  <2>3. PaymentShape(kind, plan, {})
    <3>1. CASE kind = "autopay"
      <4>1. PICK o \in Two : plan = Locks!AutoPayPlan(o)
        BY <2>1, <3>1 DEF Locks!Plans
      <4>2. plan = <<Locks!Own(o), Locks!Own(Customer)>>
        BY <4>1, OneAndMore DEF Locks!AutoPayPlan, Locks!ApplyChange
      <4> QED
        BY <4>2 DEF PaymentShape
    <3> QED
      BY <1>2, <3>1 DEF PaymentShape
  <2> QED
    BY <2>2, <2>3
<1> QED
  BY <1>1, <1>2
-----------------------------------------------------------------------------
(* No request has begun.                                                   *)
LEMMA LocksStart ==
  ASSUME Locks!Init
  PROVE  LocksInv /\ PayingInv
<1>1. /\ DOMAIN lockOp = Calls /\ DOMAIN lockTodo = Calls /\ DOMAIN lockHeld = Calls /\ DOMAIN lockPhase = Calls
      /\ \A t \in Calls : lockOp[t] = "none" /\ lockTodo[t] = << >> /\ lockHeld[t] = {} /\ lockPhase[t] = "idle"
  BY DEF Locks!Init
<1>2. \A S : << >> \in Seq(S)
  OBVIOUS
<1>3. LocksInv
  BY <1>1, <1>2 DEF LocksInv, ReviewShape
<1> QED
  BY <1>1, <1>3 DEF PayingInv, PaymentShape

(* A request begins: it has the locks of its plan to ask for.              *)
LEMMA BeginKeeps ==
  ASSUME LocksInv, NEW t \in Calls, NEW kind, NEW plan,
         plan \in Seq(LocksOf(kind)), ReviewShape(kind, plan, {}),
         lockPhase[t] = "idle",
         lockOp' = [lockOp EXCEPT ![t] = kind],
         lockTodo' = [lockTodo EXCEPT ![t] = plan],
         lockPhase' = [lockPhase EXCEPT ![t] = "running"],
         lockHeld' = lockHeld
  PROVE  LocksInv'
<1>1. /\ DOMAIN lockOp = Calls /\ DOMAIN lockTodo = Calls /\ DOMAIN lockHeld = Calls /\ DOMAIN lockPhase = Calls
      /\ lockHeld[t] = {}
  BY DEF LocksInv
<1>2. lockOp'[t] = kind /\ lockTodo'[t] = plan /\ lockPhase'[t] = "running" /\ lockHeld'[t] = {}
  BY <1>1
<1>3. ASSUME NEW u \in Calls, u # t
      PROVE  /\ lockOp'[u] = lockOp[u] /\ lockTodo'[u] = lockTodo[u]
             /\ lockPhase'[u] = lockPhase[u] /\ lockHeld'[u] = lockHeld[u]
  BY <1>1, <1>3
<1>4. ASSUME NEW u \in Calls
      PROVE  /\ lockTodo'[u] \in Seq(LocksOf(lockOp'[u])) /\ lockHeld'[u] \subseteq LocksOf(lockOp'[u])
             /\ lockPhase'[u] = "idle" => lockTodo'[u] = << >> /\ lockHeld'[u] = {}
             /\ ReviewShape(lockOp'[u], lockTodo'[u], lockHeld'[u])
  <2>1. CASE u = t
    BY <1>2, <2>1
  <2>2. CASE u # t
    BY <1>3, <2>2 DEF LocksInv
  <2> QED
    BY <2>1, <2>2
<1>5. DOMAIN lockOp' = Calls /\ DOMAIN lockTodo' = Calls /\ DOMAIN lockHeld' = Calls /\ DOMAIN lockPhase' = Calls
  BY <1>1
<1> QED
  BY <1>4, <1>5 DEF LocksInv

(* A lock is granted: the request keeps it and asks for the next.          *)
LEMMA AcquireKeeps ==
  ASSUME LocksInv, NEW t \in Calls, Locks!Acquire(t)
  PROVE  LocksInv' /\ (PayingInv => PayingInv')
<1> DEFINE rest == lockTodo[t]
           S == LocksOf(lockOp[t])
<1>1. /\ DOMAIN lockOp = Calls /\ DOMAIN lockTodo = Calls /\ DOMAIN lockHeld = Calls /\ DOMAIN lockPhase = Calls
      /\ rest \in Seq(S) /\ lockHeld[t] \subseteq S /\ (lockPhase[t] = "idle" => rest = << >>)
      /\ ReviewShape(lockOp[t], rest, lockHeld[t])
  BY DEF LocksInv
<1>2. /\ rest # << >> /\ lockOp' = lockOp /\ lockPhase' = lockPhase
      /\ lockHeld' = [lockHeld EXCEPT ![t] = lockHeld[t] \cup {Head(rest)}]
      /\ lockTodo' = [lockTodo EXCEPT ![t] = Tail(rest)]
  BY DEF Locks!Acquire
<1>3. lockHeld'[t] = lockHeld[t] \cup {Head(rest)} /\ lockTodo'[t] = Tail(rest)
  BY <1>1, <1>2
<1>4. ASSUME NEW u \in Calls, u # t
      PROVE  lockTodo'[u] = lockTodo[u] /\ lockHeld'[u] = lockHeld[u]
  BY <1>1, <1>2, <1>4
<1>5. Head(rest) \in S /\ Tail(rest) \in Seq(S)
  <2> HIDE DEF rest, S
  <2> QED
    BY <1>1, <1>2, HeadTailProperties
<1>6. ReviewShape(lockOp[t], Tail(rest), lockHeld[t] \cup {Head(rest)})
  BY <1>1, <1>2, ShapeAdvances
<1>7. ASSUME NEW u \in Calls
      PROVE  /\ lockTodo'[u] \in Seq(LocksOf(lockOp'[u])) /\ lockHeld'[u] \subseteq LocksOf(lockOp'[u])
             /\ lockPhase'[u] = "idle" => lockTodo'[u] = << >> /\ lockHeld'[u] = {}
             /\ ReviewShape(lockOp'[u], lockTodo'[u], lockHeld'[u])
  <2>1. CASE u = t
    BY <1>1, <1>2, <1>3, <1>5, <1>6, <2>1
  <2>2. CASE u # t
    BY <1>2, <1>4, <2>2 DEF LocksInv
  <2> QED
    BY <2>1, <2>2
<1>8. DOMAIN lockOp' = Calls /\ DOMAIN lockTodo' = Calls /\ DOMAIN lockHeld' = Calls /\ DOMAIN lockPhase' = Calls
  BY <1>1, <1>2
<1>9. LocksInv'
  BY <1>7, <1>8 DEF LocksInv
<1>10. ASSUME PayingInv
       PROVE  PayingInv'
  <2>1. PaymentShape(lockOp[t], Tail(rest), lockHeld[t] \cup {Head(rest)}) /\ lockOp[t] # "none"
    BY <1>2, <1>10, ShapeAdvances DEF PayingInv
  <2>2. ASSUME NEW u \in Calls
        PROVE  /\ lockOp'[u] \in {"none", "pay", "autopay", "save", "approve", "adjust"}
               /\ lockOp'[u] = "none" => lockTodo'[u] = << >>
               /\ PaymentShape(lockOp'[u], lockTodo'[u], lockHeld'[u])
    <3>1. CASE u = t
      BY <1>2, <1>3, <1>10, <2>1, <3>1 DEF PayingInv
    <3>2. CASE u # t
      BY <1>2, <1>4, <1>10, <3>2 DEF PayingInv
    <3> QED
      BY <3>1, <3>2
  <2> QED
    BY <1>9, <2>2 DEF PayingInv
<1> QED
  BY <1>9, <1>10

(* A request ends: it keeps no lock and asks for none.                     *)
LEMMA EndKeeps ==
  ASSUME LocksInv, NEW t \in Calls, NEW result, result # "idle",
         lockOp' = lockOp,
         lockPhase' = [lockPhase EXCEPT ![t] = result],
         lockHeld' = [lockHeld EXCEPT ![t] = {}],
         DOMAIN lockTodo' = Calls, lockTodo'[t] = << >>,
         \A u \in Calls : u # t => lockTodo'[u] = lockTodo[u]
  PROVE  LocksInv' /\ (PayingInv => PayingInv')
<1>1. DOMAIN lockOp = Calls /\ DOMAIN lockTodo = Calls /\ DOMAIN lockHeld = Calls /\ DOMAIN lockPhase = Calls
  BY DEF LocksInv
<1>2. lockHeld'[t] = {} /\ lockPhase'[t] = result
  BY <1>1
<1>3. ASSUME NEW u \in Calls, u # t
      PROVE  lockTodo'[u] = lockTodo[u] /\ lockHeld'[u] = lockHeld[u] /\ lockPhase'[u] = lockPhase[u]
  BY <1>1, <1>3
<1>4. \A S : << >> \in Seq(S)
  OBVIOUS
<1>5. \A kind : ReviewShape(kind, << >>, {}) /\ PaymentShape(kind, << >>, {})
  BY DEF ReviewShape, PaymentShape
<1>6. ASSUME NEW u \in Calls
      PROVE  /\ lockTodo'[u] \in Seq(LocksOf(lockOp'[u])) /\ lockHeld'[u] \subseteq LocksOf(lockOp'[u])
             /\ lockPhase'[u] = "idle" => lockTodo'[u] = << >> /\ lockHeld'[u] = {}
             /\ ReviewShape(lockOp'[u], lockTodo'[u], lockHeld'[u])
  <2>1. CASE u = t
    BY <1>2, <1>4, <1>5, <2>1
  <2>2. CASE u # t
    BY <1>3, <2>2 DEF LocksInv
  <2> QED
    BY <2>1, <2>2
<1>7. DOMAIN lockOp' = Calls /\ DOMAIN lockTodo' = Calls /\ DOMAIN lockHeld' = Calls /\ DOMAIN lockPhase' = Calls
  BY <1>1
<1>8. LocksInv'
  BY <1>6, <1>7 DEF LocksInv
<1>9. ASSUME PayingInv
      PROVE  PayingInv'
  <2>1. ASSUME NEW u \in Calls
        PROVE  /\ lockOp'[u] \in {"none", "pay", "autopay", "save", "approve", "adjust"}
               /\ lockOp'[u] = "none" => lockTodo'[u] = << >>
               /\ PaymentShape(lockOp'[u], lockTodo'[u], lockHeld'[u])
    <3>1. CASE u = t
      BY <1>2, <1>5, <1>9, <3>1 DEF PayingInv
    <3>2. CASE u # t
      BY <1>3, <1>9, <3>2 DEF PayingInv
    <3> QED
      BY <3>1, <3>2
  <2> QED
    BY <1>8, <2>1 DEF PayingInv
<1> QED
  BY <1>8, <1>9

(* A commit ends a request.                                                *)
LEMMA CommitKeeps ==
  ASSUME LocksInv, NEW t \in Calls, Locks!Commit(t)
  PROVE  LocksInv' /\ (PayingInv => PayingInv')
<1>1. /\ lockOp' = lockOp /\ lockTodo' = lockTodo /\ lockTodo[t] = << >> /\ DOMAIN lockTodo = Calls
      /\ lockPhase' = [lockPhase EXCEPT ![t] = "committed"]
      /\ lockHeld' = [lockHeld EXCEPT ![t] = {}]
  BY DEF Locks!Commit, LocksInv
<1>2. "committed" # "idle" /\ DOMAIN lockTodo' = Calls /\ lockTodo'[t] = << >>
      /\ \A u \in Calls : u # t => lockTodo'[u] = lockTodo[u]
  BY <1>1
<1> QED
  BY <1>1, <1>2, EndKeeps

(* So does the detector.                                                   *)
LEMMA AbortKeeps ==
  ASSUME LocksInv, NEW t \in Calls, Locks!Abort(t)
  PROVE  LocksInv' /\ (PayingInv => PayingInv')
<1>1. /\ lockOp' = lockOp /\ lockTodo' = [lockTodo EXCEPT ![t] = << >>] /\ DOMAIN lockTodo = Calls
      /\ lockPhase' = [lockPhase EXCEPT ![t] = "aborted"]
      /\ lockHeld' = [lockHeld EXCEPT ![t] = {}]
  BY DEF Locks!Abort, LocksInv
<1>2. "aborted" # "idle" /\ DOMAIN lockTodo' = Calls /\ lockTodo'[t] = << >>
      /\ \A u \in Calls : u # t => lockTodo'[u] = lockTodo[u]
  BY <1>1
<1> QED
  BY <1>1, <1>2, EndKeeps

(* The locks are those of the plans at every moment.                       *)
LEMMA LocksInvHolds ==
  /\ Locks!Init => LocksInv
  /\ LocksInv /\ Locks!Next => LocksInv'
  /\ LocksInv /\ UNCHANGED <<lockOp, lockTodo, lockHeld, lockPhase>> => LocksInv'
<1>1. ASSUME LocksInv, Locks!Next
      PROVE  LocksInv'
  <2>1. PICK t \in Calls : Locks!Begin(t) \/ Locks!Acquire(t) \/ Locks!Commit(t) \/ Locks!Abort(t)
    BY <1>1 DEF Locks!Next
  <2>2. CASE Locks!Begin(t)
    <3>1. PICK kind \in Locks!AllOps :
            /\ lockOp' = [lockOp EXCEPT ![t] = kind]
            /\ \E plan \in Locks!Plans(kind) : lockTodo' = [lockTodo EXCEPT ![t] = plan]
      BY <2>2 DEF Locks!Begin, Locks!AllOps
    <3>2. PICK plan \in Locks!Plans(kind) : lockTodo' = [lockTodo EXCEPT ![t] = plan]
      BY <3>1
    <3>3. plan \in Seq(LocksOf(kind)) /\ ReviewShape(kind, plan, {})
      BY PlansOK
    <3>4. lockPhase[t] = "idle" /\ lockPhase' = [lockPhase EXCEPT ![t] = "running"] /\ lockHeld' = lockHeld
      BY <2>2 DEF Locks!Begin
    <3> QED
      BY <1>1, <3>1, <3>2, <3>3, <3>4, BeginKeeps
  <2>3. CASE Locks!Acquire(t)
    BY <1>1, <2>3, AcquireKeeps
  <2>4. CASE Locks!Commit(t)
    BY <1>1, <2>4, CommitKeeps
  <2>5. CASE Locks!Abort(t)
    BY <1>1, <2>5, AbortKeeps
  <2> QED
    BY <2>1, <2>2, <2>3, <2>4, <2>5
<1>2. ASSUME LocksInv, UNCHANGED <<lockOp, lockTodo, lockHeld, lockPhase>>
      PROVE  LocksInv'
  BY <1>2 DEF LocksInv
<1> QED
  BY <1>1, <1>2, LocksStart
(* Only payments of one order, edits, reviews and adjustments.             *)
LEMMA PayingInvHolds ==
  /\ LocksPaying!Init => PayingInv
  /\ PayingInv /\ LocksPaying!Next => PayingInv'
  /\ PayingInv /\ UNCHANGED <<lockOp, lockTodo, lockHeld, lockPhase>> => PayingInv'
<1>1. LocksPaying!Init => PayingInv
  BY LocksStart DEF LocksPaying!Init, Locks!Init
<1>2. ASSUME PayingInv, LocksPaying!Next
      PROVE  PayingInv'
  <2>0. LocksInv
    BY <1>2 DEF PayingInv
  <2>1. PICK t \in Calls : \/ LocksPaying!Begin(t) \/ LocksPaying!Acquire(t)
                           \/ LocksPaying!Commit(t) \/ LocksPaying!Abort(t)
    BY <1>2 DEF LocksPaying!Next
  <2>2. CASE LocksPaying!Begin(t)
    <3>1. PICK kind \in {"pay", "autopay", "save", "approve", "adjust"} :
            /\ lockOp' = [lockOp EXCEPT ![t] = kind]
            /\ \E plan \in LocksPaying!Plans(kind) : lockTodo' = [lockTodo EXCEPT ![t] = plan]
      BY <2>2 DEF LocksPaying!Begin
    <3>2. PICK plan \in LocksPaying!Plans(kind) : lockTodo' = [lockTodo EXCEPT ![t] = plan]
      BY <3>1
    <3>3. /\ plan \in Seq(LocksOf(kind)) /\ ReviewShape(kind, plan, {})
          /\ PaymentShape(kind, plan, {})
      BY PaymentPlansOK
    <3>4. lockPhase[t] = "idle" /\ lockPhase' = [lockPhase EXCEPT ![t] = "running"] /\ lockHeld' = lockHeld
      BY <2>2 DEF LocksPaying!Begin
    <3>5. LocksInv'
      BY <2>0, <3>1, <3>2, <3>3, <3>4, BeginKeeps
    <3>6. /\ DOMAIN lockOp = Calls /\ DOMAIN lockTodo = Calls /\ lockHeld[t] = {}
      BY <2>0, <3>4 DEF LocksInv
    <3>7. ASSUME NEW u \in Calls
          PROVE  /\ lockOp'[u] \in {"none", "pay", "autopay", "save", "approve", "adjust"}
                 /\ lockOp'[u] = "none" => lockTodo'[u] = << >>
                 /\ PaymentShape(lockOp'[u], lockTodo'[u], lockHeld'[u])
      <4>1. CASE u = t
        <5>1. lockOp'[u] = kind /\ lockTodo'[u] = plan /\ lockHeld'[u] = {}
          BY <3>1, <3>2, <3>4, <3>6, <4>1
        <5> QED
          BY <3>3, <5>1
      <4>2. CASE u # t
        <5>1. lockOp'[u] = lockOp[u] /\ lockTodo'[u] = lockTodo[u] /\ lockHeld'[u] = lockHeld[u]
          BY <3>1, <3>2, <3>4, <3>6, <4>2
        <5> QED
          BY <1>2, <5>1 DEF PayingInv
      <4> QED
        BY <4>1, <4>2
    <3> QED
      BY <3>5, <3>7 DEF PayingInv
  <2>3. CASE LocksPaying!Acquire(t)
    <3>1. Locks!Acquire(t)
      BY <2>3 DEF LocksPaying!Acquire, Locks!Acquire, LocksPaying!WaitsFor, Locks!WaitsFor,
                  LocksPaying!Blocks, Locks!Blocks, LocksPaying!Conflict, Locks!Conflict
    <3> QED
      BY <1>2, <2>0, <3>1, AcquireKeeps
  <2>4. CASE LocksPaying!Commit(t)
    <3>1. Locks!Commit(t)
      BY <2>4 DEF LocksPaying!Commit, Locks!Commit
    <3> QED
      BY <1>2, <2>0, <3>1, CommitKeeps
  <2>5. CASE LocksPaying!Abort(t)
    <3>1. /\ lockOp' = lockOp /\ lockTodo' = [lockTodo EXCEPT ![t] = << >>] /\ DOMAIN lockTodo = Calls
          /\ lockPhase' = [lockPhase EXCEPT ![t] = "aborted"]
          /\ lockHeld' = [lockHeld EXCEPT ![t] = {}]
      BY <2>0, <2>5 DEF LocksPaying!Abort, LocksInv
    <3>2. /\ "aborted" # "idle" /\ DOMAIN lockTodo' = Calls /\ lockTodo'[t] = << >>
          /\ \A u \in Calls : u # t => lockTodo'[u] = lockTodo[u]
      BY <3>1
    <3> QED
      BY <1>2, <2>0, <3>1, <3>2, EndKeeps
  <2> QED
    BY <2>1, <2>2, <2>3, <2>4, <2>5
<1>3. ASSUME PayingInv, UNCHANGED <<lockOp, lockTodo, lockHeld, lockPhase>>
      PROVE  PayingInv'
  BY <1>3 DEF PayingInv, LocksInv
<1> QED
  BY <1>1, <1>2, <1>3

-----------------------------------------------------------------------------
(* A reference to an administrator is never waited for, by nobody.         *)
LEMMA SharesFree ==
  ASSUME LocksInv, NEW u \in Calls, NEW a \in Reviewers
  PROVE  /\ ~Locks!Blocks(u, Locks!Share(a))
         /\ \A h \in lockHeld[u] : h.row = a => h.mode = "key_share"
<1>1. \A h \in lockHeld[u] : h.row \in Reviewers => h.mode = "key_share"
  BY DEF LocksInv, LocksOf
<1> QED
  BY <1>1 DEF Locks!Blocks, Locks!Conflict, Locks!Share

(* A request waits for the lock it asks for next, which another one keeps. *)
LEMMA WaitFacts ==
  ASSUME LocksInv, NEW v \in Calls, NEW t \in Calls, Locks!WaitsFor(v, t)
  PROVE  /\ lockTodo[v] # << >>
         /\ Head(lockTodo[v]) \in LocksOf(lockOp[v])
         /\ Head(lockTodo[v]).row \notin Reviewers
         /\ \E h \in lockHeld[t] : h.row = Head(lockTodo[v]).row
<1> DEFINE lock == Head(lockTodo[v])
           rest == lockTodo[v]
           S == LocksOf(lockOp[v])
<1>1. rest # << >> /\ rest \in Seq(S) /\ lockHeld[t] \subseteq LocksOf(lockOp[t])
  BY DEF Locks!WaitsFor, LocksInv
<1>2. lock \in S
  <2> HIDE DEF S, rest
  <2>1. Head(rest) \in S
    BY <1>1, HeadTailProperties
  <2> QED
    BY <2>1 DEF rest
<1>3. PICK h \in lockHeld[t] : h.row = lock.row /\ Locks!Conflict(h.mode, lock.mode)
  BY DEF Locks!WaitsFor, Locks!Blocks
<1>4. ASSUME lock.row \in Reviewers
      PROVE  FALSE
  <2>1. lock.mode = "key_share" /\ h.mode = "key_share"
    BY <1>1, <1>2, <1>3, <1>4 DEF LocksOf
  <2> QED
    BY <1>3, <2>1 DEF Locks!Conflict
<1> QED
  BY <1>1, <1>2, <1>3, <1>4

\* The fields of a lock.
LEMMA LockFields ==
  /\ \A r : Locks!Own(r).row = r /\ Locks!Share(r).row = r /\ Locks!Modify(r).row = r
  /\ Customer \notin Reviewers /\ Customer \notin Two /\ Customer \notin Transfers
  /\ Reviewers \cap Two = {} /\ Reviewers \cap Transfers = {} /\ Two \cap Transfers = {}
  BY LocksAssumption DEF Locks!RowLocksAssumption, Locks!Own, Locks!Share, Locks!Modify

(* A review that waits, and is waited for, has locked its top-up and waits *)
(* for the customer.                                                       *)
LEMMA ReviewsWait ==
  ASSUME LocksInv, NEW t \in Calls, NEW u \in Calls, NEW v \in Calls,
         Locks!WaitsFor(t, u), Locks!WaitsFor(v, t),
         lockOp[t] \in {"approve", "adjust", "save"}
  PROVE  /\ lockOp[t] = "approve" /\ Head(lockTodo[t]) = Locks!Own(Customer)
         /\ Head(lockTodo[v]).row \in Transfers
         /\ \A h \in lockHeld[t] : h.row # Customer
<1>1. /\ lockTodo[t] # << >> /\ Head(lockTodo[t]).row \notin Reviewers
      /\ Head(lockTodo[v]).row \notin Reviewers
      /\ \E h \in lockHeld[t] : h.row = Head(lockTodo[v]).row
  BY WaitFacts
<1>2. ReviewShape(lockOp[t], lockTodo[t], lockHeld[t])
  BY DEF LocksInv
<1>3. \A x, y : Head(<<x, y>>) = x /\ Head(<<x>>) = x
  OBVIOUS
<1>4. CASE lockOp[t] = "save"
  BY <1>1, <1>2, <1>4 DEF ReviewShape
<1>5. CASE lockOp[t] = "adjust"
  <2>1. PICK a \in Reviewers : lockTodo[t] = <<Locks!Share(a)>>
    BY <1>1, <1>2, <1>5 DEF ReviewShape
  <2>2. Head(lockTodo[t]) = Locks!Share(a)
    BY <1>3, <2>1
  <2> QED
    BY <1>1, <2>2, LockFields
<1>6. CASE lockOp[t] = "approve"
  <2>1. PICK p \in Transfers, a \in Reviewers :
          \/ lockTodo[t] = <<Locks!Share(a), Locks!Own(Customer)>>
          \/ lockTodo[t] = <<Locks!Own(Customer)>> /\ lockHeld[t] = {Locks!Own(p), Locks!Share(a)}
    BY <1>1, <1>2, <1>6 DEF ReviewShape
  <2>2. lockTodo[t] # <<Locks!Share(a), Locks!Own(Customer)>>
    <3>1. Head(<<Locks!Share(a), Locks!Own(Customer)>>) = Locks!Share(a)
      BY <1>3
    <3> QED
      BY <1>1, <3>1, LockFields
  <2>3. Head(lockTodo[t]) = Locks!Own(Customer)
    BY <1>3, <2>1, <2>2
  <2>4. Head(lockTodo[v]).row = p
    BY <1>1, <2>1, <2>2, LockFields
  <2>5. \A h \in lockHeld[t] : h.row # Customer
    BY <2>1, <2>2, LockFields
  <2> QED
    BY <1>6, <2>3, <2>4, <2>5
<1> QED
  BY <1>4, <1>5, <1>6

(* Reviews, adjustments and edits are on no circle.                        *)
LEMMA LocksInvGives == LocksInv => Locks!ReviewsNeverDeadlock
<1> SUFFICES ASSUME LocksInv, NEW t \in Calls, lockOp[t] \in {"approve", "adjust", "save"}, Locks!InCycle(t)
             PROVE  FALSE
  BY DEF Locks!ReviewsNeverDeadlock
<1>1. PICK u, v, w \in Calls : Locks!WaitsFor(t, u) /\ Locks!WaitsFor(v, t) /\ Locks!WaitsFor(w, v)
  BY CircleFacts
<1>2. Head(lockTodo[v]).row \in Transfers
  BY <1>1, ReviewsWait
<1>3. lockTodo[v] # << >> /\ Head(lockTodo[v]) \in LocksOf(lockOp[v])
  BY <1>1, WaitFacts
<1>4. lockOp[v] = "approve"
  BY <1>2, <1>3 DEF LocksOf
<1>5. Head(lockTodo[v]) = Locks!Own(Customer)
  BY <1>1, <1>4, ReviewsWait
<1> QED
  BY <1>2, <1>5, LockFields

(* So are payments that lock one order.                                    *)
LEMMA PayingInvGives == PayingInv => LocksPaying!OneOrderPaymentsNeverDeadlock
<1> SUFFICES ASSUME PayingInv, NEW t \in Calls, LocksPaying!InCycle(t)
             PROVE  FALSE
  BY DEF LocksPaying!OneOrderPaymentsNeverDeadlock
<1>1. LocksInv
  BY DEF PayingInv
<1>2. Locks!InCycle(t)
  BY DEF LocksPaying!InCycle, Locks!InCycle, LocksPaying!WaitsFor, Locks!WaitsFor,
         LocksPaying!Blocks, Locks!Blocks, LocksPaying!Conflict, Locks!Conflict,
         LocksPaying!Cardinality, Locks!Cardinality
<1>3. PICK u, v, w \in Calls : Locks!WaitsFor(t, u) /\ Locks!WaitsFor(v, t) /\ Locks!WaitsFor(w, v)
  BY <1>2, CircleFacts
<1>4. ASSUME NEW x \in Calls, NEW y \in Calls, NEW z \in Calls, Locks!WaitsFor(x, y), Locks!WaitsFor(z, x)
      PROVE  Head(lockTodo[x]) = Locks!Own(Customer) /\ \A h \in lockHeld[x] : h.row # Customer
  <2>1. /\ lockTodo[x] # << >> /\ lockHeld[x] # {}
    BY <1>1, <1>4, WaitFacts
  <2>2. CASE lockOp[x] \in {"approve", "adjust", "save"}
    BY <1>1, <1>4, <2>2, ReviewsWait
  <2>3. CASE lockOp[x] \in {"pay", "autopay"}
    <3>1. PICK o \in Two : lockTodo[x] = <<Locks!Own(Customer)>> /\ lockHeld[x] = {Locks!Own(o)}
      BY <2>1, <2>3 DEF PayingInv, PaymentShape
    <3>2. Head(<<Locks!Own(Customer)>>) = Locks!Own(Customer)
      OBVIOUS
    <3>3. \A h \in lockHeld[x] : h.row # Customer
      BY <3>1, LockFields
    <3> QED
      BY <3>1, <3>2, <3>3
  <2> QED
    BY <2>1, <2>2, <2>3 DEF PayingInv
<1>5. Head(lockTodo[v]) = Locks!Own(Customer)
  BY <1>3, <1>4
<1>6. \A h \in lockHeld[t] : h.row # Customer
  BY <1>3, <1>4
<1>7. \E h \in lockHeld[t] : h.row = Head(lockTodo[v]).row
  BY <1>1, <1>3, WaitFacts
<1> QED
  BY <1>5, <1>6, <1>7, LockFields

-----------------------------------------------------------------------------
(* One part acts, and the others stay as they are.                         *)

\* The invariant of each part, while it is the one that acts.
FulfilmentInv ==
  /\ part = "scan" => ScanInv
  /\ part = "labels" => LabelsInv
  /\ part = "labels alone" => AloneInv
  /\ part = "carrier" => CarrierInv
  /\ part = "pages" => PagesInv
  /\ part = "upload" => UploadInv
  /\ part = "upload alone" => UploadAloneInv
  /\ part = "locks" => LocksInv
  /\ part = "locks paying" => PayingInv

(* It holds when the part begins.                                          *)
LEMMA FulfilmentInvStarts == Init => FulfilmentInv
<1> SUFFICES ASSUME Init
             PROVE  FulfilmentInv
  OBVIOUS
<1>1. CASE part = "scan"
  <2>1. Scan!Init
    BY <1>1 DEF Init
  <2> QED
    BY <1>1, <2>1, ScanInvHolds DEF FulfilmentInv
<1>2. CASE part = "labels"
  <2>1. Labels!Init
    BY <1>2 DEF Init
  <2> QED
    BY <1>2, <2>1, LabelsInvHolds DEF FulfilmentInv
<1>3. CASE part = "labels alone"
  <2>1. LabelsAlone!Init
    BY <1>3 DEF Init
  <2> QED
    BY <1>3, <2>1, AloneInvHolds DEF FulfilmentInv
<1>4. CASE part = "carrier"
  <2>1. Carrier!Init
    BY <1>4 DEF Init
  <2> QED
    BY <1>4, <2>1, CarrierInvHolds DEF FulfilmentInv
<1>5. CASE part = "pages"
  <2>1. Carrier!PagesInit
    BY <1>5 DEF Init
  <2> QED
    BY <1>5, <2>1, PagesInvHolds DEF FulfilmentInv
<1>6. CASE part = "upload"
  <2>1. Upload!Init
    BY <1>6 DEF Init
  <2> QED
    BY <1>6, <2>1, UploadInvHolds DEF FulfilmentInv
<1>7. CASE part = "upload alone"
  <2>1. UploadAlone!Init
    BY <1>7 DEF Init
  <2> QED
    BY <1>7, <2>1, UploadAloneInvHolds DEF FulfilmentInv
<1>8. CASE part = "locks"
  <2>1. Locks!Init
    BY <1>8 DEF Init
  <2> QED
    BY <1>8, <2>1, LocksInvHolds DEF FulfilmentInv
<1>9. CASE part = "locks paying"
  <2>1. LocksPaying!Init
    BY <1>9 DEF Init
  <2> QED
    BY <1>9, <2>1, PayingInvHolds DEF FulfilmentInv
<1> QED
  BY <1>1, <1>2, <1>3, <1>4, <1>5, <1>6, <1>7, <1>8, <1>9 DEF FulfilmentInv

(* A step of a part keeps that part's invariant; the part that acts stays  *)
(* the same, so the other conjuncts speak of no part.                      *)
LEMMA FulfilmentInvStays ==
  ASSUME FulfilmentInv, Next
  PROVE  FulfilmentInv'
<1>1. part' = part
  BY DEF Next, Only
<1>2. CASE part = "scan"
  <2>1. Scan!Next
    BY <1>2 DEF Next, Only
  <2> QED
    BY <1>1, <1>2, <2>1, ScanInvHolds DEF FulfilmentInv
<1>3. CASE part = "labels"
  <2>1. Labels!Next
    BY <1>3 DEF Next, Only
  <2> QED
    BY <1>1, <1>3, <2>1, LabelsInvHolds DEF FulfilmentInv
<1>4. CASE part = "labels alone"
  <2>1. LabelsAlone!Next
    BY <1>4 DEF Next, Only
  <2> QED
    BY <1>1, <1>4, <2>1, AloneInvHolds, ZenonT(60) DEF FulfilmentInv
<1>5. CASE part = "carrier"
  <2>1. Carrier!Next
    BY <1>5 DEF Next, Only
  <2> QED
    BY <1>1, <1>5, <2>1, CarrierInvHolds DEF FulfilmentInv
<1>6. CASE part = "pages"
  <2>1. Carrier!PagesNext
    BY <1>6 DEF Next, Only
  <2> QED
    BY <1>1, <1>6, <2>1, PagesInvHolds DEF FulfilmentInv
<1>7. CASE part = "upload"
  <2>1. Upload!Next
    BY <1>7 DEF Next, Only
  <2> QED
    BY <1>1, <1>7, <2>1, UploadInvHolds DEF FulfilmentInv
<1>8. CASE part = "upload alone"
  <2>1. UploadAlone!Next
    BY <1>8 DEF Next, Only
  <2> QED
    BY <1>1, <1>8, <2>1, UploadAloneInvHolds, ZenonT(60) DEF FulfilmentInv
<1>9. CASE part = "locks"
  <2>1. Locks!Next
    BY <1>9 DEF Next, Only
  <2> QED
    BY <1>1, <1>9, <2>1, LocksInvHolds DEF FulfilmentInv
<1>10. CASE part = "locks paying"
  <2>1. LocksPaying!Next
    BY <1>10 DEF Next, Only
  <2> QED
    BY <1>1, <1>10, <2>1, PayingInvHolds, ZenonT(60) DEF FulfilmentInv
<1> QED
  BY <1>1, <1>2, <1>3, <1>4, <1>5, <1>6, <1>7, <1>8, <1>9, <1>10, ZenonT(60) DEF FulfilmentInv

(* A step that changes nothing keeps it.                                   *)
LEMMA FulfilmentInvStutters ==
  ASSUME FulfilmentInv, UNCHANGED vars
  PROVE  FulfilmentInv'
<1>1. part' = part
  BY DEF vars
<1>2. ScanInv => ScanInv'
  BY ScanInvHolds DEF vars, Scan!vars
<1>3. LabelsInv => LabelsInv'
  BY LabelsInvHolds DEF vars
<1>4. AloneInv => AloneInv'
  BY AloneInvHolds DEF vars
<1>5. CarrierInv => CarrierInv'
  BY CarrierInvHolds DEF vars
<1>6. PagesInv => PagesInv'
  BY PagesInvHolds DEF vars, Carrier!pagesVars
<1>7. UploadInv => UploadInv'
  BY UploadInvHolds DEF vars
<1>8. UploadAloneInv => UploadAloneInv'
  BY UploadAloneInvHolds DEF vars
<1>9. LocksInv => LocksInv'
  BY LocksInvHolds DEF vars
<1>10. PayingInv => PayingInv'
  BY PayingInvHolds DEF vars
<1> QED
  BY <1>1, <1>2, <1>3, <1>4, <1>5, <1>6, <1>7, <1>8, <1>9, <1>10 DEF FulfilmentInv

(* The invariant of the part that acts holds at every moment.              *)
THEOREM FulfilmentInvAlways == Spec => []FulfilmentInv
<1>1. FulfilmentInv /\ [Next]_vars => FulfilmentInv'
  BY FulfilmentInvStays, FulfilmentInvStutters
<1> QED
  BY <1>1, FulfilmentInvStarts, PTL DEF Spec

(***************************************************************************)
(* Nothing is done twice: an order has one job for its debit and one for   *)
(* its start; an import makes one label per request id, and without others *)
(* one per row of the file; a PDF has one upload; and while none is added  *)
(* the carrier's pages from the run's first one on list the newest PDFs    *)
(* that are left once each.                                                *)
(***************************************************************************)
THEOREM NothingHappensTwice == Spec => []NothingTwice
<1>1. FulfilmentInv => NothingTwice
  <2>1. ScanInv => Scan!EachJobOnce
    BY ScanInvGives
  <2>2. LabelsInv => Labels!OnePerRequestId
    BY LabelsInvGives
  <2>3. AloneInv => LabelsAlone!EachRowOnce
    BY DEF AloneInv
  <2>4. UploadAloneInv => UploadAlone!UploadedOnce
    BY UploadAloneInvGives
  <2>5. PagesInv => Carrier!NewestOnce
    BY PagesInvGives
  <2> QED
    BY <2>1, <2>2, <2>3, <2>4, <2>5 DEF FulfilmentInv, NothingTwice
<1> QED
  BY <1>1, FulfilmentInvAlways, PTL

(***************************************************************************)
(* Nothing is lost but by a fault: an order debited or started has its job *)
(* unless Redis or the process failed; a label has its order unless the    *)
(* process died between the two; and a list of the carrier's PDFs that is  *)
(* full misses none that was there when it began and is not on a page      *)
(* before the run's first one, whatever arrives.                           *)
(***************************************************************************)
THEOREM NothingGetsLost == Spec => []NothingLost
<1>1. FulfilmentInv => NothingLost
  <2>1. ScanInv => Scan!OnlyFaultsLoseJobs
    BY ScanInvGives
  <2>2. LabelsInv => Labels!OnlyCrashesOrphanLabels
    BY LabelsInvGives
  <2>3. PagesInv => Carrier!NothingMissed
    BY PagesInvGives
  <2> QED
    BY <2>1, <2>2, <2>3 DEF FulfilmentInv, NothingLost
<1> QED
  BY <1>1, FulfilmentInvAlways, PTL

(***************************************************************************)
(* What is told is so: an order in a reply has its job in the queue, or    *)
(* had it; a job is of a committed order its payment debited, which is     *)
(* gone only if it was deleted; the reply of a confirmation names the      *)
(* file's rows; and the chat hears of an upload only if the carrier has    *)
(* the PDF.                                                                *)
(***************************************************************************)
THEOREM WhatIsToldIsSo == Spec => []ToldIsSo
<1>1. FulfilmentInv => ToldIsSo
  <2>1. ScanInv => Scan!SuccessMeansPushed /\ Scan!JobsAreCommitted
    BY ScanInvGives
  <2>2. LabelsInv => Labels!ReplyNamesEveryRow
    BY LabelsInvGives
  <2>3. UploadInv => Upload!ToldUploadedIsUploaded
    BY UploadInvGives
  <2> QED
    BY <2>1, <2>2, <2>3 DEF FulfilmentInv, ToldIsSo
<1> QED
  BY <1>1, FulfilmentInvAlways, PTL

(***************************************************************************)
(* Payment comes first: a synchronisation completes paid orders only,      *)
(* though it saves what it read before, unless the saves of two runs cross *)
(* on the order; a confirmation pays a prefix of its rows; and the worker  *)
(* neither fails nor refunds what was paid.                                *)
(***************************************************************************)
THEOREM PaymentComesFirst == Spec => []PaidFirst
<1>1. FulfilmentInv => PaidFirst
  <2>1. CarrierInv => Carrier!CompletedIsPaid
    BY DEF CarrierInv
  <2>2. LabelsInv => Labels!ConfirmPaysPrefix
    BY LabelsInvGives
  <2>3. ScanInv => Scan!WorkerOnlyReads
    BY ScanInvGives
  <2> QED
    BY <2>1, <2>2, <2>3 DEF FulfilmentInv, PaidFirst
<1> QED
  BY <1>1, FulfilmentInvAlways, PTL

(***************************************************************************)
(* No review, adjustment or edit is on a circle of transactions that wait  *)
(* for each other, whatever the other requests are; and no transaction is  *)
(* when payments lock one order each.                                      *)
(***************************************************************************)
THEOREM ReviewsAndPaymentsNeverDeadlock == Spec => []NeverDeadlock
<1>1. FulfilmentInv => NeverDeadlock
  BY LocksInvGives, PayingInvGives DEF FulfilmentInv, NeverDeadlock
<1> QED
  BY <1>1, FulfilmentInvAlways, PTL
=============================================================================
