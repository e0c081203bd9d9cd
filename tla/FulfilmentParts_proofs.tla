----------------------- MODULE FulfilmentParts_proofs -----------------------
(***************************************************************************)
(* Proofs about the parts of MCFulfilment, for every number of orders,     *)
(* requests, PDFs, pages and faults: the scan queue, the status of the     *)
(* carrier, the pages of the list of its PDFs, and the uploads of PDFs,    *)
(* those that overlap and those that do not. Each part has an invariant of *)
(* its own, which begins true and which the steps of the part keep.        *)
(* Fulfilment_proofs puts them together.                                   *)
(***************************************************************************)
EXTENDS MCFulfilment, SequenceTheorems, FiniteSetTheorems, WellFoundedInduction,
        TLAPS

(* The places of the jobs for an order and a cause in a list.              *)
JobPlaces(list, o, by) == {i \in DOMAIN list : list[i].order = o /\ list[i].by = by}

(* They are finitely many.                                                 *)
LEMMA JobPlacesFinite ==
  ASSUME NEW S, NEW list \in Seq(S), NEW o, NEW by
  PROVE  /\ IsFiniteSet(JobPlaces(list, o, by))
         /\ Cardinality(JobPlaces(list, o, by)) \in Nat
<1>1. JobPlaces(list, o, by) \subseteq 1 .. Len(list) /\ Len(list) \in Nat
  BY DEF JobPlaces
<1>2. IsFiniteSet(1 .. Len(list))
  BY <1>1, FS_Interval
<1> QED
  BY <1>1, <1>2, FS_Subset, FS_CardinalityType

(* A job that is added at the end is one more of its kind.                 *)
LEMMA JobAdded ==
  ASSUME NEW S, NEW list \in Seq(S), NEW j \in S, NEW o, NEW by
  PROVE  Cardinality(JobPlaces(Append(list, j), o, by)) =
           Cardinality(JobPlaces(list, o, by))
             + IF j.order = o /\ j.by = by THEN 1 ELSE 0
<1> DEFINE n == Len(list) + 1
           more == Append(list, j)
<1>1. /\ DOMAIN list = 1 .. Len(list) /\ DOMAIN more = 1 .. n /\ Len(list) \in Nat
      /\ more[n] = j /\ \A i \in 1 .. Len(list) : more[i] = list[i]
  BY AppendProperties, LenProperties
<1> HIDE DEF more
<1>2. CASE j.order = o /\ j.by = by
  <2> DEFINE places == JobPlaces(list, o, by)
  <2>1. JobPlaces(more, o, by) = places \cup {n} /\ n \notin places
    BY <1>1, <1>2 DEF JobPlaces
  <2>2. IsFiniteSet(places)
    BY JobPlacesFinite
  <2> HIDE DEF places, n
  <2>3. Cardinality(places \cup {n}) = Cardinality(places) + 1
    BY <2>1, <2>2, FS_AddElement
  <2> QED
    BY <1>2, <2>1, <2>3 DEF more, places
<1>3. CASE ~(j.order = o /\ j.by = by)
  <2>1. JobPlaces(more, o, by) = JobPlaces(list, o, by)
    BY <1>1, <1>3 DEF JobPlaces
  <2> QED
    BY <1>3, <2>1, JobPlacesFinite DEF more
<1> QED
  BY <1>2, <1>3

(* A job that is taken from the front is one less of its kind.             *)
LEMMA JobTaken ==
  ASSUME NEW S, NEW list \in Seq(S), list # << >>, NEW o, NEW by
  PROVE  Cardinality(JobPlaces(list, o, by)) =
           Cardinality(JobPlaces(Tail(list), o, by))
             + IF Head(list).order = o /\ Head(list).by = by THEN 1 ELSE 0
<1> DEFINE rest == Tail(list)
           all == JobPlaces(list, o, by)
           later == all \ {1}
           places == JobPlaces(rest, o, by)
           f == [i \in places |-> i + 1]
<1>1. /\ Len(list) \in Nat \ {0} /\ DOMAIN list = 1 .. Len(list)
      /\ DOMAIN rest = 1 .. Len(list) - 1 /\ Head(list) = list[1]
      /\ \A i \in 1 .. Len(list) - 1 : rest[i] = list[i + 1]
  BY HeadTailProperties, LenProperties, EmptySeq
<1> HIDE DEF rest
<1>2. IsFiniteSet(all) /\ IsFiniteSet(places) /\ Cardinality(places) \in Nat
  <2>1. rest \in Seq(S)
    BY HeadTailProperties DEF rest
  <2> QED
    BY <2>1, JobPlacesFinite
<1>3. f \in Bijection(places, later)
  <2>1. \A i \in places : i + 1 \in later /\ i \in Int
    BY <1>1 DEF JobPlaces
  <2>2. ASSUME NEW k \in later
        PROVE  k - 1 \in places /\ k - 1 + 1 = k
    <3>1. k \in 1 .. Len(list) /\ k # 1 /\ list[k].order = o /\ list[k].by = by
      BY <1>1 DEF JobPlaces
    <3>2. k - 1 \in 1 .. Len(list) - 1 /\ k - 1 + 1 = k
      BY <1>1, <3>1
    <3>3. rest[k - 1] = list[k]
      BY <1>1, <3>2
    <3> QED
      BY <1>1, <3>1, <3>2, <3>3 DEF JobPlaces
  <2> HIDE DEF places, later
  <2>3. f \in [places -> later] /\ (\A a, b \in places : f[a] = f[b] => a = b)
    BY <2>1
  <2>4. \A k \in later : \E a \in places : f[a] = k
    BY <2>2
  <2> HIDE DEF f
  <2>5. DOMAIN f = places
    BY <2>3
  <2> QED
    BY <2>3, <2>4, <2>5 DEF Bijection, Injection, Surjection, IsInjective
<1>4. Cardinality(later) = Cardinality(places) /\ IsFiniteSet(later)
  BY <1>2, <1>3, FS_Bijection DEF ExistsBijection
<1>5. 1 \in all <=> Head(list).order = o /\ Head(list).by = by
  BY <1>1 DEF JobPlaces
<1>6. Cardinality(all) = Cardinality(later) + IF 1 \in all THEN 1 ELSE 0
  <2> HIDE DEF all
  <2>1. Cardinality(all) \in Nat
    BY <1>2, FS_CardinalityType
  <2>2. Cardinality(all \ {1}) = IF 1 \in all THEN Cardinality(all) - 1 ELSE Cardinality(all)
    BY <1>2, FS_RemoveElement
  <2> QED
    BY <2>1, <2>2
<1> HIDE DEF all, later, places
<1>7. Cardinality(all) = Cardinality(places) + IF Head(list).order = o /\ Head(list).by = by THEN 1 ELSE 0
  BY <1>4, <1>5, <1>6
<1> QED
  BY <1>7 DEF all, places, rest

-----------------------------------------------------------------------------
(* What a request has left to do is replaced as a whole.                   *)
LEMMA ScanGoto ==
  ASSUME Scan!ScanTypeOK, NEW r \in Calls, NEW q \in Scan!Request, Scan!Goto(r, q)
  PROVE  /\ scanReq' \in [Calls -> Scan!Request] /\ scanReq'[r] = q
         /\ \A x \in Calls \ {r} : scanReq'[x] = scanReq[x]
  BY DEF Scan!ScanTypeOK, Scan!Goto

(* A request that has not begun is one.                                    *)
LEMMA ScanIdle ==
  /\ Scan!Idle \in Scan!Request /\ Scan!Idle.todo = << >> /\ Scan!Idle.oks = {}
  /\ Scan!Idle.pc = "idle" /\ Scan!Idle.op = "pay" /\ 0 \in 0 .. MaxRows
<1>1. << >> \in Seq(Scan!Job)
  OBVIOUS
<1>2. 0 \in 0 .. MaxRows
  BY ScanAssumption DEF Scan!ScanQueueAssumption
<1> QED
  BY <1>1, <1>2 DEF Scan!Idle, Scan!Request

(* The jobs that services push are jobs, and have a tracking code.         *)
LEMMA ScanJobs ==
  ASSUME NEW o \in Two
  PROVE  /\ Scan!PaymentJob(o) \in Scan!Job /\ Scan!LabelJob(o) \in Scan!Job
         /\ Scan!PaymentJob(o).tracking /\ Scan!LabelJob(o).tracking
         /\ Scan!PaymentJob(o).order = o /\ Scan!LabelJob(o).order = o
         /\ Scan!PaymentJob(o).by = "payment" /\ Scan!LabelJob(o).by = "import"
  BY DEF Scan!PaymentJob, Scan!LabelJob, Scan!Job, Scan!Causes

(* What a request to import rows begins with.                              *)
LEMMA StartImportEffect ==
  ASSUME Scan!ScanTypeOK, NEW r \in Calls, NEW op \in {"scan", "preview"},
         NEW rows \in 1 .. MaxRows, Scan!StartImport(r, op, rows)
  PROVE  /\ scanReq' \in [Calls -> Scan!Request] /\ scanReq[r].pc = "idle"
         /\ scanReq'[r].todo = << >> /\ scanReq'[r].oks = {}
         /\ \A x \in Calls \ {r} : scanReq'[x] = scanReq[x]
         /\ UNCHANGED <<scanOrders, scanQueue, scanTold, scanHand, scanPopped, scanFailed, scanUp, scanFaults>>
<1> DEFINE q == [Scan!Idle EXCEPT !.pc = "busy", !.op = op, !.rows = rows]
<1>1. q \in Scan!Request /\ q.todo = << >> /\ q.oks = {}
  <2>1. rows \in 0 .. MaxRows
    BY ScanAssumption DEF Scan!ScanQueueAssumption
  <2> QED
    <3> DEFINE idle == Scan!Idle
    <3>1. idle \in Scan!Request /\ idle.todo = << >> /\ idle.oks = {}
      BY ScanIdle
    <3> HIDE DEF idle
    <3>2. [idle EXCEPT !.pc = "busy", !.op = op, !.rows = rows] \in Scan!Request
      BY <2>1, <3>1 DEF Scan!Request
    <3>3. /\ [idle EXCEPT !.pc = "busy", !.op = op, !.rows = rows].todo = << >>
          /\ [idle EXCEPT !.pc = "busy", !.op = op, !.rows = rows].oks = {}
      BY <3>1 DEF Scan!Request
    <3> QED
      BY <3>2, <3>3 DEF idle
<1>2. Scan!Goto(r, q)
  BY DEF Scan!StartImport
<1> HIDE DEF q
<1> QED
  BY <1>1, <1>2, ScanGoto DEF Scan!StartImport, Scan!workerVars

(* What a row of an import leaves to be pushed.                            *)
LEMMA ImportRowEffect ==
  ASSUME Scan!ScanTypeOK, NEW r \in Calls, NEW kind \in Scan!Kinds, NEW o \in Two,
         NEW paid \in BOOLEAN, Scan!ImportRow(r, kind, o, paid)
  PROVE  LET jobs == Scan!RowJobs(kind, o, paid) IN
         /\ scanReq' \in [Calls -> Scan!Request]
         /\ scanReq[r].pc = "busy" /\ scanReq'[r].pc = "busy" /\ scanReq'[r].op = scanReq[r].op
         /\ scanReq[r].todo = << >> /\ scanReq'[r].todo = jobs
         /\ scanReq'[r].oks = IF jobs = << >> THEN scanReq[r].oks ELSE scanReq[r].oks \cup {o}
         /\ \A x \in Calls \ {r} : scanReq'[x] = scanReq[x]
         /\ scanOrders[o] = None
         /\ scanOrders'[o] \in Scan!Order
         /\ scanOrders'[o].kind = kind
         /\ scanOrders'[o].debited = IF paid THEN "customer" ELSE "no"
         /\ \A p \in Two \ {o} : scanOrders'[p] = scanOrders[p]
         /\ scanOrders' \in [Two -> Scan!Order \cup {None}]
         /\ jobs \in {<< >>, <<Scan!PaymentJob(o)>>, <<Scan!LabelJob(o)>>}
         /\ jobs = <<Scan!PaymentJob(o)>> => paid
         /\ kind # "scan" \/ paid => jobs # << >>
         /\ UNCHANGED <<scanQueue, scanTold, scanHand, scanPopped, scanFailed, scanUp, scanFaults>>
<1> DEFINE jobs == Scan!RowJobs(kind, o, paid)
           q == scanReq[r]
           z == [q EXCEPT !.rows = @ - 1, !.exhausted = ~paid, !.todo = jobs,
                          !.oks = IF jobs = << >> THEN @ ELSE @ \cup {o}]
<1>1. q \in Scan!Request /\ q.todo = << >> /\ q.rows > 0 /\ q.pc = "busy" /\ o \notin Scan!Made
      /\ Scan!Goto(r, z)
  BY DEF Scan!ImportRow, Scan!RowsLeft, Scan!ScanTypeOK
<1>2. /\ jobs \in {<< >>, <<Scan!PaymentJob(o)>>, <<Scan!LabelJob(o)>>}
      /\ jobs = <<Scan!PaymentJob(o)>> => paid
      /\ kind # "scan" \/ paid => jobs # << >>
  BY ScanJobs DEF Scan!RowJobs
<1>3. jobs \in Seq(Scan!Job)
  <2> HIDE DEF jobs
  <2>1. << >> \in Seq(Scan!Job)
    OBVIOUS
  <2>2. <<Scan!PaymentJob(o)>> \in Seq(Scan!Job) /\ <<Scan!LabelJob(o)>> \in Seq(Scan!Job)
    BY ScanJobs
  <2> QED
    BY <1>2, <2>1, <2>2
<1> HIDE DEF jobs, q
<1>4. z \in Scan!Request /\ z.pc = q.pc /\ z.op = q.op /\ z.todo = jobs
      /\ z.oks = IF jobs = << >> THEN q.oks ELSE q.oks \cup {o}
  <2> DEFINE oks == IF jobs = << >> THEN q.oks ELSE q.oks \cup {o}
  <2>1. q.rows - 1 \in 0 .. MaxRows /\ oks \in SUBSET Two
    BY <1>1, ScanAssumption DEF Scan!ScanQueueAssumption, Scan!Request
  <2>2. z = [q EXCEPT !.rows = q.rows - 1, !.exhausted = ~paid, !.todo = jobs, !.oks = oks]
    BY <1>1 DEF Scan!Request
  <2> HIDE DEF oks, z
  <2>3. z \in Scan!Request
    BY <1>1, <1>3, <2>1, <2>2 DEF Scan!Request
  <2>4. z.pc = q.pc /\ z.op = q.op /\ z.todo = jobs /\ z.oks = oks
    BY <1>1, <2>2 DEF Scan!Request
  <2> QED
    BY <2>3, <2>4 DEF oks
<1>5. /\ scanReq' \in [Calls -> Scan!Request] /\ scanReq'[r] = z
      /\ \A x \in Calls \ {r} : scanReq'[x] = scanReq[x]
  <2> HIDE DEF z
  <2> QED
    BY <1>1, <1>4, ScanGoto
<1>6. /\ scanOrders[o] = None /\ scanOrders'[o] \in Scan!Order /\ scanOrders'[o].kind = kind
      /\ scanOrders'[o].debited = IF paid THEN "customer" ELSE "no"
      /\ \A p \in Two \ {o} : scanOrders'[p] = scanOrders[p]
      /\ scanOrders' \in [Two -> Scan!Order \cup {None}]
  BY <1>1 DEF Scan!ImportRow, Scan!ScanTypeOK, Scan!Order, Scan!Made
<1> HIDE DEF z
<1>7. UNCHANGED <<scanQueue, scanTold, scanHand, scanPopped, scanFailed, scanUp, scanFaults>>
  BY DEF Scan!ImportRow, Scan!workerVars
<1> QED
  BY <1>1, <1>2, <1>4, <1>5, <1>6, <1>7 DEF jobs, q

(* What a payment of a list of orders leaves to be pushed: a job for each  *)
(* order that was debited by it.                                           *)
LEMMA PayOrdersEffect ==
  ASSUME Scan!ScanTypeOK, NEW r \in Calls, NEW seq \in Scan!OrderLists, NEW due \in Scan!OrderLists,
         Scan!PayOrders(r, seq, due)
  PROVE  LET jobs == scanReq'[r].todo IN
         /\ scanReq' \in [Calls -> Scan!Request]
         /\ scanReq[r].pc = "idle" /\ scanReq'[r].pc = "busy" /\ scanReq'[r].op = "pay"
         /\ \A x \in Calls \ {r} : scanReq'[x] = scanReq[x]
         /\ scanOrders' \in [Two -> Scan!Order \cup {None}]
         /\ \A o \in Two : /\ o \in Scan!Made <=> o \in Scan!Made'
                           /\ o \in Scan!Made => scanOrders'[o].kind = scanOrders[o].kind
                           /\ o \in Scan!Made /\ scanOrders[o].debited = "customer" =>
                                scanOrders'[o].debited = "customer"
                           /\ o \in Scan!Made /\ scanOrders'[o].debited = "customer"
                                /\ scanOrders[o].debited # "customer" /\ scanOrders[o].kind # "empty" =>
                                \E i \in DOMAIN jobs : jobs[i].order = o
         /\ \A i \in DOMAIN jobs : /\ jobs[i].tracking /\ jobs[i].by = "payment"
                                   /\ jobs[i].order \in Scan!Made
                                   /\ scanOrders[jobs[i].order].debited = "no"
                                   /\ scanOrders'[jobs[i].order].debited = "customer"
         /\ \A i, j \in DOMAIN jobs : jobs[i].order = jobs[j].order => i = j
         /\ \A o \in scanReq'[r].oks : \E i \in DOMAIN jobs : jobs[i].order = o
         /\ UNCHANGED <<scanQueue, scanTold, scanHand, scanPopped, scanFailed, scanUp, scanFaults>>
<1> DEFINE jobs == [i \in DOMAIN due |-> Scan!PaymentJob(due[i])]
           z == [Scan!Idle EXCEPT !.pc = "busy", !.todo = jobs, !.oks = Scan!Elems(due)]
           chosen == Scan!Elems(seq)
<1>1. /\ scanReq[r].pc = "idle" /\ Scan!Goto(r, z)
      /\ chosen \subseteq Scan!Made
      /\ Scan!Elems(due) = {o \in chosen : Scan!Dispatched(scanOrders[o])}
      /\ scanOrders' = [o \in Two |-> IF o \in chosen THEN Scan!PayRow(scanOrders[o]) ELSE scanOrders[o]]
      /\ UNCHANGED <<scanQueue, scanTold, scanHand, scanPopped, scanFailed, scanUp, scanFaults>>
  BY DEF Scan!PayOrders, Scan!workerVars, Scan!Live
<1>2. PICK n \in Nat : due \in [1 .. n -> Two]
  BY DEF Scan!OrderLists
<1>3. /\ jobs \in Seq(Scan!Job) /\ DOMAIN jobs = 1 .. n
      /\ \A i \in 1 .. n : jobs[i] = Scan!PaymentJob(due[i])
  <2>1. \A i \in 1 .. n : Scan!PaymentJob(due[i]) \in Scan!Job
    BY <1>2, ScanJobs
  <2> QED
    BY <1>2, <2>1
<1>4. /\ Scan!Elems(due) \subseteq Two
      /\ \A o \in Scan!Elems(due) : \E i \in 1 .. n : due[i] = o
      /\ \A i \in 1 .. n : due[i] \in Scan!Elems(due)
      /\ \A i, j \in 1 .. n : due[i] = due[j] => i = j
  BY <1>2 DEF Scan!Elems, Scan!OrderLists
<1> HIDE DEF jobs
<1>5. z \in Scan!Request /\ z.pc = "busy" /\ z.op = "pay" /\ z.todo = jobs /\ z.oks = Scan!Elems(due)
  <2> DEFINE idle == Scan!Idle
  <2>1. idle \in Scan!Request /\ idle.op = "pay"
    BY ScanIdle
  <2> HIDE DEF idle
  <2>2. [idle EXCEPT !.pc = "busy", !.todo = jobs, !.oks = Scan!Elems(due)] = z
    BY DEF idle
  <2> HIDE DEF z
  <2> QED
    BY <1>3, <1>4, <2>1, <2>2 DEF Scan!Request
<1> HIDE DEF z
<1>6. /\ scanReq' \in [Calls -> Scan!Request] /\ scanReq'[r] = z
      /\ \A x \in Calls \ {r} : scanReq'[x] = scanReq[x]
  BY <1>1, <1>5, ScanGoto
<1>7. ASSUME NEW o \in Two
      PROVE  /\ scanOrders'[o] \in Scan!Order \cup {None}
             /\ o \in Scan!Made => scanOrders[o] \in Scan!Order /\ scanOrders'[o] \in Scan!Order
             /\ o \in Scan!Made => scanOrders'[o].kind = scanOrders[o].kind
             /\ o \notin chosen => scanOrders'[o] = scanOrders[o]
             /\ o \in chosen => scanOrders'[o].debited =
                                  IF scanOrders[o].debited = "no" THEN "customer" ELSE scanOrders[o].debited
  <2>1. o \in Scan!Made => scanOrders[o] \in Scan!Order
    BY DEF Scan!Made, Scan!ScanTypeOK
  <2>2. CASE o \in chosen
    <3>1. o \in Scan!Made /\ scanOrders'[o] = Scan!PayRow(scanOrders[o])
      BY <1>1, <2>2
    <3> QED
      BY <2>1, <2>2, <3>1 DEF Scan!PayRow, Scan!Order
  <2>3. CASE o \notin chosen
    <3>1. scanOrders'[o] = scanOrders[o]
      BY <1>1, <2>3
    <3> QED
      BY <2>1, <2>3, <3>1 DEF Scan!ScanTypeOK
  <2> QED
    BY <2>2, <2>3
<1>8. DOMAIN scanOrders' = Two
  BY <1>1
<1> HIDE DEF chosen
<1>9. scanOrders' \in [Two -> Scan!Order \cup {None}]
  <2>1. scanOrders' = [o \in Two |-> scanOrders'[o]]
    BY <1>1
  <2> QED
    BY <1>7, <2>1
<1>10. ASSUME NEW o \in Two
       PROVE  o \in Scan!Made <=> o \in Scan!Made'
  BY <1>1, <1>7, ScanAssumption DEF Scan!Made, Scan!ScanQueueAssumption
<1>11. ASSUME NEW o \in Scan!Made, scanOrders'[o].debited = "customer",
              scanOrders[o].debited # "customer", scanOrders[o].kind # "empty"
       PROVE  \E i \in DOMAIN jobs : jobs[i].order = o
  <2>1. o \in Two
    BY DEF Scan!Made
  <2>2. o \in chosen /\ scanOrders[o].debited = "no"
    BY <1>7, <1>11, <2>1
  <2>3. o \in Scan!Elems(due)
    BY <1>1, <1>11, <2>2 DEF Scan!Dispatched
  <2> QED
    BY <1>2, <1>3, <1>4, <2>3, ScanJobs
<1>12. ASSUME NEW i \in 1 .. n
       PROVE  /\ jobs[i].tracking /\ jobs[i].by = "payment" /\ jobs[i].order = due[i]
              /\ due[i] \in Scan!Made /\ scanOrders[due[i]].debited = "no"
              /\ scanOrders'[due[i]].debited = "customer"
  <2>1. due[i] \in Two /\ due[i] \in chosen /\ Scan!Dispatched(scanOrders[due[i]])
    BY <1>1, <1>2, <1>4
  <2> QED
    BY <1>1, <1>3, <1>7, <2>1, ScanJobs DEF Scan!Dispatched
<1>13. \A o \in Scan!Elems(due) : \E i \in DOMAIN jobs : jobs[i].order = o
  BY <1>2, <1>3, <1>4, ScanJobs
<1> QED
  <2>1. scanReq'[r].todo = jobs /\ scanReq'[r].oks = Scan!Elems(due)
    BY <1>5, <1>6
  <2>2. \A i, j \in DOMAIN jobs : jobs[i].order = jobs[j].order => i = j
    BY <1>3, <1>4, <1>12
  <2>3. \A o \in Two : /\ o \in Scan!Made => scanOrders'[o].kind = scanOrders[o].kind
                       /\ o \in Scan!Made /\ scanOrders[o].debited = "customer" =>
                                scanOrders'[o].debited = "customer"
    BY <1>7
  <2> QED
    <3>1. \A i \in DOMAIN jobs : /\ jobs[i].tracking /\ jobs[i].by = "payment"
                                 /\ jobs[i].order \in Scan!Made
                                 /\ scanOrders[jobs[i].order].debited = "no"
                                 /\ scanOrders'[jobs[i].order].debited = "customer"
      BY <1>3, <1>12
    <3>2. scanReq[r].pc = "idle" /\ scanReq'[r].pc = "busy" /\ scanReq'[r].op = "pay"
      BY <1>1, <1>5, <1>6
    <3>3. \A o \in Two : o \in Scan!Made /\ scanOrders'[o].debited = "customer"
                                /\ scanOrders[o].debited # "customer" /\ scanOrders[o].kind # "empty" =>
                                \E i \in DOMAIN jobs : jobs[i].order = o
      BY <1>11
    <3>4. \A o \in Two : o \in Scan!Made <=> o \in Scan!Made'
      BY <1>10
    <3>5. UNCHANGED <<scanQueue, scanTold, scanHand, scanPopped, scanFailed, scanUp, scanFaults>>
      BY <1>1
    <3> QED
      BY <1>6, <1>9, <1>13, <2>1, <2>2, <2>3, <3>1, <3>2, <3>3, <3>4, <3>5

-----------------------------------------------------------------------------
(* The invariant of the scan part.                                         *)

PushedJobs(o, by) == scanPopped[<<o, by>>] + Cardinality(JobPlaces(scanQueue, o, by))

Owes(r, o, by) ==
  \E i \in DOMAIN scanReq[r].todo : scanReq[r].todo[i].order = o /\ scanReq[r].todo[i].by = by

\* Every job can be handled.
JobsValid ==
  /\ scanFailed = {}
  /\ scanHand # None => scanHand.tracking
  /\ \A i \in DOMAIN scanQueue : scanQueue[i].tracking
  /\ \A r \in Calls : \A i \in DOMAIN scanReq[r].todo : scanReq[r].todo[i].tracking

\* A job is owed once, by one request, and not after it was pushed.
JobsOnce ==
  /\ \A r \in Calls : \A i, j \in DOMAIN scanReq[r].todo :
       /\ scanReq[r].todo[i].order = scanReq[r].todo[j].order
       /\ scanReq[r].todo[i].by = scanReq[r].todo[j].by
       => i = j
  /\ \A r, s \in Calls, o \in Two, by \in Scan!Causes : Owes(r, o, by) /\ Owes(s, o, by) => r = s
  /\ \A r \in Calls, o \in Two, by \in Scan!Causes : Owes(r, o, by) => PushedJobs(o, by) = 0
  /\ \A o \in Two, by \in Scan!Causes : PushedJobs(o, by) <= 1

\* Behind a job is a row that was committed, and the debit that paid it.
JobsBacked ==
  \A o \in Two, by \in Scan!Causes :
    PushedJobs(o, by) > 0 \/ (\E r \in Calls : Owes(r, o, by)) =>
      o \in Scan!Made /\ (by = "payment" => scanOrders[o].debited = "customer")

\* Without a fault every order that is due a job has one, or is owed one.
JobsLeft ==
  scanFaults = 0 => \A o \in Scan!Made :
    scanOrders[o].kind # "scan" \/ scanOrders[o].debited = "customer" =>
      \E by \in Scan!Causes : PushedJobs(o, by) > 0 \/ \E r \in Calls : Owes(r, o, by)

\* What a reply will vouch for has been pushed, or is still to be.
RepliesBacked ==
  /\ \A r \in Calls : scanReq[r].pc # "busy" => scanReq[r].todo = << >> /\ scanReq[r].oks = {}
  /\ \A r \in Calls : scanReq[r].op = "scan" => Len(scanReq[r].todo) <= 1
  /\ \A r \in Calls : \A o \in scanReq[r].oks :
       \E by \in Scan!Causes : PushedJobs(o, by) > 0 \/ Owes(r, o, by)
  /\ \A o \in scanTold : \E by \in Scan!Causes : PushedJobs(o, by) > 0

ScanInv == Scan!ScanTypeOK /\ JobsValid /\ JobsOnce /\ JobsBacked /\ JobsLeft /\ RepliesBacked

(* The count of pushed jobs is a number.                                   *)
LEMMA PushedNat ==
  ASSUME Scan!ScanTypeOK, NEW o \in Two, NEW by \in Scan!Causes
  PROVE  PushedJobs(o, by) \in Nat
<1>1. scanPopped[<<o, by>>] \in Nat
  BY DEF Scan!ScanTypeOK
<1>2. Cardinality(JobPlaces(scanQueue, o, by)) \in Nat
  BY JobPlacesFinite DEF Scan!ScanTypeOK
<1> QED
  BY <1>1, <1>2 DEF PushedJobs

(* A push moves the first job that is left to the end of the list.         *)
LEMMA PushEffect ==
  ASSUME Scan!ScanTypeOK, NEW r \in Calls, Scan!Push(r)
  PROVE  LET list == scanReq[r].todo
             j == Head(list)
             rest == Tail(list)
         IN
         /\ j \in Scan!Job /\ Len(list) \in Nat \ {0} /\ DOMAIN list = 1 .. Len(list) /\ list[1] = j
         /\ rest \in Seq(Scan!Job) /\ DOMAIN rest = 1 .. Len(list) - 1 /\ Len(rest) = Len(list) - 1
         /\ \A i \in 1 .. Len(list) - 1 : rest[i] = list[i + 1]
         /\ scanReq' \in [Calls -> Scan!Request]
         /\ scanReq'[r].todo = rest
         /\ scanReq'[r].pc = scanReq[r].pc /\ scanReq'[r].op = scanReq[r].op
         /\ scanReq'[r].oks = scanReq[r].oks
         /\ \A x \in Calls \ {r} : scanReq'[x] = scanReq[x]
         /\ scanQueue' = Append(scanQueue, j) /\ scanQueue' \in Seq(Scan!Job)
         /\ UNCHANGED <<scanOrders, scanTold, scanHand, scanPopped, scanFailed, scanUp, scanFaults>>
<1> DEFINE q == scanReq[r]
           list == q.todo
           rest == Tail(list)
           z == [q EXCEPT !.todo = rest]
<1>1. q \in Scan!Request /\ list \in Seq(Scan!Job) /\ list # << >>
  BY DEF Scan!Push, Scan!ScanTypeOK, Scan!Request
<1>2. /\ Head(list) \in Scan!Job /\ Len(list) \in Nat \ {0} /\ DOMAIN list = 1 .. Len(list)
      /\ list[1] = Head(list)
      /\ rest \in Seq(Scan!Job) /\ DOMAIN rest = 1 .. Len(list) - 1 /\ Len(rest) = Len(list) - 1
      /\ \A i \in 1 .. Len(list) - 1 : rest[i] = list[i + 1]
  <2> HIDE DEF q
  <2> QED
    BY <1>1, HeadTailProperties, LenProperties, EmptySeq
<1>3. /\ Scan!Goto(r, [q EXCEPT !.todo = Tail(@)]) /\ scanQueue' = Append(scanQueue, Head(list))
      /\ UNCHANGED <<scanOrders, scanTold, scanHand, scanPopped, scanFailed, scanUp, scanFaults>>
  BY DEF Scan!Push, Scan!workerVars
<1>4. [q EXCEPT !.todo = Tail(@)] = z
  BY <1>1 DEF Scan!Request
<1>5. z \in Scan!Request /\ z.todo = rest /\ z.pc = q.pc /\ z.op = q.op /\ z.oks = q.oks
  <2> HIDE DEF rest, q
  <2> QED
    BY <1>1, <1>2 DEF Scan!Request
<1>6. Scan!Goto(r, z)
  BY <1>3, <1>4
<1> HIDE DEF z
<1>7. /\ scanReq' \in [Calls -> Scan!Request] /\ scanReq'[r] = z
      /\ \A x \in Calls \ {r} : scanReq'[x] = scanReq[x]
  BY <1>5, <1>6, ScanGoto
<1>8. scanQueue' \in Seq(Scan!Job)
  BY <1>2, <1>3, AppendProperties DEF Scan!ScanTypeOK
<1> QED
  BY <1>2, <1>3, <1>5, <1>7, <1>8

(* It adds one to the count of its job, and nothing to any other.          *)
LEMMA PushCounts ==
  ASSUME Scan!ScanTypeOK, NEW r \in Calls, Scan!Push(r), NEW o \in Two, NEW by \in Scan!Causes
  PROVE  LET j == Head(scanReq[r].todo) IN
         /\ PushedJobs(o, by)' = PushedJobs(o, by) + IF j.order = o /\ j.by = by THEN 1 ELSE 0
         /\ Owes(r, o, by) <=> Owes(r, o, by)' \/ (j.order = o /\ j.by = by)
         /\ \A s \in Calls \ {r} : Owes(s, o, by)' <=> Owes(s, o, by)
<1> DEFINE list == scanReq[r].todo
           j == Head(list)
           rest == Tail(list)
           n == scanPopped[<<o, by>>]
           c == Cardinality(JobPlaces(scanQueue, o, by))
           d == IF j.order = o /\ j.by = by THEN 1 ELSE 0
<1>1. /\ j \in Scan!Job /\ scanQueue' = Append(scanQueue, j) /\ scanPopped' = scanPopped
      /\ Len(list) \in Nat \ {0} /\ DOMAIN list = 1 .. Len(list) /\ list[1] = j
      /\ DOMAIN rest = 1 .. Len(list) - 1
      /\ \A i \in 1 .. Len(list) - 1 : rest[i] = list[i + 1]
      /\ scanReq'[r].todo = rest
      /\ \A x \in Calls \ {r} : scanReq'[x] = scanReq[x]
  BY PushEffect
<1>2. n \in Nat /\ c \in Nat /\ scanQueue \in Seq(Scan!Job)
  BY JobPlacesFinite DEF Scan!ScanTypeOK
<1> HIDE DEF j
<1>3. Cardinality(JobPlaces(Append(scanQueue, j), o, by)) = c + d
  BY <1>1, <1>2, JobAdded
<1>4. PushedJobs(o, by)' = n + (c + d)
  BY <1>1, <1>3 DEF PushedJobs
<1>5. PushedJobs(o, by)' = PushedJobs(o, by) + d
  <2>1. d \in {0, 1} /\ PushedJobs(o, by) = n + c
    BY DEF PushedJobs
  <2> HIDE DEF n, c, d
  <2> QED
    BY <1>2, <1>4, <2>1
<1>6. \A s \in Calls \ {r} : Owes(s, o, by)' <=> Owes(s, o, by)
  BY <1>1 DEF Owes
<1> HIDE DEF rest
<1>7. Owes(r, o, by)' <=> \E i \in 1 .. Len(list) - 1 : rest[i].order = o /\ rest[i].by = by
  BY <1>1 DEF Owes
<1>8. Owes(r, o, by) <=> \E i \in 1 .. Len(list) : list[i].order = o /\ list[i].by = by
  BY <1>1 DEF Owes
<1> HIDE DEF list
<1>9. ASSUME NEW i \in 1 .. Len(list), list[i].order = o, list[i].by = by
      PROVE  (\E k \in 1 .. Len(list) - 1 : rest[k].order = o /\ rest[k].by = by) \/ (j.order = o /\ j.by = by)
  <2>1. CASE i = 1
    BY <1>1, <1>9, <2>1
  <2>2. CASE i # 1
    <3>1. i - 1 \in 1 .. Len(list) - 1 /\ i - 1 + 1 = i
      BY <1>1, <2>2
    <3>2. rest[i - 1] = list[i]
      BY <1>1, <3>1
    <3> QED
      BY <1>9, <3>1, <3>2
  <2> QED
    BY <2>1, <2>2
<1>10. ASSUME NEW k \in 1 .. Len(list) - 1, rest[k].order = o, rest[k].by = by
       PROVE  \E i \in 1 .. Len(list) : list[i].order = o /\ list[i].by = by
  <2>1. k + 1 \in 1 .. Len(list)
    BY <1>1
  <2> QED
    BY <1>1, <1>10, <2>1
<1>11. 1 \in 1 .. Len(list)
  BY <1>1
<1> QED
  BY <1>1, <1>5, <1>6, <1>7, <1>8, <1>9, <1>10, <1>11 DEF j, list

(* The worker takes a job from the front; the count stays what it was.     *)
LEMMA DequeueEffect ==
  ASSUME Scan!ScanTypeOK, Scan!Dequeue
  PROVE  /\ scanHand' = Head(scanQueue) /\ scanHand' \in Scan!Job /\ scanQueue' = Tail(scanQueue)
         /\ scanQueue' \in Seq(Scan!Job) /\ 1 \in DOMAIN scanQueue /\ scanHand' = scanQueue[1]
         /\ \A i \in DOMAIN scanQueue' : i + 1 \in DOMAIN scanQueue /\ scanQueue'[i] = scanQueue[i + 1]
         /\ scanPopped' \in [Two \X Scan!Causes -> Nat]
         /\ \A o \in Two, by \in Scan!Causes : PushedJobs(o, by)' = PushedJobs(o, by)
         /\ UNCHANGED <<scanOrders, scanReq, scanTold, scanFailed, scanUp, scanFaults>>
<1> DEFINE j == Head(scanQueue)
<1>1. /\ scanQueue # << >> /\ scanHand' = j /\ scanQueue' = Tail(scanQueue)
      /\ scanPopped' = [scanPopped EXCEPT ![<<scanHand'.order, scanHand'.by>>] = @ + 1]
      /\ UNCHANGED <<scanOrders, scanReq, scanTold, scanFailed, scanUp, scanFaults>>
  BY DEF Scan!Dequeue, Scan!requestVars
<1>2. scanQueue \in Seq(Scan!Job) /\ scanPopped \in [Two \X Scan!Causes -> Nat]
  BY DEF Scan!ScanTypeOK
<1>3. /\ j \in Scan!Job /\ Tail(scanQueue) \in Seq(Scan!Job) /\ Len(scanQueue) \in Nat \ {0}
      /\ DOMAIN scanQueue = 1 .. Len(scanQueue) /\ j = scanQueue[1]
      /\ DOMAIN Tail(scanQueue) = 1 .. Len(scanQueue) - 1
      /\ \A i \in 1 .. Len(scanQueue) - 1 : Tail(scanQueue)[i] = scanQueue[i + 1]
  BY <1>1, <1>2, HeadTailProperties, LenProperties, EmptySeq
<1> HIDE DEF j
<1>4. j.order \in Two /\ j.by \in Scan!Causes
  BY <1>3 DEF Scan!Job
<1>5. scanPopped' \in [Two \X Scan!Causes -> Nat]
  BY <1>1, <1>2, <1>4
<1>6. ASSUME NEW o \in Two, NEW by \in Scan!Causes
      PROVE  PushedJobs(o, by)' = PushedJobs(o, by)
  <2> DEFINE d == IF j.order = o /\ j.by = by THEN 1 ELSE 0
             n == scanPopped[<<o, by>>]
             c == Cardinality(JobPlaces(Tail(scanQueue), o, by))
  <2>1. scanPopped'[<<o, by>>] = n + d
    <3>1. CASE j.order = o /\ j.by = by
      BY <1>1, <1>2, <3>1
    <3>2. CASE ~(j.order = o /\ j.by = by)
      <4>1. <<o, by>> # <<j.order, j.by>>
        BY <3>2
      <4>2. scanPopped'[<<o, by>>] = n /\ n \in Nat
        BY <1>1, <1>2, <4>1
      <4> QED
        BY <3>2, <4>2
    <3> QED
      BY <3>1, <3>2
  <2>2. Cardinality(JobPlaces(scanQueue, o, by)) = c + d
    BY <1>1, <1>2, JobTaken DEF j
  <2>3. n \in Nat /\ c \in Nat /\ d \in {0, 1}
    BY <1>2, <1>3, JobPlacesFinite
  <2>4. PushedJobs(o, by)' = (n + d) + c /\ PushedJobs(o, by) = n + (c + d)
    BY <1>1, <2>1, <2>2 DEF PushedJobs
  <2> HIDE DEF n, c, d
  <2> QED
    BY <2>3, <2>4
<1>7. \A i \in DOMAIN scanQueue' : i + 1 \in DOMAIN scanQueue /\ scanQueue'[i] = scanQueue[i + 1]
  BY <1>1, <1>3
<1> QED
  BY <1>1, <1>3, <1>5, <1>6, <1>7 DEF j

-----------------------------------------------------------------------------
(* Where no request gets a new job and none is pushed, no order that has   *)
(* one becomes unpaid for.                                                 *)
LEMMA JobsStay ==
  ASSUME ScanInv,
         \A r \in Calls : scanReq'[r].todo = scanReq[r].todo \/ scanReq'[r].todo = << >>,
         \A o \in Two, by \in Scan!Causes : PushedJobs(o, by)' = PushedJobs(o, by),
         \A o \in Scan!Made : /\ o \in Scan!Made'
                              /\ scanOrders[o].debited = "customer" => scanOrders'[o].debited = "customer"
  PROVE  JobsOnce' /\ JobsBacked'
<1>1. \A r \in Calls : \A o, by : Owes(r, o, by)' => Owes(r, o, by)
  <2> TAKE r \in Calls
  <2> TAKE o, by
  <2>1. CASE scanReq'[r].todo = scanReq[r].todo
    BY <2>1 DEF Owes
  <2>2. CASE scanReq'[r].todo = << >>
    BY <2>2 DEF Owes
  <2> QED
    BY <2>1, <2>2
<1>2. ASSUME NEW r \in Calls, NEW i \in DOMAIN scanReq'[r].todo
      PROVE  scanReq'[r].todo = scanReq[r].todo
  BY <1>2
<1>3. JobsOnce'
  BY <1>1, <1>2 DEF ScanInv, JobsOnce
<1>4. JobsBacked'
  BY <1>1 DEF ScanInv, JobsBacked
<1> QED
  BY <1>3, <1>4

(* And where they all stay, none is lost.                                  *)
LEMMA JobsNotLost ==
  ASSUME ScanInv,
         \A r \in Calls : scanReq'[r].todo = scanReq[r].todo,
         \A o \in Two, by \in Scan!Causes : PushedJobs(o, by)' = PushedJobs(o, by),
         scanFaults' = scanFaults,
         \A o \in Scan!Made' : /\ o \in Scan!Made /\ scanOrders'[o].kind = scanOrders[o].kind
                               /\ scanOrders'[o].debited = "customer" => scanOrders[o].debited = "customer"
  PROVE  JobsLeft'
<1>1. \A r \in Calls : \A o, by : Owes(r, o, by)' <=> Owes(r, o, by)
  BY DEF Owes
<1>2. \A o \in Scan!Made' : o \in Two
  BY DEF Scan!Made
<1> QED
  BY <1>1, <1>2 DEF ScanInv, JobsLeft

(* Counts depend on the list and on what was popped.                       *)
LEMMA CountsStay ==
  ASSUME scanQueue' = scanQueue, scanPopped' = scanPopped
  PROVE  \A o, by : PushedJobs(o, by)' = PushedJobs(o, by)
  BY DEF PushedJobs

(* A request that is over has nothing left.                                *)
LEMMA RequestOver ==
  LET z == [Scan!Idle EXCEPT !.pc = "done"] IN
  z \in Scan!Request /\ z.todo = << >> /\ z.oks = {} /\ z.pc = "done" /\ z.op = "pay"
<1> DEFINE idle == Scan!Idle
<1>1. idle \in Scan!Request /\ idle.todo = << >> /\ idle.oks = {} /\ idle.op = "pay"
  BY ScanIdle
<1> HIDE DEF idle
<1>2. LET z == [idle EXCEPT !.pc = "done"] IN
      z \in Scan!Request /\ z.todo = << >> /\ z.oks = {} /\ z.pc = "done" /\ z.op = "pay"
  BY <1>1 DEF Scan!Request
<1> QED
  BY <1>2 DEF idle

(* It begins with nothing owed.                                            *)
LEMMA StartImportKeeps ==
  ASSUME ScanInv, NEW r \in Calls, NEW op \in {"scan", "preview"},
         NEW rows \in 1 .. MaxRows, Scan!StartImport(r, op, rows)
  PROVE  ScanInv'
<1>1. /\ scanReq' \in [Calls -> Scan!Request] /\ scanReq[r].pc = "idle"
      /\ scanReq'[r].todo = << >> /\ scanReq'[r].oks = {}
      /\ \A x \in Calls \ {r} : scanReq'[x] = scanReq[x]
      /\ UNCHANGED <<scanOrders, scanQueue, scanTold, scanHand, scanPopped, scanFailed, scanUp, scanFaults>>
  BY StartImportEffect DEF ScanInv
<1>2. Scan!ScanTypeOK'
  BY <1>1 DEF ScanInv, Scan!ScanTypeOK
<1>3. scanReq[r].todo = << >> /\ scanReq[r].oks = {}
  BY <1>1 DEF ScanInv, RepliesBacked
<1>4. \A x \in Calls : scanReq'[x].todo = scanReq[x].todo /\ scanReq'[x].oks = scanReq[x].oks
  BY <1>1, <1>3
<1>5. \A o, by : PushedJobs(o, by)' = PushedJobs(o, by)
  BY <1>1, CountsStay
<1>6. Scan!Made' = Scan!Made
  BY <1>1 DEF Scan!Made
<1>7. JobsValid'
  BY <1>1, <1>4 DEF ScanInv, JobsValid
<1>8. JobsOnce' /\ JobsBacked'
  BY <1>1, <1>4, <1>5, <1>6, JobsStay
<1>9. JobsLeft'
  BY <1>1, <1>4, <1>5, <1>6, JobsNotLost
<1>10. RepliesBacked'
  <2>1. \A x \in Calls : \A o, by : Owes(x, o, by)' <=> Owes(x, o, by)
    BY <1>4 DEF Owes
  <2>2. \A x \in Calls : scanReq'[x].pc # "busy" => scanReq'[x].todo = << >> /\ scanReq'[x].oks = {}
    BY <1>1, <1>4 DEF ScanInv, RepliesBacked
  <2>3. \A x \in Calls : scanReq'[x].op = "scan" => Len(scanReq'[x].todo) <= 1
    <3>1. Len(<< >>) = 0
      OBVIOUS
    <3> QED
      BY <1>1, <3>1 DEF ScanInv, RepliesBacked
  <2> QED
    BY <1>1, <1>4, <1>5, <2>1, <2>2, <2>3 DEF ScanInv, RepliesBacked
<1> QED
  BY <1>2, <1>7, <1>8, <1>9, <1>10 DEF ScanInv

(* The administrators' changes of payments and the deletions leave the     *)
(* jobs alone, and no customer's debit appears or goes.                    *)
LEMMA AdminKeeps ==
  ASSUME ScanInv, NEW o \in Two,
         Scan!StartProcessing(o) \/ Scan!DeleteOrder(o)
           \/ \E paid \in BOOLEAN : Scan!UpdatePaymentStatus(o, paid)
  PROVE  ScanInv'
<1>1. /\ scanOrders[o] \in Scan!Order /\ scanOrders'[o] \in Scan!Order
      /\ scanOrders'[o].kind = scanOrders[o].kind
      /\ (scanOrders'[o].debited = "customer") <=> (scanOrders[o].debited = "customer")
      /\ \A p \in Two \ {o} : scanOrders'[p] = scanOrders[p]
      /\ scanOrders' \in [Two -> Scan!Order \cup {None}]
      /\ UNCHANGED <<scanQueue, scanReq, scanTold, scanHand, scanPopped, scanFailed, scanUp, scanFaults>>
  <2>1. CASE Scan!StartProcessing(o)
    <3>1. scanOrders[o] \in Scan!Order
      BY <2>1 DEF Scan!StartProcessing, Scan!Live, Scan!Made, ScanInv, Scan!ScanTypeOK
    <3> DEFINE was == scanOrders[o]
               row == [was EXCEPT !.paid = TRUE,
                         !.debited = IF was.paid \/ was.debited # "no" THEN @ ELSE "admin"]
    <3>2. scanOrders' = [scanOrders EXCEPT ![o] = row]
      BY <2>1 DEF Scan!StartProcessing
    <3>3. row \in Scan!Order /\ row.kind = scanOrders[o].kind
          /\ ((row.debited = "customer") <=> (scanOrders[o].debited = "customer"))
      BY <3>1 DEF Scan!Order
    <3> HIDE DEF row
    <3>4. UNCHANGED <<scanQueue, scanReq, scanTold, scanHand, scanPopped, scanFailed, scanUp, scanFaults>>
      BY <2>1 DEF Scan!StartProcessing, Scan!workerVars
    <3> QED
      BY <3>1, <3>2, <3>3, <3>4 DEF ScanInv, Scan!ScanTypeOK
  <2>2. CASE \E paid \in BOOLEAN : Scan!UpdatePaymentStatus(o, paid)
    <3>. PICK paid \in BOOLEAN : Scan!UpdatePaymentStatus(o, paid)
      BY <2>2
    <3>1. scanOrders[o] \in Scan!Order
      BY DEF Scan!UpdatePaymentStatus, Scan!Live, Scan!Made, ScanInv, Scan!ScanTypeOK
    <3> DEFINE row == [scanOrders[o] EXCEPT !.paid = paid]
    <3>2. scanOrders' = [scanOrders EXCEPT ![o] = row]
      BY <3>1 DEF Scan!UpdatePaymentStatus, Scan!Order, ScanInv, Scan!ScanTypeOK
    <3>3. row \in Scan!Order /\ row.kind = scanOrders[o].kind
          /\ ((row.debited = "customer") <=> (scanOrders[o].debited = "customer"))
      BY <3>1 DEF Scan!Order
    <3> HIDE DEF row
    <3>4. UNCHANGED <<scanQueue, scanReq, scanTold, scanHand, scanPopped, scanFailed, scanUp, scanFaults>>
      BY DEF Scan!UpdatePaymentStatus, Scan!workerVars
    <3> QED
      BY <3>1, <3>2, <3>3, <3>4 DEF ScanInv, Scan!ScanTypeOK
  <2>3. CASE Scan!DeleteOrder(o)
    <3>1. scanOrders[o] \in Scan!Order
      BY <2>3 DEF Scan!DeleteOrder, Scan!Live, Scan!Made, ScanInv, Scan!ScanTypeOK
    <3> DEFINE row == [scanOrders[o] EXCEPT !.deleted = TRUE, !.paid = FALSE]
    <3>2. scanOrders' = [scanOrders EXCEPT ![o] = row]
      BY <2>3, <3>1 DEF Scan!DeleteOrder, Scan!Order, ScanInv, Scan!ScanTypeOK
    <3>3. row \in Scan!Order /\ row.kind = scanOrders[o].kind
          /\ ((row.debited = "customer") <=> (scanOrders[o].debited = "customer"))
      BY <3>1 DEF Scan!Order
    <3> HIDE DEF row
    <3>4. UNCHANGED <<scanQueue, scanReq, scanTold, scanHand, scanPopped, scanFailed, scanUp, scanFaults>>
      BY <2>3 DEF Scan!DeleteOrder, Scan!workerVars
    <3> QED
      BY <3>1, <3>2, <3>3, <3>4 DEF ScanInv, Scan!ScanTypeOK
  <2> QED
    BY <2>1, <2>2, <2>3
<1>2. Scan!ScanTypeOK'
  BY <1>1 DEF ScanInv, Scan!ScanTypeOK
<1>3. \A p \in Two : p \in Scan!Made' <=> p \in Scan!Made
  BY <1>1, ScanAssumption DEF Scan!Made, Scan!ScanQueueAssumption
<1>4. \A p \in Two : /\ scanOrders'[p].kind = scanOrders[p].kind
                     /\ (scanOrders'[p].debited = "customer") <=> (scanOrders[p].debited = "customer")
  BY <1>1
<1>5. \A p, by : PushedJobs(p, by)' = PushedJobs(p, by)
  BY <1>1, CountsStay
<1>6. Scan!Made \subseteq Two /\ Scan!Made' \subseteq Two
  BY DEF Scan!Made
<1>7. JobsValid'
  BY <1>1 DEF ScanInv, JobsValid
<1>8. JobsOnce' /\ JobsBacked'
  BY <1>1, <1>3, <1>4, <1>5, <1>6, JobsStay
<1>9. JobsLeft'
  BY <1>1, <1>3, <1>4, <1>5, <1>6, JobsNotLost
<1>10. RepliesBacked'
  <2>1. \A x, p, by : Owes(x, p, by)' <=> Owes(x, p, by)
    BY <1>1 DEF Owes
  <2> QED
    BY <1>1, <1>5, <2>1 DEF ScanInv, RepliesBacked
<1> QED
  BY <1>2, <1>7, <1>8, <1>9, <1>10 DEF ScanInv

(* The worker takes and handles jobs; the requests and rows stay.          *)
LEMMA WorkerKeeps ==
  ASSUME ScanInv, Scan!Dequeue \/ Scan!HandleJob \/ Scan!Restart
  PROVE  ScanInv'
<1>1. /\ UNCHANGED <<scanOrders, scanReq, scanTold, scanFaults>>
      /\ \A o \in Two, by \in Scan!Causes : PushedJobs(o, by)' = PushedJobs(o, by)
      /\ Scan!ScanTypeOK' /\ JobsValid'
  <2>1. CASE Scan!Dequeue
    <3>1. /\ scanHand' = Head(scanQueue) /\ scanHand' \in Scan!Job /\ scanQueue' = Tail(scanQueue)
          /\ scanQueue' \in Seq(Scan!Job) /\ 1 \in DOMAIN scanQueue /\ scanHand' = scanQueue[1]
          /\ \A i \in DOMAIN scanQueue' : i + 1 \in DOMAIN scanQueue /\ scanQueue'[i] = scanQueue[i + 1]
          /\ scanPopped' \in [Two \X Scan!Causes -> Nat]
          /\ \A o \in Two, by \in Scan!Causes : PushedJobs(o, by)' = PushedJobs(o, by)
          /\ UNCHANGED <<scanOrders, scanReq, scanTold, scanFailed, scanUp, scanFaults>>
      BY <2>1, DequeueEffect DEF ScanInv
    <3>2. Scan!ScanTypeOK'
      BY <3>1 DEF ScanInv, Scan!ScanTypeOK
    <3>3. JobsValid'
      BY <3>1 DEF ScanInv, JobsValid
    <3> QED
      BY <3>1, <3>2, <3>3
  <2>2. CASE Scan!HandleJob
    <3>1. /\ scanHand # None /\ scanHand' = None
          /\ scanFailed' = IF Scan!InvalidJob(scanHand) THEN scanFailed \cup {scanHand.order} ELSE scanFailed
          /\ UNCHANGED <<scanOrders, scanReq, scanTold, scanFaults, scanQueue, scanPopped, scanUp>>
      BY <2>2 DEF Scan!HandleJob, Scan!requestVars
    <3>2. scanFailed' = scanFailed
      BY <3>1 DEF Scan!InvalidJob, ScanInv, JobsValid
    <3>3. Scan!ScanTypeOK' /\ JobsValid'
      BY <3>1, <3>2 DEF ScanInv, Scan!ScanTypeOK, JobsValid
    <3> QED
      BY <3>1, <3>3, CountsStay
  <2>3. CASE Scan!Restart
    <3>1. /\ UNCHANGED <<scanOrders, scanReq, scanTold, scanFaults, scanQueue, scanPopped, scanHand, scanFailed>>
          /\ scanUp' = TRUE
      BY <2>3 DEF Scan!Restart, Scan!requestVars
    <3>2. Scan!ScanTypeOK' /\ JobsValid'
      BY <3>1 DEF ScanInv, Scan!ScanTypeOK, JobsValid
    <3> QED
      BY <3>1, <3>2, CountsStay
  <2> QED
    BY <2>1, <2>2, <2>3
<1>2. Scan!Made' = Scan!Made
  BY <1>1 DEF Scan!Made
<1>3. JobsOnce' /\ JobsBacked'
  BY <1>1, <1>2, JobsStay
<1>4. JobsLeft'
  BY <1>1, <1>2, JobsNotLost
<1>5. RepliesBacked'
  <2>1. \A x, p, by : Owes(x, p, by)' <=> Owes(x, p, by)
    BY <1>1 DEF Owes
  <2>2. \A x \in Calls : scanReq[x].oks \subseteq Two
    BY DEF ScanInv, Scan!ScanTypeOK, Scan!Request
  <2>3. scanTold \subseteq Two
    BY DEF ScanInv, Scan!ScanTypeOK
  <2> QED
    BY <1>1, <2>1, <2>2, <2>3 DEF ScanInv, RepliesBacked
<1> QED
  BY <1>1, <1>3, <1>4, <1>5 DEF ScanInv

(* A request that had nothing left gets jobs that nobody has, for rows     *)
(* that are committed.                                                     *)
LEMMA JobsGiven ==
  ASSUME ScanInv, NEW r \in Calls, scanReq[r].todo = << >>,
         \A x \in Calls \ {r} : scanReq'[x] = scanReq[x],
         \A o \in Two, by \in Scan!Causes : PushedJobs(o, by)' = PushedJobs(o, by),
         \A i \in DOMAIN scanReq'[r].todo :
           LET j == scanReq'[r].todo[i] IN
           /\ j.order \in Scan!Made' /\ (j.by = "payment" => scanOrders'[j.order].debited = "customer")
           /\ PushedJobs(j.order, j.by) = 0
           /\ \A x \in Calls : ~Owes(x, j.order, j.by),
         \A i, j \in DOMAIN scanReq'[r].todo : scanReq'[r].todo[i].order = scanReq'[r].todo[j].order => i = j,
         \A o \in Scan!Made : /\ o \in Scan!Made'
                              /\ scanOrders[o].debited = "customer" => scanOrders'[o].debited = "customer"
  PROVE  /\ JobsOnce' /\ JobsBacked'
         /\ \A x \in Calls : \A o, by : Owes(x, o, by) => Owes(x, o, by)'
<1>1. \A x \in Calls \ {r} : \A o, by : Owes(x, o, by)' <=> Owes(x, o, by)
  BY DEF Owes
<1>2. \A o, by : ~Owes(r, o, by)
  BY DEF Owes
<1>3. ASSUME NEW o \in Two, NEW by \in Scan!Causes, Owes(r, o, by)'
      PROVE  /\ o \in Scan!Made' /\ (by = "payment" => scanOrders'[o].debited = "customer")
             /\ PushedJobs(o, by) = 0 /\ \A x \in Calls : ~Owes(x, o, by)
  BY <1>3 DEF Owes
<1>4. JobsOnce'
  <2>1. \A x \in Calls : \A i, j \in DOMAIN scanReq'[x].todo :
          /\ scanReq'[x].todo[i].order = scanReq'[x].todo[j].order
          /\ scanReq'[x].todo[i].by = scanReq'[x].todo[j].by
          => i = j
    BY DEF ScanInv, JobsOnce
  <2>2. \A x, y \in Calls, o \in Two, by \in Scan!Causes : Owes(x, o, by)' /\ Owes(y, o, by)' => x = y
    BY <1>1, <1>2, <1>3 DEF ScanInv, JobsOnce
  <2>3. \A x \in Calls, o \in Two, by \in Scan!Causes : Owes(x, o, by)' => PushedJobs(o, by)' = 0
    BY <1>1, <1>3 DEF ScanInv, JobsOnce
  <2>4. \A o \in Two, by \in Scan!Causes : PushedJobs(o, by)' <= 1
    BY DEF ScanInv, JobsOnce
  <2> QED
    BY <2>1, <2>2, <2>3, <2>4 DEF JobsOnce
<1>5. JobsBacked'
  <2> SUFFICES ASSUME NEW o \in Two, NEW by \in Scan!Causes,
                      PushedJobs(o, by)' > 0 \/ (\E x \in Calls : Owes(x, o, by)')
               PROVE  o \in Scan!Made' /\ (by = "payment" => scanOrders'[o].debited = "customer")
    BY DEF JobsBacked
  <2>1. CASE Owes(r, o, by)'
    BY <1>3, <2>1
  <2>2. CASE ~Owes(r, o, by)'
    BY <1>1, <2>2 DEF ScanInv, JobsBacked
  <2> QED
    BY <2>1, <2>2
<1> QED
  BY <1>1, <1>2, <1>4, <1>5

(* A row that is committed brings its own job, and no other.               *)
LEMMA ImportRowKeeps ==
  ASSUME ScanInv, NEW r \in Calls, NEW kind \in Scan!Kinds, NEW o \in Two,
         NEW paid \in BOOLEAN, Scan!ImportRow(r, kind, o, paid)
  PROVE  ScanInv'
<1> DEFINE jobs == Scan!RowJobs(kind, o, paid)
<1>1. /\ scanReq' \in [Calls -> Scan!Request]
      /\ scanReq[r].pc = "busy" /\ scanReq'[r].pc = "busy" /\ scanReq'[r].op = scanReq[r].op
      /\ scanReq[r].todo = << >> /\ scanReq'[r].todo = jobs
      /\ scanReq'[r].oks = IF jobs = << >> THEN scanReq[r].oks ELSE scanReq[r].oks \cup {o}
      /\ \A x \in Calls \ {r} : scanReq'[x] = scanReq[x]
      /\ scanOrders[o] = None
      /\ scanOrders'[o] \in Scan!Order
      /\ scanOrders'[o].kind = kind
      /\ scanOrders'[o].debited = IF paid THEN "customer" ELSE "no"
      /\ \A p \in Two \ {o} : scanOrders'[p] = scanOrders[p]
      /\ scanOrders' \in [Two -> Scan!Order \cup {None}]
      /\ jobs \in {<< >>, <<Scan!PaymentJob(o)>>, <<Scan!LabelJob(o)>>}
      /\ jobs = <<Scan!PaymentJob(o)>> => paid
      /\ kind # "scan" \/ paid => jobs # << >>
      /\ UNCHANGED <<scanQueue, scanTold, scanHand, scanPopped, scanFailed, scanUp, scanFaults>>
  BY ImportRowEffect DEF ScanInv
<1> HIDE DEF jobs
<1>2. Scan!ScanTypeOK'
  BY <1>1 DEF ScanInv, Scan!ScanTypeOK
<1>3. \A p, by : PushedJobs(p, by)' = PushedJobs(p, by)
  BY <1>1, CountsStay
<1>4. /\ Len(jobs) <= 1
      /\ \A i, k \in DOMAIN jobs : i = k
      /\ \A i \in DOMAIN jobs : /\ jobs[i].tracking /\ jobs[i].order = o /\ jobs[i].by \in Scan!Causes
                                /\ jobs[i].by = "payment" => paid
      /\ jobs # << >> => \E i \in DOMAIN jobs : TRUE
  <2>1. CASE jobs = << >>
    BY <2>1
  <2>2. CASE jobs = <<Scan!PaymentJob(o)>>
    BY <1>1, <2>2, ScanJobs DEF Scan!Causes
  <2>3. CASE jobs = <<Scan!LabelJob(o)>>
    BY <1>1, <2>3, ScanJobs DEF Scan!Causes
  <2> QED
    BY <1>1, <2>1, <2>2, <2>3
<1>5. /\ o \notin Scan!Made /\ o \in Scan!Made'
      /\ \A p \in Two \ {o} : p \in Scan!Made' <=> p \in Scan!Made
  BY <1>1, ScanAssumption DEF Scan!Made, Scan!ScanQueueAssumption
<1>6. \A by \in Scan!Causes : PushedJobs(o, by) = 0 /\ \A x \in Calls : ~Owes(x, o, by)
  BY <1>5, PushedNat DEF ScanInv, JobsBacked
<1>7. Scan!Made \subseteq Two /\ Scan!Made' \subseteq Two
  BY DEF Scan!Made
<1>8. JobsValid'
  BY <1>1, <1>4 DEF ScanInv, JobsValid
<1>9. /\ JobsOnce' /\ JobsBacked'
      /\ \A x \in Calls : \A p, by : Owes(x, p, by) => Owes(x, p, by)'
  <2>1. \A i \in DOMAIN scanReq'[r].todo :
           LET j == scanReq'[r].todo[i] IN
           /\ j.order \in Scan!Made' /\ (j.by = "payment" => scanOrders'[j.order].debited = "customer")
           /\ PushedJobs(j.order, j.by) = 0
           /\ \A x \in Calls : ~Owes(x, j.order, j.by)
    BY <1>1, <1>4, <1>5, <1>6
  <2>2. \A i, j \in DOMAIN scanReq'[r].todo : scanReq'[r].todo[i].order = scanReq'[r].todo[j].order => i = j
    BY <1>1, <1>4
  <2>3. \A p \in Scan!Made : /\ p \in Scan!Made'
                             /\ scanOrders[p].debited = "customer" => scanOrders'[p].debited = "customer"
    BY <1>1, <1>5, <1>7
  <2> QED
    BY <1>1, <1>3, <2>1, <2>2, <2>3, JobsGiven
<1>10. jobs # << >> => \E by \in Scan!Causes : Owes(r, o, by)'
  BY <1>1, <1>4 DEF Owes
<1>11. JobsLeft'
  <2> SUFFICES ASSUME scanFaults' = 0, NEW p \in Scan!Made',
                      scanOrders'[p].kind # "scan" \/ scanOrders'[p].debited = "customer"
               PROVE  \E by \in Scan!Causes : PushedJobs(p, by)' > 0 \/ \E x \in Calls : Owes(x, p, by)'
    BY DEF JobsLeft
  <2>1. CASE p = o
    BY <1>1, <1>10, <2>1
  <2>2. CASE p # o
    <3>1. p \in Two \ {o} /\ p \in Scan!Made /\ scanOrders'[p] = scanOrders[p] /\ scanFaults = 0
      BY <1>1, <1>5, <1>7, <2>2
    <3> QED
      BY <1>3, <1>9, <3>1 DEF ScanInv, JobsLeft
  <2> QED
    BY <2>1, <2>2
<1>12. RepliesBacked'
  <2>1. \A x \in Calls : scanReq'[x].pc # "busy" => scanReq'[x].todo = << >> /\ scanReq'[x].oks = {}
    BY <1>1 DEF ScanInv, RepliesBacked
  <2>2. \A x \in Calls : scanReq'[x].op = "scan" => Len(scanReq'[x].todo) <= 1
    BY <1>1, <1>4 DEF ScanInv, RepliesBacked
  <2>3. ASSUME NEW x \in Calls, NEW p \in scanReq'[x].oks
        PROVE  \E by \in Scan!Causes : PushedJobs(p, by)' > 0 \/ Owes(x, p, by)'
    <3>1. CASE p \in scanReq[x].oks
      BY <1>3, <1>9, <3>1 DEF ScanInv, RepliesBacked
    <3>2. CASE p \notin scanReq[x].oks
      BY <1>1, <1>10, <2>3, <3>2
    <3> QED
      BY <3>1, <3>2
  <2>4. \A p \in scanTold' : \E by \in Scan!Causes : PushedJobs(p, by)' > 0
    BY <1>1, <1>3 DEF ScanInv, RepliesBacked
  <2> QED
    BY <2>1, <2>2, <2>3, <2>4 DEF RepliesBacked
<1> QED
  BY <1>2, <1>8, <1>9, <1>11, <1>12 DEF ScanInv

(* A payment brings the jobs of the orders it debited.                     *)
LEMMA PayOrdersKeeps ==
  ASSUME ScanInv, NEW r \in Calls, NEW seq \in Scan!OrderLists, NEW due \in Scan!OrderLists,
         Scan!PayOrders(r, seq, due)
  PROVE  ScanInv'
<1> DEFINE jobs == scanReq'[r].todo
<1>1. /\ scanReq' \in [Calls -> Scan!Request]
      /\ scanReq[r].pc = "idle" /\ scanReq'[r].pc = "busy" /\ scanReq'[r].op = "pay"
      /\ \A x \in Calls \ {r} : scanReq'[x] = scanReq[x]
      /\ scanOrders' \in [Two -> Scan!Order \cup {None}]
      /\ \A o \in Two : /\ o \in Scan!Made <=> o \in Scan!Made'
                        /\ o \in Scan!Made => scanOrders'[o].kind = scanOrders[o].kind
                        /\ o \in Scan!Made /\ scanOrders[o].debited = "customer" =>
                             scanOrders'[o].debited = "customer"
                        /\ o \in Scan!Made /\ scanOrders'[o].debited = "customer"
                             /\ scanOrders[o].debited # "customer" /\ scanOrders[o].kind # "empty" =>
                             \E i \in DOMAIN jobs : jobs[i].order = o
      /\ \A i \in DOMAIN jobs : /\ jobs[i].tracking /\ jobs[i].by = "payment"
                                /\ jobs[i].order \in Scan!Made
                                /\ scanOrders[jobs[i].order].debited = "no"
                                /\ scanOrders'[jobs[i].order].debited = "customer"
      /\ \A i, j \in DOMAIN jobs : jobs[i].order = jobs[j].order => i = j
      /\ \A o \in scanReq'[r].oks : \E i \in DOMAIN jobs : jobs[i].order = o
      /\ UNCHANGED <<scanQueue, scanTold, scanHand, scanPopped, scanFailed, scanUp, scanFaults>>
  BY PayOrdersEffect DEF ScanInv
<1> HIDE DEF jobs
<1>2. Scan!ScanTypeOK'
  BY <1>1 DEF ScanInv, Scan!ScanTypeOK
<1>3. \A p, by : PushedJobs(p, by)' = PushedJobs(p, by)
  BY <1>1, CountsStay
<1>4. scanReq[r].todo = << >>
  BY <1>1 DEF ScanInv, RepliesBacked
<1>5. Scan!Made \subseteq Two /\ Scan!Made' \subseteq Two
  BY DEF Scan!Made
<1>6. "payment" \in Scan!Causes
  BY DEF Scan!Causes
<1>7. JobsValid'
  <2>1. \A x \in Calls : \A i \in DOMAIN scanReq'[x].todo : scanReq'[x].todo[i].tracking
    BY <1>1 DEF ScanInv, JobsValid, jobs
  <2> QED
    BY <1>1, <2>1 DEF ScanInv, JobsValid
<1>8. ASSUME NEW i \in DOMAIN jobs
      PROVE  /\ PushedJobs(jobs[i].order, jobs[i].by) = 0
             /\ \A x \in Calls : ~Owes(x, jobs[i].order, jobs[i].by)
  <2>1. jobs[i].order \in Two /\ jobs[i].by = "payment" /\ scanOrders[jobs[i].order].debited # "customer"
    BY <1>1, <1>5
  <2> QED
    BY <1>6, <2>1, PushedNat DEF ScanInv, JobsBacked
<1>9. /\ JobsOnce' /\ JobsBacked'
      /\ \A x \in Calls : \A p, by : Owes(x, p, by) => Owes(x, p, by)'
  <2>1. \A i \in DOMAIN jobs :
           LET j == jobs[i] IN
           /\ j.order \in Scan!Made' /\ (j.by = "payment" => scanOrders'[j.order].debited = "customer")
           /\ PushedJobs(j.order, j.by) = 0
           /\ \A x \in Calls : ~Owes(x, j.order, j.by)
    BY <1>1, <1>5, <1>8
  <2>2. \A p \in Scan!Made : /\ p \in Scan!Made'
                             /\ scanOrders[p].debited = "customer" => scanOrders'[p].debited = "customer"
    BY <1>1, <1>5
  <2> QED
    BY <1>1, <1>3, <1>4, <2>1, <2>2, JobsGiven DEF jobs
<1>10. ASSUME NEW o, NEW i \in DOMAIN jobs, jobs[i].order = o
       PROVE  Owes(r, o, "payment")'
  BY <1>1, <1>10 DEF Owes, jobs
<1>11. JobsLeft'
  <2> SUFFICES ASSUME scanFaults' = 0, NEW p \in Scan!Made',
                      scanOrders'[p].kind # "scan" \/ scanOrders'[p].debited = "customer"
               PROVE  \E by \in Scan!Causes : PushedJobs(p, by)' > 0 \/ \E x \in Calls : Owes(x, p, by)'
    BY DEF JobsLeft
  <2>1. p \in Two /\ p \in Scan!Made /\ scanOrders'[p].kind = scanOrders[p].kind /\ scanFaults = 0
    BY <1>1, <1>5
  <2>2. CASE scanOrders[p].kind # "scan" \/ scanOrders[p].debited = "customer"
    BY <1>3, <1>9, <2>1, <2>2 DEF ScanInv, JobsLeft
  <2>3. CASE scanOrders[p].kind = "scan" /\ scanOrders[p].debited # "customer"
    <3>1. \E i \in DOMAIN jobs : jobs[i].order = p
      BY <1>1, <2>1, <2>3
    <3> QED
      BY <1>6, <1>10, <3>1
  <2> QED
    BY <2>2, <2>3
<1>12. RepliesBacked'
  <2>1. \A x \in Calls : scanReq'[x].pc # "busy" => scanReq'[x].todo = << >> /\ scanReq'[x].oks = {}
    BY <1>1 DEF ScanInv, RepliesBacked
  <2>2. \A x \in Calls : scanReq'[x].op = "scan" => Len(scanReq'[x].todo) <= 1
    BY <1>1 DEF ScanInv, RepliesBacked
  <2>3. ASSUME NEW x \in Calls, NEW p \in scanReq'[x].oks
        PROVE  \E by \in Scan!Causes : PushedJobs(p, by)' > 0 \/ Owes(x, p, by)'
    <3>1. CASE x # r
      BY <1>1, <1>3, <1>9, <2>3, <3>1 DEF ScanInv, RepliesBacked
    <3>2. CASE x = r
      BY <1>1, <1>6, <1>10, <2>3, <3>2
    <3> QED
      BY <3>1, <3>2
  <2>4. \A p \in scanTold' : \E by \in Scan!Causes : PushedJobs(p, by)' > 0
    BY <1>1, <1>3 DEF ScanInv, RepliesBacked
  <2> QED
    BY <2>1, <2>2, <2>3, <2>4 DEF RepliesBacked
<1> QED
  BY <1>2, <1>7, <1>9, <1>11, <1>12 DEF ScanInv

(* A push moves a job from what is owed to what is pushed.                 *)
LEMMA PushKeeps ==
  ASSUME ScanInv, NEW r \in Calls, Scan!Push(r)
  PROVE  ScanInv'
<1> DEFINE list == scanReq[r].todo
           j == Head(list)
           rest == Tail(list)
<1>1. /\ j \in Scan!Job /\ Len(list) \in Nat \ {0} /\ DOMAIN list = 1 .. Len(list) /\ list[1] = j
      /\ rest \in Seq(Scan!Job) /\ DOMAIN rest = 1 .. Len(list) - 1 /\ Len(rest) = Len(list) - 1
      /\ \A i \in 1 .. Len(list) - 1 : rest[i] = list[i + 1]
      /\ scanReq' \in [Calls -> Scan!Request]
      /\ scanReq'[r].todo = rest
      /\ scanReq'[r].pc = scanReq[r].pc /\ scanReq'[r].op = scanReq[r].op
      /\ scanReq'[r].oks = scanReq[r].oks
      /\ \A x \in Calls \ {r} : scanReq'[x] = scanReq[x]
      /\ scanQueue' = Append(scanQueue, j) /\ scanQueue' \in Seq(Scan!Job)
      /\ UNCHANGED <<scanOrders, scanTold, scanHand, scanPopped, scanFailed, scanUp, scanFaults>>
  BY PushEffect DEF ScanInv
<1>2. ASSUME NEW o \in Two, NEW by \in Scan!Causes
      PROVE  /\ PushedJobs(o, by)' = PushedJobs(o, by) + IF j.order = o /\ j.by = by THEN 1 ELSE 0
             /\ PushedJobs(o, by) \in Nat
             /\ Owes(r, o, by) <=> Owes(r, o, by)' \/ (j.order = o /\ j.by = by)
             /\ \A s \in Calls \ {r} : Owes(s, o, by)' <=> Owes(s, o, by)
  BY PushCounts, PushedNat DEF ScanInv
<1>3. list \in Seq(Scan!Job)
  BY DEF ScanInv, Scan!ScanTypeOK, Scan!Request
<1> HIDE DEF rest, j
<1>4. j.order \in Two /\ j.by \in Scan!Causes
  BY <1>1 DEF Scan!Job
<1>5. /\ \A i, k \in 1 .. Len(list) : list[i].order = list[k].order /\ list[i].by = list[k].by => i = k
      /\ \A i \in 1 .. Len(list) : list[i].tracking
  BY <1>1 DEF ScanInv, JobsOnce, JobsValid
<1>6. Scan!ScanTypeOK'
  BY <1>1 DEF ScanInv, Scan!ScanTypeOK
<1> HIDE DEF list
<1>7. \A i \in DOMAIN rest : i + 1 \in 1 .. Len(list) /\ i + 1 # 1 /\ rest[i] = list[i + 1] /\ i \in Nat
  BY <1>1
<1>8. ASSUME NEW o, NEW by, j.order = o, j.by = by, Owes(r, o, by)'
      PROVE  FALSE
  <2> PICK i \in DOMAIN rest : rest[i].order = j.order /\ rest[i].by = j.by
    BY <1>1, <1>8 DEF Owes
  <2>1. 1 \in 1 .. Len(list)
    BY <1>1
  <2>2. i + 1 = 1
    BY <1>1, <1>5, <1>7, <2>1
  <2> QED
    BY <1>7, <2>2
<1>9. JobsValid'
  <2>1. \A i \in DOMAIN scanQueue' : scanQueue'[i].tracking
    <3>1. 1 \in 1 .. Len(list)
      BY <1>1
    <3>2. j.tracking
      BY <1>1, <1>5, <3>1
    <3>3. scanQueue \in Seq(Scan!Job)
      BY DEF ScanInv, Scan!ScanTypeOK
    <3>4. /\ DOMAIN scanQueue' = 1 .. Len(scanQueue) + 1 /\ Len(scanQueue) \in Nat
          /\ DOMAIN scanQueue = 1 .. Len(scanQueue)
          /\ scanQueue'[Len(scanQueue) + 1] = j
          /\ \A i \in 1 .. Len(scanQueue) : scanQueue'[i] = scanQueue[i]
      BY <1>1, <3>3, AppendProperties, LenProperties
    <3> QED
      BY <3>2, <3>4 DEF ScanInv, JobsValid
  <2>2. ASSUME NEW x \in Calls, NEW i \in DOMAIN scanReq'[x].todo
        PROVE  scanReq'[x].todo[i].tracking
    <3>1. CASE x # r
      BY <1>1, <2>2, <3>1 DEF ScanInv, JobsValid
    <3>2. CASE x = r
      <4>1. i \in DOMAIN rest /\ scanReq'[x].todo[i] = rest[i]
        BY <1>1, <2>2, <3>2
      <4> QED
        BY <1>5, <1>7, <4>1
    <3> QED
      BY <3>1, <3>2
  <2> QED
    BY <1>1, <2>1, <2>2 DEF ScanInv, JobsValid
<1>10. JobsOnce'
  <2>1. ASSUME NEW x \in Calls, NEW i \in DOMAIN scanReq'[x].todo, NEW k \in DOMAIN scanReq'[x].todo,
               scanReq'[x].todo[i].order = scanReq'[x].todo[k].order,
               scanReq'[x].todo[i].by = scanReq'[x].todo[k].by
        PROVE  i = k
    <3>1. CASE x # r
      BY <1>1, <2>1, <3>1 DEF ScanInv, JobsOnce
    <3>2. CASE x = r
      <4>1. /\ i \in DOMAIN rest /\ k \in DOMAIN rest
            /\ rest[i].order = rest[k].order /\ rest[i].by = rest[k].by
        BY <1>1, <2>1, <3>2
      <4>2. i + 1 = k + 1 /\ i \in Nat /\ k \in Nat
        BY <1>5, <1>7, <4>1
      <4> QED
        BY <4>2
    <3> QED
      BY <3>1, <3>2
  <2>2. \A x, y \in Calls, o \in Two, by \in Scan!Causes : Owes(x, o, by)' /\ Owes(y, o, by)' => x = y
    BY <1>2 DEF ScanInv, JobsOnce
  <2>3. ASSUME NEW x \in Calls, NEW o \in Two, NEW by \in Scan!Causes, Owes(x, o, by)'
        PROVE  PushedJobs(o, by)' = 0
    <3>1. Owes(x, o, by)
      BY <1>2, <2>3
    <3>2. ~(j.order = o /\ j.by = by)
      <4>1. CASE x = r
        BY <1>8, <2>3, <4>1
      <4>2. CASE x # r
        BY <1>2, <3>1, <4>2 DEF ScanInv, JobsOnce
      <4> QED
        BY <4>1, <4>2
    <3> QED
      BY <1>2, <3>1, <3>2 DEF ScanInv, JobsOnce
  <2>4. ASSUME NEW o \in Two, NEW by \in Scan!Causes PROVE PushedJobs(o, by)' <= 1
    <3>1. CASE j.order = o /\ j.by = by
      <4>1. PushedJobs(o, by) = 0
        BY <1>2, <3>1 DEF ScanInv, JobsOnce
      <4> QED
        BY <1>2, <3>1, <4>1
    <3>2. CASE ~(j.order = o /\ j.by = by)
      BY <1>2, <3>2 DEF ScanInv, JobsOnce
    <3> QED
      BY <3>1, <3>2
  <2> QED
    BY <2>1, <2>2, <2>3, <2>4 DEF JobsOnce
<1>11. \A o \in Two, by \in Scan!Causes :
         (PushedJobs(o, by)' > 0 \/ \E x \in Calls : Owes(x, o, by)')
           <=> (PushedJobs(o, by) > 0 \/ \E x \in Calls : Owes(x, o, by))
  <2> TAKE o \in Two, by \in Scan!Causes
  <2>1. CASE j.order = o /\ j.by = by
    <3>1. PushedJobs(o, by)' > 0 /\ Owes(r, o, by)
      BY <1>2, <2>1
    <3> QED
      BY <3>1
  <2>2. CASE ~(j.order = o /\ j.by = by)
    <3>1. PushedJobs(o, by)' = PushedJobs(o, by) /\ \A x \in Calls : Owes(x, o, by)' <=> Owes(x, o, by)
      BY <1>2, <2>2
    <3> QED
      BY <3>1
  <2> QED
    BY <2>1, <2>2
<1>12. Scan!Made' = Scan!Made /\ Scan!Made \subseteq Two
  BY <1>1 DEF Scan!Made
<1>13. JobsBacked'
  BY <1>1, <1>11, <1>12 DEF ScanInv, JobsBacked
<1>14. JobsLeft'
  BY <1>1, <1>11, <1>12 DEF ScanInv, JobsLeft
<1>15. ASSUME NEW o \in Two, NEW by \in Scan!Causes, NEW x \in Calls, PushedJobs(o, by) > 0 \/ Owes(x, o, by)
       PROVE  PushedJobs(o, by)' > 0 \/ Owes(x, o, by)'
  BY <1>2, <1>15
<1>16. RepliesBacked'
  <2>1. \A x \in Calls : scanReq'[x].pc # "busy" => scanReq'[x].todo = << >> /\ scanReq'[x].oks = {}
    <3>1. list # << >>
      BY <1>1, <1>3, EmptySeq
    <3> QED
      BY <1>1, <3>1 DEF ScanInv, RepliesBacked, list
  <2>2. \A x \in Calls : scanReq'[x].op = "scan" => Len(scanReq'[x].todo) <= 1
    <3>1. scanReq[r].op = "scan" => Len(list) <= 1
      BY DEF ScanInv, RepliesBacked, list
    <3>2. scanReq'[r].op = "scan" => Len(rest) <= 1
      BY <1>1, <3>1
    <3> QED
      BY <1>1, <3>2 DEF ScanInv, RepliesBacked
  <2>3. \A x \in Calls : scanReq'[x].oks = scanReq[x].oks /\ scanReq[x].oks \subseteq Two
    BY <1>1 DEF ScanInv, Scan!ScanTypeOK, Scan!Request
  <2>4. scanTold' = scanTold /\ scanTold \subseteq Two
    BY <1>1 DEF ScanInv, Scan!ScanTypeOK
  <2>5. \A x \in Calls : \A o \in scanReq'[x].oks :
          \E by \in Scan!Causes : PushedJobs(o, by)' > 0 \/ Owes(x, o, by)'
    BY <1>15, <2>3 DEF ScanInv, RepliesBacked
  <2>6. \A o \in scanTold' : \E by \in Scan!Causes : PushedJobs(o, by)' > 0
    BY <1>2, <2>4 DEF ScanInv, RepliesBacked
  <2> QED
    BY <2>1, <2>2, <2>5, <2>6 DEF RepliesBacked
<1> QED
  BY <1>6, <1>9, <1>10, <1>13, <1>14, <1>16 DEF ScanInv

(* A push that failed leaves the request nothing, and nothing to vouch for *)
(* that was not pushed.                                                    *)
LEMMA PushFailsKeeps ==
  ASSUME ScanInv, NEW r \in Calls, Scan!PushFails(r)
  PROVE  ScanInv'
<1> DEFINE q == scanReq[r]
           j == Head(q.todo)
           less == [q EXCEPT !.todo = << >>, !.oks = @ \ {j.order}]
           over == [Scan!Idle EXCEPT !.pc = "done"]
<1>1. /\ q \in Scan!Request /\ q.todo \in Seq(Scan!Job) /\ q.todo # << >>
      /\ Scan!Goto(r, IF q.op = "scan" THEN less ELSE over)
      /\ scanFaults < MaxFaults /\ scanFaults' = scanFaults + 1
      /\ UNCHANGED <<scanOrders, scanQueue, scanTold, scanHand, scanPopped, scanFailed, scanUp>>
  BY DEF Scan!PushFails, Scan!Fault, ScanInv, Scan!ScanTypeOK, Scan!Request, Scan!workerVars
<1>2. /\ less \in Scan!Request /\ less.todo = << >> /\ less.oks = q.oks \ {j.order}
      /\ less.pc = q.pc /\ less.op = q.op
  <2>1. << >> \in Seq(Scan!Job)
    OBVIOUS
  <2> HIDE DEF q, j
  <2> QED
    BY <1>1, <2>1 DEF Scan!Request
<1>3. over \in Scan!Request /\ over.todo = << >> /\ over.oks = {} /\ over.pc = "done" /\ over.op = "pay"
  BY RequestOver
<1>4. q.op = "scan" => \A i \in DOMAIN q.todo : q.todo[i] = j
  <2> HIDE DEF q
  <2>1. /\ Len(q.todo) \in Nat /\ DOMAIN q.todo = 1 .. Len(q.todo) /\ j = q.todo[1]
    BY <1>1, LenProperties, HeadTailProperties
  <2>2. q.op = "scan" => Len(q.todo) <= 1
    BY DEF ScanInv, RepliesBacked, q
  <2> QED
    BY <2>1, <2>2
<1> HIDE DEF less, over
<1>5. /\ scanReq' \in [Calls -> Scan!Request]
      /\ scanReq'[r] = (IF q.op = "scan" THEN less ELSE over)
      /\ \A x \in Calls \ {r} : scanReq'[x] = scanReq[x]
  BY <1>1, <1>2, <1>3, ScanGoto DEF ScanInv
<1> HIDE DEF q, j
<1>6. /\ scanReq'[r].todo = << >>
      /\ scanReq'[r].oks \subseteq q.oks
      /\ q.op = "scan" => j.order \notin scanReq'[r].oks
      /\ q.op # "scan" => scanReq'[r].oks = {}
      /\ scanReq'[r].pc = q.pc \/ (scanReq'[r].pc = "done" /\ scanReq'[r].oks = {})
  BY <1>2, <1>3, <1>5
<1>7. \A x \in Calls : scanReq'[x].todo = scanReq[x].todo \/ scanReq'[x].todo = << >>
  BY <1>5, <1>6
<1>8. \A o, by : PushedJobs(o, by)' = PushedJobs(o, by)
  BY <1>1, CountsStay
<1>9. scanFaults' \in 0 .. MaxFaults /\ scanFaults' # 0
  BY <1>1, ScanAssumption DEF ScanInv, Scan!ScanTypeOK, Scan!ScanQueueAssumption
<1>10. Scan!ScanTypeOK'
  BY <1>1, <1>5, <1>9 DEF ScanInv, Scan!ScanTypeOK
<1>11. Scan!Made' = Scan!Made
  BY <1>1 DEF Scan!Made
<1>12. JobsValid'
  BY <1>1, <1>7 DEF ScanInv, JobsValid
<1>13. JobsOnce' /\ JobsBacked'
  BY <1>1, <1>7, <1>8, <1>11, JobsStay
<1>14. JobsLeft'
  BY <1>9 DEF JobsLeft
<1>15. RepliesBacked'
  <2>1. \A x \in Calls : scanReq'[x].pc # "busy" => scanReq'[x].todo = << >> /\ scanReq'[x].oks = {}
    <3>1. scanReq'[r].pc # "busy" => scanReq'[r].oks = {}
      <4>1. q.pc # "busy" => q.oks = {}
        BY DEF ScanInv, RepliesBacked, q
      <4> QED
        BY <1>6, <4>1
    <3> QED
      BY <1>5, <1>6, <3>1 DEF ScanInv, RepliesBacked
  <2>2. \A x \in Calls : scanReq'[x].op = "scan" => Len(scanReq'[x].todo) <= 1
    <3>1. Len(<< >>) = 0
      OBVIOUS
    <3> QED
      BY <1>5, <1>6, <3>1 DEF ScanInv, RepliesBacked
  <2>3. ASSUME NEW x \in Calls, NEW o \in scanReq'[x].oks
        PROVE  \E by \in Scan!Causes : PushedJobs(o, by)' > 0 \/ Owes(x, o, by)'
    <3>1. CASE x # r
      <4>1. scanReq'[x] = scanReq[x]
        BY <1>5, <3>1
      <4>2. \A by : Owes(x, o, by)' <=> Owes(x, o, by)
        BY <4>1 DEF Owes
      <4> QED
        BY <1>8, <2>3, <4>1, <4>2 DEF ScanInv, RepliesBacked
    <3>2. CASE x = r
      <4>1. o \in q.oks /\ q.op = "scan" /\ o # j.order
        BY <1>6, <2>3, <3>2
      <4>2. PICK by \in Scan!Causes : PushedJobs(o, by) > 0 \/ Owes(r, o, by)
        BY <4>1 DEF ScanInv, RepliesBacked, q
      <4>3. ~Owes(r, o, by)
        BY <1>4, <4>1 DEF Owes, q
      <4> QED
        BY <1>8, <4>2, <4>3
    <3> QED
      BY <3>1, <3>2
  <2>4. \A o \in scanTold' : \E by \in Scan!Causes : PushedJobs(o, by)' > 0
    BY <1>1, <1>8 DEF ScanInv, RepliesBacked
  <2> QED
    BY <2>1, <2>2, <2>3, <2>4 DEF RepliesBacked
<1> QED
  BY <1>10, <1>12, <1>13, <1>14, <1>15 DEF ScanInv

(* A reply vouches for what was pushed.                                    *)
LEMMA ReplyKeeps ==
  ASSUME ScanInv, NEW r \in Calls, Scan!Reply(r)
  PROVE  ScanInv'
<1> DEFINE over == [Scan!Idle EXCEPT !.pc = "done"]
<1>1. /\ scanReq[r].todo = << >> /\ Scan!Goto(r, over)
      /\ scanTold' = scanTold \cup scanReq[r].oks
      /\ UNCHANGED <<scanOrders, scanQueue, scanHand, scanPopped, scanFailed, scanUp, scanFaults>>
  BY DEF Scan!Reply, Scan!workerVars
<1>2. over \in Scan!Request /\ over.todo = << >> /\ over.oks = {} /\ over.pc = "done" /\ over.op = "pay"
  BY RequestOver
<1> HIDE DEF over
<1>3. /\ scanReq' \in [Calls -> Scan!Request] /\ scanReq'[r] = over
      /\ \A x \in Calls \ {r} : scanReq'[x] = scanReq[x]
  BY <1>1, <1>2, ScanGoto DEF ScanInv
<1>4. scanReq[r].oks \subseteq Two
  BY DEF ScanInv, Scan!ScanTypeOK, Scan!Request
<1>5. Scan!ScanTypeOK'
  BY <1>1, <1>3, <1>4 DEF ScanInv, Scan!ScanTypeOK
<1>6. \A x \in Calls : scanReq'[x].todo = scanReq[x].todo
  BY <1>1, <1>2, <1>3
<1>7. \A o, by : PushedJobs(o, by)' = PushedJobs(o, by)
  BY <1>1, CountsStay
<1>8. Scan!Made' = Scan!Made
  BY <1>1 DEF Scan!Made
<1>9. JobsValid'
  BY <1>1, <1>6 DEF ScanInv, JobsValid
<1>10. JobsOnce' /\ JobsBacked'
  BY <1>1, <1>6, <1>7, <1>8, JobsStay
<1>11. JobsLeft'
  BY <1>1, <1>6, <1>7, <1>8, JobsNotLost
<1>12. RepliesBacked'
  <2>1. \A x \in Calls : /\ scanReq'[x].pc # "busy" => scanReq'[x].todo = << >> /\ scanReq'[x].oks = {}
                         /\ scanReq'[x].op = "scan" => Len(scanReq'[x].todo) <= 1
    BY <1>2, <1>3 DEF ScanInv, RepliesBacked
  <2>2. \A x \in Calls : \A o, by : Owes(x, o, by)' <=> Owes(x, o, by)
    BY <1>6 DEF Owes
  <2>3. \A x \in Calls : \A o \in scanReq'[x].oks :
          \E by \in Scan!Causes : PushedJobs(o, by)' > 0 \/ Owes(x, o, by)'
    BY <1>2, <1>3, <1>7, <2>2 DEF ScanInv, RepliesBacked
  <2>4. \A o, by : ~Owes(r, o, by)
    BY <1>1 DEF Owes
  <2>5. \A o \in scanTold' : \E by \in Scan!Causes : PushedJobs(o, by)' > 0
    BY <1>1, <1>7, <2>4 DEF ScanInv, RepliesBacked
  <2> QED
    BY <2>1, <2>3, <2>5 DEF RepliesBacked
<1> QED
  BY <1>5, <1>9, <1>10, <1>11, <1>12 DEF ScanInv

(* The end of the process drops what was owed, and what was in hand.       *)
LEMMA ProcessEndsKeeps ==
  ASSUME ScanInv, Scan!ProcessEnds
  PROVE  ScanInv'
<1> DEFINE over == [Scan!Idle EXCEPT !.pc = "done"]
<1>1. /\ scanReq' = [r \in Calls |-> IF scanReq[r].pc = "busy" THEN over ELSE scanReq[r]]
      /\ scanHand' = None /\ scanUp' = FALSE
      /\ scanFaults < MaxFaults /\ scanFaults' = scanFaults + 1
      /\ UNCHANGED <<scanOrders, scanQueue, scanTold, scanPopped, scanFailed>>
  BY DEF Scan!ProcessEnds, Scan!Fault
<1>2. over \in Scan!Request /\ over.todo = << >> /\ over.oks = {} /\ over.pc = "done" /\ over.op = "pay"
  BY RequestOver
<1> HIDE DEF over
<1>3. \A r \in Calls : /\ scanReq[r] \in Scan!Request
                       /\ scanReq'[r] = over \/ (scanReq[r].pc # "busy" /\ scanReq'[r] = scanReq[r])
  BY <1>1 DEF ScanInv, Scan!ScanTypeOK
<1>4. scanReq' \in [Calls -> Scan!Request]
  BY <1>1, <1>2, <1>3
<1>5. scanFaults' \in 0 .. MaxFaults /\ scanFaults' # 0
  BY <1>1, ScanAssumption DEF ScanInv, Scan!ScanTypeOK, Scan!ScanQueueAssumption
<1>6. Scan!ScanTypeOK'
  BY <1>1, <1>4, <1>5 DEF ScanInv, Scan!ScanTypeOK
<1>7. \A r \in Calls : scanReq'[r].todo = << >> /\ scanReq'[r].oks = {}
  BY <1>2, <1>3 DEF ScanInv, RepliesBacked
<1>8. \A o, by : PushedJobs(o, by)' = PushedJobs(o, by)
  BY <1>1, CountsStay
<1>9. Scan!Made' = Scan!Made
  BY <1>1 DEF Scan!Made
<1>10. JobsValid'
  BY <1>1, <1>7 DEF ScanInv, JobsValid
<1>11. JobsOnce' /\ JobsBacked'
  BY <1>1, <1>7, <1>8, <1>9, JobsStay
<1>12. JobsLeft'
  BY <1>5 DEF JobsLeft
<1>13. RepliesBacked'
  <2>1. Len(<< >>) = 0
    OBVIOUS
  <2>2. \A o \in scanTold' : \E by \in Scan!Causes : PushedJobs(o, by)' > 0
    BY <1>1, <1>8 DEF ScanInv, RepliesBacked
  <2> QED
    BY <1>7, <2>1, <2>2 DEF RepliesBacked
<1> QED
  BY <1>6, <1>10, <1>11, <1>12, <1>13 DEF ScanInv

(* The scan part keeps its invariant.                                      *)
LEMMA ScanInvHolds ==
  /\ Scan!Init => ScanInv
  /\ ScanInv /\ Scan!Next => ScanInv'
  /\ ScanInv /\ UNCHANGED Scan!vars => ScanInv'
<1>1. ASSUME Scan!Init PROVE ScanInv
  <2>1. /\ scanOrders = [o \in Two |-> None] /\ scanQueue = << >>
        /\ scanPopped = [x \in Two \X Scan!Causes |-> 0] /\ scanHand = None /\ scanFailed = {}
        /\ scanReq = [r \in Calls |-> Scan!Idle] /\ scanTold = {} /\ scanUp = TRUE /\ scanFaults = 0
    BY <1>1 DEF Scan!Init
  <2>2. Scan!ScanTypeOK
    <3>1. << >> \in Seq(Scan!Job) /\ 0 \in 0 .. MaxFaults
      BY ScanAssumption DEF Scan!ScanQueueAssumption
    <3>2. scanReq \in [Calls -> Scan!Request]
      BY <2>1, ScanIdle
    <3> QED
      BY <2>1, <3>1, <3>2 DEF Scan!ScanTypeOK
  <2>3. \A r \in Calls : scanReq[r].todo = << >> /\ scanReq[r].oks = {} /\ scanReq[r].op = "pay"
    BY <2>1, ScanIdle
  <2>4. \A r \in Calls : \A o, by : ~Owes(r, o, by)
    BY <2>3 DEF Owes
  <2>5. \A o \in Two, by \in Scan!Causes : PushedJobs(o, by) = 0
    <3> TAKE o \in Two, by \in Scan!Causes
    <3>1. JobPlaces(scanQueue, o, by) = {} /\ scanPopped[<<o, by>>] = 0
      BY <2>1 DEF JobPlaces
    <3> QED
      BY <3>1, FS_EmptySet DEF PushedJobs
  <2>6. Scan!Made = {}
    BY <2>1 DEF Scan!Made
  <2>7. JobsValid /\ JobsOnce /\ JobsBacked /\ JobsLeft
    BY <2>1, <2>3, <2>4, <2>5, <2>6 DEF JobsValid, JobsOnce, JobsBacked, JobsLeft
  <2>8. RepliesBacked
    BY <2>1, <2>3 DEF RepliesBacked
  <2> QED
    BY <2>2, <2>7, <2>8 DEF ScanInv
<1>2. ASSUME ScanInv, Scan!Next PROVE ScanInv'
  <2>1. ASSUME NEW r \in Calls, Scan!Serve(r) PROVE ScanInv'
    <3>1. CASE \E op \in {"scan", "preview"}, rows \in 1 .. MaxRows : Scan!StartImport(r, op, rows)
      BY <1>2, <3>1, StartImportKeeps
    <3>2. CASE \E kind \in Scan!Kinds, o \in Two, paid \in BOOLEAN : Scan!ImportRow(r, kind, o, paid)
      BY <1>2, <3>2, ImportRowKeeps
    <3>3. CASE \E seq \in Scan!OrderLists \ {<< >>}, due \in Scan!OrderLists : Scan!PayOrders(r, seq, due)
      BY <1>2, <3>3, PayOrdersKeeps
    <3>4. CASE Scan!Push(r)
      BY <1>2, <3>4, PushKeeps
    <3>5. CASE Scan!PushFails(r)
      BY <1>2, <3>5, PushFailsKeeps
    <3>6. CASE Scan!Reply(r)
      BY <1>2, <3>6, ReplyKeeps
    <3> QED
      BY <2>1, <3>1, <3>2, <3>3, <3>4, <3>5, <3>6 DEF Scan!Serve
  <2>2. ASSUME NEW o \in Two,
               Scan!StartProcessing(o) \/ Scan!DeleteOrder(o)
                 \/ \E paid \in BOOLEAN : Scan!UpdatePaymentStatus(o, paid)
        PROVE  ScanInv'
    BY <1>2, <2>2, AdminKeeps
  <2>3. CASE Scan!Dequeue \/ Scan!HandleJob \/ Scan!Restart
    BY <1>2, <2>3, WorkerKeeps
  <2>4. CASE Scan!ProcessEnds
    BY <1>2, <2>4, ProcessEndsKeeps
  <2> QED
    BY <1>2, <2>1, <2>2, <2>3, <2>4 DEF Scan!Next
<1>3. ASSUME ScanInv, UNCHANGED Scan!vars PROVE ScanInv'
  <2>1. UNCHANGED <<scanOrders, scanQueue, scanHand, scanPopped, scanFailed, scanReq, scanTold, scanUp, scanFaults>>
    BY <1>3 DEF Scan!vars
  <2>2. Scan!ScanTypeOK'
    BY <1>3, <2>1 DEF ScanInv, Scan!ScanTypeOK
  <2>3. \A o, by : PushedJobs(o, by)' = PushedJobs(o, by)
    BY <2>1, CountsStay
  <2>4. \A x, o, by : Owes(x, o, by)' <=> Owes(x, o, by)
    BY <2>1 DEF Owes
  <2>5. Scan!Made' = Scan!Made
    BY <2>1 DEF Scan!Made
  <2>6. JobsValid'
    BY <1>3, <2>1 DEF ScanInv, JobsValid
  <2>7. JobsOnce' /\ JobsBacked'
    BY <1>3, <2>1, <2>3, <2>5, JobsStay
  <2>8. JobsLeft'
    BY <1>3, <2>1, <2>3, <2>5, JobsNotLost
  <2>9. RepliesBacked'
    BY <1>3, <2>1, <2>3, <2>4 DEF ScanInv, RepliesBacked
  <2> QED
    BY <2>2, <2>6, <2>7, <2>8, <2>9 DEF ScanInv
<1> QED
  BY <1>1, <1>2, <1>3

(* It says what the run checks of the scan part.                           *)
LEMMA ScanInvGives ==
  ASSUME ScanInv
  PROVE  /\ Scan!EachJobOnce /\ Scan!OnlyFaultsLoseJobs /\ Scan!SuccessMeansPushed
         /\ Scan!JobsAreCommitted /\ Scan!WorkerOnlyReads
<1>1. \A o, by : Scan!Copies(o, by) = PushedJobs(o, by)
  BY DEF Scan!Copies, PushedJobs, JobPlaces, Scan!Cardinality, Cardinality
<1>2. \A o, by : Scan!Owed(o, by) <=> \E r \in Calls : Owes(r, o, by)
  BY DEF Scan!Owed, Scan!Pending, Scan!Elems, Owes
<1>3. Scan!Made \subseteq Two /\ scanTold \subseteq Two
  BY DEF Scan!Made, ScanInv, Scan!ScanTypeOK
<1>4. Scan!EachJobOnce
  BY <1>1 DEF ScanInv, JobsOnce, Scan!EachJobOnce
<1>5. Scan!OnlyFaultsLoseJobs
  BY <1>1, <1>2, <1>3 DEF ScanInv, JobsLeft, Scan!OnlyFaultsLoseJobs, Scan!Pushed
<1>6. Scan!SuccessMeansPushed
  BY <1>1, <1>3 DEF ScanInv, RepliesBacked, Scan!SuccessMeansPushed, Scan!Pushed
<1>7. Scan!JobsAreCommitted
  BY <1>1, <1>2 DEF ScanInv, JobsBacked, Scan!JobsAreCommitted, Scan!Pushed
<1>8. Scan!WorkerOnlyReads
  BY DEF ScanInv, JobsValid, Scan!WorkerOnlyReads
<1> QED
  BY <1>4, <1>5, <1>6, <1>7, <1>8

-----------------------------------------------------------------------------
(* The carrier part: what a run has read and not saved yet was open, or    *)
(* paid, when it was read; so the order it saves is completed only if it   *)
(* is paid, and a row that has not changed under the save becomes it.      *)

\* A row has these columns.
IsRow(x) == DOMAIN x = {"paid", "status", "note"} /\ x.paid \in BOOLEAN

SavesOrder(w) ==
  /\ w.order \in Parcels /\ IsRow(w.entity) /\ IsRow(w.seen)
  /\ w.entity.status = "completed" => w.entity.paid

RunPoint(q) ==
  /\ DOMAIN q = {"pc", "labels", "left", "loaded", "save"}
  /\ \A l \in q.loaded : l[1] \in Parcels /\ IsRow(l[2])
  /\ q.pc = "noting" => \A l \in q.loaded : Carrier!Open(l[2])
  /\ q.pc = "completing" => \A l \in q.loaded : l[2].paid
  /\ \A w \in q.save : SavesOrder(w)

CarrierInv ==
  /\ DOMAIN carrierOrders = Parcels /\ \A o \in Parcels : IsRow(carrierOrders[o])
  /\ DOMAIN carrierSync = Syncs /\ \A s \in Syncs : RunPoint(carrierSync[s])
  /\ Carrier!CompletedIsPaid

(* A run that moves leaves the others where they are.                      *)
LEMMA CarrierSyncMoves ==
  ASSUME CarrierInv, NEW s \in Syncs, NEW q, RunPoint(q), carrierSync' = [carrierSync EXCEPT ![s] = q],
         carrierOrders' = carrierOrders, carrierTorn' = carrierTorn
  PROVE  CarrierInv'
<1>1. DOMAIN carrierSync' = Syncs /\ \A t \in Syncs : RunPoint(carrierSync'[t])
  BY DEF CarrierInv
<1> QED
  BY <1>1 DEF CarrierInv, Carrier!CompletedIsPaid, RunPoint, IsRow

(* A row that is written is completed only if it is paid, or it is torn.   *)
LEMMA CarrierRowSaved ==
  ASSUME CarrierInv, NEW o \in Parcels, NEW row, IsRow(row), carrierTorn \subseteq carrierTorn',
         o \notin carrierTorn' => (row.status = "completed" => row.paid),
         carrierOrders' = [carrierOrders EXCEPT ![o] = row],
         DOMAIN carrierSync' = Syncs, \A s \in Syncs : RunPoint(carrierSync'[s])
  PROVE  CarrierInv'
<1>1. DOMAIN carrierOrders' = Parcels /\ carrierOrders'[o] = row
      /\ \A p \in Parcels \ {o} : carrierOrders'[p] = carrierOrders[p]
  BY DEF CarrierInv
<1>2. \A p \in Parcels : IsRow(carrierOrders'[p])
  BY <1>1 DEF CarrierInv
<1>3. Carrier!CompletedIsPaid'
  BY <1>1 DEF CarrierInv, Carrier!CompletedIsPaid
<1> QED
  BY <1>1, <1>2, <1>3 DEF CarrierInv, RunPoint, IsRow

(* The rows that are read are rows of the table.                           *)
LEMMA CarrierRowsRead ==
  ASSUME CarrierInv, NEW ids \in SUBSET Parcels, NEW l \in Carrier!Rows(ids)
  PROVE  l[1] \in ids /\ l[2] = carrierOrders[l[1]] /\ IsRow(l[2])
  BY DEF CarrierInv, Carrier!Rows

(* The carrier part keeps its invariant.                                   *)
LEMMA CarrierInvHolds ==
  /\ Carrier!Init => CarrierInv
  /\ CarrierInv /\ Carrier!Next => CarrierInv'
  /\ CarrierInv /\ UNCHANGED <<carrierOrders, carrierSync, carrierTorn>> => CarrierInv'
<1>1. ASSUME Carrier!Init PROVE CarrierInv
  <2>1. \A o \in Parcels : /\ carrierOrders[o] \in [paid : BOOLEAN, status : {"pending"}, note : {0}]
                           /\ DOMAIN carrierOrders = Parcels
    BY <1>1 DEF Carrier!Init
  <2>2. DOMAIN carrierOrders = Parcels
    BY <1>1 DEF Carrier!Init
  <2>3. \A o \in Parcels : IsRow(carrierOrders[o]) /\ carrierOrders[o].status = "pending"
    BY <2>1 DEF IsRow
  <2>4. DOMAIN carrierSync = Syncs /\ \A s \in Syncs : RunPoint(carrierSync[s])
    BY <1>1 DEF Carrier!Init, RunPoint
  <2> QED
    BY <2>2, <2>3, <2>4 DEF CarrierInv, Carrier!CompletedIsPaid
<1>2. ASSUME CarrierInv, NEW s \in Syncs, Carrier!FetchLabels(s) PROVE CarrierInv'
  <2> DEFINE was == carrierSync[s]
  <2>1. PICK left : carrierSync' = [carrierSync EXCEPT ![s] =
              [@ EXCEPT !.pc = "note", !.labels = carrierCarrier, !.left = left]]
    BY <1>2 DEF Carrier!FetchLabels
  <2> DEFINE q == [was EXCEPT !.pc = "note", !.labels = carrierCarrier, !.left = left]
  <2>2. RunPoint(was)
    BY <1>2 DEF CarrierInv
  <2>3. carrierSync' = [carrierSync EXCEPT ![s] = q] /\ UNCHANGED <<carrierOrders, carrierTorn>>
    BY <1>2, <2>1 DEF Carrier!FetchLabels
  <2> HIDE DEF was
  <2>4. RunPoint(q)
    BY <2>2 DEF RunPoint
  <2> HIDE DEF q
  <2> QED
    BY <1>2, <2>3, <2>4, CarrierSyncMoves
<1>3. ASSUME CarrierInv, NEW s \in Syncs, Carrier!LoadForNote(s) PROVE CarrierInv'
  <2> DEFINE was == carrierSync[s]
             c == Head(carrierSync[s].left)
             summary == carrierSync[s].labels[c].event
             rows == IF summary = 0 THEN {}
                     ELSE Carrier!Rows({o \in Parcels : SharedCode[o] = c /\ Carrier!Open(carrierOrders[o])})
             q == [was EXCEPT !.pc = "noting", !.loaded = rows]
  <2>1. carrierSync' = [carrierSync EXCEPT ![s] = q] /\ UNCHANGED <<carrierOrders, carrierTorn>>
    BY <1>3 DEF Carrier!LoadForNote, CarrierInv
  <2>2. RunPoint(was)
    BY <1>3 DEF CarrierInv
  <2>3. \A l \in rows : l[1] \in Parcels /\ IsRow(l[2]) /\ Carrier!Open(l[2])
    BY <1>3, CarrierRowsRead
  <2> HIDE DEF was, rows
  <2>4. RunPoint(q)
    BY <2>2, <2>3 DEF RunPoint
  <2> HIDE DEF q
  <2> QED
    BY <1>3, <2>1, <2>4, CarrierSyncMoves
<1>4. ASSUME CarrierInv, NEW s \in Syncs, Carrier!SaveNote(s) PROVE CarrierInv'
  <2> DEFINE was == carrierSync[s]
             summary == carrierSync[s].labels[Head(carrierSync[s].left)].event
  <2>1. PICK l \in was.loaded :
          carrierSync' = [carrierSync EXCEPT ![s].loaded = @ \ {l},
             ![s].save = IF l[2].note = summary THEN {}
                         ELSE {Carrier!Selected(l[1], [l[2] EXCEPT !.note = summary])}]
    BY <1>4 DEF Carrier!SaveNote
  <2> DEFINE entity == [l[2] EXCEPT !.note = summary]
             w == Carrier!Selected(l[1], entity)
             q == [was EXCEPT !.loaded = was.loaded \ {l}, !.save = IF l[2].note = summary THEN {} ELSE {w}]
  <2>2. RunPoint(was) /\ was.pc = "noting" /\ UNCHANGED <<carrierOrders, carrierTorn>>
    BY <1>4 DEF CarrierInv, Carrier!SaveNote
  <2>3. carrierSync' = [carrierSync EXCEPT ![s] = q]
    BY <1>4, <2>1, <2>2 DEF CarrierInv, RunPoint
  <2> HIDE DEF was, summary
  <2>4. l[1] \in Parcels /\ IsRow(l[2]) /\ l[2].status # "completed"
    BY <2>2 DEF RunPoint, Carrier!Open
  <2>5. IsRow(entity) /\ entity.status # "completed"
    BY <2>4 DEF IsRow
  <2> HIDE DEF entity
  <2>6. SavesOrder(w)
    BY <1>4, <2>4, <2>5 DEF SavesOrder, Carrier!Selected, CarrierInv
  <2> HIDE DEF w
  <2>7. RunPoint(q)
    BY <2>2, <2>6 DEF RunPoint
  <2> HIDE DEF q
  <2> QED
    BY <1>4, <2>2, <2>3, <2>7, CarrierSyncMoves
<1>5. ASSUME CarrierInv, NEW s \in Syncs, Carrier!NextLabel(s), UNCHANGED <<carrierOrders, carrierTorn>>
      PROVE  CarrierInv'
  <2> DEFINE was == carrierSync[s]
             q == [was EXCEPT !.left = Tail(was.left), !.loaded = {},
                              !.pc = IF Len(was.left) = 1 THEN "done" ELSE "note"]
  <2>1. RunPoint(was)
    BY <1>5 DEF CarrierInv
  <2>2. carrierSync' = [carrierSync EXCEPT ![s] = q]
    BY <1>5 DEF Carrier!NextLabel, CarrierInv
  <2> HIDE DEF was
  <2>3. RunPoint(q)
    BY <2>1 DEF RunPoint
  <2> HIDE DEF q
  <2> QED
    BY <1>5, <2>2, <2>3, CarrierSyncMoves
<1>6. ASSUME CarrierInv, NEW s \in Syncs, Carrier!NotesSaved(s) PROVE CarrierInv'
  <2>1. CASE Carrier!NextLabel(s) /\ UNCHANGED <<carrierOrders, carrierTorn>>
    BY <1>5, <1>6, <2>1
  <2>2. CASE carrierSync' = [carrierSync EXCEPT ![s].pc = "complete"] /\ UNCHANGED <<carrierOrders, carrierTorn>>
    <3> DEFINE was == carrierSync[s]
               q == [was EXCEPT !.pc = "complete"]
    <3>1. RunPoint(was)
      BY <1>6 DEF CarrierInv
    <3>2. carrierSync' = [carrierSync EXCEPT ![s] = q]
      BY <1>6, <2>2 DEF CarrierInv
    <3> HIDE DEF was
    <3>3. RunPoint(q)
      BY <3>1 DEF RunPoint
    <3> HIDE DEF q
    <3> QED
      BY <1>6, <2>2, <3>2, <3>3, CarrierSyncMoves
  <2> QED
    BY <1>6, <2>1, <2>2 DEF Carrier!NotesSaved
<1>7. ASSUME CarrierInv, NEW s \in Syncs, Carrier!LoadForCompletion(s) PROVE CarrierInv'
  <2> DEFINE was == carrierSync[s]
             rows == Carrier!Rows({o \in Parcels : SharedCode[o] = Head(carrierSync[s].left)
                                     /\ carrierOrders[o].paid /\ Carrier!Open(carrierOrders[o])})
             q == [was EXCEPT !.pc = "completing", !.loaded = rows]
  <2>1. carrierSync' = [carrierSync EXCEPT ![s] = q] /\ UNCHANGED <<carrierOrders, carrierTorn>>
    BY <1>7 DEF Carrier!LoadForCompletion, CarrierInv
  <2>2. RunPoint(was)
    BY <1>7 DEF CarrierInv
  <2>3. \A l \in rows : l[1] \in Parcels /\ IsRow(l[2]) /\ l[2].paid
    BY <1>7, CarrierRowsRead
  <2> HIDE DEF was, rows
  <2>4. RunPoint(q)
    BY <2>2, <2>3 DEF RunPoint
  <2> HIDE DEF q
  <2> QED
    BY <1>7, <2>1, <2>4, CarrierSyncMoves
<1>8. ASSUME CarrierInv, NEW s \in Syncs, Carrier!SaveCompleted(s) PROVE CarrierInv'
  <2> DEFINE was == carrierSync[s]
             summary == carrierSync[s].labels[Head(carrierSync[s].left)].event
  <2>1. PICK l \in was.loaded :
          carrierSync' = [carrierSync EXCEPT ![s].loaded = @ \ {l}, ![s].save =
             {Carrier!Selected(l[1], [l[2] EXCEPT !.status = "completed",
                                        !.note = IF @ = 0 THEN summary ELSE @])}]
    BY <1>8 DEF Carrier!SaveCompleted
  <2> DEFINE entity == [l[2] EXCEPT !.status = "completed", !.note = IF @ = 0 THEN summary ELSE @]
             w == Carrier!Selected(l[1], entity)
             q == [was EXCEPT !.loaded = was.loaded \ {l}, !.save = {w}]
  <2>2. RunPoint(was) /\ was.pc = "completing" /\ UNCHANGED <<carrierOrders, carrierTorn>>
    BY <1>8 DEF CarrierInv, Carrier!SaveCompleted
  <2>3. carrierSync' = [carrierSync EXCEPT ![s] = q]
    BY <1>8, <2>1, <2>2 DEF CarrierInv, RunPoint
  <2> HIDE DEF was, summary
  <2>4. l[1] \in Parcels /\ IsRow(l[2]) /\ l[2].paid
    BY <2>2 DEF RunPoint
  <2>5. IsRow(entity) /\ entity.paid
    BY <2>4 DEF IsRow
  <2> HIDE DEF entity
  <2>6. SavesOrder(w)
    BY <1>8, <2>4, <2>5 DEF SavesOrder, Carrier!Selected, CarrierInv
  <2> HIDE DEF w
  <2>7. RunPoint(q)
    BY <2>2, <2>6 DEF RunPoint
  <2> HIDE DEF q
  <2> QED
    BY <1>8, <2>2, <2>3, <2>7, CarrierSyncMoves
<1>9. ASSUME CarrierInv, NEW s \in Syncs, Carrier!LabelDone(s) PROVE CarrierInv'
  BY <1>5, <1>9 DEF Carrier!LabelDone
<1>10. ASSUME CarrierInv, NEW s \in Syncs, Carrier!SyncFails(s) PROVE CarrierInv'
  <2> DEFINE was == carrierSync[s]
             q == [was EXCEPT !.pc = "done", !.loaded = {}, !.save = {}]
  <2>1. carrierSync' = [carrierSync EXCEPT ![s] = q] /\ UNCHANGED <<carrierOrders, carrierTorn>>
    BY <1>10 DEF Carrier!SyncFails, CarrierInv
  <2>2. RunPoint(was)
    BY <1>10 DEF CarrierInv
  <2> HIDE DEF was
  <2>3. RunPoint(q)
    BY <2>2 DEF RunPoint
  <2> HIDE DEF q
  <2> QED
    BY <1>10, <2>1, <2>3, CarrierSyncMoves
<1>11. ASSUME CarrierInv, UNCHANGED <<carrierOrders, carrierSync, carrierTorn>> PROVE CarrierInv'
  BY <1>11 DEF CarrierInv, Carrier!CompletedIsPaid, RunPoint, IsRow
<1>12. ASSUME CarrierInv, NEW o \in Parcels, Carrier!Other(o) PROVE CarrierInv'
  <2> DEFINE was == carrierOrders[o]
  <2>1. /\ IsRow(was) /\ UNCHANGED <<carrierSync, carrierTorn>>
        /\ o \notin carrierTorn => (was.status = "completed" => was.paid)
    BY <1>12 DEF CarrierInv, Carrier!Other, Carrier!CompletedIsPaid
  <2>2. DOMAIN carrierSync' = Syncs /\ \A t \in Syncs : RunPoint(carrierSync'[t])
    BY <1>12, <2>1 DEF CarrierInv
  <2>3. ASSUME NEW row, row \in {[was EXCEPT !.paid = TRUE], [was EXCEPT !.status = "processing"],
                                 [was EXCEPT !.status = "failed"]},
               carrierOrders' = [carrierOrders EXCEPT ![o] = row]
        PROVE  CarrierInv'
    <3> HIDE DEF was
    <3>1. IsRow(row) /\ (o \notin carrierTorn => (row.status = "completed" => row.paid))
      <4>1. CASE row = [was EXCEPT !.paid = TRUE]
        BY <2>1, <4>1 DEF IsRow
      <4>2. CASE row = [was EXCEPT !.status = "processing"]
        BY <2>1, <4>2 DEF IsRow
      <4>3. CASE row = [was EXCEPT !.status = "failed"]
        BY <2>1, <4>3 DEF IsRow
      <4> QED
        BY <2>3, <4>1, <4>2, <4>3
    <3> QED
      BY <1>12, <2>1, <2>2, <2>3, <3>1, CarrierRowSaved
  <2>4. CASE carrierOrders' = [carrierOrders EXCEPT ![o].paid = TRUE]
    <3>1. carrierOrders' = [carrierOrders EXCEPT ![o] = [was EXCEPT !.paid = TRUE]]
      BY <1>12, <2>4 DEF CarrierInv
    <3> QED
      BY <2>3, <3>1
  <2>5. CASE carrierOrders' = [carrierOrders EXCEPT ![o].status = "processing"]
    <3>1. carrierOrders' = [carrierOrders EXCEPT ![o] = [was EXCEPT !.status = "processing"]]
      BY <1>12, <2>5 DEF CarrierInv
    <3> QED
      BY <2>3, <3>1
  <2>6. CASE carrierOrders' = [carrierOrders EXCEPT ![o].status = "failed"]
    <3>1. carrierOrders' = [carrierOrders EXCEPT ![o] = [was EXCEPT !.status = "failed"]]
      BY <1>12, <2>6 DEF CarrierInv
    <3> QED
      BY <2>3, <3>1
  <2> QED
    BY <1>12, <2>4, <2>5, <2>6 DEF Carrier!Other
<1>13. ASSUME CarrierInv, NEW c \in {SharedCode[o] : o \in Parcels}, Carrier!CarrierEvent(c) PROVE CarrierInv'
  BY <1>11, <1>13 DEF Carrier!CarrierEvent
<1>14. ASSUME CarrierInv, NEW s \in Syncs, Carrier!UpdateSaved(s) PROVE CarrierInv'
  <2> DEFINE was == carrierSync[s]
             q == [was EXCEPT !.save = {}]
  <2>1. PICK w \in was.save :
          /\ carrierOrders' = [carrierOrders EXCEPT ![w.order] = Carrier!Patched(@, w.entity, w.seen)]
          /\ carrierTorn' = IF carrierOrders[w.order] = w.seen THEN carrierTorn
                            ELSE carrierTorn \cup {w.order}
          /\ carrierSync' = [carrierSync EXCEPT ![s].save = {}]
    BY <1>14 DEF Carrier!UpdateSaved
  <2> DEFINE o == w.order
             row == Carrier!Patched(carrierOrders[o], w.entity, w.seen)
  <2>2. RunPoint(was)
    BY <1>14 DEF CarrierInv
  <2>3. SavesOrder(w) /\ carrierSync' = [carrierSync EXCEPT ![s] = q]
    BY <1>14, <2>1, <2>2 DEF CarrierInv, RunPoint
  <2> HIDE DEF was
  <2>4. RunPoint(q)
    BY <2>2 DEF RunPoint
  <2> HIDE DEF q
  <2>5. DOMAIN carrierSync' = Syncs /\ \A t \in Syncs : RunPoint(carrierSync'[t])
    BY <1>14, <2>3, <2>4 DEF CarrierInv
  <2>6. o \in Parcels /\ IsRow(carrierOrders[o]) /\ IsRow(w.entity) /\ IsRow(w.seen)
    BY <1>14, <2>3 DEF SavesOrder, CarrierInv
  <2>7. IsRow(row)
    BY <2>6 DEF IsRow, Carrier!Patched
  <2>8. carrierOrders[o] = w.seen => row.status = w.entity.status /\ row.paid = w.entity.paid
    BY <2>6 DEF IsRow, Carrier!Patched
  <2>9. carrierTorn \subseteq carrierTorn' /\ (o \notin carrierTorn' => carrierOrders[o] = w.seen)
    BY <2>1
  <2>10. o \notin carrierTorn' => (row.status = "completed" => row.paid)
    BY <2>3, <2>8, <2>9 DEF SavesOrder
  <2>11. carrierOrders' = [carrierOrders EXCEPT ![o] = row]
    BY <1>14, <2>1, <2>6 DEF CarrierInv
  <2> HIDE DEF o, row
  <2> QED
    BY <1>14, <2>5, <2>6, <2>7, <2>9, <2>10, <2>11, CarrierRowSaved
<1>15. ASSUME CarrierInv, Carrier!Next PROVE CarrierInv'
  BY <1>2, <1>3, <1>4, <1>6, <1>7, <1>8, <1>9, <1>10, <1>12, <1>13, <1>14, <1>15 DEF Carrier!Next
<1> QED
  BY <1>1, <1>11, <1>15

-----------------------------------------------------------------------------
\* What the pages from the first to the current one have: the PDFs that were
\* there when the run began are among them, or wait in later pages, or were
\* skipped; and if none was added they are the newest but for those.
PagesTyped ==
  /\ Len(pagePdfs) \in Nat /\ pagePdfs = Carrier!Newest(Len(pagePdfs))
  /\ pageAtStart \in Nat /\ pageAtStart <= Len(pagePdfs)
  /\ pagePageSize \in Nat \ {0} /\ pageLimit \in Nat \ {0} /\ pagePage \in Nat \ {0}
  /\ pageFirst \in Nat \ {0}
  /\ pageItems \in Seq(Nat)
  /\ pageListing \in BOOLEAN

PagesBefore(page, size) == (page - 1) * size
Before == PagesBefore(pagePage, pagePageSize)

Gone(n, items, before) ==
  \A v \in 1 .. pageAtStart - Carrier!Skipped : v >= n + 1 - before => v \in Carrier!Range(items)

PagesAhead ==
  pageListing => /\ Carrier!Skipped <= Before
                 /\ Before <= Len(pagePdfs) \/ pageItems = << >>
                 /\ Gone(Len(pagePdfs), pageItems, Before)

PagesSteady ==
  Len(pagePdfs) = pageAtStart =>
    /\ Len(pageItems) = 0 \/ Carrier!Skipped + Len(pageItems) <= Len(pagePdfs)
    /\ \A i \in 1 .. Len(pageItems) : pageItems[i] = Len(pagePdfs) + 1 - (Carrier!Skipped + i)
    /\ pageListing => Carrier!Skipped + Len(pageItems) = Before
    /\ ~pageListing => \/ Len(pagePdfs) <= Carrier!Skipped + Len(pageItems)
                       \/ Len(pageItems) >= pageLimit

PagesInv == PagesTyped /\ PagesAhead /\ Carrier!NothingMissed /\ PagesSteady

(* The number of PDFs on the skipped pages.                                *)
LEMMA SkippedNat ==
  ASSUME PagesTyped
  PROVE  Carrier!Skipped \in Nat
<1>1. pageFirst - 1 \in Nat /\ pagePageSize \in Nat
  BY DEF PagesTyped
<1>2. (pageFirst - 1) * pagePageSize \in Nat
  BY <1>1
<1> QED
  BY <1>2 DEF Carrier!Skipped

(* The lesser of two numbers.                                              *)
LEMMA CarrierMin ==
  ASSUME NEW a \in Int, NEW b \in Int
  PROVE  Carrier!Min({a, b}) = IF a <= b THEN a ELSE b
<1>1. \E x \in {a, b} : \A y \in {a, b} : x <= y
  OBVIOUS
<1>2. Carrier!Min({a, b}) \in {a, b} /\ \A y \in {a, b} : Carrier!Min({a, b}) <= y
  BY <1>1 DEF Carrier!Min
<1> QED
  BY <1>2

(* The PDFs, newest first.                                                 *)
LEMMA NewestFirst ==
  ASSUME NEW n \in Nat
  PROVE  /\ Carrier!Newest(n) \in Seq(Nat) /\ Len(Carrier!Newest(n)) = n
         /\ \A i \in 1 .. n : Carrier!Newest(n)[i] = n + 1 - i
<1>1. \A i \in 1 .. n : n + 1 - i \in Nat
  OBVIOUS
<1>2. Carrier!Newest(n) = [i \in 1 .. n |-> n + 1 - i]
  BY DEF Carrier!Newest
<1>3. Carrier!Newest(n) \in [1 .. n -> Nat]
  BY <1>1, <1>2
<1>4. Carrier!Newest(n) \in Seq(Nat)
  BY <1>3, SeqDef
<1> QED
  BY <1>2, <1>3, <1>4, LenProperties

(* A part of a list of numbers.                                            *)
LEMMA PartOfNats ==
  ASSUME NEW t, NEW k \in Nat, \A i \in 1 .. k : t[i] \in Nat,
         NEW from \in Nat \ {0}, NEW to \in Nat, from <= to + 1, to <= k
  PROVE  /\ SubSeq(t, from, to) \in Seq(Nat) /\ Len(SubSeq(t, from, to)) = to - from + 1
         /\ \A i \in 1 .. to - from + 1 : SubSeq(t, from, to)[i] = t[from + i - 1]
<1>1. from \in Int /\ to \in Int /\ \A i \in from .. to : t[i] \in Nat
  OBVIOUS
<1>2. /\ SubSeq(t, from, to) \in Seq(Nat)
      /\ Len(SubSeq(t, from, to)) = IF from <= to THEN to - from + 1 ELSE 0
      /\ \A i \in 1 .. to - from + 1 : SubSeq(t, from, to)[i] = t[from + i - 1]
  BY <1>1, SubSeqProperties
<1>3. ~(from <= to) => to - from + 1 = 0
  OBVIOUS
<1> QED
  BY <1>2, <1>3

(* What the current page holds, and when it is the last.                   *)
LEMMA PageFacts ==
  ASSUME PagesTyped
  PROVE  LET n == Len(pagePdfs)
             s == pagePageSize
             here == Carrier!PageItems
         IN
         /\ Before \in Nat /\ here \in Seq(Nat) /\ Len(here) \in Nat
         /\ Len(here) = IF Before + s <= n THEN s ELSE IF Before <= n THEN n - Before ELSE 0
         /\ \A j \in 1 .. Len(here) : here[j] = n + 1 - (Before + j)
         /\ Carrier!LastPage => Before + s >= n
         /\ ~Carrier!LastPage => Before + s <= n
<1> DEFINE n == Len(pagePdfs)
           s == pagePageSize
           m == IF Before + s <= n THEN Before + s ELSE n
           here == Carrier!PageItems
<1>1. /\ n \in Nat /\ pagePdfs = Carrier!Newest(n) /\ s \in Nat \ {0} /\ pagePage \in Nat \ {0}
  BY DEF PagesTyped
<1>2. Before \in Nat /\ pagePage * s = Before + s
  <2>1. pagePage * s = (pagePage - 1 + 1) * s /\ (pagePage - 1 + 1) * s = (pagePage - 1) * s + s
    BY <1>1
  <2>2. (pagePage - 1) * s \in Nat
    BY <1>1
  <2> QED
    BY <2>1, <2>2 DEF Before, PagesBefore
<1>3. here = SubSeq(pagePdfs, Before + 1, m)
  <2>1. Carrier!Min({Before + s, n}) = m
    BY <1>1, <1>2, CarrierMin
  <2> QED
    BY <1>2, <2>1 DEF Carrier!PageItems, Before, PagesBefore
<1>4. /\ pagePdfs \in Seq(Nat) /\ \A i \in 1 .. n : pagePdfs[i] = n + 1 - i
  BY <1>1, NewestFirst
<1> HIDE DEF here, n, s
<1>5. /\ Before + 1 \in Int /\ m \in Nat /\ m <= n
      /\ \A i \in 1 .. n : pagePdfs[i] \in Nat
  BY <1>1, <1>2, <1>4
<1>6. /\ here \in Seq(Nat) /\ Len(here) \in Nat
      /\ Len(here) = IF Before + 1 <= m THEN m - (Before + 1) + 1 ELSE 0
      /\ \A i \in 1 .. m - (Before + 1) + 1 : here[i] = pagePdfs[Before + 1 + i - 1]
  <2> HIDE DEF m
  <2>1. \A i \in Before + 1 .. m : pagePdfs[i] \in Nat
    BY <1>1, <1>2, <1>5
  <2>2. /\ SubSeq(pagePdfs, Before + 1, m) \in Seq(Nat)
        /\ Len(SubSeq(pagePdfs, Before + 1, m)) = IF Before + 1 <= m THEN m - (Before + 1) + 1 ELSE 0
        /\ \A i \in 1 .. m - (Before + 1) + 1 :
             SubSeq(pagePdfs, Before + 1, m)[i] = pagePdfs[Before + 1 + i - 1]
    BY <1>5, <2>1, SubSeqProperties
  <2> QED
    BY <1>3, <2>2, LenProperties
<1>7. Len(here) = IF Before <= m THEN m - Before ELSE 0
  <2> HIDE DEF m
  <2> QED
    BY <1>1, <1>2, <1>5, <1>6
<1>8. ASSUME NEW j \in 1 .. Len(here)
      PROVE  here[j] = n + 1 - (Before + j)
  <2> HIDE DEF m
  <2>1. j \in 1 .. m - (Before + 1) + 1 /\ Before + 1 + j - 1 = Before + j /\ Before + j \in 1 .. n
    BY <1>1, <1>2, <1>5, <1>6, <1>7
  <2>2. here[j] = pagePdfs[Before + j]
    BY <1>6, <2>1
  <2> QED
    BY <1>4, <2>1, <2>2
<1>9. Len(here) = IF Before + s <= n THEN s ELSE IF Before <= n THEN n - Before ELSE 0
  BY <1>1, <1>2, <1>7 DEF m
<1> HIDE DEF m
<1>10. ASSUME pagePage >= Carrier!TotalPages
       PROVE  Before + s >= n
  <2> DEFINE a == n + s - 1
  <2>1. a \in Nat /\ Carrier!TotalPages = a \div s
    BY <1>1 DEF Carrier!TotalPages, n, s
  <2> HIDE DEF a
  <2> DEFINE t == a \div s
  <2>2. t \in Nat /\ a < s * t + s
    BY <1>1, <2>1
  <2> HIDE DEF t
  <2>3. s * t <= s * pagePage
    <3>1. t <= pagePage
      BY <1>10, <2>1 DEF t
    <3> QED
      BY <1>1, <2>2, <3>1
  <2>4. s * pagePage = Before + s /\ s * t \in Nat
    BY <1>1, <1>2, <2>2
  <2>5. n + s - 1 < Before + s + s
    BY <1>1, <1>2, <2>2, <2>3, <2>4 DEF a
  <2>6. \E e \in Nat : s * t + s = n + s - 1 + 1 + e
    BY <1>1, <2>2, <2>4 DEF a
  <2> QED
    BY <1>1, <1>2, <2>2, <2>3, <2>4, <2>5, <2>6 DEF a
<1>11. Carrier!LastPage => Before + s >= n
  <2>1. Carrier!LastPage <=> here = << >> \/ pagePage >= Carrier!TotalPages \/ Len(here) < s
    BY DEF Carrier!LastPage, here, s
  <2>2. here = << >> => Len(here) = 0
    OBVIOUS
  <2> QED
    BY <1>1, <1>2, <1>9, <1>10, <2>1, <2>2
<1>12. ~Carrier!LastPage => Before + s <= n
  <2>1. ~Carrier!LastPage => ~(Len(here) < s)
    BY DEF Carrier!LastPage, here, s
  <2> QED
    BY <1>1, <1>2, <1>9, <2>1
<1> QED
  BY <1>2, <1>6, <1>8, <1>9, <1>11, <1>12 DEF here, n, s
(* A turn of the loop.                                                     *)
LEMMA FetchPageKeeps ==
  ASSUME PagesInv, Carrier!FetchPage
  PROVE  PagesInv'
<1> DEFINE n == Len(pagePdfs)
           s == pagePageSize
           k == Carrier!Skipped
           here == Carrier!PageItems
           last == Carrier!LastPage
<1>1. /\ PagesTyped /\ pageListing /\ k <= Before /\ Gone(n, pageItems, Before)
      /\ Before <= n \/ pageItems = << >>
      /\ UNCHANGED <<pagePdfs, pageAtStart, pagePageSize, pageLimit, pageFirst>>
      /\ pageItems' = pageItems \o here
      /\ pageListing' = (~last /\ Len(pageItems') < pageLimit)
      /\ pagePage' = IF last THEN pagePage ELSE pagePage + 1
  BY DEF PagesInv, PagesAhead, Carrier!FetchPage, Carrier!NextPage
<1>2. /\ n \in Nat /\ s \in Nat \ {0} /\ pageLimit \in Nat \ {0} /\ pagePage \in Nat \ {0} /\ pageItems \in Seq(Nat)
      /\ pageAtStart \in Nat /\ pageAtStart <= n /\ Len(pageItems) \in Nat
      /\ k \in Nat /\ k' = k /\ (Before <= n \/ Len(pageItems) = 0)
  <2>1. k \in Nat
    BY <1>1, SkippedNat
  <2>2. k' = k
    BY <1>1 DEF Carrier!Skipped
  <2> QED
    BY <1>1, <2>1, <2>2, LenProperties DEF PagesTyped
<1>3. /\ Before \in Nat /\ here \in Seq(Nat) /\ Len(here) \in Nat
      /\ Len(here) = IF Before + s <= n THEN s ELSE IF Before <= n THEN n - Before ELSE 0
      /\ \A j \in 1 .. Len(here) : here[j] = n + 1 - (Before + j)
      /\ last => Before + s >= n
      /\ ~last => Before + s <= n
  BY <1>1, PageFacts
<1>4. Before' = IF last THEN Before ELSE Before + s
  <2>1. CASE last
    BY <1>1, <2>1 DEF Before
  <2>2. CASE ~last
    <3>1. Before' = PagesBefore(pagePage + 1, s) /\ Before = PagesBefore(pagePage, s)
      BY <1>1, <2>2 DEF Before
    <3>2. PagesBefore(pagePage + 1, s) = PagesBefore(pagePage, s) + s
      BY <1>2 DEF PagesBefore
    <3> QED
      BY <2>2, <3>1, <3>2
  <2> QED
    BY <2>1, <2>2
<1>5. last \in BOOLEAN
  BY DEF Carrier!LastPage
<1> HIDE DEF n, s, here, last, k
<1>6. /\ pageItems' \in Seq(Nat) /\ Len(pageItems') = Len(pageItems) + Len(here)
      /\ DOMAIN pageItems' = 1 .. Len(pageItems) + Len(here)
      /\ DOMAIN pageItems = 1 .. Len(pageItems)
      /\ \A i \in 1 .. Len(pageItems) + Len(here) :
           pageItems'[i] = IF i <= Len(pageItems) THEN pageItems[i] ELSE here[i - Len(pageItems)]
  <2>1. /\ pageItems' \in Seq(Nat) /\ Len(pageItems') = Len(pageItems) + Len(here)
        /\ \A i \in 1 .. Len(pageItems) + Len(here) :
             pageItems'[i] = IF i <= Len(pageItems) THEN pageItems[i] ELSE here[i - Len(pageItems)]
    <3>1. pageItems \in Seq(Nat) /\ here \in Seq(Nat) /\ pageItems' = pageItems \o here
      BY <1>1, <1>2, <1>3
    <3> QED
      BY <3>1, ConcatProperties
  <2>2. DOMAIN pageItems = 1 .. Len(pageItems) /\ DOMAIN pageItems' = 1 .. Len(pageItems')
    BY <1>2, <2>1, LenProperties
  <2> QED
    BY <2>1, <2>2
<1>7. PagesTyped'
  BY <1>1, <1>2, <1>5, <1>6 DEF PagesTyped
<1>8. Gone(n, pageItems', Before + s)
  <2> SUFFICES ASSUME NEW v \in 1 .. pageAtStart - k, v >= n + 1 - (Before + s)
               PROVE  v \in Carrier!Range(pageItems')
    BY DEF Gone, k
  <2>1. \A i \in DOMAIN pageItems' : pageItems'[i] \in Carrier!Range(pageItems')
    BY DEF Carrier!Range
  <2>2. CASE v >= n + 1 - Before
    <3>1. v \in Carrier!Range(pageItems)
      BY <1>1, <2>2 DEF Gone, k
    <3>2. PICK i \in DOMAIN pageItems : pageItems[i] = v
      BY <3>1 DEF Carrier!Range
    <3>3. i \in 1 .. Len(pageItems) + Len(here) /\ i <= Len(pageItems)
      <4>1. i \in 1 .. Len(pageItems)
        BY <1>6, <3>2
      <4>2. Len(pageItems) \in Nat /\ Len(here) \in Nat
        BY <1>2, <1>3, LenProperties
      <4> QED
        BY <4>1, <4>2
    <3>4. i \in DOMAIN pageItems' /\ pageItems'[i] = v
      BY <1>6, <3>2, <3>3
    <3> QED
      BY <2>1, <3>4
  <2>3. CASE ~(v >= n + 1 - Before)
    <3> DEFINE j == n + 1 - v - Before
               i == Len(pageItems) + j
    <3>1. j \in 1 .. Len(here)
      BY <1>1, <1>2, <1>3, <2>3
    <3>2. here[j] = v
      <4>1. here[j] = n + 1 - (Before + j)
        BY <1>3, <3>1
      <4> QED
        BY <1>2, <1>3, <4>1
    <3> HIDE DEF j
    <3>3. i \in DOMAIN pageItems' /\ pageItems'[i] = here[j]
      <4>1. i \in 1 .. Len(pageItems) + Len(here) /\ ~(i <= Len(pageItems)) /\ i - Len(pageItems) = j
        BY <1>2, <1>3, <3>1
      <4> QED
        BY <1>6, <4>1
    <3> QED
      BY <2>1, <3>2, <3>3
  <2> QED
    BY <2>2, <2>3
<1>9. pageListing' => k <= Before' /\ Before' <= n /\ Gone(n, pageItems', Before')
  <2>1. pageListing' => ~last
    BY <1>1
  <2>2. ~last => Before' = Before + s /\ Before + s <= n
    BY <1>3, <1>4
  <2>3. k <= Before + s
    BY <1>1, <1>2, <1>3
  <2> QED
    BY <1>8, <2>1, <2>2, <2>3
<1>10. Carrier!NothingMissed'
  <2> SUFFICES ASSUME ~pageListing', Len(pageItems') < pageLimit, NEW v \in 1 .. pageAtStart - k
               PROVE  v \in Carrier!Range(pageItems')
    BY <1>1, <1>2 DEF Carrier!NothingMissed, k
  <2>1. last
    BY <1>1
  <2>2. v >= n + 1 - (Before + s)
    BY <1>2, <1>3, <2>1
  <2> QED
    BY <1>8, <2>2 DEF Gone, k
<1>11. ASSUME n = pageAtStart
       PROVE  /\ Len(pageItems') = 0 \/ k + Len(pageItems') <= n
              /\ \A i \in 1 .. Len(pageItems') : pageItems'[i] = n + 1 - (k + i)
              /\ pageListing' => k + Len(pageItems') = Before'
              /\ ~pageListing' => n <= k + Len(pageItems') \/ Len(pageItems') >= pageLimit
  <2>1. /\ k + Len(pageItems) = Before
        /\ Len(pageItems) = 0 \/ k + Len(pageItems) <= n
        /\ \A i \in 1 .. Len(pageItems) : pageItems[i] = n + 1 - (k + i)
    BY <1>1, <1>11 DEF PagesInv, PagesSteady, n, k
  <2> DEFINE p == Len(pageItems)
             h == Len(here)
  <2>9. /\ n \in Nat /\ s \in Nat \ {0} /\ k \in Nat /\ p \in Nat /\ h \in Nat /\ Before \in Nat
        /\ Len(pageItems') = p + h /\ k + p = Before /\ (p = 0 \/ k + p <= n)
        /\ h = IF Before + s <= n THEN s ELSE IF Before <= n THEN n - Before ELSE 0
        /\ Before <= n \/ p = 0
        /\ last => Before + s >= n
        /\ ~last => Before + s <= n
    BY <1>2, <1>3, <1>6, <2>1
  <2>2. ASSUME NEW i \in 1 .. Len(pageItems')
        PROVE  pageItems'[i] = n + 1 - (k + i)
    <3>1. CASE i <= Len(pageItems)
      BY <1>2, <1>6, <2>1, <3>1
    <3>2. CASE ~(i <= Len(pageItems))
      <4> DEFINE j == i - Len(pageItems)
      <4>1. j \in 1 .. Len(here) /\ Before + j = k + i
        <5> HIDE DEF p, h
        <5>1. i \in 1 .. p + h /\ ~(i <= p)
          BY <2>9, <3>2 DEF p
        <5>2. i - p \in 1 .. h /\ Before + (i - p) = k + i
          BY <2>9, <5>1
        <5> QED
          BY <5>2 DEF p, h
      <4>2. pageItems'[i] = here[j]
        BY <1>6, <3>2
      <4> HIDE DEF j
      <4> QED
        BY <1>3, <4>1, <4>2
    <3> QED
      BY <3>1, <3>2
  <2> HIDE DEF p, h
  <2>3. Len(pageItems') = 0 \/ k + Len(pageItems') <= n
    BY <2>9
  <2>4. last => n <= k + Len(pageItems')
    BY <2>9
  <2>5. ~last => k + Len(pageItems') = Before + s
    BY <2>9
  <2>6. Len(pageItems') \in Nat
    BY <1>2, <1>3, <1>6
  <2>7. pageListing' => k + Len(pageItems') = Before'
    BY <1>1, <1>4, <2>5
  <2>8. ~pageListing' => n <= k + Len(pageItems') \/ Len(pageItems') >= pageLimit
    <3>1. ~(Len(pageItems') < pageLimit) => Len(pageItems') >= pageLimit
      BY <1>2, <2>6
    <3> QED
      BY <1>1, <2>4, <3>1
  <2> QED
    BY <2>2, <2>3, <2>7, <2>8
<1>12. PagesAhead'
  <2>1. Gone(n, pageItems', Before') => (Gone(Len(pagePdfs), pageItems, Before))'
    BY <1>1, <1>2 DEF Gone, n, k
  <2> QED
    BY <1>1, <1>2, <1>9, <2>1 DEF PagesAhead, n, k
<1>13. PagesSteady'
  BY <1>1, <1>2, <1>11 DEF PagesSteady, n, k
<1> QED
  BY <1>7, <1>10, <1>12, <1>13 DEF PagesInv

(* A PDF that is added pushes the others back.                             *)
LEMMA NewPdfKeeps ==
  ASSUME PagesInv, Carrier!NewPdf
  PROVE  PagesInv'
<1> DEFINE n == Len(pagePdfs)
<1>1. /\ pagePdfs' = Carrier!Newest(n + 1)
      /\ UNCHANGED <<pageAtStart, pagePageSize, pageLimit, pageFirst, pagePage, pageItems, pageListing>>
      /\ n \in Nat /\ pageAtStart \in Nat /\ pageAtStart <= n
  BY DEF Carrier!NewPdf, PagesInv, PagesTyped
<1>2. Len(pagePdfs') = n + 1
  BY <1>1, NewestFirst
<1>3. PagesTyped' /\ Before' = Before /\ Carrier!Skipped' = Carrier!Skipped /\ n + 1 # pageAtStart
  BY <1>1, <1>2 DEF PagesInv, PagesTyped, Before, Carrier!Skipped
<1>4. Carrier!NothingMissed'
  BY <1>1, <1>3 DEF PagesInv, Carrier!NothingMissed, Carrier!Range
<1>5. pageListing => /\ Carrier!Skipped <= Before
                     /\ Before <= n + 1 \/ pageItems = << >>
                     /\ Gone(n + 1, pageItems, Before)
  <2> SUFFICES ASSUME pageListing
               PROVE  /\ Carrier!Skipped <= Before
                      /\ Before <= n + 1 \/ pageItems = << >>
                      /\ Gone(n + 1, pageItems, Before)
    OBVIOUS
  <2>1. /\ Carrier!Skipped <= Before /\ Gone(n, pageItems, Before)
        /\ Before <= n \/ pageItems = << >>
    BY DEF PagesInv, PagesAhead
  <2>2. Before \in Nat /\ Carrier!Skipped \in Nat
    BY PageFacts, SkippedNat DEF PagesInv
  <2> HIDE DEF n
  <2> QED
    BY <1>1, <2>1, <2>2 DEF Gone
<1>6. pageListing' => /\ Carrier!Skipped' <= Before'
                      /\ Before' <= Len(pagePdfs') \/ pageItems' = << >>
                      /\ Gone(Len(pagePdfs'), pageItems', Before')
  BY <1>1, <1>2, <1>3, <1>5
<1>7. PagesAhead'
  BY <1>1, <1>3, <1>6 DEF PagesAhead, Gone
<1>8. PagesSteady'
  BY <1>1, <1>2, <1>3 DEF PagesSteady
<1> QED
  BY <1>3, <1>4, <1>7, <1>8 DEF PagesInv

(* The invariant of the loop over the pages.                               *)
LEMMA PagesInvHolds ==
  /\ Carrier!PagesInit => PagesInv
  /\ PagesInv /\ Carrier!PagesNext => PagesInv'
  /\ PagesInv /\ UNCHANGED Carrier!pagesVars => PagesInv'
<1>1. ASSUME Carrier!PagesInit
      PROVE  PagesInv
  <2>1. PICK n \in 0 .. MaxPdfs : pagePdfs = Carrier!Newest(n)
    BY <1>1 DEF Carrier!PagesInit
  <2>2. n \in Nat
    BY CarrierAssumption DEF Carrier!CarrierAssumption
  <2>3. Len(pagePdfs) = n
    BY <2>1, <2>2, NewestFirst
  <2>4. /\ pageAtStart = n /\ pagePage = pageFirst /\ pageItems = << >> /\ pageListing = TRUE
        /\ pagePageSize \in Nat \ {0} /\ pageLimit \in Nat \ {0} /\ pageFirst \in Nat \ {0}
    BY <1>1, <2>3, CarrierAssumption DEF Carrier!PagesInit, Carrier!CarrierAssumption
  <2>5. << >> \in Seq(Nat) /\ Len(<< >>) = 0
    OBVIOUS
  <2>6. PagesTyped
    BY <2>1, <2>2, <2>3, <2>4, <2>5 DEF PagesTyped
  <2>7. Before = Carrier!Skipped /\ Carrier!Skipped \in Nat
    <3>1. Before = Carrier!Skipped
      BY <2>4 DEF Before, PagesBefore, Carrier!Skipped
    <3> QED
      BY <2>6, <3>1, SkippedNat
  <2>8. Gone(n, pageItems, Before)
    BY <2>2, <2>4, <2>7 DEF Gone
  <2>9. Carrier!NothingMissed
    BY <2>4 DEF Carrier!NothingMissed
  <2> QED
    BY <2>2, <2>3, <2>4, <2>5, <2>6, <2>7, <2>8, <2>9 DEF PagesInv, PagesAhead, PagesSteady
<1>2. ASSUME PagesInv, UNCHANGED Carrier!pagesVars
      PROVE  PagesInv'
  BY <1>2 DEF PagesInv, PagesAhead, PagesSteady, PagesTyped, Before, Gone, Carrier!Skipped, Carrier!NothingMissed, Carrier!pagesVars
<1> QED
  BY <1>1, <1>2, FetchPageKeeps, NewPdfKeeps DEF Carrier!PagesNext

(* What the run has gone through.                                          *)
LEMMA PagesInvGives ==
  ASSUME PagesInv
  PROVE  Carrier!NothingMissed /\ Carrier!NewestOnce
<1>1. Carrier!NothingMissed
  BY DEF PagesInv
<1>2. Carrier!NewestOnce
  <2> DEFINE n == Len(pagePdfs)
             k == Carrier!Skipped
             p == Len(pageItems)
             m == IF pageLimit <= p THEN pageLimit ELSE p
             to == IF k + pageLimit <= n THEN k + pageLimit ELSE n
             a == SubSeq(pageItems, 1, m)
             b == SubSeq(pagePdfs, k + 1, to)
  <2> SUFFICES ASSUME ~pageListing, n = pageAtStart
               PROVE  SubSeq(pageItems, 1, Carrier!Min({pageLimit, p}))
                        = SubSeq(pagePdfs, k + 1, Carrier!Min({k + pageLimit, n}))
    BY DEF Carrier!NewestOnce, Carrier!LimitedPdfItems
  <2>1. /\ n \in Nat /\ pagePdfs = Carrier!Newest(n) /\ pageLimit \in Nat \ {0} /\ pageItems \in Seq(Nat)
        /\ p \in Nat /\ k \in Nat /\ (p = 0 \/ k + p <= n)
        /\ \A i \in 1 .. p : pageItems[i] = n + 1 - (k + i)
        /\ n <= k + p \/ p >= pageLimit
    BY SkippedNat, LenProperties DEF PagesInv, PagesSteady, PagesTyped
  <2>2. /\ pagePdfs \in Seq(Nat) /\ \A i \in 1 .. n : pagePdfs[i] = n + 1 - i
        /\ \A i \in 1 .. n : pagePdfs[i] \in Nat
    <3>1. pagePdfs \in Seq(Nat) /\ \A i \in 1 .. n : pagePdfs[i] = n + 1 - i
      BY <2>1, NewestFirst
    <3> HIDE DEF n
    <3>2. \A i \in 1 .. n : n + 1 - i \in Nat
      BY <2>1
    <3> QED
      BY <3>1, <3>2
  <2> HIDE DEF n, k, p
  <2>3. \A i \in 1 .. p : pageItems[i] \in Nat
    BY <2>1, LenProperties DEF p
  <2>4. Carrier!Min({pageLimit, p}) = m /\ Carrier!Min({k + pageLimit, n}) = to
    <3>1. pageLimit \in Int /\ p \in Int /\ k + pageLimit \in Int /\ n \in Int
      BY <2>1
    <3>2. Carrier!Min({pageLimit, p}) = m
      BY <3>1, CarrierMin, Zenon DEF m
    <3>3. Carrier!Min({k + pageLimit, n}) = to
      BY <3>1, CarrierMin, Zenon DEF to
    <3> QED
      BY <3>2, <3>3
  <2>5. /\ m \in Nat /\ m <= p /\ to \in Nat /\ to <= n
        /\ m = 0 => to <= k
        /\ m # 0 => to = k + m
    BY <2>1
  <2> HIDE DEF m, to
  <2>6. /\ a \in Seq(Nat) /\ Len(a) = m /\ \A i \in 1 .. m : a[i] = pageItems[i]
    <3>1. 1 \in Nat \ {0} /\ 1 <= m + 1 /\ m - 1 + 1 = m /\ \A i \in 1 .. m : 1 + i - 1 = i
      BY <2>5
    <3>2. /\ a \in Seq(Nat) /\ Len(a) = m - 1 + 1
          /\ \A i \in 1 .. m - 1 + 1 : a[i] = pageItems[1 + i - 1]
      BY <2>1, <2>3, <2>5, <3>1, PartOfNats
    <3> HIDE DEF a
    <3> QED
      BY <3>1, <3>2
  <2>7. /\ b \in Seq(Nat) /\ Len(b) = m /\ \A i \in 1 .. m : b[i] = pagePdfs[k + i]
    <3>1. /\ b \in Seq(Nat) /\ Len(b) = IF k + 1 <= to THEN to - (k + 1) + 1 ELSE 0
          /\ \A i \in 1 .. to - (k + 1) + 1 : b[i] = pagePdfs[k + 1 + i - 1]
      <4>1. k + 1 \in Int /\ to \in Int /\ \A i \in k + 1 .. to : pagePdfs[i] \in Nat
        BY <2>1, <2>2, <2>5
      <4> QED
        BY <4>1, SubSeqProperties
    <3> HIDE DEF b
    <3>2. CASE m = 0
      BY <2>1, <2>5, <3>1, <3>2
    <3>3. CASE m # 0
      <4>1. k + 1 <= to /\ to - (k + 1) + 1 = m /\ \A i \in 1 .. m : k + 1 + i - 1 = k + i
        BY <2>1, <2>5, <3>3
      <4> QED
        BY <3>1, <4>1
    <3> QED
      BY <3>2, <3>3
  <2> HIDE DEF a, b
  <2>8. \A i \in 1 .. Len(a) : a[i] = b[i]
    <3> TAKE i \in 1 .. Len(a)
    <3>1. i \in 1 .. m /\ i \in 1 .. p /\ k + i \in 1 .. n
      BY <2>1, <2>5, <2>6
    <3>2. a[i] = pageItems[i] /\ b[i] = pagePdfs[k + i]
      BY <2>6, <2>7, <3>1
    <3> QED
      BY <2>1, <2>2, <3>1, <3>2
  <2>9. a = b
    BY <2>6, <2>7, <2>8, SeqEqual
  <2> QED
    BY <2>4, <2>9 DEF a, b
<1> QED
  BY <1>1, <1>2

-----------------------------------------------------------------------------
\* A call has told of an upload, or is about to, only if the carrier has the
\* PDF.
UploadInv ==
  /\ uploadPress \in [Calls -> Upload!Press]
  /\ uploadArrived \in [Two -> Nat]
  /\ \A w \in Calls :
       uploadPress[w].pc = "uploaded" \/ uploadPress[w].told = "uploaded" =>
         uploadArrived[uploadPress[w].pdf] > 0

(* A call moves on, and no PDF leaves the carrier.                         *)
LEMMA UploadMoves ==
  ASSUME UploadInv, NEW w \in Calls, NEW z \in Upload!Press,
         uploadPress' = [uploadPress EXCEPT ![w] = z],
         uploadArrived' \in [Two -> Nat], \A p \in Two : uploadArrived'[p] >= uploadArrived[p],
         z.pc = "uploaded" \/ z.told = "uploaded" => uploadArrived'[z.pdf] > 0
  PROVE  UploadInv'
<1>1. uploadPress' \in [Calls -> Upload!Press] /\ \A v \in Calls : uploadPress'[v] = z \/ uploadPress'[v] = uploadPress[v]
  BY DEF UploadInv
<1>2. ASSUME NEW v \in Calls, uploadPress'[v].pc = "uploaded" \/ uploadPress'[v].told = "uploaded"
      PROVE  uploadArrived'[uploadPress'[v].pdf] > 0
  <2>1. CASE uploadPress'[v] = z
    BY <1>2, <2>1
  <2>2. CASE uploadPress'[v] = uploadPress[v]
    <3> DEFINE p == uploadPress[v].pdf
    <3>1. p \in Two
      BY DEF UploadInv, Upload!Press
    <3>2. uploadArrived[p] > 0
      BY <1>2, <2>2 DEF UploadInv
    <3>3. uploadArrived[p] \in Nat /\ uploadArrived'[p] \in Nat /\ uploadArrived'[p] >= uploadArrived[p]
      BY <3>1 DEF UploadInv
    <3> HIDE DEF p
    <3>4. uploadArrived'[p] > 0
      BY <3>2, <3>3
    <3> QED
      BY <2>2, <3>4 DEF p
  <2> QED
    BY <1>1, <2>1, <2>2
<1> QED
  BY <1>1, <1>2 DEF UploadInv

(* The steps of a call.                                                    *)
LEMMA UploadHandles ==
  ASSUME UploadInv, NEW w \in Calls,
         \/ Upload!TellCancelled(w) \/ Upload!UploadPdf(w) \/ Upload!TellUploaded(w) \/ Upload!TellFailed(w)
         \/ \E p \in Two, yes \in BOOLEAN : Upload!PressButton(w, p, yes)
  PROVE  UploadInv'
<1> DEFINE q == uploadPress[w]
           At(pc) == [q EXCEPT !.pc = pc]
           Told(pc, told) == [q EXCEPT !.pc = pc, !.told = told]
<1>1. /\ q \in Upload!Press /\ q.pdf \in Two /\ uploadArrived \in [Two -> Nat] /\ uploadArrived[q.pdf] \in Nat
      /\ (q.pc = "uploaded" \/ q.told = "uploaded" => uploadArrived[q.pdf] > 0)
  BY DEF UploadInv, Upload!Press
<1>2. \A p \in Two : uploadArrived[p] >= uploadArrived[p]
  BY <1>1
<1>3. ASSUME NEW pc \in {"upload", "uploaded", "cancel", "fail", "done"}
      PROVE  At(pc) \in Upload!Press /\ At(pc).pc = pc /\ At(pc).pdf = q.pdf /\ At(pc).told = q.told
  BY <1>1 DEF Upload!Press
<1>4. ASSUME NEW told \in Upload!Answers
      PROVE  /\ Told("done", told) \in Upload!Press /\ Told("done", told).pc = "done"
             /\ Told("done", told).pdf = q.pdf /\ Told("done", told).told = told
  BY <1>1 DEF Upload!Press
<1>5. /\ \A pc : Upload!Go(w, pc) => uploadPress' = [uploadPress EXCEPT ![w] = At(pc)]
      /\ \A pc, told : Upload!Say(w, pc, told) => uploadPress' = [uploadPress EXCEPT ![w] = Told(pc, told)]
  BY DEF Upload!Go, Upload!Say, UploadInv
<1> HIDE DEF At, Told
<1>6. \A told \in {"none", "uploaded", "failed", "cancelled", "expired"} : told \in Upload!Answers
  BY DEF Upload!Answers
<1>7. ASSUME UNCHANGED uploadArrived, Upload!Go(w, "done") \/ Upload!Go(w, "fail")
      PROVE  UploadInv'
  <2>1. PICK pc \in {"done", "fail"} : Upload!Go(w, pc)
    BY <1>7
  <2> DEFINE z == At(pc)
  <2>2. /\ z \in Upload!Press /\ z.pc = pc /\ z.pdf = q.pdf /\ z.told = q.told
        /\ uploadPress' = [uploadPress EXCEPT ![w] = z]
    BY <1>3, <1>5, <2>1
  <2> HIDE DEF z
  <2>3. z.pc = "uploaded" \/ z.told = "uploaded" => uploadArrived'[z.pdf] > 0
    BY <1>1, <1>7, <2>2
  <2> QED
    BY <1>1, <1>2, <1>7, <2>2, <2>3, UploadMoves
<1>8. ASSUME UNCHANGED uploadArrived, NEW told \in Upload!Answers, Upload!Say(w, "done", told),
             told = "uploaded" => q.pc = "uploaded"
      PROVE  UploadInv'
  <2> DEFINE z == Told("done", told)
  <2>1. /\ z \in Upload!Press /\ z.pc = "done" /\ z.pdf = q.pdf /\ z.told = told
        /\ uploadPress' = [uploadPress EXCEPT ![w] = z]
    BY <1>4, <1>5, <1>8
  <2> HIDE DEF z
  <2>2. z.pc = "uploaded" \/ z.told = "uploaded" => uploadArrived'[z.pdf] > 0
    BY <1>1, <1>8, <2>1
  <2> QED
    BY <1>1, <1>2, <1>8, <2>1, <2>2, UploadMoves
<1>9. CASE Upload!TellCancelled(w)
  BY <1>6, <1>7, <1>8, <1>9 DEF Upload!TellCancelled
<1>10. CASE Upload!TellUploaded(w)
  BY <1>6, <1>7, <1>8, <1>10 DEF Upload!TellUploaded
<1>11. CASE Upload!TellFailed(w)
  BY <1>6, <1>7, <1>8, <1>11 DEF Upload!TellFailed
<1>12. CASE Upload!UploadPdf(w)
  <2>1. CASE Upload!Go(w, "fail") /\ UNCHANGED uploadArrived
    BY <1>7, <2>1
  <2>2. ASSUME uploadArrived' = [uploadArrived EXCEPT ![q.pdf] = @ + 1],
               Upload!Go(w, "uploaded") \/ Upload!Go(w, "fail")
        PROVE  UploadInv'
    <3>1. PICK pc \in {"uploaded", "fail"} : Upload!Go(w, pc)
      BY <2>2
    <3> DEFINE z == At(pc)
    <3>2. /\ z \in Upload!Press /\ z.pdf = q.pdf
          /\ uploadPress' = [uploadPress EXCEPT ![w] = z]
      BY <1>3, <1>5, <3>1
    <3> HIDE DEF z
    <3>3. /\ uploadArrived' \in [Two -> Nat] /\ \A p \in Two : uploadArrived'[p] >= uploadArrived[p]
          /\ uploadArrived'[q.pdf] > 0
      BY <1>1, <2>2
    <3> QED
      BY <1>1, <3>2, <3>3, UploadMoves
  <2> QED
    BY <1>12, <2>1, <2>2 DEF Upload!UploadPdf
<1>13. ASSUME NEW p \in Two, NEW yes \in BOOLEAN, Upload!PressButton(w, p, yes)
       PROVE  UploadInv'
  <2> DEFINE pc == IF p \notin uploadPending THEN "done" ELSE IF yes THEN "upload" ELSE "cancel"
             z == [pc |-> pc, pdf |-> p, yes |-> yes, told |-> IF pc = "done" THEN "expired" ELSE "none"]
  <2>1. uploadPress' = [uploadPress EXCEPT ![w] = z] /\ UNCHANGED uploadArrived
    BY <1>13 DEF Upload!PressButton
  <2>2. z \in Upload!Press /\ z.pc # "uploaded" /\ z.told # "uploaded"
    BY DEF Upload!Press, Upload!Answers
  <2> HIDE DEF z
  <2> QED
    BY <1>1, <1>2, <2>1, <2>2, UploadMoves
<1> QED
  BY <1>9, <1>10, <1>11, <1>12, <1>13

(* The invariant of the webhook.                                           *)
LEMMA UploadInvHolds ==
  /\ Upload!Init => UploadInv
  /\ UploadInv /\ Upload!Next => UploadInv'
  /\ UploadInv /\ UNCHANGED <<uploadPress, uploadArrived>> => UploadInv'
<1>1. ASSUME Upload!Init
      PROVE  UploadInv
  <2>1. PICK p \in Two : uploadPress = [w \in Calls |-> [pc |-> "idle", pdf |-> p, yes |-> FALSE, told |-> "none"]]
    BY <1>1 DEF Upload!Init
  <2>2. uploadArrived = [r \in Two |-> 0]
    BY <1>1 DEF Upload!Init
  <2> QED
    BY <2>1, <2>2 DEF UploadInv, Upload!Press, Upload!Answers
<1>2. ASSUME UploadInv, UNCHANGED <<uploadPress, uploadArrived>>
      PROVE  UploadInv'
  BY <1>2 DEF UploadInv
<1>3. ASSUME UploadInv, Upload!Crash
      PROVE  UploadInv'
  <2>1. /\ uploadPress' = [w \in Calls |-> IF w \in Upload!Running THEN [uploadPress[w] EXCEPT !.pc = "done"]
                                             ELSE uploadPress[w]]
        /\ UNCHANGED uploadArrived
    BY <1>3 DEF Upload!Crash
  <2>2. ASSUME NEW w \in Calls
        PROVE  /\ uploadPress'[w] \in Upload!Press
               /\ uploadPress'[w].pdf = uploadPress[w].pdf /\ uploadPress'[w].told = uploadPress[w].told
               /\ uploadPress'[w].pc \in {"done", uploadPress[w].pc}
    <3>1. uploadPress[w] \in Upload!Press
      BY <1>3 DEF UploadInv
    <3>2. uploadPress'[w] = [uploadPress[w] EXCEPT !.pc = "done"] \/ uploadPress'[w] = uploadPress[w]
      BY <2>1
    <3> QED
      BY <3>1, <3>2 DEF Upload!Press
  <2> QED
    BY <1>3, <2>1, <2>2 DEF UploadInv
<1>4. ASSUME UploadInv, Upload!Next
      PROVE  UploadInv'
  <2>1. CASE Upload!Sending \/ \E p \in Two : Upload!GrowOld(p)
    <3>1. UNCHANGED <<uploadPress, uploadArrived>>
      BY <2>1 DEF Upload!Sending, Upload!Generate, Upload!SendDocument, Upload!Register, Upload!SendPrompt,
                  Upload!GrowOld
    <3> QED
      BY <1>2, <1>4, <3>1
  <2> QED
    BY <1>3, <1>4, <2>1, UploadHandles DEF Upload!Next, Upload!Pressing, Upload!Handling
<1> QED
  BY <1>1, <1>2, <1>4

(* What the chat is told of an upload is so.                               *)
LEMMA UploadInvGives == UploadInv => Upload!ToldUploadedIsUploaded
  BY DEF UploadInv, Upload!ToldUploadedIsUploaded, Upload!Says

-----------------------------------------------------------------------------
\* One call after the other: what the carrier has is no longer pending, but
\* for the call that is about to say so.
UploadAloneInv ==
  /\ uploadPress \in [Calls -> UploadAlone!Press]
  /\ uploadArrived \in [Two -> {0, 1}]
  /\ DOMAIN uploadSend = Two
  /\ \A v, w \in UploadAlone!Running : v = w
  /\ \A p \in uploadPrompted \cap Two : uploadSend[p] = "sent"
  /\ \A p \in Two : uploadArrived[p] = 1 =>
       /\ uploadSend[p] = "sent"
       /\ p \in uploadPending => \E w \in Calls : uploadPress[w].pc = "uploaded" /\ uploadPress[w].pdf = p
  /\ \A w \in Calls : uploadPress[w].pc = "upload" =>
       uploadArrived[uploadPress[w].pdf] = 0 /\ uploadSend[uploadPress[w].pdf] = "sent"

(* A PDF is sent to the chat, with its prompt, before any press of it.     *)
LEMMA UploadAloneSends ==
  ASSUME UploadAloneInv, NEW p \in Two,
         \/ UploadAlone!Generate(p) \/ UploadAlone!SendDocument(p) \/ UploadAlone!Register(p)
         \/ UploadAlone!SendPrompt(p) \/ UploadAlone!GrowOld(p)
  PROVE  UploadAloneInv'
<1>1. CASE UploadAlone!GrowOld(p)
  <2>1. UNCHANGED <<uploadPending, uploadSend, uploadPrompted, uploadPress, uploadArrived>>
    BY <1>1 DEF UploadAlone!GrowOld
  <2>2. UploadAlone!Running' = UploadAlone!Running
    BY <2>1 DEF UploadAlone!Running
  <2> QED
    BY <2>1, <2>2 DEF UploadAloneInv
<1>2. CASE UploadAlone!Generate(p) \/ UploadAlone!SendDocument(p) \/ UploadAlone!Register(p) \/ UploadAlone!SendPrompt(p)
  <2>1. /\ uploadSend[p] \in {"idle", "document", "register", "prompt"}
        /\ \E s : uploadSend' = [uploadSend EXCEPT ![p] = s]
        /\ uploadPending' \subseteq uploadPending \cup {p}
        /\ uploadPrompted' = uploadPrompted
             \/ (uploadPrompted' = uploadPrompted \cup {p} /\ uploadSend' = [uploadSend EXCEPT ![p] = "sent"])
        /\ UNCHANGED <<uploadPress, uploadArrived>>
    BY <1>2 DEF UploadAlone!Generate, UploadAlone!SendDocument, UploadAlone!Register, UploadAlone!SendPrompt
  <2>2. UploadAlone!Running' = UploadAlone!Running
    BY <2>1 DEF UploadAlone!Running
  <2>3. /\ DOMAIN uploadSend' = Two /\ \A r \in Two \ {p} : uploadSend'[r] = uploadSend[r]
        /\ \A r \in Two : uploadArrived[r] = 1 => r # p
        /\ p \notin uploadPrompted
        /\ \A w \in Calls : uploadPress[w].pc = "upload" => uploadPress[w].pdf # p
    BY <2>1 DEF UploadAloneInv
  <2>4. \A r \in uploadPrompted' \cap Two : uploadSend'[r] = "sent"
    BY <2>1, <2>3 DEF UploadAloneInv
  <2>5. \A w \in Calls : uploadPress[w].pdf \in Two
    BY DEF UploadAloneInv, UploadAlone!Press
  <2> QED
    BY <2>1, <2>2, <2>3, <2>4, <2>5 DEF UploadAloneInv
<1> QED
  BY <1>1, <1>2

(* A button is pressed when no other call is under way.                    *)
LEMMA UploadAlonePresses ==
  ASSUME UploadAloneInv, NEW w \in Calls, NEW p \in Two, NEW yes \in BOOLEAN,
         UploadAlone!PressButton(w, p, yes)
  PROVE  UploadAloneInv'
<1> DEFINE pc == IF p \notin uploadPending THEN "done" ELSE IF yes THEN "upload" ELSE "cancel"
           z == [pc |-> pc, pdf |-> p, yes |-> yes, told |-> IF pc = "done" THEN "expired" ELSE "none"]
<1>1. /\ uploadPress' = [uploadPress EXCEPT ![w] = z] /\ uploadPress[w].pc = "idle" /\ p \in uploadPrompted
      /\ uploadPending' \subseteq uploadPending
      /\ UNCHANGED <<uploadSend, uploadPrompted, uploadArrived>>
      /\ UploadAlone!Cardinality(UploadAlone!Running) < 1
  BY DEF UploadAlone!PressButton
<1>2. UploadAlone!Running = {}
  <2> SUFFICES ASSUME NEW d \in UploadAlone!Running
               PROVE  FALSE
    OBVIOUS
  <2>1. UploadAlone!Running = {d}
    BY DEF UploadAloneInv
  <2>2. Cardinality(UploadAlone!Running) = 1
    BY <2>1, FS_Singleton
  <2>3. UploadAlone!Cardinality(UploadAlone!Running) = Cardinality(UploadAlone!Running)
    BY DEF UploadAlone!Cardinality, Cardinality
  <2> QED
    BY <1>1, <2>2, <2>3
<1>3. \A v \in Calls : uploadPress[v].pc \in {"idle", "done"}
  BY <1>2 DEF UploadAlone!Running
<1>4. z \in UploadAlone!Press /\ z.pdf = p /\ z.pc \in {"done", "upload", "cancel"} /\ (z.pc = "upload" => p \in uploadPending)
  BY DEF UploadAlone!Press, UploadAlone!Answers
<1> HIDE DEF z
<1>5. /\ uploadPress' \in [Calls -> UploadAlone!Press] /\ uploadPress'[w] = z
      /\ \A v \in Calls \ {w} : uploadPress'[v] = uploadPress[v]
  BY <1>1, <1>4 DEF UploadAloneInv
<1>6. UploadAlone!Running' \subseteq {w}
  BY <1>3, <1>5 DEF UploadAlone!Running
<1>7. \A r \in Two : uploadArrived[r] = 1 => r \notin uploadPending
  BY <1>3 DEF UploadAloneInv
<1>8. uploadArrived \in [Two -> {0, 1}] /\ DOMAIN uploadSend = Two /\ uploadSend[p] = "sent"
  BY <1>1 DEF UploadAloneInv
<1>9. \A v \in Calls : uploadPress'[v].pc = "upload" =>
        uploadArrived'[uploadPress'[v].pdf] = 0 /\ uploadSend'[uploadPress'[v].pdf] = "sent"
  BY <1>1, <1>3, <1>4, <1>5, <1>7, <1>8
<1> QED
  BY <1>1, <1>5, <1>6, <1>7, <1>8, <1>9 DEF UploadAloneInv

(* The steps of the one call that is under way.                            *)
LEMMA UploadAloneHandles ==
  ASSUME UploadAloneInv, NEW w \in Calls,
         \/ UploadAlone!TellCancelled(w) \/ UploadAlone!UploadPdf(w) \/ UploadAlone!TellUploaded(w)
         \/ UploadAlone!TellFailed(w)
  PROVE  UploadAloneInv'
<1> DEFINE q == uploadPress[w]
           p == q.pdf
<1>1. /\ q \in UploadAlone!Press /\ p \in Two /\ uploadArrived[p] \in {0, 1}
      /\ uploadArrived \in [Two -> {0, 1}] /\ DOMAIN uploadSend = Two
  BY DEF UploadAloneInv, UploadAlone!Press
<1>2. q.pc \in {"cancel", "upload", "uploaded", "fail"} /\ UNCHANGED <<uploadSend, uploadPrompted>>
  BY DEF UploadAlone!TellCancelled, UploadAlone!UploadPdf, UploadAlone!TellUploaded, UploadAlone!TellFailed
<1>3. \A v \in Calls \ {w} : uploadPress[v].pc \in {"idle", "done"}
  BY <1>2 DEF UploadAloneInv, UploadAlone!Running
<1>4. ASSUME NEW z \in UploadAlone!Press, z.pdf = p, uploadPress' = [uploadPress EXCEPT ![w] = z]
      PROVE  /\ uploadPress' \in [Calls -> UploadAlone!Press] /\ uploadPress'[w] = z
             /\ \A v \in Calls \ {w} : uploadPress'[v] = uploadPress[v]
             /\ UploadAlone!Running' \subseteq {w}
             /\ \A v \in Calls : uploadPress'[v].pc = "upload" => v = w
  <2>1. /\ uploadPress' \in [Calls -> UploadAlone!Press] /\ uploadPress'[w] = z
        /\ \A v \in Calls \ {w} : uploadPress'[v] = uploadPress[v]
    BY <1>4 DEF UploadAloneInv
  <2> QED
    BY <1>3, <2>1 DEF UploadAlone!Running
<1>5. ASSUME NEW z \in UploadAlone!Press, z.pdf = p, z.pc \in {"done", "fail"},
             uploadPress' = [uploadPress EXCEPT ![w] = z], UNCHANGED uploadArrived,
             uploadPending' \subseteq uploadPending, q.pc = "uploaded" => p \notin uploadPending'
      PROVE  UploadAloneInv'
  <2>1. \A r \in Two : uploadArrived[r] = 1 /\ r \in uploadPending' =>
          \E v \in Calls : uploadPress'[v].pc = "uploaded" /\ uploadPress'[v].pdf = r
    <3> SUFFICES ASSUME NEW r \in Two, uploadArrived[r] = 1, r \in uploadPending'
                 PROVE  FALSE
      OBVIOUS
    <3>1. PICK v \in Calls : uploadPress[v].pc = "uploaded" /\ uploadPress[v].pdf = r
      BY <1>5 DEF UploadAloneInv
    <3>2. v = w
      BY <1>3, <3>1
    <3> QED
      BY <1>5, <3>1, <3>2
  <2>2. /\ uploadPress' \in [Calls -> UploadAlone!Press] /\ UploadAlone!Running' \subseteq {w}
        /\ \A v \in Calls : uploadPress'[v].pc # "upload"
    BY <1>4, <1>5
  <2>3. \A r \in uploadPrompted' \cap Two : uploadSend'[r] = "sent"
    BY <1>2 DEF UploadAloneInv
  <2>4. \A r \in Two : uploadArrived[r] = 1 => uploadSend[r] = "sent"
    BY DEF UploadAloneInv
  <2> QED
    BY <1>1, <1>2, <1>5, <2>1, <2>2, <2>3, <2>4 DEF UploadAloneInv
<1>6. ASSUME NEW s \in {"done", "fail"}, UploadAlone!Go(w, s), UNCHANGED uploadArrived,
             uploadPending' \subseteq uploadPending, q.pc = "uploaded" => p \notin uploadPending'
      PROVE  UploadAloneInv'
  <2> DEFINE z == [q EXCEPT !.pc = s]
  <2>1. z \in UploadAlone!Press /\ z.pdf = p /\ z.pc = s /\ uploadPress' = [uploadPress EXCEPT ![w] = z]
    BY <1>1, <1>6 DEF UploadAlone!Press, UploadAlone!Go, UploadAloneInv
  <2> HIDE DEF z
  <2> QED
    BY <1>5, <1>6, <2>1
<1>7. ASSUME NEW told \in UploadAlone!Answers, UploadAlone!Say(w, "done", told), UNCHANGED uploadArrived,
             uploadPending' \subseteq uploadPending, q.pc = "uploaded" => p \notin uploadPending'
      PROVE  UploadAloneInv'
  <2> DEFINE z == [q EXCEPT !.pc = "done", !.told = told]
  <2>1. uploadPress' = [uploadPress EXCEPT ![w] = z]
    BY <1>7 DEF UploadAlone!Say, UploadAloneInv
  <2>2. z \in UploadAlone!Press /\ z.pdf = p /\ z.pc = "done"
    BY <1>1, <1>7 DEF UploadAlone!Press
  <2> HIDE DEF z
  <2> QED
    BY <1>5, <1>7, <2>1, <2>2
<1>8. \A told \in {"none", "uploaded", "failed", "cancelled", "expired"} : told \in UploadAlone!Answers
  BY DEF UploadAlone!Answers
<1>9. CASE UploadAlone!TellCancelled(w)
  BY <1>6, <1>7, <1>8, <1>9 DEF UploadAlone!TellCancelled
<1>10. CASE UploadAlone!TellUploaded(w)
  <2>1. uploadPending' = uploadPending \ {p} /\ UNCHANGED uploadArrived
    BY <1>10 DEF UploadAlone!TellUploaded
  <2> QED
    BY <1>6, <1>7, <1>8, <1>10, <2>1 DEF UploadAlone!TellUploaded
<1>11. CASE UploadAlone!TellFailed(w)
  BY <1>6, <1>7, <1>8, <1>11 DEF UploadAlone!TellFailed
<1>12. CASE UploadAlone!UploadPdf(w)
  <2>1. q.pc = "upload" /\ uploadPending' = uploadPending /\ uploadArrived[p] = 0 /\ uploadSend[p] = "sent"
    BY <1>12 DEF UploadAlone!UploadPdf, UploadAloneInv
  <2>2. CASE UploadAlone!Go(w, "fail") /\ UNCHANGED uploadArrived
    BY <1>6, <2>1, <2>2
  <2>3. CASE uploadArrived' = [uploadArrived EXCEPT ![p] = @ + 1] /\ UploadAlone!Go(w, "uploaded")
    <3> DEFINE z == [q EXCEPT !.pc = "uploaded"]
    <3>1. z \in UploadAlone!Press /\ z.pdf = p /\ z.pc = "uploaded" /\ uploadPress' = [uploadPress EXCEPT ![w] = z]
      BY <1>1, <2>3 DEF UploadAlone!Press, UploadAlone!Go, UploadAloneInv
    <3> HIDE DEF z, q
    <3>2. uploadArrived' \in [Two -> {0, 1}] /\ \A r \in Two \ {p} : uploadArrived'[r] = uploadArrived[r]
      BY <1>1, <2>1, <2>3
    <3>3. /\ uploadPress' \in [Calls -> UploadAlone!Press] /\ uploadPress'[w] = z
          /\ \A v \in Calls \ {w} : uploadPress'[v] = uploadPress[v]
          /\ UploadAlone!Running' \subseteq {w}
          /\ \A v \in Calls : uploadPress'[v].pc = "upload" => v = w
      BY <1>4, <3>1
    <3>4. ASSUME NEW r \in Two, uploadArrived'[r] = 1
          PROVE  /\ uploadSend[r] = "sent"
                 /\ r \in uploadPending => \E v \in Calls : uploadPress'[v].pc = "uploaded" /\ uploadPress'[v].pdf = r
      <4>1. CASE r = p
        BY <2>1, <3>1, <3>3, <4>1
      <4>2. CASE r # p
        <5>1. uploadArrived[r] = 1
          BY <3>2, <3>4, <4>2
        <5>2. ~\E v \in Calls : uploadPress[v].pc = "uploaded" /\ uploadPress[v].pdf = r
          BY <1>3, <4>2 DEF q
        <5> QED
          BY <5>1, <5>2 DEF UploadAloneInv
      <4> QED
        BY <4>1, <4>2
    <3>5. \A v \in Calls : uploadPress'[v].pc # "upload"
      BY <3>1, <3>3
    <3> QED
      BY <1>1, <1>2, <2>1, <3>2, <3>3, <3>4, <3>5 DEF UploadAloneInv
  <2>4. ~("reply" \in {"document", "prompt", "upload", "text"})
    OBVIOUS
  <2> QED
    BY <1>12, <2>2, <2>3, <2>4 DEF UploadAlone!UploadPdf
<1> QED
  BY <1>9, <1>10, <1>11, <1>12

(* The invariant of calls one after the other.                             *)
LEMMA UploadAloneInvHolds ==
  /\ UploadAlone!Init => UploadAloneInv
  /\ UploadAloneInv /\ UploadAlone!Next => UploadAloneInv'
  /\ UploadAloneInv /\ UNCHANGED <<uploadPending, uploadSend, uploadPrompted, uploadPress, uploadArrived>>
       => UploadAloneInv'
<1>1. ASSUME UploadAlone!Init
      PROVE  UploadAloneInv
  <2>1. PICK p \in Two : uploadPress = [w \in Calls |-> [pc |-> "idle", pdf |-> p, yes |-> FALSE, told |-> "none"]]
    BY <1>1 DEF UploadAlone!Init
  <2>2. uploadArrived = [r \in Two |-> 0] /\ uploadSend = [r \in Two |-> "idle"] /\ uploadPrompted = {}
    BY <1>1 DEF UploadAlone!Init
  <2>3. UploadAlone!Running = {}
    BY <2>1 DEF UploadAlone!Running
  <2>4. /\ uploadPress \in [Calls -> UploadAlone!Press]
        /\ \A w \in Calls : uploadPress[w].pc = "idle"
    BY <2>1 DEF UploadAlone!Press, UploadAlone!Answers
  <2>5. uploadArrived \in [Two -> {0, 1}] /\ DOMAIN uploadSend = Two /\ \A r \in Two : uploadArrived[r] # 1
    BY <2>2
  <2> QED
    BY <2>2, <2>3, <2>4, <2>5 DEF UploadAloneInv
<1>2. ASSUME UploadAloneInv, UploadAlone!Crash
      PROVE  UploadAloneInv'
  <2>1. /\ uploadPress' = [w \in Calls |-> IF w \in UploadAlone!Running THEN [uploadPress[w] EXCEPT !.pc = "done"]
                                             ELSE uploadPress[w]]
        /\ uploadPending' = {}
        /\ uploadSend' = [p \in Two |-> IF uploadSend[p] \in {"document", "register", "prompt"} THEN "failed"
                                        ELSE uploadSend[p]]
        /\ UNCHANGED <<uploadArrived, uploadPrompted>>
    BY <1>2 DEF UploadAlone!Crash
  <2>2. ASSUME NEW w \in Calls
        PROVE  uploadPress'[w] \in UploadAlone!Press /\ uploadPress'[w].pc \in {"idle", "done"}
    <3>1. uploadPress[w] \in UploadAlone!Press
      BY <1>2 DEF UploadAloneInv
    <3>2. CASE w \in UploadAlone!Running
      BY <2>1, <3>1, <3>2 DEF UploadAlone!Press
    <3>3. CASE w \notin UploadAlone!Running
      BY <2>1, <3>1, <3>3 DEF UploadAlone!Running
    <3> QED
      BY <3>2, <3>3
  <2>3. UploadAlone!Running' = {}
    BY <2>2 DEF UploadAlone!Running
  <2>4. \A p \in Two : uploadSend[p] = "sent" => uploadSend'[p] = "sent"
    BY <2>1
  <2>5. uploadPress' \in [Calls -> UploadAlone!Press]
    BY <2>1, <2>2
  <2> QED
    BY <1>2, <2>1, <2>2, <2>3, <2>4, <2>5 DEF UploadAloneInv
<1>3. ASSUME UploadAloneInv, UploadAlone!Next
      PROVE  UploadAloneInv'
  BY <1>2, <1>3, UploadAloneSends, UploadAlonePresses, UploadAloneHandles
     DEF UploadAlone!Next, UploadAlone!Sending, UploadAlone!Pressing, UploadAlone!Handling
<1>4. ASSUME UploadAloneInv, UNCHANGED <<uploadPending, uploadSend, uploadPrompted, uploadPress, uploadArrived>>
      PROVE  UploadAloneInv'
  BY <1>4 DEF UploadAloneInv, UploadAlone!Running
<1> QED
  BY <1>1, <1>3, <1>4

(* A PDF is uploaded once.                                                 *)
LEMMA UploadAloneInvGives == UploadAloneInv => UploadAlone!UploadedOnce
  BY DEF UploadAloneInv, UploadAlone!UploadedOnce
=============================================================================
