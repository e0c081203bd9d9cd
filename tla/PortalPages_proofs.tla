------------------------ MODULE PortalPages_proofs -------------------------
(***************************************************************************)
(* Proofs about the pages beside those of orders, each for any number of   *)
(* users, things to review, devices, calls and rows: the session of a tab, *)
(* the two review pages, the page of the users, the form of adjustments,   *)
(* trusted devices and the overview.  Each part has an inductive invariant *)
(* of its own, and the composition at the end says that the part that acts *)
(* keeps its invariant while the others stay as they are.                  *)
(***************************************************************************)
EXTENDS MCPortalPages, SequenceTheorems, FiniteSetTheorems, TLAPS

-----------------------------------------------------------------------------
TheTab == sessionTab["t1"]
TheFlight == sessionFlight["t1"]
MaybeOne == Pair \cup {None}
AnyCall == [pc : {"idle", "sent", "401", "waiting", "done"}, tab : {"t1"}, token : Nat, retry : BOOLEAN]

\* What the browser and the server hold; the two tokens of a pair are stored
\* and thrown away together.
TabTyped ==
  /\ sessionOwner \in Seq(Pair)
  /\ sessionStore \in [access : 0 .. Len(sessionOwner), refresh : 0 .. Len(sessionOwner), device : MaybeOne]
  /\ sessionStore.access = sessionStore.refresh
  /\ sessionTab \in [{"t1"} -> Tab!Tab]
  /\ sessionFlight \in [{"t1"} -> Tab!Flight] /\ TheFlight.token \in 0 .. Len(sessionOwner)
  /\ sessionCall \in [TabCalls -> AnyCall]
  /\ sessionLive \in SUBSET (1 .. Len(sessionOwner))
  /\ sessionCut \in SUBSET (1 .. Len(sessionOwner)) /\ sessionStray \in SUBSET sessionCut
  /\ sessionMe \in MaybeOne

\* Whoever is signed in has the stored token, and entered the last address;
\* so did whoever waits for a code.
TabSigned ==
  /\ TheTab.pc # "closed" => (TheTab.user = None <=> sessionStore.access = 0)
  /\ TheTab.user \in {None, sessionMe}
  /\ sessionStore.access # 0 => sessionOwner[sessionStore.access] = sessionMe
  /\ TheTab.otp \in {None, sessionMe}
  /\ TheTab.pc \in {"closed", "loading"} => TheTab.user = None

\* A token is no surprise to the server if it accepts it, or its refresh was
\* cut off; after the first surprise there is none to come.
Expected(n) == sessionReused # 0 \/ n \in sessionLive \/ n \in sessionCut

\* The token that will be shown to the server is expected: the stored one, or
\* the one that is about to be stored in its place.
TabAccepted ==
  /\ TheFlight.pc = "answered" /\ TheFlight.new # 0 =>
       /\ TheTab.pc = "ready" /\ TheTab.user # None /\ TheFlight.token = sessionStore.refresh
       /\ TheFlight.new \in 1 .. Len(sessionOwner) /\ sessionOwner[TheFlight.new] = sessionMe
       /\ Expected(TheFlight.new)
  /\ ~(TheFlight.pc = "answered" /\ TheFlight.new # 0) /\ sessionStore.refresh # 0 =>
       Expected(sessionStore.refresh)
  /\ TheFlight.pc = "sent" =>
       TheTab.pc = "ready" /\ TheTab.user # None /\ TheFlight.token = sessionStore.refresh /\ TheFlight.new = 0
  /\ TheTab.pc = "loading" => TheFlight.pc = "answered" /\ TheFlight.new = 0
  /\ TheTab.pc \in {"closed", "leaving"} => TheFlight.pc = "none"

\* Calls are under way only on a page that is ready, and there a refresh has a
\* call that waits for it.
TabWaits ==
  /\ \A c \in TabCalls : sessionCall[c].pc \notin {"idle", "done"} => TheTab.pc = "ready"
  /\ TheTab.pc = "ready" /\ TheFlight.pc # "none" => \E c \in TabCalls : sessionCall[c].pc = "waiting"

TabInv == TabTyped /\ TabSigned /\ TabAccepted /\ TabWaits /\ Tab!ReusedWasCutOff

(* The parts of what the tab holds.                                        *)
LEMMA TabRecords ==
  ASSUME TabTyped
  PROVE  /\ Len(sessionOwner) \in Nat
         /\ \A n \in 1 .. Len(sessionOwner) : sessionOwner[n] \in Pair
         /\ sessionStore.access \in 0 .. Len(sessionOwner)
         /\ sessionStore.device \in MaybeOne
         /\ TheTab \in Tab!Tab /\ TheTab.user \in MaybeOne /\ TheTab.otp \in MaybeOne
         /\ TheFlight \in Tab!Flight /\ TheFlight.new \in Nat
         /\ TheFlight.pc \in {"none", "sent", "answered"}
         /\ None \notin Pair
<1>1. Len(sessionOwner) \in Nat /\ \A n \in 1 .. Len(sessionOwner) : sessionOwner[n] \in Pair
  BY LenProperties, ElementOfSeq DEF TabTyped
<1> QED
  BY <1>1, TabAssumption DEF TabTyped, TheTab, TheFlight, Tab!Tab, Tab!Flight, Tab!MaybeUser,
     MaybeOne, Tab!ClientAssumption

(* A browser begins with nothing stored.                                   *)
LEMMA TabBegins ==
  ASSUME Tab!Init
  PROVE  TabInv
<1>1. /\ sessionOwner = << >> /\ sessionOwner \in Seq(Pair) /\ Len(sessionOwner) = 0
      /\ sessionStore = [access |-> 0, refresh |-> 0, device |-> None]
      /\ sessionCut = {} /\ sessionStray = {} /\ sessionReused = 0
  BY EmptySeq DEF Tab!Init, Tab!EmptyStore
<1>2. /\ TheTab = [pc |-> "closed", user |-> None, otp |-> None]
      /\ TheFlight = [pc |-> "none", token |-> 0, new |-> 0]
      /\ sessionTab \in [{"t1"} -> Tab!Tab] /\ sessionFlight \in [{"t1"} -> Tab!Flight]
  BY DEF Tab!Init, TheTab, TheFlight, Tab!NoFlight, Tab!Tab, Tab!Flight, Tab!MaybeUser
<1>3. /\ sessionCall \in [TabCalls -> AnyCall]
      /\ \A c \in TabCalls : sessionCall[c].pc = "idle"
  BY DEF Tab!Init, AnyCall
<1>4. TabTyped
  BY <1>1, <1>2, <1>3 DEF Tab!Init, TabTyped, MaybeOne
<1> QED
  BY <1>1, <1>2, <1>3, <1>4 DEF TabInv, TabSigned, TabAccepted, TabWaits, Tab!ReusedWasCutOff

(* A tab opens: with a token stored somebody is signed in, and without one *)
(* nobody is.                                                              *)
LEMMA TabRestores ==
  ASSUME TabInv, Tab!RestoreSession("t1")
  PROVE  TabInv'
<1>1. /\ TheTab.pc = "closed" /\ TheTab.user = None /\ TheFlight.pc = "none"
      /\ sessionStore.access = sessionStore.refresh
      /\ UNCHANGED <<sessionStore, sessionCall, sessionOwner, sessionLive, sessionFresh, sessionStray, sessionCut,
                     sessionReused, sessionMe>>
  BY DEF TabInv, TabTyped, TabSigned, TabAccepted, Tab!RestoreSession, Tab!server, TheTab
<1>2. /\ TheTab \in Tab!Tab /\ sessionStore.access \in 0 .. Len(sessionOwner) /\ Len(sessionOwner) \in Nat
      /\ \A n \in 1 .. Len(sessionOwner) : sessionOwner[n] \in Pair /\ sessionOwner[n] # None
  BY TabRecords DEF TabInv
<1>3. CASE sessionStore.access # 0
  <2> DEFINE u == sessionOwner[sessionStore.access]
  <2>1. u \in Pair /\ u # None /\ u = sessionMe
    BY <1>2, <1>3 DEF TabInv, TabSigned
  <2>2. /\ sessionTab' = [sessionTab EXCEPT !["t1"].pc = "ready", !["t1"].user = u]
        /\ sessionFlight' = sessionFlight
    BY <1>3 DEF Tab!RestoreSession
  <2> HIDE DEF u
  <2>3. /\ sessionTab' \in [{"t1"} -> Tab!Tab] /\ TheTab'.pc = "ready" /\ TheTab'.user = u /\ TheTab'.otp = TheTab.otp
    BY <1>2, <2>1, <2>2 DEF TabInv, TabTyped, TheTab, Tab!Tab, Tab!MaybeUser
  <2>4. TheFlight' = TheFlight
    BY <2>2 DEF TheFlight
  <2>5. TabTyped'
    BY <1>1, <2>2, <2>3, <2>4 DEF TabInv, TabTyped
  <2> QED
    BY <1>1, <1>3, <2>1, <2>3, <2>4, <2>5
       DEF TabInv, TabSigned, TabAccepted, TabWaits, Expected, Tab!ReusedWasCutOff
<1>4. CASE sessionStore.access = 0
  <2>2. /\ sessionTab' = [sessionTab EXCEPT !["t1"].pc = "loading"]
        /\ sessionFlight' = [sessionFlight EXCEPT !["t1"] = [pc |-> "answered", token |-> 0, new |-> 0]]
    BY <1>1, <1>4 DEF Tab!RestoreSession, Tab!StartRefresh
  <2>3. /\ sessionTab' \in [{"t1"} -> Tab!Tab] /\ TheTab'.pc = "loading" /\ TheTab'.user = None
        /\ TheTab'.otp = TheTab.otp
    BY <1>1, <2>2 DEF TabInv, TabTyped, TheTab, Tab!Tab
  <2>4. /\ sessionFlight' \in [{"t1"} -> Tab!Flight]
        /\ TheFlight'.pc = "answered" /\ TheFlight'.new = 0 /\ TheFlight'.token = 0
    BY <2>2 DEF TabInv, TabTyped, TheFlight, Tab!Flight
  <2>5. TabTyped'
    BY <1>1, <1>2, <2>3, <2>4 DEF TabInv, TabTyped
  <2> QED
    BY <1>1, <1>4, <2>3, <2>4, <2>5 DEF TabInv, TabSigned, TabAccepted, TabWaits, Tab!ReusedWasCutOff
<1> QED
  BY <1>3, <1>4

(* A token that the server accepts is exchanged.                           *)
LEMMA TabExchanges ==
  ASSUME TabTyped, NEW n \in sessionLive, Tab!Exchange(n)
  PROVE  /\ Len(sessionOwner) \in Nat /\ Len(sessionOwner') = Len(sessionOwner) + 1 /\ sessionOwner' \in Seq(Pair)
         /\ sessionOwner'[Len(sessionOwner')] = sessionOwner[n]
         /\ \A i \in 1 .. Len(sessionOwner) : sessionOwner'[i] = sessionOwner[i]
         /\ sessionLive' = (sessionLive \ {n}) \cup {Len(sessionOwner')}
         /\ sessionLive' \in SUBSET (1 .. Len(sessionOwner'))
         /\ sessionReused' = sessionReused
<1>1. n \in 1 .. Len(sessionOwner) /\ Len(sessionOwner) \in Nat /\ sessionOwner[n] \in Pair
  BY TabRecords DEF TabTyped
<1>2. /\ sessionOwner' = Append(sessionOwner, sessionOwner[n])
      /\ sessionLive' = (sessionLive \ {n}) \cup {Len(sessionOwner')}
      /\ sessionReused' = sessionReused
  BY DEF Tab!Exchange
<1>3. /\ sessionOwner' \in Seq(Pair) /\ Len(sessionOwner') = Len(sessionOwner) + 1
      /\ sessionOwner'[Len(sessionOwner) + 1] = sessionOwner[n]
      /\ \A i \in 1 .. Len(sessionOwner) : sessionOwner'[i] = sessionOwner[i]
  BY <1>1, <1>2, AppendProperties DEF TabTyped
<1>4. sessionLive' \in SUBSET (1 .. Len(sessionOwner'))
  BY <1>1, <1>2, <1>3 DEF TabTyped
<1> QED
  BY <1>1, <1>2, <1>3, <1>4

(* A token that it does not accept ends sessions.                          *)
LEMMA TabEnds ==
  ASSUME TabTyped, NEW n, Tab!EndSessions(n), n # 0, sessionReused # 0 \/ n \in sessionCut
  PROVE  /\ sessionOwner' = sessionOwner /\ sessionLive' \in SUBSET sessionLive
         /\ sessionReused' # 0 /\ sessionReused' \in {sessionReused, n}
         /\ sessionReused' = n => sessionReused = n \/ n \in sessionCut
BY DEF Tab!EndSessions

(* The stored token is shown to the server.                                *)
LEMMA TabServes ==
  ASSUME TabInv, Tab!ServeRefresh("t1")
  PROVE  TabInv'
<1> DEFINE n == sessionStore.refresh
<1>1. /\ TheFlight.pc = "sent" /\ TheFlight.token = n /\ TheFlight.new = 0
      /\ TheTab.pc = "ready" /\ TheTab.user # None /\ sessionStore.access = n /\ n # 0
      /\ sessionOwner[n] = sessionMe /\ Expected(n)
      /\ UNCHANGED <<sessionStore, sessionTab, sessionCall, sessionStray, sessionMe>>
      /\ TheTab' = TheTab
  BY DEF TabInv, TabTyped, TabSigned, TabAccepted, Tab!ServeRefresh, TheFlight, TheTab
<1>2. /\ n \in 1 .. Len(sessionOwner) /\ Len(sessionOwner) \in Nat /\ TheFlight \in Tab!Flight
      /\ sessionFlight \in [{"t1"} -> Tab!Flight]
  BY <1>1, TabRecords DEF TabInv, TabTyped
<1>3. TabWaits'
  BY <1>1 DEF TabInv, TabWaits
<1>5. CASE n \in sessionLive /\ Tab!Exchange(n)
  <2> DEFINE m == Len(sessionOwner')
  <2>1. /\ m = Len(sessionOwner) + 1 /\ sessionOwner' \in Seq(Pair) /\ sessionOwner'[m] = sessionMe
        /\ \A i \in 1 .. Len(sessionOwner) : sessionOwner'[i] = sessionOwner[i]
        /\ sessionLive' \in SUBSET (1 .. m) /\ m \in sessionLive'
        /\ sessionReused' = sessionReused
    BY <1>1, <1>5, TabExchanges DEF TabInv
  <2>2. /\ \/ /\ sessionFlight' = [sessionFlight EXCEPT !["t1"].pc = "answered", !["t1"].new = m]
              /\ sessionCut' = sessionCut
           \/ /\ sessionFlight' = [sessionFlight EXCEPT !["t1"].pc = "answered"]
              /\ sessionCut' = sessionCut \cup {n}
    BY <1>1, <1>5 DEF Tab!ServeRefresh, TheFlight
  <2> DEFINE f == [sessionFlight EXCEPT !["t1"].pc = "answered"]
  <2>3. f \in [{"t1"} -> Tab!Flight] /\ f["t1"].pc = "answered" /\ f["t1"].token = n /\ f["t1"].new = 0
    BY <1>1, <1>2 DEF TheFlight, Tab!Flight
  <2>4. m \in Nat /\ m # 0 /\ n \in 0 .. m
    BY <1>2, <2>1
  <2>5. /\ [sessionFlight EXCEPT !["t1"].pc = "answered", !["t1"].new = m] = [f EXCEPT !["t1"].new = m]
        /\ [sessionFlight EXCEPT !["t1"].pc = "answered"] = f
    OBVIOUS
  <2> HIDE DEF f, m
  <2>6. /\ sessionFlight' \in [{"t1"} -> Tab!Flight] /\ TheFlight'.pc = "answered" /\ TheFlight'.token = n
        /\ \/ TheFlight'.new = m /\ sessionCut' = sessionCut
           \/ TheFlight'.new = 0 /\ sessionCut' = sessionCut \cup {n}
    <3>1. CASE sessionFlight' = [f EXCEPT !["t1"].new = m] /\ sessionCut' = sessionCut
      BY <2>3, <2>4, <3>1 DEF TheFlight, Tab!Flight
    <3>2. CASE sessionFlight' = f /\ sessionCut' = sessionCut \cup {n}
      BY <2>3, <3>2 DEF TheFlight
    <3> QED
      BY <2>2, <2>5, <3>1, <3>2
  <2>7. sessionStore' \in [access : 0 .. m, refresh : 0 .. m, device : MaybeOne]
    BY <1>1, <1>2, <2>1 DEF TabInv, TabTyped
  <2>8. sessionCut' \in SUBSET (1 .. m) /\ sessionStray' \in SUBSET sessionCut'
    <3>1. sessionCut \in SUBSET (1 .. m) /\ sessionStray \in SUBSET sessionCut /\ n \in 1 .. m
      BY <1>2, <2>1 DEF TabInv, TabTyped
    <3>2. sessionCut' \in {sessionCut, sessionCut \cup {n}} /\ sessionStray' = sessionStray
      BY <1>1, <2>6
    <3> HIDE DEF n
    <3> QED
      BY <3>1, <3>2
  <2>9. TabTyped'
    BY <1>1, <2>1, <2>4, <2>6, <2>7, <2>8 DEF TabInv, TabTyped, m
  <2>10. TabSigned'
    BY <1>1, <1>2, <2>1 DEF TabInv, TabSigned
  <2>11. TabAccepted'
    BY <1>1, <1>2, <2>1, <2>4, <2>6 DEF TabAccepted, Expected, m
  <2>12. Tab!ReusedWasCutOff'
    BY <2>1, <2>6 DEF TabInv, Tab!ReusedWasCutOff
  <2> QED
    BY <1>3, <2>9, <2>10, <2>11, <2>12 DEF TabInv
<1>6. CASE n \notin sessionLive /\ Tab!EndSessions(n)
  <2>1. /\ sessionOwner' = sessionOwner /\ sessionLive' \in SUBSET sessionLive
        /\ sessionReused' # 0 /\ sessionReused' \in {sessionReused, n}
        /\ sessionReused' = n => sessionReused = n \/ n \in sessionCut
    BY <1>1, <1>6, TabEnds DEF TabInv, Expected
  <2>2. /\ sessionFlight' = [sessionFlight EXCEPT !["t1"].pc = "answered"] /\ sessionCut' = sessionCut
    BY <1>1, <1>6 DEF Tab!ServeRefresh, Tab!Exchange, Tab!EndSessions, TheFlight
  <2>3. /\ sessionFlight' \in [{"t1"} -> Tab!Flight]
        /\ TheFlight'.pc = "answered" /\ TheFlight'.token = n /\ TheFlight'.new = 0
    BY <1>1, <1>2, <2>2 DEF TheFlight, Tab!Flight
  <2>4. TabTyped'
    BY <1>1, <1>2, <2>1, <2>2, <2>3 DEF TabInv, TabTyped
  <2>5. TabSigned' /\ TabAccepted'
    BY <1>1, <2>1, <2>3 DEF TabInv, TabSigned, TabAccepted, Expected
  <2>6. Tab!ReusedWasCutOff'
    BY <2>1, <2>2 DEF TabInv, Tab!ReusedWasCutOff
  <2> QED
    BY <1>3, <2>4, <2>5, <2>6 DEF TabInv
<1> QED
  BY <1>1, <1>5, <1>6 DEF Tab!ServeRefresh, Tab!Exchange, Tab!EndSessions, TheFlight

(* A refresh that was cut off reaches the server.                          *)
LEMMA TabStrays ==
  ASSUME TabInv, NEW n, Tab!ServeStray(n)
  PROVE  TabInv'
<1>1. /\ n \in sessionStray /\ n \in sessionCut /\ n \in 1 .. Len(sessionOwner) /\ n # 0
      /\ sessionStray' \in SUBSET sessionCut
      /\ UNCHANGED <<sessionStore, sessionTab, sessionFlight, sessionCall, sessionCut, sessionMe>>
      /\ TheTab' = TheTab /\ TheFlight' = TheFlight
  BY DEF TabInv, TabTyped, Tab!ServeStray, TheTab, TheFlight
<1>2. Len(sessionOwner) \in Nat
  BY TabRecords DEF TabInv
<1>3. CASE n \in sessionLive /\ Tab!Exchange(n)
  <2> DEFINE m == Len(sessionOwner')
  <2>1. /\ m = Len(sessionOwner) + 1 /\ sessionOwner' \in Seq(Pair)
        /\ \A i \in 1 .. Len(sessionOwner) : sessionOwner'[i] = sessionOwner[i]
        /\ sessionLive' = (sessionLive \ {n}) \cup {m} /\ sessionLive' \in SUBSET (1 .. m)
        /\ sessionReused' = sessionReused
    BY <1>3, TabExchanges DEF TabInv
  <2> HIDE DEF m
  <2>2. /\ sessionStore' \in [access : 0 .. m, refresh : 0 .. m, device : MaybeOne]
        /\ sessionCut' \in SUBSET (1 .. m) /\ TheFlight'.token \in 0 .. m
    BY <1>1, <1>2, <2>1 DEF TabInv, TabTyped
  <2>3. TabTyped'
    BY <1>1, <2>1, <2>2 DEF TabInv, TabTyped, m
  <2>4. sessionStore.access \in 0 .. Len(sessionOwner)
    BY TabRecords DEF TabInv
  <2>5. TabSigned'
    BY <1>1, <1>2, <2>1, <2>4 DEF TabInv, TabSigned
  <2>6. ASSUME NEW i, Expected(i)
        PROVE  Expected(i)'
    BY <1>1, <2>1, <2>6 DEF Expected
  <2>7. TabAccepted'
    <3>1. TheFlight.new \in 1 .. Len(sessionOwner) =>
            TheFlight.new \in 1 .. m /\ sessionOwner'[TheFlight.new] = sessionOwner[TheFlight.new]
      BY <1>2, <2>1
    <3> QED
      BY <1>1, <2>6, <3>1 DEF TabInv, TabAccepted, m
  <2> QED
    BY <1>1, <2>1, <2>3, <2>5, <2>7 DEF TabInv, TabWaits, Tab!ReusedWasCutOff
<1>4. CASE n \notin sessionLive /\ Tab!EndSessions(n)
  <2>1. /\ sessionOwner' = sessionOwner /\ sessionLive' \in SUBSET sessionLive
        /\ sessionReused' # 0 /\ sessionReused' \in {sessionReused, n}
    BY <1>1, <1>4, TabEnds DEF TabInv
  <2>2. TabTyped'
    BY <1>1, <2>1 DEF TabInv, TabTyped
  <2> QED
    BY <1>1, <2>1, <2>2 DEF TabInv, TabSigned, TabAccepted, TabWaits, Expected, Tab!ReusedWasCutOff
<1> QED
  BY <1>3, <1>4 DEF Tab!ServeStray

(* The new pair is stored.                                                 *)
LEMMA TabRefreshed ==
  ASSUME TabInv, Tab!Refreshed("t1")
  PROVE  TabInv'
<1> DEFINE n == TheFlight.new
<1>1. /\ TheFlight.pc = "answered" /\ n # 0 /\ TheTab.pc = "ready" /\ TheTab.user # None
      /\ n \in 1 .. Len(sessionOwner) /\ sessionOwner[n] = sessionMe /\ Expected(n)
      /\ UNCHANGED <<sessionTab, sessionOwner, sessionLive, sessionStray, sessionCut, sessionReused, sessionMe>>
      /\ TheTab' = TheTab
  BY DEF TabInv, TabAccepted, Tab!Refreshed, TheFlight, TheTab, Tab!server
<1>2. Len(sessionOwner) \in Nat
  BY TabRecords DEF TabInv
<1>3. /\ sessionStore' = [sessionStore EXCEPT !.access = n, !.refresh = n]
      /\ sessionFlight' = [sessionFlight EXCEPT !["t1"] = [pc |-> "none", token |-> 0, new |-> 0]]
  BY <1>1 DEF Tab!Refreshed, TheFlight, TheTab, Tab!NoFlight
<1>4. /\ sessionStore' \in [access : 0 .. Len(sessionOwner), refresh : 0 .. Len(sessionOwner), device : MaybeOne]
      /\ sessionStore'.access = n /\ sessionStore'.refresh = n
  <2> DEFINE s == [sessionStore EXCEPT !.access = n]
  <2>1. n \in 0 .. Len(sessionOwner)
    BY <1>1, <1>2
  <2> HIDE DEF n
  <2>2. /\ s \in [access : 0 .. Len(sessionOwner), refresh : 0 .. Len(sessionOwner), device : MaybeOne]
        /\ s.access = n
    BY <2>1 DEF TabInv, TabTyped
  <2>3. sessionStore' = [s EXCEPT !.refresh = n]
    BY <1>3
  <2> HIDE DEF s
  <2> QED
    BY <2>1, <2>2, <2>3
<1>5. /\ sessionFlight' \in [{"t1"} -> Tab!Flight]
      /\ TheFlight'.pc = "none" /\ TheFlight'.token = 0 /\ TheFlight'.new = 0
  BY <1>3 DEF TabInv, TabTyped, TheFlight, Tab!Flight
<1>6. sessionCall' \in [TabCalls -> AnyCall]
  <2>1. sessionCall' = [c \in TabCalls |-> IF c \in Tab!Waiting("t1")
                THEN [sessionCall[c] EXCEPT !.pc = "sent", !.token = n, !.retry = TRUE] ELSE sessionCall[c]]
    BY DEF Tab!Refreshed, TheFlight
  <2>2. ASSUME NEW c \in TabCalls
        PROVE  /\ [sessionCall[c] EXCEPT !.pc = "sent", !.token = n, !.retry = TRUE] \in AnyCall
               /\ sessionCall[c] \in AnyCall
    <3> DEFINE a == [sessionCall[c] EXCEPT !.pc = "sent"]
               b == [a EXCEPT !.token = n]
               d == [b EXCEPT !.retry = TRUE]
    <3>1. n \in Nat
      BY <1>1, <1>2
    <3>2. sessionCall[c] \in AnyCall
      BY <2>2 DEF TabInv, TabTyped
    <3>3. d = [sessionCall[c] EXCEPT !.pc = "sent", !.token = n, !.retry = TRUE]
      OBVIOUS
    <3> HIDE DEF n
    <3>4. a \in AnyCall
      BY <3>2 DEF AnyCall
    <3> HIDE DEF a
    <3>5. b \in AnyCall
      BY <3>1, <3>4 DEF AnyCall
    <3> HIDE DEF b
    <3>6. d \in AnyCall
      BY <3>5 DEF AnyCall
    <3> QED
      BY <3>2, <3>3, <3>6
  <2> QED
    BY <2>1, <2>2
<1>7. TabTyped'
  BY <1>1, <1>2, <1>4, <1>5, <1>6 DEF TabInv, TabTyped
<1>8. TabSigned'
  BY <1>1, <1>2, <1>4 DEF TabInv, TabSigned
<1>9. TabAccepted'
  BY <1>1, <1>4, <1>5 DEF TabAccepted, Expected
<1>10. TabWaits' /\ Tab!ReusedWasCutOff'
  BY <1>1, <1>5 DEF TabInv, TabWaits, Tab!ReusedWasCutOff
<1> QED
  BY <1>7, <1>8, <1>9, <1>10 DEF TabInv

(* Without a token nobody is signed in: on a page that loads there was     *)
(* none stored, and any other page throws away what is.                    *)
LEMMA TabUnrefreshed ==
  ASSUME TabInv, Tab!RefreshFailed("t1")
  PROVE  TabInv'
<1>1. /\ TheFlight.pc = "answered" /\ TheFlight.new = 0
      /\ UNCHANGED <<sessionOwner, sessionLive, sessionStray, sessionCut, sessionReused, sessionMe>>
      /\ sessionTab' = [sessionTab EXCEPT !["t1"] = [pc |-> "ready", user |-> None, otp |-> None]]
      /\ sessionFlight' = [sessionFlight EXCEPT !["t1"] = [pc |-> "none", token |-> 0, new |-> 0]]
      /\ sessionCall' = [c \in TabCalls |->
           IF c \in Tab!Waiting("t1") THEN [sessionCall[c] EXCEPT !.pc = "done"] ELSE sessionCall[c]]
      /\ sessionStore' = IF Tab!Waiting("t1") = {} THEN sessionStore ELSE [access |-> 0, refresh |-> 0, device |-> None]
  BY DEF Tab!RefreshFailed, Tab!SignOut, Tab!NoFlight, Tab!EmptyStore, Tab!server, TheFlight
<1>2. /\ TheTab.pc \in {"loading", "ready"} /\ Len(sessionOwner) \in Nat
      /\ TheTab.pc = "loading" => sessionStore.access = 0 /\ sessionStore.refresh = 0
  BY <1>1, TabRecords DEF TabInv, TabTyped, TabSigned, TabAccepted, Tab!Tab
<1>3. TheTab.pc = "ready" => Tab!Waiting("t1") # {}
  BY <1>1 DEF TabInv, TabTyped, TabWaits, Tab!Waiting, AnyCall
<1>4. /\ sessionStore'.access = 0 /\ sessionStore'.refresh = 0
      /\ sessionStore' \in [access : 0 .. Len(sessionOwner), refresh : 0 .. Len(sessionOwner), device : MaybeOne]
  BY <1>1, <1>2, <1>3 DEF TabInv, TabTyped, MaybeOne
<1>5. /\ sessionTab' \in [{"t1"} -> Tab!Tab] /\ TheTab' = [pc |-> "ready", user |-> None, otp |-> None]
      /\ sessionFlight' \in [{"t1"} -> Tab!Flight] /\ TheFlight' = [pc |-> "none", token |-> 0, new |-> 0]
  BY <1>1 DEF TabInv, TabTyped, TheTab, TheFlight, Tab!Tab, Tab!Flight, Tab!MaybeUser
<1>6. sessionCall' \in [TabCalls -> AnyCall]
  <2>1. \A c \in TabCalls : [sessionCall[c] EXCEPT !.pc = "done"] \in AnyCall /\ sessionCall[c] \in AnyCall
    BY DEF TabInv, TabTyped, AnyCall
  <2> QED
    BY <1>1, <2>1
<1>7. TabTyped'
  BY <1>1, <1>2, <1>4, <1>5, <1>6 DEF TabInv, TabTyped
<1> QED
  BY <1>1, <1>4, <1>5, <1>7 DEF TabInv, TabSigned, TabAccepted, TabWaits, Tab!ReusedWasCutOff

(* Calls are sent and answered.                                            *)
LEMMA TabCallsMove ==
  ASSUME TabInv, NEW c \in TabCalls,
         Tab!SendCall(c, "t1") \/ Tab!ServeCall(c)
  PROVE  TabInv'
<1>1. /\ UNCHANGED <<sessionStore, sessionTab, sessionFlight, sessionOwner, sessionLive, sessionStray, sessionCut,
                     sessionReused, sessionMe>>
      /\ sessionCall[c] \in AnyCall /\ sessionStore.access \in Nat /\ sessionCall[c].pc # "waiting"
      /\ TheTab' = TheTab /\ TheFlight' = TheFlight
  BY TabRecords DEF TabInv, TabTyped, Tab!SendCall, Tab!ServeCall, Tab!server, TheTab, TheFlight
<1>2. TheTab.pc = "ready"
  BY DEF TabInv, TabWaits, Tab!SendCall, Tab!ServeCall, TheTab
<1>3. sessionCall' \in [TabCalls -> AnyCall] /\ \A d \in TabCalls \ {c} : sessionCall'[d] = sessionCall[d]
  <2>1. CASE Tab!SendCall(c, "t1")
    BY <1>1, <2>1 DEF Tab!SendCall, TabInv, TabTyped, AnyCall
  <2>2. CASE Tab!ServeCall(c)
    BY <1>1, <2>2 DEF Tab!ServeCall, TabInv, TabTyped, AnyCall
  <2> QED
    BY <2>1, <2>2
<1>4. TabTyped'
  BY <1>1, <1>3 DEF TabInv, TabTyped
<1>5. TabWaits'
  BY <1>1, <1>2, <1>3 DEF TabInv, TabWaits
<1> QED
  BY <1>1, <1>4, <1>5 DEF TabInv, TabSigned, TabAccepted, Expected, Tab!ReusedWasCutOff

(* The first call that is refused has the token refreshed.                 *)
LEMMA TabRefused ==
  ASSUME TabInv, NEW c \in TabCalls, Tab!Receive401(c)
  PROVE  TabInv'
<1>1. /\ UNCHANGED <<sessionStore, sessionTab, sessionOwner, sessionLive, sessionStray, sessionCut, sessionReused,
                     sessionMe>>
      /\ sessionCall[c] \in AnyCall /\ sessionCall[c].tab = "t1" /\ sessionCall[c].pc = "401"
      /\ TheTab.pc = "ready" /\ TheTab' = TheTab
  BY DEF TabInv, TabTyped, TabWaits, Tab!Receive401, Tab!server, AnyCall, TheTab
<1>2. /\ sessionCall' \in [TabCalls -> AnyCall] /\ \A d \in TabCalls \ {c} : sessionCall'[d] = sessionCall[d]
      /\ ~sessionCall[c].retry => sessionCall'[c].pc = "waiting"
  BY <1>1 DEF Tab!Receive401, TabInv, TabTyped, AnyCall
<1>3. sessionStore.refresh \in 0 .. Len(sessionOwner) /\ Len(sessionOwner) \in Nat /\ TheFlight.pc \in {"none", "sent", "answered"}
  BY TabRecords DEF TabInv, TabTyped
<1>4. CASE sessionFlight' = sessionFlight /\ (TheFlight.pc # "none" \/ sessionCall[c].retry)
  <2>0. TheFlight' = TheFlight
    BY <1>4 DEF TheFlight
  <2>1. TabTyped'
    BY <1>1, <1>2, <1>4, <2>0 DEF TabInv, TabTyped
  <2>2. TabWaits'
    BY <1>1, <1>2, <2>0 DEF TabInv, TabWaits
  <2> QED
    BY <1>1, <2>0, <2>1, <2>2 DEF TabInv, TabSigned, TabAccepted, Expected, Tab!ReusedWasCutOff
<1>5. CASE /\ TheFlight.pc = "none" /\ ~sessionCall[c].retry
           /\ sessionFlight' = [sessionFlight EXCEPT !["t1"] = Tab!StartRefresh]
  <2> DEFINE r == sessionStore.refresh
             p == IF r = 0 THEN "answered" ELSE "sent"
  <2>1. sessionFlight' = [sessionFlight EXCEPT !["t1"] = [pc |-> p, token |-> r, new |-> 0]]
    BY <1>5 DEF Tab!StartRefresh
  <2>2. /\ sessionFlight' \in [{"t1"} -> Tab!Flight]
        /\ TheFlight' = [pc |-> p, token |-> r, new |-> 0]
    BY <1>3, <2>1 DEF TabInv, TabTyped, TheFlight, Tab!Flight
  <2>3. TheFlight'.pc = p /\ TheFlight'.token = r /\ TheFlight'.new = 0 /\ p # "none"
    BY <2>2
  <2>4. r # 0 => TheTab.user # None /\ Expected(r)
    BY <1>1, <1>5 DEF TabInv, TabTyped, TabSigned, TabAccepted
  <2>5. p = "sent" => r # 0
    OBVIOUS
  <2> HIDE DEF p
  <2>6. TabTyped'
    BY <1>1, <1>2, <1>3, <2>2, <2>3 DEF TabInv, TabTyped
  <2>7. TabWaits'
    BY <1>1, <1>2, <1>5 DEF TabWaits
  <2>8. TabAccepted'
    BY <1>1, <2>3, <2>4, <2>5 DEF TabAccepted, Expected
  <2> QED
    BY <1>1, <2>6, <2>7, <2>8 DEF TabInv, TabSigned, Tab!ReusedWasCutOff
<1> QED
  BY <1>1, <1>4, <1>5 DEF Tab!Receive401, TheFlight

(* Nothing is stored when nobody is signed in, and nothing is about to be. *)
LEMMA TabNobody ==
  ASSUME TabInv, TheTab.pc = "ready", TheTab.user = None
  PROVE  /\ TheFlight.pc \in {"none", "answered"} /\ (TheFlight.pc = "answered" => TheFlight.new = 0)
         /\ sessionStore.access = 0 /\ sessionStore.refresh = 0
BY TabRecords DEF TabInv, TabTyped, TabSigned, TabAccepted

(* An address is entered, or a code; a pair that is issued is stored.      *)
LEMMA TabSignsIn ==
  ASSUME TabInv, NEW u \in Pair,
         TheTab.pc = "ready", TheTab.user = None,
         UNCHANGED <<sessionFlight, sessionCall>>,
         Tab!Issue(u),
         sessionStore'.access = Len(sessionOwner'), sessionStore'.refresh = Len(sessionOwner'),
         sessionStore'.device \in MaybeOne,
         sessionStore' = [access |-> sessionStore'.access, refresh |-> sessionStore'.refresh, device |-> sessionStore'.device],
         sessionTab' = [sessionTab EXCEPT !["t1"].user = u, !["t1"].otp = None],
         sessionMe' = u
  PROVE  TabInv'
<1> DEFINE m == Len(sessionOwner) + 1
<1>1. /\ TheFlight.pc \in {"none", "answered"} /\ (TheFlight.pc = "answered" => TheFlight.new = 0)
      /\ TheFlight' = TheFlight
  BY TabNobody DEF TheFlight
<1>2. /\ Len(sessionOwner) \in Nat /\ TheTab \in Tab!Tab /\ None \notin Pair
      /\ TheFlight.token \in 0 .. Len(sessionOwner)
  BY TabRecords DEF TabInv, TabTyped
<1>3. /\ sessionOwner' \in Seq(Pair) /\ Len(sessionOwner') = m /\ sessionOwner'[m] = u
      /\ sessionLive' = sessionLive \cup {m}
      /\ UNCHANGED <<sessionStray, sessionCut, sessionReused>>
  BY AppendProperties DEF TabInv, TabTyped, Tab!Issue
<1>4. /\ sessionTab' \in [{"t1"} -> Tab!Tab] /\ TheTab'.pc = "ready" /\ TheTab'.user = u /\ TheTab'.otp = None
  BY <1>2 DEF TabInv, TabTyped, TheTab, Tab!Tab, Tab!MaybeUser
<1>5. /\ sessionLive' \in SUBSET (1 .. m) /\ m \in sessionLive' /\ sessionCut' \in SUBSET (1 .. m)
      /\ TheFlight'.token \in 0 .. m /\ m # 0
  BY <1>1, <1>2, <1>3 DEF TabInv, TabTyped
<1>6. sessionStore' \in [access : 0 .. m, refresh : 0 .. m, device : MaybeOne]
  BY <1>2, <1>3
<1>7. TabTyped'
  BY <1>3, <1>4, <1>5, <1>6 DEF TabInv, TabTyped, MaybeOne
<1>8. sessionStore'.access = m /\ sessionStore'.refresh = m
  BY <1>3
<1>9. TabSigned'
  BY <1>2, <1>3, <1>4, <1>5, <1>8 DEF TabSigned
<1>10. TabAccepted'
  BY <1>1, <1>4, <1>5, <1>8 DEF TabAccepted, Expected
<1> QED
  BY <1>1, <1>3, <1>4, <1>7, <1>9, <1>10 DEF TabInv, TabWaits, Tab!ReusedWasCutOff

(* An address is entered.                                                  *)
LEMMA TabLogsIn ==
  ASSUME TabInv, NEW u \in Pair, Tab!Login("t1", u)
  PROVE  TabInv'
<1>1. /\ TheTab.pc = "ready" /\ TheTab.user = None /\ sessionMe' = u
      /\ UNCHANGED <<sessionFlight, sessionCall>> /\ TheFlight' = TheFlight
  BY DEF Tab!Login, TheTab, TheFlight
<1>2. /\ TheFlight.pc \in {"none", "answered"} /\ (TheFlight.pc = "answered" => TheFlight.new = 0)
      /\ sessionStore.access = 0 /\ sessionStore.refresh = 0
  BY <1>1, TabNobody
<1>3. /\ Len(sessionOwner) \in Nat /\ TheTab \in Tab!Tab /\ None \notin Pair
  BY TabRecords DEF TabInv
<1>4. CASE sessionStore.device = u
  <2>1. /\ Tab!Issue(u)
        /\ sessionStore' = [sessionStore EXCEPT !.access = Len(sessionOwner'), !.refresh = Len(sessionOwner')]
    BY <1>4 DEF Tab!Login
  <2>2. /\ sessionStore'.access = Len(sessionOwner') /\ sessionStore'.refresh = Len(sessionOwner')
        /\ sessionStore'.device = u
        /\ sessionStore' = [access |-> sessionStore'.access, refresh |-> sessionStore'.refresh, device |-> sessionStore'.device]
    BY <1>4, <2>1 DEF TabInv, TabTyped
  <2>3. Len(sessionOwner') = Len(sessionOwner) + 1 /\ sessionOwner'[Len(sessionOwner')] = u
    BY <2>1, AppendProperties DEF TabInv, TabTyped, Tab!Issue
  <2>4. Tab!Decode(sessionStore'.access) = u
    BY <1>3, <2>2, <2>3 DEF Tab!Decode
  <2>5. sessionTab' = [sessionTab EXCEPT !["t1"].user = u, !["t1"].otp = None]
    BY <1>3, <2>4 DEF Tab!Login
  <2> QED
    BY <1>1, <2>1, <2>2, <2>5, TabSignsIn DEF MaybeOne
<1>5. CASE sessionStore.device # u
  <2>1. UNCHANGED <<sessionStore, sessionOwner, sessionLive, sessionStray, sessionCut, sessionReused>>
    BY <1>5 DEF Tab!Login, Tab!server
  <2>2. Tab!Decode(sessionStore'.access) = None
    BY <1>2, <2>1 DEF Tab!Decode
  <2>3. sessionTab' = [sessionTab EXCEPT !["t1"].otp = u]
    BY <2>2 DEF Tab!Login
  <2>4. sessionTab' \in [{"t1"} -> Tab!Tab] /\ TheTab'.pc = "ready" /\ TheTab'.user = None /\ TheTab'.otp = u
    BY <1>1, <1>3, <2>3 DEF TabInv, TabTyped, TheTab, Tab!Tab, Tab!MaybeUser
  <2>5. TabTyped'
    BY <1>1, <2>1, <2>4 DEF TabInv, TabTyped, MaybeOne
  <2> QED
    BY <1>1, <1>2, <2>1, <2>4, <2>5 DEF TabInv, TabSigned, TabAccepted, TabWaits, Tab!ReusedWasCutOff
<1> QED
  BY <1>4, <1>5

(* A code is entered.                                                      *)
LEMMA TabVerifies ==
  ASSUME TabInv, NEW trust \in BOOLEAN, Tab!VerifyOtp("t1", trust)
  PROVE  TabInv'
<1> DEFINE u == TheTab.otp
<1>1. /\ TheTab.pc = "ready" /\ TheTab.user = None /\ u # None /\ sessionMe' = sessionMe
      /\ UNCHANGED <<sessionFlight, sessionCall>> /\ Tab!Issue(u)
      /\ sessionStore' = [access |-> Len(sessionOwner'), refresh |-> Len(sessionOwner'),
                          device |-> IF trust THEN u ELSE sessionStore.device]
      /\ sessionTab' = [sessionTab EXCEPT !["t1"].user = u, !["t1"].otp = None]
  BY DEF Tab!VerifyOtp, TheTab
<1>2. u \in Pair /\ u = sessionMe /\ sessionStore.device \in MaybeOne
  BY <1>1, TabRecords DEF TabInv, TabSigned, MaybeOne
<1>3. sessionStore'.device \in MaybeOne
  BY <1>1, <1>2 DEF MaybeOne
<1> HIDE DEF u
<1> QED
  BY <1>1, <1>2, <1>3, TabSignsIn

(* The customer leaves; nothing of theirs is under way, and nothing stays. *)
LEMMA TabLeaves ==
  ASSUME TabInv, Tab!PostLogout("t1") \/ Tab!LogoutDone("t1")
  PROVE  TabInv'
<1>1. /\ UNCHANGED <<sessionFlight, sessionCall, sessionOwner, sessionLive, sessionStray, sessionCut, sessionReused,
                     sessionMe>>
      /\ TheFlight' = TheFlight
  BY DEF Tab!PostLogout, Tab!LogoutDone, Tab!server, TheFlight
<1>2. TheTab \in Tab!Tab /\ sessionStore.access \in 0 .. Len(sessionOwner) /\ Len(sessionOwner) \in Nat
      /\ TheFlight.pc \in {"none", "sent", "answered"}
  BY TabRecords DEF TabInv
<1>3. CASE Tab!PostLogout("t1")
  <2>1. /\ TheTab.pc = "ready" /\ TheTab.user # None /\ TheFlight.pc = "none"
        /\ \A c \in TabCalls : sessionCall[c].tab = "t1" => sessionCall[c].pc \in {"idle", "done"}
        /\ sessionTab' = [sessionTab EXCEPT !["t1"].pc = "leaving"] /\ sessionStore' = sessionStore
    BY <1>3 DEF Tab!PostLogout, Tab!Busy, TheTab, TheFlight
  <2>2. /\ sessionTab' \in [{"t1"} -> Tab!Tab] /\ TheTab'.pc = "leaving"
        /\ TheTab'.user = TheTab.user /\ TheTab'.otp = TheTab.otp
    BY <1>2, <2>1 DEF TabInv, TabTyped, TheTab, Tab!Tab
  <2>3. TabTyped'
    BY <1>1, <2>1, <2>2 DEF TabInv, TabTyped
  <2>4. \A c \in TabCalls : sessionCall[c].pc \in {"idle", "done"}
    BY <2>1 DEF TabInv, TabTyped, AnyCall
  <2> QED
    BY <1>1, <2>1, <2>2, <2>3, <2>4 DEF TabInv, TabSigned, TabAccepted, TabWaits, Expected, Tab!ReusedWasCutOff
<1>4. CASE Tab!LogoutDone("t1")
  <2>1. /\ TheTab.pc = "leaving" /\ sessionStore' = [access |-> 0, refresh |-> 0, device |-> None]
        /\ sessionTab' = [sessionTab EXCEPT !["t1"] = [pc |-> "ready", user |-> None, otp |-> None]]
    BY <1>4 DEF Tab!LogoutDone, Tab!EmptyStore, Tab!SignOut, TheTab
  <2>2. /\ sessionTab' \in [{"t1"} -> Tab!Tab] /\ TheTab' = [pc |-> "ready", user |-> None, otp |-> None]
    BY <2>1 DEF TabInv, TabTyped, TheTab, Tab!Tab, Tab!MaybeUser
  <2>3. TheFlight.pc = "none" /\ \A c \in TabCalls : sessionCall[c].pc \in {"idle", "done"}
    BY <1>2, <2>1 DEF TabInv, TabAccepted, TabWaits
  <2>4. TabTyped'
    BY <1>1, <1>2, <2>1, <2>2 DEF TabInv, TabTyped, MaybeOne
  <2> QED
    BY <1>1, <2>1, <2>2, <2>3, <2>4 DEF TabInv, TabSigned, TabAccepted, TabWaits, Tab!ReusedWasCutOff
<1> QED
  BY <1>3, <1>4

(* The tab is closed: the refresh under way was cut off.                   *)
LEMMA TabCloses ==
  ASSUME TabInv, Tab!CloseTab("t1")
  PROVE  TabInv'
<1>1. /\ UNCHANGED <<sessionStore, sessionOwner, sessionLive, sessionReused, sessionMe>>
      /\ sessionTab' = [sessionTab EXCEPT !["t1"] = [pc |-> "closed", user |-> None, otp |-> None]]
      /\ sessionFlight' = [sessionFlight EXCEPT !["t1"] = [pc |-> "none", token |-> 0, new |-> 0]]
      /\ sessionCut' = sessionCut \cup Tab!Unheard("t1")
      /\ sessionStray' \in {sessionStray, sessionStray \cup Tab!Unheard("t1")}
      /\ sessionCall' = [c \in TabCalls |->
           IF sessionCall[c].tab = "t1" /\ sessionCall[c].pc # "idle"
           THEN [sessionCall[c] EXCEPT !.pc = "done"] ELSE sessionCall[c]]
  BY DEF Tab!CloseTab, Tab!NoFlight
<1>2. Len(sessionOwner) \in Nat /\ TheFlight.pc \in {"none", "sent", "answered"}
  BY TabRecords DEF TabInv
<1>3. /\ Tab!Unheard("t1") \in SUBSET (1 .. Len(sessionOwner))
      /\ TheFlight.pc # "none" /\ TheFlight.token # 0 => TheFlight.token \in Tab!Unheard("t1")
  BY <1>2 DEF TabInv, TabTyped, Tab!Unheard, TheFlight
<1>4. /\ sessionTab' \in [{"t1"} -> Tab!Tab] /\ TheTab' = [pc |-> "closed", user |-> None, otp |-> None]
      /\ sessionFlight' \in [{"t1"} -> Tab!Flight] /\ TheFlight' = [pc |-> "none", token |-> 0, new |-> 0]
  BY <1>1 DEF TabInv, TabTyped, TheTab, TheFlight, Tab!Tab, Tab!Flight, Tab!MaybeUser
<1>5. sessionCall' \in [TabCalls -> AnyCall] /\ \A c \in TabCalls : sessionCall'[c].pc \in {"idle", "done"}
  <2>1. \A c \in TabCalls : /\ [sessionCall[c] EXCEPT !.pc = "done"] \in AnyCall /\ sessionCall[c] \in AnyCall
                            /\ [sessionCall[c] EXCEPT !.pc = "done"].pc = "done" /\ sessionCall[c].tab = "t1"
    BY DEF TabInv, TabTyped, AnyCall
  <2> QED
    BY <1>1, <2>1
<1>6. TabTyped'
  BY <1>1, <1>2, <1>3, <1>4, <1>5 DEF TabInv, TabTyped
<1>7. sessionStore.refresh # 0 => Expected(sessionStore.refresh)'
  <2>1. CASE TheFlight.pc = "answered" /\ TheFlight.new # 0
    BY <1>1, <1>3, <2>1 DEF TabInv, TabAccepted, Expected
  <2>2. CASE ~(TheFlight.pc = "answered" /\ TheFlight.new # 0)
    BY <1>1, <2>2 DEF TabInv, TabAccepted, Expected
  <2> QED
    BY <2>1, <2>2
<1> QED
  BY <1>1, <1>4, <1>5, <1>6, <1>7 DEF TabInv, TabSigned, TabAccepted, TabWaits, Tab!ReusedWasCutOff

(* Every step of the tab keeps it.                                         *)
LEMMA TabInvHolds ==
  /\ Tab!Init => TabInv
  /\ TabInv /\ Tab!Next => TabInv'
  /\ TabInv /\ UNCHANGED Tab!vars => TabInv'
<1>1. ASSUME TabInv, UNCHANGED <<sessionStore, sessionTab, sessionFlight, sessionCall, sessionOwner, sessionLive,
                                 sessionStray, sessionCut, sessionReused, sessionMe>>
      PROVE  TabInv'
  <2>0. TheTab' = TheTab /\ TheFlight' = TheFlight
    BY <1>1 DEF TheTab, TheFlight
  <2>1. TabTyped'
    BY <1>1, <2>0 DEF TabInv, TabTyped
  <2> QED
    BY <1>1, <2>0, <2>1 DEF TabInv, TabSigned, TabAccepted, TabWaits, Expected, Tab!ReusedWasCutOff
<1>2. ASSUME TabInv, Tab!Next
      PROVE  TabInv'
  <2>1. CASE Tab!RestoreSession("t1")
    BY <1>2, <2>1, TabRestores
  <2>2. CASE Tab!ServeRefresh("t1")
    BY <1>2, <2>2, TabServes
  <2>3. CASE Tab!Refreshed("t1")
    BY <1>2, <2>3, TabRefreshed
  <2>4. CASE Tab!RefreshFailed("t1")
    BY <1>2, <2>4, TabUnrefreshed
  <2>5. CASE Tab!PostLogout("t1") \/ Tab!LogoutDone("t1")
    BY <1>2, <2>5, TabLeaves
  <2>6. CASE Tab!CloseTab("t1")
    BY <1>2, <2>6, TabCloses
  <2>7. CASE \E u \in Pair : Tab!Login("t1", u)
    BY <1>2, <2>7, TabLogsIn
  <2>8. CASE \E trust \in BOOLEAN : Tab!VerifyOtp("t1", trust)
    BY <1>2, <2>8, TabVerifies
  <2>9. CASE \E c \in TabCalls : Tab!SendCall(c, "t1") \/ Tab!ServeCall(c)
    BY <1>2, <2>9, TabCallsMove
  <2>10. CASE \E c \in TabCalls : Tab!Receive401(c)
    BY <1>2, <2>10, TabRefused
  <2>11. CASE \E n \in Tab!Pairs : Tab!Expire(n)
    <3>1. UNCHANGED <<sessionStore, sessionTab, sessionFlight, sessionCall, sessionOwner, sessionLive, sessionStray,
                      sessionCut, sessionReused, sessionMe>>
      BY <2>11 DEF Tab!Expire
    <3> QED
      BY <1>1, <1>2, <3>1
  <2>12. CASE \E n \in Tab!Pairs : Tab!ServeStray(n)
    BY <1>2, <2>12, TabStrays
  <2> QED
    BY <1>2, <2>1, <2>2, <2>3, <2>4, <2>5, <2>6, <2>7, <2>8, <2>9, <2>10, <2>11, <2>12
       DEF Tab!Next, Tab!Answered, Tab!Settling
<1> QED
  BY <1>1, <1>2, TabBegins DEF Tab!vars

(* What the run checks of it.                                              *)
LEMMA TabInvGives ==
  ASSUME TabInv
  PROVE  Tab!ReusedWasCutOff /\ Tab!SignedInAsSelf
BY DEF TabInv, TabSigned, Tab!SignedInAsSelf, TheTab

-----------------------------------------------------------------------------
(* The page of the top-ups, of staff who are alone.                        *)

(* What the page and the server hold.                                      *)
LEMMA ReviewingRecords ==
  ASSUME Reviewing!DeskTypeOK
  PROVE  /\ \A c \in ReviewCalls : reviewCall[c] # None =>
              /\ reviewCall[c] \in Reviewing!Call /\ reviewCall[c].item \in Pair
              /\ reviewCall[c].decision \in {"approve", "reject"}
              /\ reviewCall[c].at \in {"sent", "ok", "refused", "refreshing", "ended"}
         /\ \A d \in {"approve", "reject"} :
              /\ reviewDialog[d] \in Pair \cup {None}
              /\ reviewLatest[d] \in ReviewCalls \cup {None}
         /\ None \notin Pair /\ None \notin ReviewCalls /\ None \notin SUBSET Pair /\ None \notin Reviewing!Call
         /\ Unanswered \notin SUBSET Pair /\ Unanswered # None
<1>1. \A c \in ReviewCalls : reviewCall[c] # None =>
              /\ reviewCall[c] \in Reviewing!Call /\ reviewCall[c].item \in Pair
              /\ reviewCall[c].decision \in {"approve", "reject"}
              /\ reviewCall[c].at \in {"sent", "ok", "refused", "refreshing", "ended"}
  BY DEF Reviewing!DeskTypeOK, Reviewing!Call, Reviewing!Decisions
<1>2. \A d \in {"approve", "reject"} :
              /\ reviewDialog[d] \in Pair \cup {None}
              /\ reviewLatest[d] \in ReviewCalls \cup {None}
  BY DEF Reviewing!DeskTypeOK, Reviewing!Decisions
<1> QED
  BY <1>1, <1>2, ReviewingAssumption DEF Reviewing!ReviewDeskAssumption

(* A call moves on, and the others stay.                                   *)
LEMMA ReviewingMoves ==
  ASSUME Reviewing!DeskTypeOK, NEW c \in ReviewCalls, reviewCall[c] # None,
         NEW pc \in {"ok", "refused", "refreshing", "ended"},
         reviewCall' = [reviewCall EXCEPT ![c].at = pc]
  PROVE  /\ reviewCall' \in [ReviewCalls -> Reviewing!Call \cup {None}]
         /\ reviewCall'[c].at = pc
         /\ \A e \in ReviewCalls :
                /\ reviewCall'[e] = None <=> reviewCall[e] = None
                /\ reviewCall[e] # None =>
                     /\ reviewCall'[e].item = reviewCall[e].item
                     /\ reviewCall'[e].decision = reviewCall[e].decision
                /\ e # c => reviewCall'[e] = reviewCall[e]
<1>1. reviewCall[c] \in Reviewing!Call /\ None \notin Reviewing!Call /\ reviewCall \in [ReviewCalls -> Reviewing!Call \cup {None}]
  BY ReviewingRecords DEF Reviewing!DeskTypeOK
<1>2. [reviewCall[c] EXCEPT !.at = pc] \in Reviewing!Call
  BY <1>1 DEF Reviewing!Call
<1>3. /\ reviewCall' \in [ReviewCalls -> Reviewing!Call \cup {None}]
      /\ reviewCall'[c] = [reviewCall[c] EXCEPT !.at = pc]
      /\ \A e \in ReviewCalls : e # c => reviewCall'[e] = reviewCall[e]
  BY <1>1, <1>2
<1>4. /\ reviewCall'[c].at = pc /\ reviewCall'[c].item = reviewCall[c].item
      /\ reviewCall'[c].decision = reviewCall[c].decision /\ reviewCall'[c] # None
  BY <1>1, <1>2, <1>3 DEF Reviewing!Call
<1> QED
  BY <1>3, <1>4

(* A call is made.                                                         *)
LEMMA ReviewingConfirms ==
  ASSUME Reviewing!DeskTypeOK, NEW c \in ReviewCalls, NEW d \in {"approve", "reject"}, Reviewing!Confirm(c, d)
  PROVE  /\ reviewDialog[d] \in Pair /\ reviewCall[c] = None
         /\ reviewCall' \in [ReviewCalls -> Reviewing!Call \cup {None}]
         /\ reviewCall'[c] = [item |-> reviewDialog[d], decision |-> d, at |-> "sent"]
         /\ reviewCall'[c] # None
         /\ \A e \in ReviewCalls : e # c => reviewCall'[e] = reviewCall[e]
         /\ reviewLatest' \in [Reviewing!Decisions -> ReviewCalls \cup {None}]
         /\ reviewLatest'[d] = c
         /\ \A e \in {"approve", "reject"} : e # d => reviewLatest'[e] = reviewLatest[e]
<1>1. reviewDialog[d] \in Pair /\ None \notin Reviewing!Call
  BY ReviewingRecords DEF Reviewing!Confirm, Reviewing!Confirmable
<1>2. [item |-> reviewDialog[d], decision |-> d, at |-> "sent"] \in Reviewing!Call
  BY <1>1 DEF Reviewing!Call, Reviewing!Decisions
<1>3. /\ reviewCall' \in [ReviewCalls -> Reviewing!Call \cup {None}]
      /\ reviewCall'[c] = [item |-> reviewDialog[d], decision |-> d, at |-> "sent"]
      /\ \A e \in ReviewCalls : e # c => reviewCall'[e] = reviewCall[e]
  BY <1>2 DEF Reviewing!Confirm, Reviewing!DeskTypeOK
<1> QED
  BY <1>1, <1>2, <1>3 DEF Reviewing!Confirm, Reviewing!DeskTypeOK, Reviewing!Decisions

(* Where the rows of the page are: types, and nobody waits for a fetch     *)
(* that is over.                                                           *)
ReviewingLists ==
  /\ reviewView \in {"v1", "v2"}
  /\ reviewRows \in [{"v1", "v2"} -> (SUBSET Pair) \cup {None}]
  /\ reviewFetch \in [{"v1", "v2"} -> (SUBSET Pair) \cup {None, Unanswered}]
  /\ reviewJoined \in SUBSET {"v1", "v2"}
  /\ reviewWaits \in [{"v1", "v2"} -> SUBSET ReviewCalls]
  /\ \A v \in {"v1", "v2"} : reviewFetch[v] = None => reviewWaits[v] = {}

(* After a review the rows in view are fetched again, or the fetch under   *)
(* way is joined.                                                          *)
LEMMA ReviewingRefreshes ==
  ASSUME Reviewing!DeskTypeOK, NEW W \in SUBSET ReviewCalls, Reviewing!Refresh, Reviewing!Await(W),
         UNCHANGED <<reviewView, reviewRows>>
  PROVE  /\ ReviewingLists'
         /\ reviewView \in reviewJoined' \/ reviewFetch'[reviewView] = Unanswered
<1>1. ReviewingLists /\ Unanswered # None
  BY ReviewingRecords DEF Reviewing!DeskTypeOK, ReviewingLists
<1>2. /\ reviewWaits' \in [{"v1", "v2"} -> SUBSET ReviewCalls]
      /\ \A v \in {"v1", "v2"} : v # reviewView => reviewWaits'[v] = reviewWaits[v]
  BY <1>1 DEF ReviewingLists, Reviewing!Await
<1>3. CASE Reviewing!Loading
  <2>1. reviewJoined' = reviewJoined \cup {reviewView} /\ reviewFetch' = reviewFetch /\ reviewFetch[reviewView] # None
    BY <1>3 DEF Reviewing!Refresh, Reviewing!Join, Reviewing!Loading
  <2> QED
    BY <1>1, <1>2, <2>1 DEF ReviewingLists
<1>4. CASE ~Reviewing!Loading
  <2>1. reviewJoined' = reviewJoined \ {reviewView} /\ reviewFetch' = [reviewFetch EXCEPT ![reviewView] = Unanswered]
    BY <1>4 DEF Reviewing!Refresh, Reviewing!Begin
  <2>2. /\ reviewFetch' \in [{"v1", "v2"} -> (SUBSET Pair) \cup {None, Unanswered}] /\ reviewFetch'[reviewView] = Unanswered
        /\ \A v \in {"v1", "v2"} : v # reviewView => reviewFetch'[v] = reviewFetch[v]
    BY <1>1, <2>1 DEF ReviewingLists
  <2> QED
    BY <1>1, <1>2, <2>1, <2>2 DEF ReviewingLists
<1> QED
  BY <1>3, <1>4

(* Another view is shown, or the rows of one are read or arrive.           *)
LEMMA ReviewingTurns ==
  ASSUME Reviewing!DeskTypeOK, NEW v \in {"v1", "v2"},
         Reviewing!ReadRows(v) \/ Reviewing!RowsAnswered(v) \/ Reviewing!ChooseView(v)
  PROVE  /\ ReviewingLists'
         /\ UNCHANGED <<reviewStatus, reviewCall, reviewDialog, reviewLatest>>
         /\ \/ reviewView' \in reviewJoined' \/ reviewFetch'[reviewView'] = Unanswered
            \/ /\ UNCHANGED <<reviewView, reviewJoined>>
               /\ \/ /\ reviewFetch'[reviewView] = Reviewing!PendingItems
                     /\ reviewFetch'[reviewView] \in SUBSET Pair
                  \/ /\ reviewFetch[reviewView] \in SUBSET Pair /\ reviewFetch'[reviewView] = None
                     /\ reviewRows'[reviewView] = reviewFetch[reviewView]
                  \/ /\ reviewFetch'[reviewView] = reviewFetch[reviewView]
                     /\ reviewRows'[reviewView] = reviewRows[reviewView]
<1>1. /\ ReviewingLists /\ Unanswered # None /\ Unanswered \notin SUBSET Pair /\ None \notin SUBSET Pair
      /\ Reviewing!PendingItems \in SUBSET Pair
  BY ReviewingRecords DEF Reviewing!DeskTypeOK, ReviewingLists, Reviewing!PendingItems
<1>2. CASE Reviewing!ReadRows(v)
  <2>1. /\ reviewFetch' = [reviewFetch EXCEPT ![v] = Reviewing!PendingItems]
        /\ UNCHANGED <<reviewStatus, reviewCall, reviewDialog, reviewLatest, reviewView, reviewRows, reviewJoined, reviewWaits>>
    BY <1>2 DEF Reviewing!ReadRows
  <2>2. /\ reviewFetch' \in [{"v1", "v2"} -> (SUBSET Pair) \cup {None, Unanswered}] /\ reviewFetch'[v] = Reviewing!PendingItems
        /\ \A w \in {"v1", "v2"} : w # v => reviewFetch'[w] = reviewFetch[w]
    BY <1>1, <2>1 DEF ReviewingLists
  <2>3. ReviewingLists'
    BY <1>1, <2>1, <2>2 DEF ReviewingLists
  <2> QED
    BY <1>1, <2>1, <2>2, <2>3 DEF ReviewingLists
<1>3. CASE Reviewing!RowsAnswered(v)
  <2>1. /\ reviewFetch[v] \notin {None, Unanswered}
        /\ reviewRows' = [reviewRows EXCEPT ![v] = reviewFetch[v]]
        /\ reviewFetch' = [reviewFetch EXCEPT ![v] = None]
        /\ reviewWaits' = [reviewWaits EXCEPT ![v] = {}]
        /\ UNCHANGED <<reviewStatus, reviewCall, reviewDialog, reviewLatest, reviewView, reviewJoined>>
    BY <1>3 DEF Reviewing!RowsAnswered
  <2>2. /\ reviewFetch[v] \in SUBSET Pair
        /\ reviewRows' \in [{"v1", "v2"} -> (SUBSET Pair) \cup {None}] /\ reviewRows'[v] = reviewFetch[v]
        /\ reviewFetch' \in [{"v1", "v2"} -> (SUBSET Pair) \cup {None, Unanswered}] /\ reviewFetch'[v] = None
        /\ reviewWaits' \in [{"v1", "v2"} -> SUBSET ReviewCalls] /\ reviewWaits'[v] = {}
        /\ \A w \in {"v1", "v2"} : w # v => /\ reviewFetch'[w] = reviewFetch[w] /\ reviewRows'[w] = reviewRows[w]
                                  /\ reviewWaits'[w] = reviewWaits[w]
    BY <1>1, <2>1 DEF ReviewingLists
  <2>3. ReviewingLists'
    BY <1>1, <2>1, <2>2 DEF ReviewingLists
  <2> QED
    BY <1>1, <2>1, <2>2, <2>3 DEF ReviewingLists
<1>4. CASE Reviewing!ChooseView(v)
  <2>1. /\ reviewView' = v
        /\ UNCHANGED <<reviewStatus, reviewCall, reviewDialog, reviewLatest, reviewRows, reviewWaits>>
        /\ \/ /\ reviewFetch' = [reviewFetch EXCEPT ![v] = Unanswered] /\ reviewJoined' = reviewJoined \ {v}
              /\ reviewFetch[v] = None
           \/ reviewFetch' = reviewFetch /\ reviewJoined' = reviewJoined \cup {v}
    BY <1>4 DEF Reviewing!ChooseView, Reviewing!Begin, Reviewing!Join
  <2>2. CASE reviewFetch' = [reviewFetch EXCEPT ![v] = Unanswered] /\ reviewJoined' = reviewJoined \ {v}
    <3>1. /\ reviewFetch' \in [{"v1", "v2"} -> (SUBSET Pair) \cup {None, Unanswered}] /\ reviewFetch'[v] = Unanswered
          /\ \A w \in {"v1", "v2"} : w # v => reviewFetch'[w] = reviewFetch[w]
      BY <1>1, <2>2 DEF ReviewingLists
    <3>2. ReviewingLists'
      BY <1>1, <2>1, <2>2, <3>1 DEF ReviewingLists
    <3> QED
      BY <2>1, <3>1, <3>2
  <2>3. CASE reviewFetch' = reviewFetch /\ reviewJoined' = reviewJoined \cup {v}
    <3>1. ReviewingLists'
      BY <1>1, <2>1, <2>3 DEF ReviewingLists
    <3> QED
      BY <2>1, <2>3, <3>1
  <2> QED
    BY <2>1, <2>2, <2>3
<1> QED
  BY <1>2, <1>3, <1>4

(* The types of the page hold when it opens, and are kept.                 *)
LEMMA ReviewingTypes ==
  /\ Reviewing!Init => Reviewing!DeskTypeOK
  /\ Reviewing!DeskTypeOK /\ Reviewing!Next => Reviewing!DeskTypeOK'
<1>1. ASSUME Reviewing!Init
      PROVE  Reviewing!DeskTypeOK
  <2>1. ReviewingLists
    BY <1>1, ReviewingAssumption DEF Reviewing!Init, ReviewingLists, Reviewing!ReviewDeskAssumption
  <2> QED
    BY <1>1, <2>1 DEF Reviewing!Init, Reviewing!DeskTypeOK, ReviewingLists, Reviewing!Decisions, Reviewing!Pending
<1>2. ASSUME Reviewing!DeskTypeOK, Reviewing!Next
      PROVE  Reviewing!DeskTypeOK'
  <2>0. /\ reviewStatus \in [Pair -> {"pending", "approved", "rejected"}]
        /\ Reviewing!Outcome = [approve |-> "approved", reject |-> "rejected"]
        /\ Reviewing!Decisions = {"approve", "reject"} /\ ReviewingLists
    BY <1>2 DEF Reviewing!DeskTypeOK, ReviewingLists, Reviewing!Outcome, Reviewing!Decisions
  <2>s. ASSUME UNCHANGED <<reviewView, reviewRows, reviewFetch, reviewJoined, reviewWaits>>
        PROVE  ReviewingLists'
    BY <2>0, <2>s DEF ReviewingLists
  <2>1. ASSUME NEW i \in Pair, NEW d \in {"approve", "reject"}, Reviewing!ReviewByOther(i, d)
        PROVE  Reviewing!DeskTypeOK'
    <3>1. /\ reviewStatus' \in [Pair -> {"pending", "approved", "rejected"}]
          /\ UNCHANGED <<reviewCall, reviewDialog, reviewLatest, reviewView, reviewRows, reviewFetch, reviewJoined, reviewWaits>>
      BY <2>0, <2>1 DEF Reviewing!ReviewByOther, Reviewing!deskVars, Reviewing!listVars
    <3> QED
      BY <1>2, <2>s, <3>1 DEF Reviewing!DeskTypeOK, ReviewingLists
  <2>2. ASSUME NEW i \in Pair, NEW d \in {"approve", "reject"}, Reviewing!OpenDialog(i, d)
        PROVE  Reviewing!DeskTypeOK'
    <3>1. /\ reviewDialog' \in [Reviewing!Decisions -> Pair \cup {None}]
          /\ \E e \in Reviewing!Decisions : reviewDialog'[e] = None
      BY <1>2, <2>0, <2>2 DEF Reviewing!OpenDialog, Reviewing!NoDialog, Reviewing!DeskTypeOK
    <3>2. UNCHANGED <<reviewStatus, reviewCall, reviewLatest, reviewView, reviewRows, reviewFetch, reviewJoined, reviewWaits>>
      BY <2>2 DEF Reviewing!OpenDialog, Reviewing!listVars
    <3> QED
      BY <1>2, <2>s, <3>1, <3>2 DEF Reviewing!DeskTypeOK, ReviewingLists
  <2>3. ASSUME NEW d \in {"approve", "reject"}, Reviewing!Cancel(d)
        PROVE  Reviewing!DeskTypeOK'
    <3>1. /\ reviewDialog' \in [Reviewing!Decisions -> Pair \cup {None}]
          /\ \E e \in Reviewing!Decisions : reviewDialog'[e] = None
      BY <1>2, <2>0, <2>3 DEF Reviewing!Cancel, Reviewing!DeskTypeOK
    <3>2. UNCHANGED <<reviewStatus, reviewCall, reviewLatest, reviewView, reviewRows, reviewFetch, reviewJoined, reviewWaits>>
      BY <2>3 DEF Reviewing!Cancel, Reviewing!listVars
    <3> QED
      BY <1>2, <2>s, <3>1, <3>2 DEF Reviewing!DeskTypeOK, ReviewingLists
  <2>4. ASSUME NEW c \in ReviewCalls, NEW d \in {"approve", "reject"}, Reviewing!Confirm(c, d)
        PROVE  Reviewing!DeskTypeOK'
    <3>1. /\ reviewCall' \in [ReviewCalls -> Reviewing!Call \cup {None}]
          /\ reviewLatest' \in [Reviewing!Decisions -> ReviewCalls \cup {None}]
      BY <1>2, <2>4, ReviewingConfirms
    <3>2. UNCHANGED <<reviewStatus, reviewDialog, reviewView, reviewRows, reviewFetch, reviewJoined, reviewWaits>>
      BY <2>4 DEF Reviewing!Confirm, Reviewing!listVars
    <3> QED
      BY <1>2, <2>s, <3>1, <3>2 DEF Reviewing!DeskTypeOK, ReviewingLists
  <2>5. ASSUME NEW c \in ReviewCalls, Reviewing!Handle(c) \/ Reviewing!Unsent(c)
        PROVE  Reviewing!DeskTypeOK'
    <3>1. PICK pc \in {"ok", "refused"} : reviewCall' = [reviewCall EXCEPT ![c].at = pc]
      BY <2>5 DEF Reviewing!Handle, Reviewing!Unsent
    <3>2. reviewCall[c] # None
      BY <2>5 DEF Reviewing!Handle, Reviewing!Unsent
    <3>3. reviewCall' \in [ReviewCalls -> Reviewing!Call \cup {None}]
      BY <1>2, <3>1, <3>2, ReviewingMoves
    <3>4. /\ reviewStatus' \in [Pair -> {"pending", "approved", "rejected"}]
          /\ UNCHANGED <<reviewDialog, reviewLatest, reviewView, reviewRows, reviewFetch, reviewJoined, reviewWaits>>
      <4>1. reviewCall[c].decision \in {"approve", "reject"}
        BY <1>2, <3>2, ReviewingRecords
      <4> QED
        BY <2>0, <2>5, <4>1 DEF Reviewing!Handle, Reviewing!Unsent, Reviewing!deskVars, Reviewing!listVars
    <3> QED
      BY <1>2, <2>s, <3>3, <3>4 DEF Reviewing!DeskTypeOK, ReviewingLists
  <2>6. ASSUME NEW c \in ReviewCalls, Reviewing!Failed(c) \/ Reviewing!Succeeded(c) \/ Reviewing!Refreshed(c) \/ Reviewing!Settled(c)
        PROVE  Reviewing!DeskTypeOK'
    <3>1. PICK pc \in {"refreshing", "ended"} : reviewCall' = [reviewCall EXCEPT ![c].at = pc]
      BY <2>6 DEF Reviewing!Failed, Reviewing!Succeeded, Reviewing!Refreshed, Reviewing!Settled
    <3>2. reviewCall[c] # None
      BY <2>6 DEF Reviewing!Failed, Reviewing!Succeeded, Reviewing!Refreshed, Reviewing!Settled
    <3>3. reviewCall' \in [ReviewCalls -> Reviewing!Call \cup {None}]
      BY <1>2, <3>1, <3>2, ReviewingMoves
    <3>4. reviewCall[c].decision \in {"approve", "reject"}
      BY <1>2, <3>2, ReviewingRecords
    <3>5. /\ UNCHANGED <<reviewStatus, reviewLatest, reviewView, reviewRows>>
          /\ \/ reviewDialog' = reviewDialog
             \/ reviewDialog' = [reviewDialog EXCEPT ![reviewCall[c].decision] = None]
      BY <2>6 DEF Reviewing!Failed, Reviewing!Succeeded, Reviewing!Refreshed, Reviewing!Settled, Reviewing!FailTopup, Reviewing!FailRequest,
                  Reviewing!ClosedBy, Reviewing!listVars
    <3>6. ReviewingLists'
      <4>1. CASE Reviewing!Failed(c) \/ Reviewing!Refreshed(c)
        BY <2>s, <4>1 DEF Reviewing!Failed, Reviewing!Refreshed, Reviewing!listVars
      <4>2. CASE Reviewing!Succeeded(c) \/ Reviewing!Settled(c)
        <5>1. Reviewing!Refresh /\ (Reviewing!Await({c}) \/ Reviewing!Await({}))
          BY <4>2 DEF Reviewing!Succeeded, Reviewing!Settled
        <5> QED
          BY <1>2, <3>5, <5>1, ReviewingRefreshes
      <4> QED
        BY <2>6, <4>1, <4>2
    <3>7. /\ reviewDialog' \in [Reviewing!Decisions -> Pair \cup {None}]
          /\ \E e \in Reviewing!Decisions : reviewDialog'[e] = None
      BY <1>2, <2>0, <3>4, <3>5 DEF Reviewing!DeskTypeOK
    <3> QED
      BY <1>2, <3>3, <3>5, <3>6, <3>7 DEF Reviewing!DeskTypeOK, ReviewingLists
  <2>7. ASSUME NEW v \in {"v1", "v2"}, Reviewing!ReadRows(v) \/ Reviewing!RowsAnswered(v) \/ Reviewing!ChooseView(v)
        PROVE  Reviewing!DeskTypeOK'
    <3>1. UNCHANGED <<reviewStatus, reviewCall, reviewDialog, reviewLatest>> /\ ReviewingLists'
      BY <1>2, <2>7, ReviewingTurns
    <3> QED
      BY <1>2, <3>1 DEF Reviewing!DeskTypeOK, ReviewingLists
  <2> QED
    BY <1>2, <2>0, <2>1, <2>2, <2>3, <2>4, <2>5, <2>6, <2>7 DEF Reviewing!Next
<1> QED
  BY <1>1, <1>2

\* The rows in view, and what is read for them, are what is pending, unless a
\* review that was handled has not been answered, or the fetch was joined.
ReviewingHandled == \E c \in ReviewCalls : reviewCall[c] # None /\ reviewCall[c].at = "ok"

ReviewingFresh ==
  \/ ReviewingHandled \/ reviewView \in reviewJoined
  \/ /\ reviewFetch[reviewView] = None => reviewRows[reviewView] = Reviewing!PendingItems
     /\ reviewFetch[reviewView] \in SUBSET Pair => reviewFetch[reviewView] = Reviewing!PendingItems

(* An answer has the rows fetched again.                                   *)
LEMMA ReviewingStaysFresh ==
  ASSUME Reviewing!DeskTypeOK, ReviewingFresh, Reviewing!Next
  PROVE  ReviewingFresh'
<1>0. /\ ~(\E i \in Pair, d \in Reviewing!Decisions : Reviewing!ReviewByOther(i, d)) /\ ~(\E c \in ReviewCalls : Reviewing!Unsent(c))
      /\ None \notin SUBSET Pair /\ Unanswered \notin SUBSET Pair /\ Unanswered # None
  BY ReviewingRecords DEF Reviewing!ReviewByOther, Reviewing!Unsent
<1>1. ASSUME UNCHANGED <<reviewStatus, reviewView, reviewRows, reviewFetch, reviewJoined>>,
             ReviewingHandled => ReviewingHandled'
      PROVE  ReviewingFresh'
  BY <1>1 DEF ReviewingFresh, Reviewing!PendingItems
<1>2. ASSUME NEW i \in Pair, NEW d \in Reviewing!Decisions, Reviewing!OpenDialog(i, d) \/ Reviewing!Cancel(d)
      PROVE  ReviewingFresh'
  BY <1>1, <1>2 DEF Reviewing!OpenDialog, Reviewing!Cancel, Reviewing!listVars, ReviewingHandled
<1>3. ASSUME NEW d \in Reviewing!Decisions, Reviewing!Cancel(d)
      PROVE  ReviewingFresh'
  BY <1>1, <1>3 DEF Reviewing!Cancel, Reviewing!listVars, ReviewingHandled
<1>4. ASSUME NEW c \in ReviewCalls, NEW d \in Reviewing!Decisions, Reviewing!Confirm(c, d)
      PROVE  ReviewingFresh'
  <2>1. reviewCall[c] = None /\ \A e \in ReviewCalls : e # c => reviewCall'[e] = reviewCall[e]
    BY <1>4, ReviewingConfirms DEF Reviewing!Decisions
  <2>2. UNCHANGED <<reviewStatus, reviewView, reviewRows, reviewFetch, reviewJoined>>
    BY <1>4 DEF Reviewing!Confirm, Reviewing!listVars
  <2>3. ReviewingHandled => ReviewingHandled'
    BY <2>1 DEF ReviewingHandled
  <2> QED
    BY <1>1, <2>2, <2>3
<1>5. ASSUME NEW c \in ReviewCalls, Reviewing!Handle(c)
      PROVE  ReviewingFresh'
  <2>1. reviewCall[c] # None /\ reviewCall[c].at = "sent"
    BY <1>5 DEF Reviewing!Handle
  <2>2. CASE Reviewing!Reviewable(reviewCall[c].item)
    <3>1. reviewCall' = [reviewCall EXCEPT ![c].at = "ok"]
      BY <1>5, <2>2 DEF Reviewing!Handle
    <3>2. reviewCall'[c] # None /\ reviewCall'[c].at = "ok"
      BY <2>1, <3>1, ReviewingMoves
    <3> QED
      BY <3>2 DEF ReviewingFresh, ReviewingHandled
  <2>3. CASE ~Reviewing!Reviewable(reviewCall[c].item)
    <3>1. /\ reviewCall' = [reviewCall EXCEPT ![c].at = "refused"]
          /\ UNCHANGED <<reviewStatus, reviewView, reviewRows, reviewFetch, reviewJoined>>
      BY <1>5, <2>3 DEF Reviewing!Handle, Reviewing!deskVars, Reviewing!listVars
    <3>2. \A e \in ReviewCalls : e # c => reviewCall'[e] = reviewCall[e]
      BY <2>1, <3>1, ReviewingMoves
    <3>3. ReviewingHandled => ReviewingHandled'
      BY <2>1, <3>2 DEF ReviewingHandled
    <3> QED
      BY <1>1, <3>1, <3>3
  <2> QED
    BY <2>2, <2>3
<1>6. ASSUME NEW c \in ReviewCalls, Reviewing!Failed(c) \/ Reviewing!Refreshed(c)
      PROVE  ReviewingFresh'
  <2>1. /\ reviewCall[c] # None /\ reviewCall[c].at # "ok"
        /\ reviewCall' = [reviewCall EXCEPT ![c].at = "ended"]
        /\ UNCHANGED <<reviewStatus, reviewView, reviewRows, reviewFetch, reviewJoined>>
    BY <1>6 DEF Reviewing!Failed, Reviewing!Refreshed, Reviewing!FailTopup, Reviewing!FailRequest, Reviewing!listVars
  <2>2. \A e \in ReviewCalls : e # c => reviewCall'[e] = reviewCall[e]
    BY <2>1, ReviewingMoves
  <2>3. ReviewingHandled => ReviewingHandled'
    BY <2>1, <2>2 DEF ReviewingHandled
  <2> QED
    BY <1>1, <2>1, <2>3
<1>7. ASSUME NEW c \in ReviewCalls, Reviewing!Succeeded(c) \/ Reviewing!Settled(c)
      PROVE  ReviewingFresh'
  <2>1. Reviewing!Refresh /\ (Reviewing!Await({c}) \/ Reviewing!Await({})) /\ UNCHANGED <<reviewView, reviewRows>>
    BY <1>7 DEF Reviewing!Succeeded, Reviewing!Settled
  <2>2. reviewView \in reviewJoined' \/ reviewFetch'[reviewView] = Unanswered
    BY <2>1, ReviewingRefreshes
  <2> QED
    BY <1>0, <2>1, <2>2 DEF ReviewingFresh
<1>8. ASSUME NEW v \in {"v1", "v2"}, Reviewing!ReadRows(v) \/ Reviewing!RowsAnswered(v) \/ Reviewing!ChooseView(v)
      PROVE  ReviewingFresh'
  <2>1. /\ UNCHANGED <<reviewStatus, reviewCall, reviewDialog, reviewLatest>>
        /\ \/ reviewView' \in reviewJoined' \/ reviewFetch'[reviewView'] = Unanswered
           \/ /\ UNCHANGED <<reviewView, reviewJoined>>
              /\ \/ /\ reviewFetch'[reviewView] = Reviewing!PendingItems
                    /\ reviewFetch'[reviewView] \in SUBSET Pair
                 \/ /\ reviewFetch[reviewView] \in SUBSET Pair /\ reviewFetch'[reviewView] = None
                    /\ reviewRows'[reviewView] = reviewFetch[reviewView]
                 \/ /\ reviewFetch'[reviewView] = reviewFetch[reviewView]
                    /\ reviewRows'[reviewView] = reviewRows[reviewView]
    BY <1>8, ReviewingTurns
  <2>2. Reviewing!PendingItems' = Reviewing!PendingItems /\ (ReviewingHandled => ReviewingHandled')
    BY <2>1 DEF Reviewing!PendingItems, ReviewingHandled
  <2> QED
    BY <1>0, <2>1, <2>2 DEF ReviewingFresh
<1> QED
  BY <1>0, <1>2, <1>3, <1>4, <1>5, <1>6, <1>7, <1>8 DEF Reviewing!Next

\* The latest call of a dialog is of its item, until it has ended.
ReviewingHeld ==
  \A d \in {"approve", "reject"} : reviewLatest[d] # None =>
    /\ reviewCall[reviewLatest[d]] # None /\ reviewCall[reviewLatest[d]].decision = d
    /\ reviewCall[reviewLatest[d]].at # "ended" /\ reviewDialog[d] # None =>
         reviewCall[reviewLatest[d]].item = reviewDialog[d]

(* Nothing is opened while a call is under way, and its answer closes only *)
(* its own dialog (CreditTopups.tsx:177-189).                              *)
LEMMA ReviewingStaysHeld ==
  ASSUME Reviewing!DeskTypeOK, ReviewingHeld, Reviewing!Next
  PROVE  ReviewingHeld' /\ Reviewing!ClosedIsReviewed
<1> DEFINE Goal == ReviewingHeld' /\ Reviewing!ClosedIsReviewed
<1>0. ~(\E c \in ReviewCalls : Reviewing!Settled(c)) /\ Reviewing!Decisions = {"approve", "reject"}
  BY DEF Reviewing!Settled, Reviewing!Decisions
<1>1. ASSUME reviewCall' = reviewCall, reviewLatest' = reviewLatest, reviewDialog' = reviewDialog
      PROVE  Goal
  BY <1>1 DEF ReviewingHeld, Reviewing!ClosedIsReviewed
<1>2. ASSUME NEW c \in ReviewCalls, reviewCall[c] # None,
             NEW pc \in {"ok", "refused", "refreshing", "ended"},
             reviewCall' = [reviewCall EXCEPT ![c].at = pc],
             reviewCall[c].at # "ended" \/ pc = "ended",
             reviewLatest' = reviewLatest, reviewDialog' = reviewDialog
      PROVE  Goal
  <2>1. /\ reviewCall'[c].at = pc
        /\ \A e \in ReviewCalls :
               /\ reviewCall'[e] = None <=> reviewCall[e] = None
               /\ reviewCall[e] # None =>
                    /\ reviewCall'[e].item = reviewCall[e].item
                    /\ reviewCall'[e].decision = reviewCall[e].decision
               /\ e # c => reviewCall'[e] = reviewCall[e]
    BY <1>2, ReviewingMoves
  <2>2. \A d \in {"approve", "reject"} : reviewLatest[d] \in ReviewCalls \cup {None}
    BY ReviewingRecords
  <2>3. ReviewingHeld'
    BY <1>2, <2>1, <2>2 DEF ReviewingHeld
  <2> QED
    BY <1>2, <2>3 DEF Reviewing!ClosedIsReviewed
<1>3. ASSUME NEW i \in Pair, NEW d \in Reviewing!Decisions, Reviewing!ReviewByOther(i, d) \/ Reviewing!OpenDialog(i, d)
      PROVE  Goal
  <2>1. CASE Reviewing!ReviewByOther(i, d)
    BY <1>1, <2>1 DEF Reviewing!ReviewByOther, Reviewing!deskVars
  <2>2. CASE Reviewing!OpenDialog(i, d)
    <3>1. /\ UNCHANGED <<reviewCall, reviewLatest>>
          /\ \A e \in {"approve", "reject"} : reviewDialog[e] = None
          /\ \A e \in {"approve", "reject"} : reviewLatest[e] # None => reviewCall[reviewLatest[e]].at = "ended"
      BY <1>0, <2>2 DEF Reviewing!OpenDialog, Reviewing!NoDialog, Reviewing!Quiet, Reviewing!IsPending
    <3> QED
      BY <1>0, <3>1 DEF ReviewingHeld, Reviewing!ClosedIsReviewed
  <2> QED
    BY <1>3, <2>1, <2>2
<1>4. ASSUME NEW d \in Reviewing!Decisions, Reviewing!Cancel(d)
      PROVE  Goal
  <2>1. /\ UNCHANGED <<reviewCall, reviewLatest>>
        /\ reviewDialog' = [reviewDialog EXCEPT ![d] = None] /\ reviewDialog \in [{"approve", "reject"} -> Pair \cup {None}]
    BY <1>0, <1>4 DEF Reviewing!Cancel, Reviewing!DeskTypeOK
  <2>2. ReviewingHeld'
    BY <1>0, <2>1 DEF ReviewingHeld
  <2>3. \A e \in Reviewing!Decisions : reviewDialog[e] # None /\ reviewDialog'[e] = None => e = d
    BY <1>0, <2>1
  <2> QED
    BY <1>4, <2>2, <2>3 DEF Reviewing!ClosedIsReviewed
<1>5. ASSUME NEW c \in ReviewCalls, NEW d \in Reviewing!Decisions, Reviewing!Confirm(c, d)
      PROVE  Goal
  <2>1. /\ reviewCall[c] = None
        /\ reviewCall'[c] = [item |-> reviewDialog[d], decision |-> d, at |-> "sent"]
        /\ reviewCall'[c] # None
        /\ \A e \in ReviewCalls : e # c => reviewCall'[e] = reviewCall[e]
        /\ reviewLatest'[d] = c
        /\ \A e \in {"approve", "reject"} : e # d => reviewLatest'[e] = reviewLatest[e]
    BY <1>0, <1>5, ReviewingConfirms
  <2>2. reviewDialog' = reviewDialog
    BY <1>5 DEF Reviewing!Confirm
  <2>3. \A e \in {"approve", "reject"} : reviewLatest[e] \in ReviewCalls \cup {None}
    BY ReviewingRecords
  <2>4. ReviewingHeld'
    BY <1>0, <2>1, <2>2, <2>3 DEF ReviewingHeld
  <2> QED
    BY <2>2, <2>4 DEF Reviewing!ClosedIsReviewed
<1>6. ASSUME NEW c \in ReviewCalls, Reviewing!Handle(c) \/ Reviewing!Unsent(c)
      PROVE  Goal
  <2>1. /\ reviewCall[c] # None /\ reviewCall[c].at = "sent"
        /\ UNCHANGED <<reviewDialog, reviewLatest>>
    BY <1>6 DEF Reviewing!Handle, Reviewing!Unsent, Reviewing!deskVars
  <2>2. PICK pc \in {"ok", "refused"} : reviewCall' = [reviewCall EXCEPT ![c].at = pc]
    BY <1>6 DEF Reviewing!Handle, Reviewing!Unsent
  <2> QED
    BY <1>2, <2>1, <2>2
<1>7. ASSUME NEW c \in ReviewCalls, Reviewing!Failed(c) \/ Reviewing!Succeeded(c)
      PROVE  Goal
  <2>1. /\ reviewCall[c] # None /\ reviewCall[c].at \in {"ok", "refused"}
        /\ UNCHANGED <<reviewDialog, reviewLatest>>
    BY <1>7 DEF Reviewing!Failed, Reviewing!FailTopup, Reviewing!FailRequest, Reviewing!Succeeded
  <2>2. PICK pc \in {"refreshing", "ended"} : reviewCall' = [reviewCall EXCEPT ![c].at = pc]
    BY <1>7 DEF Reviewing!Failed, Reviewing!Succeeded
  <2> QED
    BY <1>2, <2>1, <2>2
<1>8. ASSUME NEW c \in ReviewCalls, Reviewing!Refreshed(c)
      PROVE  Goal
  <2> DEFINE d == reviewCall[c].decision
  <2>1. /\ reviewCall[c] # None /\ reviewCall[c].at = "refreshing"
        /\ reviewCall' = [reviewCall EXCEPT ![c].at = "ended"] /\ reviewLatest' = reviewLatest
    BY <1>8 DEF Reviewing!Refreshed
  <2>2. CASE reviewDialog' = reviewDialog
    BY <1>2, <2>1, <2>2
  <2>3. CASE c = reviewLatest[d] /\ reviewDialog' = [reviewDialog EXCEPT ![d] = None]
    <3>1. d \in {"approve", "reject"} /\ None \notin ReviewCalls
      BY <2>1, ReviewingRecords
    <3>2. \A e \in ReviewCalls :
              /\ reviewCall'[e] = None <=> reviewCall[e] = None
              /\ reviewCall[e] # None =>
                   /\ reviewCall'[e].item = reviewCall[e].item
                   /\ reviewCall'[e].decision = reviewCall[e].decision
              /\ e # c => reviewCall'[e] = reviewCall[e]
      BY <2>1, ReviewingMoves
    <3>3. reviewCall'[c].at = "ended"
      BY <2>1, ReviewingMoves
    <3>4. /\ \A e \in {"approve", "reject"} : reviewLatest[e] \in ReviewCalls \cup {None}
          /\ reviewDialog \in [{"approve", "reject"} -> Pair \cup {None}]
      BY <1>0, ReviewingRecords DEF Reviewing!DeskTypeOK
    <3>5. ReviewingHeld'
      BY <2>1, <2>3, <3>1, <3>2, <3>3, <3>4 DEF ReviewingHeld
    <3>6. \A e \in {"approve", "reject"} : reviewDialog[e] # None /\ reviewDialog'[e] = None => e = d
      BY <2>3, <3>1, <3>4
    <3>7. reviewDialog[d] # None => reviewCall[c].item = reviewDialog[d]
      BY <2>1, <2>3, <3>1 DEF ReviewingHeld
    <3> QED
      BY <1>0, <2>1, <3>5, <3>6, <3>7 DEF Reviewing!ClosedIsReviewed
  <2> QED
    BY <1>8, <2>2, <2>3 DEF Reviewing!Refreshed, Reviewing!ClosedBy
<1>9. ASSUME NEW v \in {"v1", "v2"}, Reviewing!ReadRows(v) \/ Reviewing!RowsAnswered(v) \/ Reviewing!ChooseView(v)
      PROVE  Goal
  BY <1>1, <1>9 DEF Reviewing!ReadRows, Reviewing!RowsAnswered, Reviewing!ChooseView
<1> QED
  BY <1>0, <1>3, <1>4, <1>5, <1>6, <1>7, <1>8, <1>9 DEF Reviewing!Next

\* One approval is under way at most, the one the page shows.
OneApproval ==
  \A c \in ReviewCalls :
    reviewCall[c] # None /\ reviewCall[c].decision = "approve" /\ reviewCall[c].at # "ended" =>
      c = reviewLatest["approve"]

\* An approval that was handled has not been answered.
ApprovalHandled ==
  \E c \in ReviewCalls : reviewCall[c] # None /\ reviewCall[c].decision = "approve" /\ reviewCall[c].at = "ok"

NotApproved(R) == \A i \in R : reviewStatus[i] # "approved"

\* Rows in view that still offer an approved top-up are about to be fetched
\* again.
RowsToBeFetched ==
  \/ ApprovalHandled \/ reviewView \in reviewJoined
  \/ /\ reviewFetch[reviewView] = None /\ reviewRows[reviewView] \in SUBSET Pair =>
          NotApproved(reviewRows[reviewView])
     /\ reviewFetch[reviewView] \in SUBSET Pair => NotApproved(reviewFetch[reviewView])

ReviewingOffers == OneApproval /\ RowsToBeFetched

(* An approved top-up has left the rows in view before its call ends.      *)
LEMMA ReviewingStaysOffers ==
  ASSUME Reviewing!DeskTypeOK, ReviewingOffers, Reviewing!Next
  PROVE  ReviewingOffers'
<1>0. /\ ~(\E c \in ReviewCalls : Reviewing!Settled(c) \/ Reviewing!Unsent(c))
      /\ ~(\E i \in Pair, d \in Reviewing!Decisions : Reviewing!ReviewByOther(i, d))
      /\ Reviewing!Decisions = {"approve", "reject"}
      /\ None \notin SUBSET Pair /\ Unanswered \notin SUBSET Pair /\ Unanswered # None
      /\ reviewLatest["approve"] \in ReviewCalls \cup {None}
      /\ reviewStatus \in [Pair -> {"pending", "approved", "rejected"}]
      /\ OneApproval /\ RowsToBeFetched
  BY ReviewingRecords DEF Reviewing!Settled, Reviewing!Unsent, Reviewing!ReviewByOther, Reviewing!Decisions,
     Reviewing!DeskTypeOK, ReviewingOffers
<1>1. ASSUME UNCHANGED <<reviewStatus, reviewView, reviewRows, reviewFetch, reviewJoined>>,
             ApprovalHandled => ApprovalHandled'
      PROVE  RowsToBeFetched'
  BY <1>0, <1>1 DEF RowsToBeFetched, NotApproved
<1>2. ASSUME NEW c \in ReviewCalls, reviewCall[c] # None, NEW pc \in {"ok", "refused", "refreshing", "ended"},
             reviewCall[c].at # "ended" \/ pc = "ended",
             reviewCall' = [reviewCall EXCEPT ![c].at = pc], reviewLatest' = reviewLatest
      PROVE  /\ OneApproval'
             /\ reviewCall'[c] # None /\ reviewCall'[c].at = pc /\ reviewCall'[c].decision = reviewCall[c].decision
             /\ reviewCall[c].at # "ok" => (ApprovalHandled => ApprovalHandled')
  <2>1. /\ reviewCall'[c].at = pc
        /\ \A e \in ReviewCalls :
               /\ reviewCall'[e] = None <=> reviewCall[e] = None
               /\ reviewCall[e] # None =>
                    /\ reviewCall'[e].item = reviewCall[e].item
                    /\ reviewCall'[e].decision = reviewCall[e].decision
               /\ e # c => reviewCall'[e] = reviewCall[e]
    BY <1>2, ReviewingMoves
  <2>2. OneApproval'
    BY <1>0, <1>2, <2>1 DEF OneApproval
  <2> QED
    BY <1>2, <2>1, <2>2 DEF ApprovalHandled
<1>3. ASSUME NEW i \in Pair, NEW d \in Reviewing!Decisions, Reviewing!OpenDialog(i, d) \/ Reviewing!Cancel(d)
      PROVE  ReviewingOffers'
  <2>1. UNCHANGED <<reviewStatus, reviewCall, reviewLatest, reviewView, reviewRows, reviewFetch, reviewJoined>>
    BY <1>3 DEF Reviewing!OpenDialog, Reviewing!Cancel, Reviewing!listVars
  <2> QED
    BY <1>0, <1>1, <2>1 DEF ReviewingOffers, OneApproval, ApprovalHandled
<1>4. ASSUME NEW d \in Reviewing!Decisions, Reviewing!Cancel(d)
      PROVE  ReviewingOffers'
  <2>1. UNCHANGED <<reviewStatus, reviewCall, reviewLatest, reviewView, reviewRows, reviewFetch, reviewJoined>>
    BY <1>4 DEF Reviewing!Cancel, Reviewing!listVars
  <2> QED
    BY <1>0, <1>1, <2>1 DEF ReviewingOffers, OneApproval, ApprovalHandled
<1>5. ASSUME NEW c \in ReviewCalls, NEW d \in Reviewing!Decisions, Reviewing!Confirm(c, d)
      PROVE  ReviewingOffers'
  <2>1. /\ reviewCall[c] = None /\ reviewCall'[c].decision = d
        /\ \A e \in ReviewCalls : e # c => reviewCall'[e] = reviewCall[e]
        /\ reviewLatest'[d] = c
        /\ \A e \in {"approve", "reject"} : e # d => reviewLatest'[e] = reviewLatest[e]
    BY <1>0, <1>5, ReviewingConfirms
  <2>2. /\ UNCHANGED <<reviewStatus, reviewView, reviewRows, reviewFetch, reviewJoined>>
        /\ d = "approve" => reviewLatest["approve"] = None \/ reviewCall[reviewLatest["approve"]].at = "ended"
    BY <1>5 DEF Reviewing!Confirm, Reviewing!Confirmable, Reviewing!IsPending, Reviewing!listVars
  <2>3. ApprovalHandled => ApprovalHandled'
    BY <2>1 DEF ApprovalHandled
  <2>4. OneApproval'
    <3>1. CASE d = "approve"
      <4>1. \A e \in ReviewCalls : e # c /\ reviewCall[e] # None /\ reviewCall[e].decision = "approve" => reviewCall[e].at = "ended"
        BY <1>0, <2>2, <3>1, ReviewingRecords DEF OneApproval
      <4> QED
        BY <2>1, <3>1, <4>1 DEF OneApproval
    <3>2. CASE d = "reject"
      BY <1>0, <2>1, <3>2 DEF OneApproval
    <3> QED
      BY <1>0, <3>1, <3>2
  <2> QED
    BY <1>1, <2>2, <2>3, <2>4 DEF ReviewingOffers
<1>6. ASSUME NEW c \in ReviewCalls, Reviewing!Handle(c)
      PROVE  ReviewingOffers'
  <2>1. /\ reviewCall[c] # None /\ reviewCall[c].at = "sent" /\ reviewCall[c].item \in Pair
        /\ reviewCall[c].decision \in {"approve", "reject"}
        /\ UNCHANGED <<reviewLatest, reviewView, reviewRows, reviewFetch, reviewJoined>>
    BY <1>6, ReviewingRecords DEF Reviewing!Handle, Reviewing!deskVars, Reviewing!listVars
  <2>2. CASE Reviewing!Reviewable(reviewCall[c].item)
    <3>1. /\ reviewCall' = [reviewCall EXCEPT ![c].at = "ok"]
          /\ reviewStatus' = [reviewStatus EXCEPT ![reviewCall[c].item] = Reviewing!Outcome[reviewCall[c].decision]]
      BY <1>6, <2>2 DEF Reviewing!Handle
    <3>2. /\ OneApproval' /\ reviewCall'[c] # None /\ reviewCall'[c].at = "ok"
          /\ reviewCall'[c].decision = reviewCall[c].decision /\ (ApprovalHandled => ApprovalHandled')
      BY <1>2, <2>1, <3>1
    <3>3. CASE reviewCall[c].decision = "approve"
      <4>1. ApprovalHandled'
        BY <3>2, <3>3 DEF ApprovalHandled
      <4> QED
        BY <3>2, <4>1 DEF ReviewingOffers, RowsToBeFetched
    <3>4. CASE reviewCall[c].decision = "reject"
      <4>1. \A i \in Pair : reviewStatus'[i] = "approved" => reviewStatus[i] = "approved"
        BY <1>0, <2>1, <3>1, <3>4 DEF Reviewing!Outcome
      <4>2. \A R \in SUBSET Pair : NotApproved(R) => NotApproved(R)'
        BY <4>1 DEF NotApproved
      <4>3. RowsToBeFetched'
        BY <1>0, <2>1, <3>2, <4>2 DEF RowsToBeFetched
      <4> QED
        BY <3>2, <4>3 DEF ReviewingOffers
    <3> QED
      BY <2>1, <3>3, <3>4
  <2>3. CASE ~Reviewing!Reviewable(reviewCall[c].item)
    <3>1. reviewCall' = [reviewCall EXCEPT ![c].at = "refused"] /\ reviewStatus' = reviewStatus
      BY <1>6, <2>3 DEF Reviewing!Handle
    <3>2. OneApproval' /\ (ApprovalHandled => ApprovalHandled')
      BY <1>2, <2>1, <3>1
    <3> QED
      BY <1>1, <2>1, <3>1, <3>2 DEF ReviewingOffers
  <2> QED
    BY <2>2, <2>3
<1>7. ASSUME NEW c \in ReviewCalls, Reviewing!Failed(c) \/ Reviewing!Refreshed(c)
      PROVE  ReviewingOffers'
  <2>1. /\ reviewCall[c] # None /\ reviewCall[c].at # "ok"
        /\ reviewCall' = [reviewCall EXCEPT ![c].at = "ended"]
        /\ UNCHANGED <<reviewStatus, reviewLatest, reviewView, reviewRows, reviewFetch, reviewJoined>>
    BY <1>7 DEF Reviewing!Failed, Reviewing!Refreshed, Reviewing!listVars
  <2>2. OneApproval' /\ (ApprovalHandled => ApprovalHandled')
    BY <1>2, <2>1
  <2> QED
    BY <1>1, <2>1, <2>2 DEF ReviewingOffers
<1>8. ASSUME NEW c \in ReviewCalls, Reviewing!Succeeded(c)
      PROVE  ReviewingOffers'
  <2>1. /\ reviewCall[c] # None /\ reviewCall[c].at = "ok"
        /\ reviewCall' = [reviewCall EXCEPT ![c].at = "refreshing"]
        /\ Reviewing!Refresh /\ Reviewing!Await({c})
        /\ UNCHANGED <<reviewStatus, reviewLatest, reviewView, reviewRows>>
    BY <1>8 DEF Reviewing!Succeeded
  <2>2. OneApproval'
    BY <1>2, <2>1
  <2>3. reviewView \in reviewJoined' \/ reviewFetch'[reviewView] = Unanswered
    BY <2>1, ReviewingRefreshes
  <2>4. RowsToBeFetched'
    BY <1>0, <2>1, <2>3 DEF RowsToBeFetched
  <2> QED
    BY <2>2, <2>4 DEF ReviewingOffers
<1>9. ASSUME NEW v \in {"v1", "v2"},
             Reviewing!ReadRows(v) \/ Reviewing!RowsAnswered(v) \/ Reviewing!ChooseView(v)
      PROVE  ReviewingOffers'
  <2>1. /\ UNCHANGED <<reviewStatus, reviewCall, reviewDialog, reviewLatest>>
        /\ \/ reviewView' \in reviewJoined' \/ reviewFetch'[reviewView'] = Unanswered
           \/ /\ UNCHANGED <<reviewView, reviewJoined>>
              /\ \/ /\ reviewFetch'[reviewView] = Reviewing!PendingItems
                    /\ reviewFetch'[reviewView] \in SUBSET Pair
                 \/ /\ reviewFetch[reviewView] \in SUBSET Pair /\ reviewFetch'[reviewView] = None
                    /\ reviewRows'[reviewView] = reviewFetch[reviewView]
                 \/ /\ reviewFetch'[reviewView] = reviewFetch[reviewView]
                    /\ reviewRows'[reviewView] = reviewRows[reviewView]
    BY <1>9, ReviewingTurns
  <2>2. /\ OneApproval' /\ (ApprovalHandled => ApprovalHandled')
        /\ \A i \in Reviewing!PendingItems : reviewStatus'[i] # "approved"
    BY <1>0, <2>1 DEF OneApproval, ApprovalHandled, Reviewing!PendingItems, Reviewing!Pending
  <2>3. RowsToBeFetched'
    BY <1>0, <2>1, <2>2 DEF RowsToBeFetched, NotApproved
  <2> QED
    BY <2>2, <2>3 DEF ReviewingOffers
<1> QED
  BY <1>0, <1>3, <1>4, <1>5, <1>6, <1>7, <1>8, <1>9 DEF Reviewing!Next

-----------------------------------------------------------------------------
(* The page of the registration requests, of staff who are alone.          *)

(* What the page and the server hold.                                      *)
LEMMA RequestingRecords ==
  ASSUME Requesting!DeskTypeOK
  PROVE  /\ \A c \in RequestCalls : reviewCall[c] # None =>
              /\ reviewCall[c] \in Requesting!Call /\ reviewCall[c].item \in Pair
              /\ reviewCall[c].decision \in {"approve", "reject"}
              /\ reviewCall[c].at \in {"sent", "ok", "refused", "refreshing", "ended"}
         /\ \A d \in {"approve", "reject"} :
              /\ reviewDialog[d] \in Pair \cup {None}
              /\ reviewLatest[d] \in RequestCalls \cup {None}
         /\ None \notin Pair /\ None \notin RequestCalls /\ None \notin SUBSET Pair /\ None \notin Requesting!Call
         /\ Unanswered \notin SUBSET Pair /\ Unanswered # None
<1>1. \A c \in RequestCalls : reviewCall[c] # None =>
              /\ reviewCall[c] \in Requesting!Call /\ reviewCall[c].item \in Pair
              /\ reviewCall[c].decision \in {"approve", "reject"}
              /\ reviewCall[c].at \in {"sent", "ok", "refused", "refreshing", "ended"}
  BY DEF Requesting!DeskTypeOK, Requesting!Call, Requesting!Decisions
<1>2. \A d \in {"approve", "reject"} :
              /\ reviewDialog[d] \in Pair \cup {None}
              /\ reviewLatest[d] \in RequestCalls \cup {None}
  BY DEF Requesting!DeskTypeOK, Requesting!Decisions
<1> QED
  BY <1>1, <1>2, RequestingAssumption DEF Requesting!ReviewDeskAssumption

(* A call moves on, and the others stay.                                   *)
LEMMA RequestingMoves ==
  ASSUME Requesting!DeskTypeOK, NEW c \in RequestCalls, reviewCall[c] # None,
         NEW pc \in {"ok", "refused", "refreshing", "ended"},
         reviewCall' = [reviewCall EXCEPT ![c].at = pc]
  PROVE  /\ reviewCall' \in [RequestCalls -> Requesting!Call \cup {None}]
         /\ reviewCall'[c].at = pc
         /\ \A e \in RequestCalls :
                /\ reviewCall'[e] = None <=> reviewCall[e] = None
                /\ reviewCall[e] # None =>
                     /\ reviewCall'[e].item = reviewCall[e].item
                     /\ reviewCall'[e].decision = reviewCall[e].decision
                /\ e # c => reviewCall'[e] = reviewCall[e]
<1>1. reviewCall[c] \in Requesting!Call /\ None \notin Requesting!Call /\ reviewCall \in [RequestCalls -> Requesting!Call \cup {None}]
  BY RequestingRecords DEF Requesting!DeskTypeOK
<1>2. [reviewCall[c] EXCEPT !.at = pc] \in Requesting!Call
  BY <1>1 DEF Requesting!Call
<1>3. /\ reviewCall' \in [RequestCalls -> Requesting!Call \cup {None}]
      /\ reviewCall'[c] = [reviewCall[c] EXCEPT !.at = pc]
      /\ \A e \in RequestCalls : e # c => reviewCall'[e] = reviewCall[e]
  BY <1>1, <1>2
<1>4. /\ reviewCall'[c].at = pc /\ reviewCall'[c].item = reviewCall[c].item
      /\ reviewCall'[c].decision = reviewCall[c].decision /\ reviewCall'[c] # None
  BY <1>1, <1>2, <1>3 DEF Requesting!Call
<1> QED
  BY <1>3, <1>4

(* A call is made.                                                         *)
LEMMA RequestingConfirms ==
  ASSUME Requesting!DeskTypeOK, NEW c \in RequestCalls, NEW d \in {"approve", "reject"}, Requesting!Confirm(c, d)
  PROVE  /\ reviewDialog[d] \in Pair /\ reviewCall[c] = None
         /\ reviewCall' \in [RequestCalls -> Requesting!Call \cup {None}]
         /\ reviewCall'[c] = [item |-> reviewDialog[d], decision |-> d, at |-> "sent"]
         /\ reviewCall'[c] # None
         /\ \A e \in RequestCalls : e # c => reviewCall'[e] = reviewCall[e]
         /\ reviewLatest' \in [Requesting!Decisions -> RequestCalls \cup {None}]
         /\ reviewLatest'[d] = c
         /\ \A e \in {"approve", "reject"} : e # d => reviewLatest'[e] = reviewLatest[e]
<1>1. reviewDialog[d] \in Pair /\ None \notin Requesting!Call
  BY RequestingRecords DEF Requesting!Confirm, Requesting!Confirmable
<1>2. [item |-> reviewDialog[d], decision |-> d, at |-> "sent"] \in Requesting!Call
  BY <1>1 DEF Requesting!Call, Requesting!Decisions
<1>3. /\ reviewCall' \in [RequestCalls -> Requesting!Call \cup {None}]
      /\ reviewCall'[c] = [item |-> reviewDialog[d], decision |-> d, at |-> "sent"]
      /\ \A e \in RequestCalls : e # c => reviewCall'[e] = reviewCall[e]
  BY <1>2 DEF Requesting!Confirm, Requesting!DeskTypeOK
<1> QED
  BY <1>1, <1>2, <1>3 DEF Requesting!Confirm, Requesting!DeskTypeOK, Requesting!Decisions

(* Where the rows of the page are: types, and nobody waits for a fetch     *)
(* that is over.                                                           *)
RequestingLists ==
  /\ reviewView \in {"v1"}
  /\ reviewRows \in [{"v1"} -> (SUBSET Pair) \cup {None}]
  /\ reviewFetch \in [{"v1"} -> (SUBSET Pair) \cup {None, Unanswered}]
  /\ reviewJoined \in SUBSET {"v1"}
  /\ reviewWaits \in [{"v1"} -> SUBSET RequestCalls]
  /\ \A v \in {"v1"} : reviewFetch[v] = None => reviewWaits[v] = {}

(* After a review the rows in view are fetched again, or the fetch under   *)
(* way is joined.                                                          *)
LEMMA RequestingRefreshes ==
  ASSUME Requesting!DeskTypeOK, NEW W \in SUBSET RequestCalls, Requesting!Refresh, Requesting!Await(W),
         UNCHANGED <<reviewView, reviewRows>>
  PROVE  /\ RequestingLists'
         /\ reviewView \in reviewJoined' \/ reviewFetch'[reviewView] = Unanswered
<1>1. RequestingLists /\ Unanswered # None
  BY RequestingRecords DEF Requesting!DeskTypeOK, RequestingLists
<1>2. /\ reviewWaits' \in [{"v1"} -> SUBSET RequestCalls]
      /\ \A v \in {"v1"} : v # reviewView => reviewWaits'[v] = reviewWaits[v]
  BY <1>1 DEF RequestingLists, Requesting!Await
<1>3. CASE Requesting!Loading
  <2>1. reviewJoined' = reviewJoined \cup {reviewView} /\ reviewFetch' = reviewFetch /\ reviewFetch[reviewView] # None
    BY <1>3 DEF Requesting!Refresh, Requesting!Join, Requesting!Loading
  <2> QED
    BY <1>1, <1>2, <2>1 DEF RequestingLists
<1>4. CASE ~Requesting!Loading
  <2>1. reviewJoined' = reviewJoined \ {reviewView} /\ reviewFetch' = [reviewFetch EXCEPT ![reviewView] = Unanswered]
    BY <1>4 DEF Requesting!Refresh, Requesting!Begin
  <2>2. /\ reviewFetch' \in [{"v1"} -> (SUBSET Pair) \cup {None, Unanswered}] /\ reviewFetch'[reviewView] = Unanswered
        /\ \A v \in {"v1"} : v # reviewView => reviewFetch'[v] = reviewFetch[v]
    BY <1>1, <2>1 DEF RequestingLists
  <2> QED
    BY <1>1, <1>2, <2>1, <2>2 DEF RequestingLists
<1> QED
  BY <1>3, <1>4

(* Another view is shown, or the rows of one are read or arrive.           *)
LEMMA RequestingTurns ==
  ASSUME Requesting!DeskTypeOK, NEW v \in {"v1"},
         Requesting!ReadRows(v) \/ Requesting!RowsAnswered(v) \/ Requesting!ChooseView(v)
  PROVE  /\ RequestingLists'
         /\ UNCHANGED <<reviewStatus, reviewCall, reviewDialog, reviewLatest>>
         /\ \/ reviewView' \in reviewJoined' \/ reviewFetch'[reviewView'] = Unanswered
            \/ /\ UNCHANGED <<reviewView, reviewJoined>>
               /\ \/ /\ reviewFetch'[reviewView] = Requesting!PendingItems
                     /\ reviewFetch'[reviewView] \in SUBSET Pair
                  \/ /\ reviewFetch[reviewView] \in SUBSET Pair /\ reviewFetch'[reviewView] = None
                     /\ reviewRows'[reviewView] = reviewFetch[reviewView]
                  \/ /\ reviewFetch'[reviewView] = reviewFetch[reviewView]
                     /\ reviewRows'[reviewView] = reviewRows[reviewView]
<1>1. /\ RequestingLists /\ Unanswered # None /\ Unanswered \notin SUBSET Pair /\ None \notin SUBSET Pair
      /\ Requesting!PendingItems \in SUBSET Pair
  BY RequestingRecords DEF Requesting!DeskTypeOK, RequestingLists, Requesting!PendingItems
<1>2. CASE Requesting!ReadRows(v)
  <2>1. /\ reviewFetch' = [reviewFetch EXCEPT ![v] = Requesting!PendingItems]
        /\ UNCHANGED <<reviewStatus, reviewCall, reviewDialog, reviewLatest, reviewView, reviewRows, reviewJoined, reviewWaits>>
    BY <1>2 DEF Requesting!ReadRows
  <2>2. /\ reviewFetch' \in [{"v1"} -> (SUBSET Pair) \cup {None, Unanswered}] /\ reviewFetch'[v] = Requesting!PendingItems
        /\ \A w \in {"v1"} : w # v => reviewFetch'[w] = reviewFetch[w]
    BY <1>1, <2>1 DEF RequestingLists
  <2>3. RequestingLists'
    BY <1>1, <2>1, <2>2 DEF RequestingLists
  <2> QED
    BY <1>1, <2>1, <2>2, <2>3 DEF RequestingLists
<1>3. CASE Requesting!RowsAnswered(v)
  <2>1. /\ reviewFetch[v] \notin {None, Unanswered}
        /\ reviewRows' = [reviewRows EXCEPT ![v] = reviewFetch[v]]
        /\ reviewFetch' = [reviewFetch EXCEPT ![v] = None]
        /\ reviewWaits' = [reviewWaits EXCEPT ![v] = {}]
        /\ UNCHANGED <<reviewStatus, reviewCall, reviewDialog, reviewLatest, reviewView, reviewJoined>>
    BY <1>3 DEF Requesting!RowsAnswered
  <2>2. /\ reviewFetch[v] \in SUBSET Pair
        /\ reviewRows' \in [{"v1"} -> (SUBSET Pair) \cup {None}] /\ reviewRows'[v] = reviewFetch[v]
        /\ reviewFetch' \in [{"v1"} -> (SUBSET Pair) \cup {None, Unanswered}] /\ reviewFetch'[v] = None
        /\ reviewWaits' \in [{"v1"} -> SUBSET RequestCalls] /\ reviewWaits'[v] = {}
        /\ \A w \in {"v1"} : w # v => /\ reviewFetch'[w] = reviewFetch[w] /\ reviewRows'[w] = reviewRows[w]
                                  /\ reviewWaits'[w] = reviewWaits[w]
    BY <1>1, <2>1 DEF RequestingLists
  <2>3. RequestingLists'
    BY <1>1, <2>1, <2>2 DEF RequestingLists
  <2> QED
    BY <1>1, <2>1, <2>2, <2>3 DEF RequestingLists
<1>4. CASE Requesting!ChooseView(v)
  <2>1. /\ reviewView' = v
        /\ UNCHANGED <<reviewStatus, reviewCall, reviewDialog, reviewLatest, reviewRows, reviewWaits>>
        /\ \/ /\ reviewFetch' = [reviewFetch EXCEPT ![v] = Unanswered] /\ reviewJoined' = reviewJoined \ {v}
              /\ reviewFetch[v] = None
           \/ reviewFetch' = reviewFetch /\ reviewJoined' = reviewJoined \cup {v}
    BY <1>4 DEF Requesting!ChooseView, Requesting!Begin, Requesting!Join
  <2>2. CASE reviewFetch' = [reviewFetch EXCEPT ![v] = Unanswered] /\ reviewJoined' = reviewJoined \ {v}
    <3>1. /\ reviewFetch' \in [{"v1"} -> (SUBSET Pair) \cup {None, Unanswered}] /\ reviewFetch'[v] = Unanswered
          /\ \A w \in {"v1"} : w # v => reviewFetch'[w] = reviewFetch[w]
      BY <1>1, <2>2 DEF RequestingLists
    <3>2. RequestingLists'
      BY <1>1, <2>1, <2>2, <3>1 DEF RequestingLists
    <3> QED
      BY <2>1, <3>1, <3>2
  <2>3. CASE reviewFetch' = reviewFetch /\ reviewJoined' = reviewJoined \cup {v}
    <3>1. RequestingLists'
      BY <1>1, <2>1, <2>3 DEF RequestingLists
    <3> QED
      BY <2>1, <2>3, <3>1
  <2> QED
    BY <2>1, <2>2, <2>3
<1> QED
  BY <1>2, <1>3, <1>4

(* The types of the page hold when it opens, and are kept.                 *)
LEMMA RequestingTypes ==
  /\ Requesting!Init => Requesting!DeskTypeOK
  /\ Requesting!DeskTypeOK /\ Requesting!Next => Requesting!DeskTypeOK'
<1>1. ASSUME Requesting!Init
      PROVE  Requesting!DeskTypeOK
  <2>1. RequestingLists
    BY <1>1, RequestingAssumption DEF Requesting!Init, RequestingLists, Requesting!ReviewDeskAssumption
  <2> QED
    BY <1>1, <2>1 DEF Requesting!Init, Requesting!DeskTypeOK, RequestingLists, Requesting!Decisions, Requesting!Pending
<1>2. ASSUME Requesting!DeskTypeOK, Requesting!Next
      PROVE  Requesting!DeskTypeOK'
  <2>0. /\ reviewStatus \in [Pair -> {"pending", "approved", "rejected"}]
        /\ Requesting!Outcome = [approve |-> "approved", reject |-> "rejected"]
        /\ Requesting!Decisions = {"approve", "reject"} /\ RequestingLists
    BY <1>2 DEF Requesting!DeskTypeOK, RequestingLists, Requesting!Outcome, Requesting!Decisions
  <2>s. ASSUME UNCHANGED <<reviewView, reviewRows, reviewFetch, reviewJoined, reviewWaits>>
        PROVE  RequestingLists'
    BY <2>0, <2>s DEF RequestingLists
  <2>1. ASSUME NEW i \in Pair, NEW d \in {"approve", "reject"}, Requesting!ReviewByOther(i, d)
        PROVE  Requesting!DeskTypeOK'
    <3>1. /\ reviewStatus' \in [Pair -> {"pending", "approved", "rejected"}]
          /\ UNCHANGED <<reviewCall, reviewDialog, reviewLatest, reviewView, reviewRows, reviewFetch, reviewJoined, reviewWaits>>
      BY <2>0, <2>1 DEF Requesting!ReviewByOther, Requesting!deskVars, Requesting!listVars
    <3> QED
      BY <1>2, <2>s, <3>1 DEF Requesting!DeskTypeOK, RequestingLists
  <2>2. ASSUME NEW i \in Pair, NEW d \in {"approve", "reject"}, Requesting!OpenDialog(i, d)
        PROVE  Requesting!DeskTypeOK'
    <3>1. /\ reviewDialog' \in [Requesting!Decisions -> Pair \cup {None}]
          /\ \E e \in Requesting!Decisions : reviewDialog'[e] = None
      BY <1>2, <2>0, <2>2 DEF Requesting!OpenDialog, Requesting!NoDialog, Requesting!DeskTypeOK
    <3>2. UNCHANGED <<reviewStatus, reviewCall, reviewLatest, reviewView, reviewRows, reviewFetch, reviewJoined, reviewWaits>>
      BY <2>2 DEF Requesting!OpenDialog, Requesting!listVars
    <3> QED
      BY <1>2, <2>s, <3>1, <3>2 DEF Requesting!DeskTypeOK, RequestingLists
  <2>3. ASSUME NEW d \in {"approve", "reject"}, Requesting!Cancel(d)
        PROVE  Requesting!DeskTypeOK'
    <3>1. /\ reviewDialog' \in [Requesting!Decisions -> Pair \cup {None}]
          /\ \E e \in Requesting!Decisions : reviewDialog'[e] = None
      BY <1>2, <2>0, <2>3 DEF Requesting!Cancel, Requesting!DeskTypeOK
    <3>2. UNCHANGED <<reviewStatus, reviewCall, reviewLatest, reviewView, reviewRows, reviewFetch, reviewJoined, reviewWaits>>
      BY <2>3 DEF Requesting!Cancel, Requesting!listVars
    <3> QED
      BY <1>2, <2>s, <3>1, <3>2 DEF Requesting!DeskTypeOK, RequestingLists
  <2>4. ASSUME NEW c \in RequestCalls, NEW d \in {"approve", "reject"}, Requesting!Confirm(c, d)
        PROVE  Requesting!DeskTypeOK'
    <3>1. /\ reviewCall' \in [RequestCalls -> Requesting!Call \cup {None}]
          /\ reviewLatest' \in [Requesting!Decisions -> RequestCalls \cup {None}]
      BY <1>2, <2>4, RequestingConfirms
    <3>2. UNCHANGED <<reviewStatus, reviewDialog, reviewView, reviewRows, reviewFetch, reviewJoined, reviewWaits>>
      BY <2>4 DEF Requesting!Confirm, Requesting!listVars
    <3> QED
      BY <1>2, <2>s, <3>1, <3>2 DEF Requesting!DeskTypeOK, RequestingLists
  <2>5. ASSUME NEW c \in RequestCalls, Requesting!Handle(c) \/ Requesting!Unsent(c)
        PROVE  Requesting!DeskTypeOK'
    <3>1. PICK pc \in {"ok", "refused"} : reviewCall' = [reviewCall EXCEPT ![c].at = pc]
      BY <2>5 DEF Requesting!Handle, Requesting!Unsent
    <3>2. reviewCall[c] # None
      BY <2>5 DEF Requesting!Handle, Requesting!Unsent
    <3>3. reviewCall' \in [RequestCalls -> Requesting!Call \cup {None}]
      BY <1>2, <3>1, <3>2, RequestingMoves
    <3>4. /\ reviewStatus' \in [Pair -> {"pending", "approved", "rejected"}]
          /\ UNCHANGED <<reviewDialog, reviewLatest, reviewView, reviewRows, reviewFetch, reviewJoined, reviewWaits>>
      <4>1. reviewCall[c].decision \in {"approve", "reject"}
        BY <1>2, <3>2, RequestingRecords
      <4> QED
        BY <2>0, <2>5, <4>1 DEF Requesting!Handle, Requesting!Unsent, Requesting!deskVars, Requesting!listVars
    <3> QED
      BY <1>2, <2>s, <3>3, <3>4 DEF Requesting!DeskTypeOK, RequestingLists
  <2>6. ASSUME NEW c \in RequestCalls, Requesting!Failed(c) \/ Requesting!Succeeded(c) \/ Requesting!Refreshed(c) \/ Requesting!Settled(c)
        PROVE  Requesting!DeskTypeOK'
    <3>1. PICK pc \in {"refreshing", "ended"} : reviewCall' = [reviewCall EXCEPT ![c].at = pc]
      BY <2>6 DEF Requesting!Failed, Requesting!Succeeded, Requesting!Refreshed, Requesting!Settled
    <3>2. reviewCall[c] # None
      BY <2>6 DEF Requesting!Failed, Requesting!Succeeded, Requesting!Refreshed, Requesting!Settled
    <3>3. reviewCall' \in [RequestCalls -> Requesting!Call \cup {None}]
      BY <1>2, <3>1, <3>2, RequestingMoves
    <3>4. reviewCall[c].decision \in {"approve", "reject"}
      BY <1>2, <3>2, RequestingRecords
    <3>5. /\ UNCHANGED <<reviewStatus, reviewLatest, reviewView, reviewRows>>
          /\ \/ reviewDialog' = reviewDialog
             \/ reviewDialog' = [reviewDialog EXCEPT ![reviewCall[c].decision] = None]
      BY <2>6 DEF Requesting!Failed, Requesting!Succeeded, Requesting!Refreshed, Requesting!Settled, Requesting!FailTopup, Requesting!FailRequest,
                  Requesting!ClosedBy, Requesting!listVars
    <3>6. RequestingLists'
      <4>1. CASE Requesting!Failed(c) \/ Requesting!Refreshed(c)
        BY <2>s, <4>1 DEF Requesting!Failed, Requesting!Refreshed, Requesting!listVars
      <4>2. CASE Requesting!Succeeded(c) \/ Requesting!Settled(c)
        <5>1. Requesting!Refresh /\ (Requesting!Await({c}) \/ Requesting!Await({}))
          BY <4>2 DEF Requesting!Succeeded, Requesting!Settled
        <5> QED
          BY <1>2, <3>5, <5>1, RequestingRefreshes
      <4> QED
        BY <2>6, <4>1, <4>2
    <3>7. /\ reviewDialog' \in [Requesting!Decisions -> Pair \cup {None}]
          /\ \E e \in Requesting!Decisions : reviewDialog'[e] = None
      BY <1>2, <2>0, <3>4, <3>5 DEF Requesting!DeskTypeOK
    <3> QED
      BY <1>2, <3>3, <3>5, <3>6, <3>7 DEF Requesting!DeskTypeOK, RequestingLists
  <2>7. ASSUME NEW v \in {"v1"}, Requesting!ReadRows(v) \/ Requesting!RowsAnswered(v) \/ Requesting!ChooseView(v)
        PROVE  Requesting!DeskTypeOK'
    <3>1. UNCHANGED <<reviewStatus, reviewCall, reviewDialog, reviewLatest>> /\ RequestingLists'
      BY <1>2, <2>7, RequestingTurns
    <3> QED
      BY <1>2, <3>1 DEF Requesting!DeskTypeOK, RequestingLists
  <2> QED
    BY <1>2, <2>0, <2>1, <2>2, <2>3, <2>4, <2>5, <2>6, <2>7 DEF Requesting!Next
<1> QED
  BY <1>1, <1>2

\* The rows in view, and what is read for them, are what is pending, unless a
\* review that was handled has not been answered, or the fetch was joined.
RequestingHandled == \E c \in RequestCalls : reviewCall[c] # None /\ reviewCall[c].at = "ok"

RequestingFresh ==
  \/ RequestingHandled \/ reviewView \in reviewJoined
  \/ /\ reviewFetch[reviewView] = None => reviewRows[reviewView] = Requesting!PendingItems
     /\ reviewFetch[reviewView] \in SUBSET Pair => reviewFetch[reviewView] = Requesting!PendingItems

(* An answer has the rows fetched again.                                   *)
LEMMA RequestingStaysFresh ==
  ASSUME Requesting!DeskTypeOK, RequestingFresh, Requesting!Next
  PROVE  RequestingFresh'
<1>0. /\ ~(\E i \in Pair, d \in Requesting!Decisions : Requesting!ReviewByOther(i, d)) /\ ~(\E c \in RequestCalls : Requesting!Unsent(c))
      /\ None \notin SUBSET Pair /\ Unanswered \notin SUBSET Pair /\ Unanswered # None
  BY RequestingRecords DEF Requesting!ReviewByOther, Requesting!Unsent
<1>1. ASSUME UNCHANGED <<reviewStatus, reviewView, reviewRows, reviewFetch, reviewJoined>>,
             RequestingHandled => RequestingHandled'
      PROVE  RequestingFresh'
  BY <1>1 DEF RequestingFresh, Requesting!PendingItems
<1>2. ASSUME NEW i \in Pair, NEW d \in Requesting!Decisions, Requesting!OpenDialog(i, d) \/ Requesting!Cancel(d)
      PROVE  RequestingFresh'
  BY <1>1, <1>2 DEF Requesting!OpenDialog, Requesting!Cancel, Requesting!listVars, RequestingHandled
<1>3. ASSUME NEW d \in Requesting!Decisions, Requesting!Cancel(d)
      PROVE  RequestingFresh'
  BY <1>1, <1>3 DEF Requesting!Cancel, Requesting!listVars, RequestingHandled
<1>4. ASSUME NEW c \in RequestCalls, NEW d \in Requesting!Decisions, Requesting!Confirm(c, d)
      PROVE  RequestingFresh'
  <2>1. reviewCall[c] = None /\ \A e \in RequestCalls : e # c => reviewCall'[e] = reviewCall[e]
    BY <1>4, RequestingConfirms DEF Requesting!Decisions
  <2>2. UNCHANGED <<reviewStatus, reviewView, reviewRows, reviewFetch, reviewJoined>>
    BY <1>4 DEF Requesting!Confirm, Requesting!listVars
  <2>3. RequestingHandled => RequestingHandled'
    BY <2>1 DEF RequestingHandled
  <2> QED
    BY <1>1, <2>2, <2>3
<1>5. ASSUME NEW c \in RequestCalls, Requesting!Handle(c)
      PROVE  RequestingFresh'
  <2>1. reviewCall[c] # None /\ reviewCall[c].at = "sent"
    BY <1>5 DEF Requesting!Handle
  <2>2. CASE Requesting!Reviewable(reviewCall[c].item)
    <3>1. reviewCall' = [reviewCall EXCEPT ![c].at = "ok"]
      BY <1>5, <2>2 DEF Requesting!Handle
    <3>2. reviewCall'[c] # None /\ reviewCall'[c].at = "ok"
      BY <2>1, <3>1, RequestingMoves
    <3> QED
      BY <3>2 DEF RequestingFresh, RequestingHandled
  <2>3. CASE ~Requesting!Reviewable(reviewCall[c].item)
    <3>1. /\ reviewCall' = [reviewCall EXCEPT ![c].at = "refused"]
          /\ UNCHANGED <<reviewStatus, reviewView, reviewRows, reviewFetch, reviewJoined>>
      BY <1>5, <2>3 DEF Requesting!Handle, Requesting!deskVars, Requesting!listVars
    <3>2. \A e \in RequestCalls : e # c => reviewCall'[e] = reviewCall[e]
      BY <2>1, <3>1, RequestingMoves
    <3>3. RequestingHandled => RequestingHandled'
      BY <2>1, <3>2 DEF RequestingHandled
    <3> QED
      BY <1>1, <3>1, <3>3
  <2> QED
    BY <2>2, <2>3
<1>6. ASSUME NEW c \in RequestCalls, Requesting!Failed(c) \/ Requesting!Refreshed(c)
      PROVE  RequestingFresh'
  <2>1. /\ reviewCall[c] # None /\ reviewCall[c].at # "ok"
        /\ reviewCall' = [reviewCall EXCEPT ![c].at = "ended"]
        /\ UNCHANGED <<reviewStatus, reviewView, reviewRows, reviewFetch, reviewJoined>>
    BY <1>6 DEF Requesting!Failed, Requesting!Refreshed, Requesting!FailTopup, Requesting!FailRequest, Requesting!listVars
  <2>2. \A e \in RequestCalls : e # c => reviewCall'[e] = reviewCall[e]
    BY <2>1, RequestingMoves
  <2>3. RequestingHandled => RequestingHandled'
    BY <2>1, <2>2 DEF RequestingHandled
  <2> QED
    BY <1>1, <2>1, <2>3
<1>7. ASSUME NEW c \in RequestCalls, Requesting!Succeeded(c) \/ Requesting!Settled(c)
      PROVE  RequestingFresh'
  <2>1. Requesting!Refresh /\ (Requesting!Await({c}) \/ Requesting!Await({})) /\ UNCHANGED <<reviewView, reviewRows>>
    BY <1>7 DEF Requesting!Succeeded, Requesting!Settled
  <2>2. reviewView \in reviewJoined' \/ reviewFetch'[reviewView] = Unanswered
    BY <2>1, RequestingRefreshes
  <2> QED
    BY <1>0, <2>1, <2>2 DEF RequestingFresh
<1>8. ASSUME NEW v \in {"v1"}, Requesting!ReadRows(v) \/ Requesting!RowsAnswered(v) \/ Requesting!ChooseView(v)
      PROVE  RequestingFresh'
  <2>1. /\ UNCHANGED <<reviewStatus, reviewCall, reviewDialog, reviewLatest>>
        /\ \/ reviewView' \in reviewJoined' \/ reviewFetch'[reviewView'] = Unanswered
           \/ /\ UNCHANGED <<reviewView, reviewJoined>>
              /\ \/ /\ reviewFetch'[reviewView] = Requesting!PendingItems
                    /\ reviewFetch'[reviewView] \in SUBSET Pair
                 \/ /\ reviewFetch[reviewView] \in SUBSET Pair /\ reviewFetch'[reviewView] = None
                    /\ reviewRows'[reviewView] = reviewFetch[reviewView]
                 \/ /\ reviewFetch'[reviewView] = reviewFetch[reviewView]
                    /\ reviewRows'[reviewView] = reviewRows[reviewView]
    BY <1>8, RequestingTurns
  <2>2. Requesting!PendingItems' = Requesting!PendingItems /\ (RequestingHandled => RequestingHandled')
    BY <2>1 DEF Requesting!PendingItems, RequestingHandled
  <2> QED
    BY <1>0, <2>1, <2>2 DEF RequestingFresh
<1> QED
  BY <1>0, <1>2, <1>3, <1>4, <1>5, <1>6, <1>7, <1>8 DEF Requesting!Next

-----------------------------------------------------------------------------
(* The page of the top-ups, where other staff review and answers are lost. *)

(* What the page and the server hold.                                      *)
LEMMA ReviewSharedRecords ==
  ASSUME ReviewShared!DeskTypeOK
  PROVE  /\ \A c \in SharedCalls : reviewCall[c] # None =>
              /\ reviewCall[c] \in ReviewShared!Call /\ reviewCall[c].item \in Pair
              /\ reviewCall[c].decision \in {"approve", "reject"}
              /\ reviewCall[c].at \in {"sent", "ok", "refused", "refreshing", "ended"}
         /\ \A d \in {"approve", "reject"} :
              /\ reviewDialog[d] \in Pair \cup {None}
              /\ reviewLatest[d] \in SharedCalls \cup {None}
         /\ None \notin Pair /\ None \notin SharedCalls /\ None \notin SUBSET Pair /\ None \notin ReviewShared!Call
         /\ Unanswered \notin SUBSET Pair /\ Unanswered # None
<1>1. \A c \in SharedCalls : reviewCall[c] # None =>
              /\ reviewCall[c] \in ReviewShared!Call /\ reviewCall[c].item \in Pair
              /\ reviewCall[c].decision \in {"approve", "reject"}
              /\ reviewCall[c].at \in {"sent", "ok", "refused", "refreshing", "ended"}
  BY DEF ReviewShared!DeskTypeOK, ReviewShared!Call, ReviewShared!Decisions
<1>2. \A d \in {"approve", "reject"} :
              /\ reviewDialog[d] \in Pair \cup {None}
              /\ reviewLatest[d] \in SharedCalls \cup {None}
  BY DEF ReviewShared!DeskTypeOK, ReviewShared!Decisions
<1> QED
  BY <1>1, <1>2, ReviewSharedAssumption DEF ReviewShared!ReviewDeskAssumption

(* A call moves on, and the others stay.                                   *)
LEMMA ReviewSharedMoves ==
  ASSUME ReviewShared!DeskTypeOK, NEW c \in SharedCalls, reviewCall[c] # None,
         NEW pc \in {"ok", "refused", "refreshing", "ended"},
         reviewCall' = [reviewCall EXCEPT ![c].at = pc]
  PROVE  /\ reviewCall' \in [SharedCalls -> ReviewShared!Call \cup {None}]
         /\ reviewCall'[c].at = pc
         /\ \A e \in SharedCalls :
                /\ reviewCall'[e] = None <=> reviewCall[e] = None
                /\ reviewCall[e] # None =>
                     /\ reviewCall'[e].item = reviewCall[e].item
                     /\ reviewCall'[e].decision = reviewCall[e].decision
                /\ e # c => reviewCall'[e] = reviewCall[e]
<1>1. reviewCall[c] \in ReviewShared!Call /\ None \notin ReviewShared!Call /\ reviewCall \in [SharedCalls -> ReviewShared!Call \cup {None}]
  BY ReviewSharedRecords DEF ReviewShared!DeskTypeOK
<1>2. [reviewCall[c] EXCEPT !.at = pc] \in ReviewShared!Call
  BY <1>1 DEF ReviewShared!Call
<1>3. /\ reviewCall' \in [SharedCalls -> ReviewShared!Call \cup {None}]
      /\ reviewCall'[c] = [reviewCall[c] EXCEPT !.at = pc]
      /\ \A e \in SharedCalls : e # c => reviewCall'[e] = reviewCall[e]
  BY <1>1, <1>2
<1>4. /\ reviewCall'[c].at = pc /\ reviewCall'[c].item = reviewCall[c].item
      /\ reviewCall'[c].decision = reviewCall[c].decision /\ reviewCall'[c] # None
  BY <1>1, <1>2, <1>3 DEF ReviewShared!Call
<1> QED
  BY <1>3, <1>4

(* A call is made.                                                         *)
LEMMA ReviewSharedConfirms ==
  ASSUME ReviewShared!DeskTypeOK, NEW c \in SharedCalls, NEW d \in {"approve", "reject"}, ReviewShared!Confirm(c, d)
  PROVE  /\ reviewDialog[d] \in Pair /\ reviewCall[c] = None
         /\ reviewCall' \in [SharedCalls -> ReviewShared!Call \cup {None}]
         /\ reviewCall'[c] = [item |-> reviewDialog[d], decision |-> d, at |-> "sent"]
         /\ reviewCall'[c] # None
         /\ \A e \in SharedCalls : e # c => reviewCall'[e] = reviewCall[e]
         /\ reviewLatest' \in [ReviewShared!Decisions -> SharedCalls \cup {None}]
         /\ reviewLatest'[d] = c
         /\ \A e \in {"approve", "reject"} : e # d => reviewLatest'[e] = reviewLatest[e]
<1>1. reviewDialog[d] \in Pair /\ None \notin ReviewShared!Call
  BY ReviewSharedRecords DEF ReviewShared!Confirm, ReviewShared!Confirmable
<1>2. [item |-> reviewDialog[d], decision |-> d, at |-> "sent"] \in ReviewShared!Call
  BY <1>1 DEF ReviewShared!Call, ReviewShared!Decisions
<1>3. /\ reviewCall' \in [SharedCalls -> ReviewShared!Call \cup {None}]
      /\ reviewCall'[c] = [item |-> reviewDialog[d], decision |-> d, at |-> "sent"]
      /\ \A e \in SharedCalls : e # c => reviewCall'[e] = reviewCall[e]
  BY <1>2 DEF ReviewShared!Confirm, ReviewShared!DeskTypeOK
<1> QED
  BY <1>1, <1>2, <1>3 DEF ReviewShared!Confirm, ReviewShared!DeskTypeOK, ReviewShared!Decisions

(* Where the rows of the page are: types, and nobody waits for a fetch     *)
(* that is over.                                                           *)
ReviewSharedLists ==
  /\ reviewView \in {"v1"}
  /\ reviewRows \in [{"v1"} -> (SUBSET Pair) \cup {None}]
  /\ reviewFetch \in [{"v1"} -> (SUBSET Pair) \cup {None, Unanswered}]
  /\ reviewJoined \in SUBSET {"v1"}
  /\ reviewWaits \in [{"v1"} -> SUBSET SharedCalls]
  /\ \A v \in {"v1"} : reviewFetch[v] = None => reviewWaits[v] = {}

(* After a review the rows in view are fetched again, or the fetch under   *)
(* way is joined.                                                          *)
LEMMA ReviewSharedRefreshes ==
  ASSUME ReviewShared!DeskTypeOK, NEW W \in SUBSET SharedCalls, ReviewShared!Refresh, ReviewShared!Await(W),
         UNCHANGED <<reviewView, reviewRows>>
  PROVE  /\ ReviewSharedLists'
         /\ reviewView \in reviewJoined' \/ reviewFetch'[reviewView] = Unanswered
<1>1. ReviewSharedLists /\ Unanswered # None
  BY ReviewSharedRecords DEF ReviewShared!DeskTypeOK, ReviewSharedLists
<1>2. /\ reviewWaits' \in [{"v1"} -> SUBSET SharedCalls]
      /\ \A v \in {"v1"} : v # reviewView => reviewWaits'[v] = reviewWaits[v]
  BY <1>1 DEF ReviewSharedLists, ReviewShared!Await
<1>3. CASE ReviewShared!Loading
  <2>1. reviewJoined' = reviewJoined \cup {reviewView} /\ reviewFetch' = reviewFetch /\ reviewFetch[reviewView] # None
    BY <1>3 DEF ReviewShared!Refresh, ReviewShared!Join, ReviewShared!Loading
  <2> QED
    BY <1>1, <1>2, <2>1 DEF ReviewSharedLists
<1>4. CASE ~ReviewShared!Loading
  <2>1. reviewJoined' = reviewJoined \ {reviewView} /\ reviewFetch' = [reviewFetch EXCEPT ![reviewView] = Unanswered]
    BY <1>4 DEF ReviewShared!Refresh, ReviewShared!Begin
  <2>2. /\ reviewFetch' \in [{"v1"} -> (SUBSET Pair) \cup {None, Unanswered}] /\ reviewFetch'[reviewView] = Unanswered
        /\ \A v \in {"v1"} : v # reviewView => reviewFetch'[v] = reviewFetch[v]
    BY <1>1, <2>1 DEF ReviewSharedLists
  <2> QED
    BY <1>1, <1>2, <2>1, <2>2 DEF ReviewSharedLists
<1> QED
  BY <1>3, <1>4

(* Another view is shown, or the rows of one are read or arrive.           *)
LEMMA ReviewSharedTurns ==
  ASSUME ReviewShared!DeskTypeOK, NEW v \in {"v1"},
         ReviewShared!ReadRows(v) \/ ReviewShared!RowsAnswered(v) \/ ReviewShared!ChooseView(v)
  PROVE  /\ ReviewSharedLists'
         /\ UNCHANGED <<reviewStatus, reviewCall, reviewDialog, reviewLatest>>
         /\ \/ reviewView' \in reviewJoined' \/ reviewFetch'[reviewView'] = Unanswered
            \/ /\ UNCHANGED <<reviewView, reviewJoined>>
               /\ \/ /\ reviewFetch'[reviewView] = ReviewShared!PendingItems
                     /\ reviewFetch'[reviewView] \in SUBSET Pair
                  \/ /\ reviewFetch[reviewView] \in SUBSET Pair /\ reviewFetch'[reviewView] = None
                     /\ reviewRows'[reviewView] = reviewFetch[reviewView]
                  \/ /\ reviewFetch'[reviewView] = reviewFetch[reviewView]
                     /\ reviewRows'[reviewView] = reviewRows[reviewView]
<1>1. /\ ReviewSharedLists /\ Unanswered # None /\ Unanswered \notin SUBSET Pair /\ None \notin SUBSET Pair
      /\ ReviewShared!PendingItems \in SUBSET Pair
  BY ReviewSharedRecords DEF ReviewShared!DeskTypeOK, ReviewSharedLists, ReviewShared!PendingItems
<1>2. CASE ReviewShared!ReadRows(v)
  <2>1. /\ reviewFetch' = [reviewFetch EXCEPT ![v] = ReviewShared!PendingItems]
        /\ UNCHANGED <<reviewStatus, reviewCall, reviewDialog, reviewLatest, reviewView, reviewRows, reviewJoined, reviewWaits>>
    BY <1>2 DEF ReviewShared!ReadRows
  <2>2. /\ reviewFetch' \in [{"v1"} -> (SUBSET Pair) \cup {None, Unanswered}] /\ reviewFetch'[v] = ReviewShared!PendingItems
        /\ \A w \in {"v1"} : w # v => reviewFetch'[w] = reviewFetch[w]
    BY <1>1, <2>1 DEF ReviewSharedLists
  <2>3. ReviewSharedLists'
    BY <1>1, <2>1, <2>2 DEF ReviewSharedLists
  <2> QED
    BY <1>1, <2>1, <2>2, <2>3 DEF ReviewSharedLists
<1>3. CASE ReviewShared!RowsAnswered(v)
  <2>1. /\ reviewFetch[v] \notin {None, Unanswered}
        /\ reviewRows' = [reviewRows EXCEPT ![v] = reviewFetch[v]]
        /\ reviewFetch' = [reviewFetch EXCEPT ![v] = None]
        /\ reviewWaits' = [reviewWaits EXCEPT ![v] = {}]
        /\ UNCHANGED <<reviewStatus, reviewCall, reviewDialog, reviewLatest, reviewView, reviewJoined>>
    BY <1>3 DEF ReviewShared!RowsAnswered
  <2>2. /\ reviewFetch[v] \in SUBSET Pair
        /\ reviewRows' \in [{"v1"} -> (SUBSET Pair) \cup {None}] /\ reviewRows'[v] = reviewFetch[v]
        /\ reviewFetch' \in [{"v1"} -> (SUBSET Pair) \cup {None, Unanswered}] /\ reviewFetch'[v] = None
        /\ reviewWaits' \in [{"v1"} -> SUBSET SharedCalls] /\ reviewWaits'[v] = {}
        /\ \A w \in {"v1"} : w # v => /\ reviewFetch'[w] = reviewFetch[w] /\ reviewRows'[w] = reviewRows[w]
                                  /\ reviewWaits'[w] = reviewWaits[w]
    BY <1>1, <2>1 DEF ReviewSharedLists
  <2>3. ReviewSharedLists'
    BY <1>1, <2>1, <2>2 DEF ReviewSharedLists
  <2> QED
    BY <1>1, <2>1, <2>2, <2>3 DEF ReviewSharedLists
<1>4. CASE ReviewShared!ChooseView(v)
  <2>1. /\ reviewView' = v
        /\ UNCHANGED <<reviewStatus, reviewCall, reviewDialog, reviewLatest, reviewRows, reviewWaits>>
        /\ \/ /\ reviewFetch' = [reviewFetch EXCEPT ![v] = Unanswered] /\ reviewJoined' = reviewJoined \ {v}
              /\ reviewFetch[v] = None
           \/ reviewFetch' = reviewFetch /\ reviewJoined' = reviewJoined \cup {v}
    BY <1>4 DEF ReviewShared!ChooseView, ReviewShared!Begin, ReviewShared!Join
  <2>2. CASE reviewFetch' = [reviewFetch EXCEPT ![v] = Unanswered] /\ reviewJoined' = reviewJoined \ {v}
    <3>1. /\ reviewFetch' \in [{"v1"} -> (SUBSET Pair) \cup {None, Unanswered}] /\ reviewFetch'[v] = Unanswered
          /\ \A w \in {"v1"} : w # v => reviewFetch'[w] = reviewFetch[w]
      BY <1>1, <2>2 DEF ReviewSharedLists
    <3>2. ReviewSharedLists'
      BY <1>1, <2>1, <2>2, <3>1 DEF ReviewSharedLists
    <3> QED
      BY <2>1, <3>1, <3>2
  <2>3. CASE reviewFetch' = reviewFetch /\ reviewJoined' = reviewJoined \cup {v}
    <3>1. ReviewSharedLists'
      BY <1>1, <2>1, <2>3 DEF ReviewSharedLists
    <3> QED
      BY <2>1, <2>3, <3>1
  <2> QED
    BY <2>1, <2>2, <2>3
<1> QED
  BY <1>2, <1>3, <1>4

(* The types of the page hold when it opens, and are kept.                 *)
LEMMA ReviewSharedTypes ==
  /\ ReviewShared!Init => ReviewShared!DeskTypeOK
  /\ ReviewShared!DeskTypeOK /\ ReviewShared!Next => ReviewShared!DeskTypeOK'
<1>1. ASSUME ReviewShared!Init
      PROVE  ReviewShared!DeskTypeOK
  <2>1. ReviewSharedLists
    BY <1>1, ReviewSharedAssumption DEF ReviewShared!Init, ReviewSharedLists, ReviewShared!ReviewDeskAssumption
  <2> QED
    BY <1>1, <2>1 DEF ReviewShared!Init, ReviewShared!DeskTypeOK, ReviewSharedLists, ReviewShared!Decisions, ReviewShared!Pending
<1>2. ASSUME ReviewShared!DeskTypeOK, ReviewShared!Next
      PROVE  ReviewShared!DeskTypeOK'
  <2>0. /\ reviewStatus \in [Pair -> {"pending", "approved", "rejected"}]
        /\ ReviewShared!Outcome = [approve |-> "approved", reject |-> "rejected"]
        /\ ReviewShared!Decisions = {"approve", "reject"} /\ ReviewSharedLists
    BY <1>2 DEF ReviewShared!DeskTypeOK, ReviewSharedLists, ReviewShared!Outcome, ReviewShared!Decisions
  <2>s. ASSUME UNCHANGED <<reviewView, reviewRows, reviewFetch, reviewJoined, reviewWaits>>
        PROVE  ReviewSharedLists'
    BY <2>0, <2>s DEF ReviewSharedLists
  <2>1. ASSUME NEW i \in Pair, NEW d \in {"approve", "reject"}, ReviewShared!ReviewByOther(i, d)
        PROVE  ReviewShared!DeskTypeOK'
    <3>1. /\ reviewStatus' \in [Pair -> {"pending", "approved", "rejected"}]
          /\ UNCHANGED <<reviewCall, reviewDialog, reviewLatest, reviewView, reviewRows, reviewFetch, reviewJoined, reviewWaits>>
      BY <2>0, <2>1 DEF ReviewShared!ReviewByOther, ReviewShared!deskVars, ReviewShared!listVars
    <3> QED
      BY <1>2, <2>s, <3>1 DEF ReviewShared!DeskTypeOK, ReviewSharedLists
  <2>2. ASSUME NEW i \in Pair, NEW d \in {"approve", "reject"}, ReviewShared!OpenDialog(i, d)
        PROVE  ReviewShared!DeskTypeOK'
    <3>1. /\ reviewDialog' \in [ReviewShared!Decisions -> Pair \cup {None}]
          /\ \E e \in ReviewShared!Decisions : reviewDialog'[e] = None
      BY <1>2, <2>0, <2>2 DEF ReviewShared!OpenDialog, ReviewShared!NoDialog, ReviewShared!DeskTypeOK
    <3>2. UNCHANGED <<reviewStatus, reviewCall, reviewLatest, reviewView, reviewRows, reviewFetch, reviewJoined, reviewWaits>>
      BY <2>2 DEF ReviewShared!OpenDialog, ReviewShared!listVars
    <3> QED
      BY <1>2, <2>s, <3>1, <3>2 DEF ReviewShared!DeskTypeOK, ReviewSharedLists
  <2>3. ASSUME NEW d \in {"approve", "reject"}, ReviewShared!Cancel(d)
        PROVE  ReviewShared!DeskTypeOK'
    <3>1. /\ reviewDialog' \in [ReviewShared!Decisions -> Pair \cup {None}]
          /\ \E e \in ReviewShared!Decisions : reviewDialog'[e] = None
      BY <1>2, <2>0, <2>3 DEF ReviewShared!Cancel, ReviewShared!DeskTypeOK
    <3>2. UNCHANGED <<reviewStatus, reviewCall, reviewLatest, reviewView, reviewRows, reviewFetch, reviewJoined, reviewWaits>>
      BY <2>3 DEF ReviewShared!Cancel, ReviewShared!listVars
    <3> QED
      BY <1>2, <2>s, <3>1, <3>2 DEF ReviewShared!DeskTypeOK, ReviewSharedLists
  <2>4. ASSUME NEW c \in SharedCalls, NEW d \in {"approve", "reject"}, ReviewShared!Confirm(c, d)
        PROVE  ReviewShared!DeskTypeOK'
    <3>1. /\ reviewCall' \in [SharedCalls -> ReviewShared!Call \cup {None}]
          /\ reviewLatest' \in [ReviewShared!Decisions -> SharedCalls \cup {None}]
      BY <1>2, <2>4, ReviewSharedConfirms
    <3>2. UNCHANGED <<reviewStatus, reviewDialog, reviewView, reviewRows, reviewFetch, reviewJoined, reviewWaits>>
      BY <2>4 DEF ReviewShared!Confirm, ReviewShared!listVars
    <3> QED
      BY <1>2, <2>s, <3>1, <3>2 DEF ReviewShared!DeskTypeOK, ReviewSharedLists
  <2>5. ASSUME NEW c \in SharedCalls, ReviewShared!Handle(c) \/ ReviewShared!Unsent(c)
        PROVE  ReviewShared!DeskTypeOK'
    <3>1. PICK pc \in {"ok", "refused"} : reviewCall' = [reviewCall EXCEPT ![c].at = pc]
      BY <2>5 DEF ReviewShared!Handle, ReviewShared!Unsent
    <3>2. reviewCall[c] # None
      BY <2>5 DEF ReviewShared!Handle, ReviewShared!Unsent
    <3>3. reviewCall' \in [SharedCalls -> ReviewShared!Call \cup {None}]
      BY <1>2, <3>1, <3>2, ReviewSharedMoves
    <3>4. /\ reviewStatus' \in [Pair -> {"pending", "approved", "rejected"}]
          /\ UNCHANGED <<reviewDialog, reviewLatest, reviewView, reviewRows, reviewFetch, reviewJoined, reviewWaits>>
      <4>1. reviewCall[c].decision \in {"approve", "reject"}
        BY <1>2, <3>2, ReviewSharedRecords
      <4> QED
        BY <2>0, <2>5, <4>1 DEF ReviewShared!Handle, ReviewShared!Unsent, ReviewShared!deskVars, ReviewShared!listVars
    <3> QED
      BY <1>2, <2>s, <3>3, <3>4 DEF ReviewShared!DeskTypeOK, ReviewSharedLists
  <2>6. ASSUME NEW c \in SharedCalls, ReviewShared!Failed(c) \/ ReviewShared!Succeeded(c) \/ ReviewShared!Refreshed(c) \/ ReviewShared!Settled(c)
        PROVE  ReviewShared!DeskTypeOK'
    <3>1. PICK pc \in {"refreshing", "ended"} : reviewCall' = [reviewCall EXCEPT ![c].at = pc]
      BY <2>6 DEF ReviewShared!Failed, ReviewShared!Succeeded, ReviewShared!Refreshed, ReviewShared!Settled
    <3>2. reviewCall[c] # None
      BY <2>6 DEF ReviewShared!Failed, ReviewShared!Succeeded, ReviewShared!Refreshed, ReviewShared!Settled
    <3>3. reviewCall' \in [SharedCalls -> ReviewShared!Call \cup {None}]
      BY <1>2, <3>1, <3>2, ReviewSharedMoves
    <3>4. reviewCall[c].decision \in {"approve", "reject"}
      BY <1>2, <3>2, ReviewSharedRecords
    <3>5. /\ UNCHANGED <<reviewStatus, reviewLatest, reviewView, reviewRows>>
          /\ \/ reviewDialog' = reviewDialog
             \/ reviewDialog' = [reviewDialog EXCEPT ![reviewCall[c].decision] = None]
      BY <2>6 DEF ReviewShared!Failed, ReviewShared!Succeeded, ReviewShared!Refreshed, ReviewShared!Settled, ReviewShared!FailTopup, ReviewShared!FailRequest,
                  ReviewShared!ClosedBy, ReviewShared!listVars
    <3>6. ReviewSharedLists'
      <4>1. CASE ReviewShared!Failed(c) \/ ReviewShared!Refreshed(c)
        BY <2>s, <4>1 DEF ReviewShared!Failed, ReviewShared!Refreshed, ReviewShared!listVars
      <4>2. CASE ReviewShared!Succeeded(c) \/ ReviewShared!Settled(c)
        <5>1. ReviewShared!Refresh /\ (ReviewShared!Await({c}) \/ ReviewShared!Await({}))
          BY <4>2 DEF ReviewShared!Succeeded, ReviewShared!Settled
        <5> QED
          BY <1>2, <3>5, <5>1, ReviewSharedRefreshes
      <4> QED
        BY <2>6, <4>1, <4>2
    <3>7. /\ reviewDialog' \in [ReviewShared!Decisions -> Pair \cup {None}]
          /\ \E e \in ReviewShared!Decisions : reviewDialog'[e] = None
      BY <1>2, <2>0, <3>4, <3>5 DEF ReviewShared!DeskTypeOK
    <3> QED
      BY <1>2, <3>3, <3>5, <3>6, <3>7 DEF ReviewShared!DeskTypeOK, ReviewSharedLists
  <2>7. ASSUME NEW v \in {"v1"}, ReviewShared!ReadRows(v) \/ ReviewShared!RowsAnswered(v) \/ ReviewShared!ChooseView(v)
        PROVE  ReviewShared!DeskTypeOK'
    <3>1. UNCHANGED <<reviewStatus, reviewCall, reviewDialog, reviewLatest>> /\ ReviewSharedLists'
      BY <1>2, <2>7, ReviewSharedTurns
    <3> QED
      BY <1>2, <3>1 DEF ReviewShared!DeskTypeOK, ReviewSharedLists
  <2> QED
    BY <1>2, <2>0, <2>1, <2>2, <2>3, <2>4, <2>5, <2>6, <2>7 DEF ReviewShared!Next
<1> QED
  BY <1>1, <1>2

\* The latest call of a dialog is of its item, until it has ended.
ReviewSharedHeld ==
  \A d \in {"approve", "reject"} : reviewLatest[d] # None =>
    /\ reviewCall[reviewLatest[d]] # None /\ reviewCall[reviewLatest[d]].decision = d
    /\ reviewCall[reviewLatest[d]].at # "ended" /\ reviewDialog[d] # None =>
         reviewCall[reviewLatest[d]].item = reviewDialog[d]

(* Nothing is opened while a call is under way, and its answer closes only *)
(* its own dialog (CreditTopups.tsx:177-189).                              *)
LEMMA ReviewSharedStaysHeld ==
  ASSUME ReviewShared!DeskTypeOK, ReviewSharedHeld, ReviewShared!Next
  PROVE  ReviewSharedHeld' /\ ReviewShared!ClosedIsReviewed
<1> DEFINE Goal == ReviewSharedHeld' /\ ReviewShared!ClosedIsReviewed
<1>0. ~(\E c \in SharedCalls : ReviewShared!Settled(c)) /\ ReviewShared!Decisions = {"approve", "reject"}
  BY DEF ReviewShared!Settled, ReviewShared!Decisions
<1>1. ASSUME reviewCall' = reviewCall, reviewLatest' = reviewLatest, reviewDialog' = reviewDialog
      PROVE  Goal
  BY <1>1 DEF ReviewSharedHeld, ReviewShared!ClosedIsReviewed
<1>2. ASSUME NEW c \in SharedCalls, reviewCall[c] # None,
             NEW pc \in {"ok", "refused", "refreshing", "ended"},
             reviewCall' = [reviewCall EXCEPT ![c].at = pc],
             reviewCall[c].at # "ended" \/ pc = "ended",
             reviewLatest' = reviewLatest, reviewDialog' = reviewDialog
      PROVE  Goal
  <2>1. /\ reviewCall'[c].at = pc
        /\ \A e \in SharedCalls :
               /\ reviewCall'[e] = None <=> reviewCall[e] = None
               /\ reviewCall[e] # None =>
                    /\ reviewCall'[e].item = reviewCall[e].item
                    /\ reviewCall'[e].decision = reviewCall[e].decision
               /\ e # c => reviewCall'[e] = reviewCall[e]
    BY <1>2, ReviewSharedMoves
  <2>2. \A d \in {"approve", "reject"} : reviewLatest[d] \in SharedCalls \cup {None}
    BY ReviewSharedRecords
  <2>3. ReviewSharedHeld'
    BY <1>2, <2>1, <2>2 DEF ReviewSharedHeld
  <2> QED
    BY <1>2, <2>3 DEF ReviewShared!ClosedIsReviewed
<1>3. ASSUME NEW i \in Pair, NEW d \in ReviewShared!Decisions, ReviewShared!ReviewByOther(i, d) \/ ReviewShared!OpenDialog(i, d)
      PROVE  Goal
  <2>1. CASE ReviewShared!ReviewByOther(i, d)
    BY <1>1, <2>1 DEF ReviewShared!ReviewByOther, ReviewShared!deskVars
  <2>2. CASE ReviewShared!OpenDialog(i, d)
    <3>1. /\ UNCHANGED <<reviewCall, reviewLatest>>
          /\ \A e \in {"approve", "reject"} : reviewDialog[e] = None
          /\ \A e \in {"approve", "reject"} : reviewLatest[e] # None => reviewCall[reviewLatest[e]].at = "ended"
      BY <1>0, <2>2 DEF ReviewShared!OpenDialog, ReviewShared!NoDialog, ReviewShared!Quiet, ReviewShared!IsPending
    <3> QED
      BY <1>0, <3>1 DEF ReviewSharedHeld, ReviewShared!ClosedIsReviewed
  <2> QED
    BY <1>3, <2>1, <2>2
<1>4. ASSUME NEW d \in ReviewShared!Decisions, ReviewShared!Cancel(d)
      PROVE  Goal
  <2>1. /\ UNCHANGED <<reviewCall, reviewLatest>>
        /\ reviewDialog' = [reviewDialog EXCEPT ![d] = None] /\ reviewDialog \in [{"approve", "reject"} -> Pair \cup {None}]
    BY <1>0, <1>4 DEF ReviewShared!Cancel, ReviewShared!DeskTypeOK
  <2>2. ReviewSharedHeld'
    BY <1>0, <2>1 DEF ReviewSharedHeld
  <2>3. \A e \in ReviewShared!Decisions : reviewDialog[e] # None /\ reviewDialog'[e] = None => e = d
    BY <1>0, <2>1
  <2> QED
    BY <1>4, <2>2, <2>3 DEF ReviewShared!ClosedIsReviewed
<1>5. ASSUME NEW c \in SharedCalls, NEW d \in ReviewShared!Decisions, ReviewShared!Confirm(c, d)
      PROVE  Goal
  <2>1. /\ reviewCall[c] = None
        /\ reviewCall'[c] = [item |-> reviewDialog[d], decision |-> d, at |-> "sent"]
        /\ reviewCall'[c] # None
        /\ \A e \in SharedCalls : e # c => reviewCall'[e] = reviewCall[e]
        /\ reviewLatest'[d] = c
        /\ \A e \in {"approve", "reject"} : e # d => reviewLatest'[e] = reviewLatest[e]
    BY <1>0, <1>5, ReviewSharedConfirms
  <2>2. reviewDialog' = reviewDialog
    BY <1>5 DEF ReviewShared!Confirm
  <2>3. \A e \in {"approve", "reject"} : reviewLatest[e] \in SharedCalls \cup {None}
    BY ReviewSharedRecords
  <2>4. ReviewSharedHeld'
    BY <1>0, <2>1, <2>2, <2>3 DEF ReviewSharedHeld
  <2> QED
    BY <2>2, <2>4 DEF ReviewShared!ClosedIsReviewed
<1>6. ASSUME NEW c \in SharedCalls, ReviewShared!Handle(c) \/ ReviewShared!Unsent(c)
      PROVE  Goal
  <2>1. /\ reviewCall[c] # None /\ reviewCall[c].at = "sent"
        /\ UNCHANGED <<reviewDialog, reviewLatest>>
    BY <1>6 DEF ReviewShared!Handle, ReviewShared!Unsent, ReviewShared!deskVars
  <2>2. PICK pc \in {"ok", "refused"} : reviewCall' = [reviewCall EXCEPT ![c].at = pc]
    BY <1>6 DEF ReviewShared!Handle, ReviewShared!Unsent
  <2> QED
    BY <1>2, <2>1, <2>2
<1>7. ASSUME NEW c \in SharedCalls, ReviewShared!Failed(c) \/ ReviewShared!Succeeded(c)
      PROVE  Goal
  <2>1. /\ reviewCall[c] # None /\ reviewCall[c].at \in {"ok", "refused"}
        /\ UNCHANGED <<reviewDialog, reviewLatest>>
    BY <1>7 DEF ReviewShared!Failed, ReviewShared!FailTopup, ReviewShared!FailRequest, ReviewShared!Succeeded
  <2>2. PICK pc \in {"refreshing", "ended"} : reviewCall' = [reviewCall EXCEPT ![c].at = pc]
    BY <1>7 DEF ReviewShared!Failed, ReviewShared!Succeeded
  <2> QED
    BY <1>2, <2>1, <2>2
<1>8. ASSUME NEW c \in SharedCalls, ReviewShared!Refreshed(c)
      PROVE  Goal
  <2> DEFINE d == reviewCall[c].decision
  <2>1. /\ reviewCall[c] # None /\ reviewCall[c].at = "refreshing"
        /\ reviewCall' = [reviewCall EXCEPT ![c].at = "ended"] /\ reviewLatest' = reviewLatest
    BY <1>8 DEF ReviewShared!Refreshed
  <2>2. CASE reviewDialog' = reviewDialog
    BY <1>2, <2>1, <2>2
  <2>3. CASE c = reviewLatest[d] /\ reviewDialog' = [reviewDialog EXCEPT ![d] = None]
    <3>1. d \in {"approve", "reject"} /\ None \notin SharedCalls
      BY <2>1, ReviewSharedRecords
    <3>2. \A e \in SharedCalls :
              /\ reviewCall'[e] = None <=> reviewCall[e] = None
              /\ reviewCall[e] # None =>
                   /\ reviewCall'[e].item = reviewCall[e].item
                   /\ reviewCall'[e].decision = reviewCall[e].decision
              /\ e # c => reviewCall'[e] = reviewCall[e]
      BY <2>1, ReviewSharedMoves
    <3>3. reviewCall'[c].at = "ended"
      BY <2>1, ReviewSharedMoves
    <3>4. /\ \A e \in {"approve", "reject"} : reviewLatest[e] \in SharedCalls \cup {None}
          /\ reviewDialog \in [{"approve", "reject"} -> Pair \cup {None}]
      BY <1>0, ReviewSharedRecords DEF ReviewShared!DeskTypeOK
    <3>5. ReviewSharedHeld'
      BY <2>1, <2>3, <3>1, <3>2, <3>3, <3>4 DEF ReviewSharedHeld
    <3>6. \A e \in {"approve", "reject"} : reviewDialog[e] # None /\ reviewDialog'[e] = None => e = d
      BY <2>3, <3>1, <3>4
    <3>7. reviewDialog[d] # None => reviewCall[c].item = reviewDialog[d]
      BY <2>1, <2>3, <3>1 DEF ReviewSharedHeld
    <3> QED
      BY <1>0, <2>1, <3>5, <3>6, <3>7 DEF ReviewShared!ClosedIsReviewed
  <2> QED
    BY <1>8, <2>2, <2>3 DEF ReviewShared!Refreshed, ReviewShared!ClosedBy
<1>9. ASSUME NEW v \in {"v1"}, ReviewShared!ReadRows(v) \/ ReviewShared!RowsAnswered(v) \/ ReviewShared!ChooseView(v)
      PROVE  Goal
  BY <1>1, <1>9 DEF ReviewShared!ReadRows, ReviewShared!RowsAnswered, ReviewShared!ChooseView
<1> QED
  BY <1>0, <1>3, <1>4, <1>5, <1>6, <1>7, <1>8, <1>9 DEF ReviewShared!Next

-----------------------------------------------------------------------------
(* UserDesk: the page of the users, where requests fail and where none does. *)
LoadOpen(l) == usersLoad[l] # None /\ usersLoad[l].at # "ended"
PressOpen(p) == usersPress[p] # None /\ usersPress[p].at # "ended"

DeskTypes ==
  /\ usersLoad \in [FailingLoads -> Desk!Load \cup {None}]
  /\ usersDetail \in Pair \cup {None}
  /\ usersModal \in BOOLEAN /\ usersMuddled \in BOOLEAN
  /\ usersOpenings \in Nat
  /\ usersPress \in [Presses -> Desk!Adjustment \cup {None}]
  /\ usersModal => usersDetail # None

\* Under a modal that was opened while nothing was under way, nothing brings
\* another user.
DeskIntent ==
  /\ usersMisdirected = {}
  /\ usersModal /\ usersIntended # None =>
       /\ usersIntended = usersDetail
       /\ \A l \in FailingLoads : ~LoadOpen(l)
       /\ \A p \in Presses : PressOpen(p) => usersPress[p].user = usersDetail

\* Unless requests overlapped, what is under way is of the user shown, and a
\* load excludes everything else.
DeskOrder ==
  ~usersMuddled =>
    /\ \A l, k \in FailingLoads : LoadOpen(l) /\ LoadOpen(k) => l = k
    /\ \A l \in FailingLoads, p \in Presses : ~(LoadOpen(l) /\ PressOpen(p))
    /\ \A p \in Presses : PressOpen(p) => usersPress[p].user = usersDetail
    /\ \A l \in FailingLoads : LoadOpen(l) /\ usersLoad[l].at = "history" => usersLoad[l].user = usersDetail
    /\ \/ usersHistory \in {usersDetail, None}
       \/ \E l \in FailingLoads : LoadOpen(l) /\ usersLoad[l].at = "history"

DeskInv == DeskTypes /\ DeskIntent /\ DeskOrder

(* What the page holds.                                                    *)
LEMMA DeskRecords ==
  ASSUME DeskTypes
  PROVE  /\ \A l \in FailingLoads : usersLoad[l] # None =>
              /\ usersLoad[l] \in Desk!Load /\ usersLoad[l].user \in Pair
              /\ usersLoad[l].at \in {"user", "history", "ended"}
         /\ \A p \in Presses : usersPress[p] # None =>
              /\ usersPress[p] \in Desk!Adjustment /\ usersPress[p].user \in Pair
              /\ usersPress[p].at \in {"sent", "applied", "refreshing", "ended"}
              /\ usersPress[p].opening \in Nat
         /\ None \notin Pair /\ None \notin Desk!Load /\ None \notin Desk!Adjustment
<1>1. \A l \in FailingLoads : usersLoad[l] # None =>
        /\ usersLoad[l] \in Desk!Load /\ usersLoad[l].user \in Pair
        /\ usersLoad[l].at \in {"user", "history", "ended"}
  BY DEF DeskTypes, Desk!Load
<1>2. \A p \in Presses : usersPress[p] # None =>
        /\ usersPress[p] \in Desk!Adjustment /\ usersPress[p].user \in Pair
        /\ usersPress[p].at \in {"sent", "applied", "refreshing", "ended"}
        /\ usersPress[p].opening \in Nat
  BY DEF DeskTypes, Desk!Adjustment
<1> QED
  BY <1>1, <1>2, DeskAssumption DEF Desk!UserDeskAssumption

(* A load moves on.                                                        *)
LEMMA DeskLoadMoves ==
  ASSUME DeskTypes, NEW l \in FailingLoads, usersLoad[l] # None, NEW pc \in {"history", "ended"},
         usersLoad' = [usersLoad EXCEPT ![l].at = pc]
  PROVE  /\ usersLoad' \in [FailingLoads -> Desk!Load \cup {None}]
         /\ usersLoad'[l] # None /\ usersLoad'[l].at = pc /\ usersLoad'[l].user = usersLoad[l].user
         /\ \A k \in FailingLoads : k # l => usersLoad'[k] = usersLoad[k] /\ (LoadOpen(k)' <=> LoadOpen(k))
<1>1. usersLoad[l] \in Desk!Load /\ None \notin Desk!Load /\ usersLoad \in [FailingLoads -> Desk!Load \cup {None}]
  BY DeskRecords DEF DeskTypes
<1>2. [usersLoad[l] EXCEPT !.at = pc] \in Desk!Load
  BY <1>1 DEF Desk!Load
<1>3. /\ usersLoad' \in [FailingLoads -> Desk!Load \cup {None}]
      /\ usersLoad'[l] = [usersLoad[l] EXCEPT !.at = pc]
      /\ \A k \in FailingLoads : k # l => usersLoad'[k] = usersLoad[k]
  BY <1>1, <1>2
<1> QED
  BY <1>1, <1>2, <1>3 DEF Desk!Load, LoadOpen

(* A press moves on.                                                       *)
LEMMA DeskPressMoves ==
  ASSUME DeskTypes, NEW p \in Presses, usersPress[p] # None, NEW pc \in {"applied", "refreshing", "ended"},
         \/ usersPress' = [usersPress EXCEPT ![p].at = pc]
         \/ usersPress' = [usersPress EXCEPT ![p].at = pc, ![p].applied = TRUE]
  PROVE  /\ usersPress' \in [Presses -> Desk!Adjustment \cup {None}]
         /\ usersPress'[p] # None /\ usersPress'[p].at = pc
         /\ usersPress'[p].user = usersPress[p].user /\ usersPress'[p].opening = usersPress[p].opening
         /\ \A q \in Presses : q # p => usersPress'[q] = usersPress[q]
<1>1. usersPress[p] \in Desk!Adjustment /\ None \notin Desk!Adjustment
      /\ usersPress \in [Presses -> Desk!Adjustment \cup {None}]
  BY DeskRecords DEF DeskTypes
<1> DEFINE A == [usersPress[p] EXCEPT !.at = pc]
           B == [A EXCEPT !.applied = TRUE]
<1>2. A \in Desk!Adjustment /\ A.at = pc /\ A.user = usersPress[p].user /\ A.opening = usersPress[p].opening
  BY <1>1 DEF Desk!Adjustment
<1> HIDE DEF A
<1>3. B \in Desk!Adjustment /\ B.at = pc /\ B.user = usersPress[p].user /\ B.opening = usersPress[p].opening
  BY <1>2 DEF Desk!Adjustment
<1> HIDE DEF B
<1>4. usersPress' = [usersPress EXCEPT ![p] = A] \/ usersPress' = [usersPress EXCEPT ![p] = B]
  <2>1. CASE usersPress' = [usersPress EXCEPT ![p].at = pc]
    BY <2>1 DEF A
  <2>2. CASE usersPress' = [usersPress EXCEPT ![p].at = pc, ![p].applied = TRUE]
    BY <1>1, <2>2 DEF A, B
  <2> QED
    BY <2>1, <2>2
<1>5. /\ usersPress' \in [Presses -> Desk!Adjustment \cup {None}]
      /\ usersPress'[p] \in {A, B}
      /\ \A q \in Presses : q # p => usersPress'[q] = usersPress[q]
  BY <1>1, <1>2, <1>3, <1>4
<1> QED
  BY <1>1, <1>2, <1>3, <1>5

(* The page opens with nothing loaded.                                     *)
LEMMA DeskStarts ==
  ASSUME Desk!Init
  PROVE  DeskInv
  BY DEF Desk!Init, DeskInv, DeskTypes, DeskIntent, DeskOrder, LoadOpen, PressOpen

(* A row is clicked.                                                       *)
LEMMA DeskClicks ==
  ASSUME DeskTypes, NEW l \in FailingLoads, NEW u \in Pair, Desk!Click(l, u)
  PROVE  /\ usersLoad' \in [FailingLoads -> Desk!Load \cup {None}]
         /\ usersLoad'[l] # None /\ usersLoad'[l].user = u /\ usersLoad'[l].at = "user"
         /\ \A k \in FailingLoads : k # l => usersLoad'[k] = usersLoad[k]
<1>1. [user |-> u, at |-> "user"] \in Desk!Load
  BY DEF Desk!Load
<1>2. /\ usersLoad' \in [FailingLoads -> Desk!Load \cup {None}]
      /\ usersLoad'[l] = [user |-> u, at |-> "user"]
      /\ \A k \in FailingLoads : k # l => usersLoad'[k] = usersLoad[k]
  BY <1>1 DEF Desk!Click, DeskTypes
<1> QED
  BY <1>1, <1>2, DeskRecords

(* Submit is pressed.                                                      *)
LEMMA DeskSubmits ==
  ASSUME DeskTypes, NEW p \in Presses, Desk!Submit(p)
  PROVE  /\ usersPress' \in [Presses -> Desk!Adjustment \cup {None}]
         /\ usersPress'[p].user = usersDetail /\ usersPress'[p].at = "sent"
         /\ usersPress'[p].opening = usersOpenings
         /\ \A q \in Presses : q # p => usersPress'[q] = usersPress[q]
<1> DEFINE r == [user |-> usersDetail, at |-> "sent", applied |-> FALSE, opening |-> usersOpenings]
<1>1. r \in Desk!Adjustment
  BY DEF Desk!Submit, DeskTypes, Desk!Adjustment
<1>2. usersPress' = [usersPress EXCEPT ![p] = r]
  BY DEF Desk!Submit
<1>3. r.user = usersDetail /\ r.at = "sent" /\ r.opening = usersOpenings
  OBVIOUS
<1> HIDE DEF r
<1>4. /\ usersPress' \in [Presses -> Desk!Adjustment \cup {None}] /\ usersPress'[p] = r
      /\ \A q \in Presses : q # p => usersPress'[q] = usersPress[q]
  BY <1>1, <1>2 DEF DeskTypes
<1> QED
  BY <1>3, <1>4

(* What an adjustment does as its requests are answered, or one fails.     *)
LEMMA DeskAdjusts ==
  ASSUME DeskTypes, NEW p \in Presses,
         Desk!Apply(p) \/ Desk!ReloadUser(p) \/ Desk!ReloadHistory(p) \/ Desk!PressFails(p)
  PROVE  /\ PressOpen(p) /\ usersPress[p] # None
         /\ usersPress' \in [Presses -> Desk!Adjustment \cup {None}]
         /\ usersPress'[p] # None /\ usersPress'[p].user = usersPress[p].user
         /\ usersPress'[p].opening = usersPress[p].opening
         /\ \A q \in Presses : q # p => usersPress'[q] = usersPress[q]
         /\ usersDetail' \in {usersDetail, usersPress[p].user} /\ usersDetail' \in Pair \cup {None}
         /\ usersHistory' \in {usersHistory, usersPress[p].user}
         /\ usersModal' \in BOOLEAN /\ (usersModal' => usersModal) /\ (usersModal => usersDetail' # None)
         /\ UNCHANGED <<usersLoad, usersSelected, usersIntended, usersOpenings, usersMisdirected, usersHasty, usersMuddled>>
<1>1. PressOpen(p) /\ usersPress[p] # None
  BY DEF Desk!Apply, Desk!ReloadUser, Desk!ReloadHistory, Desk!PressFails, PressOpen
<1>2. PICK pc \in {"applied", "refreshing", "ended"} :
          \/ usersPress' = [usersPress EXCEPT ![p].at = pc]
          \/ usersPress' = [usersPress EXCEPT ![p].at = pc, ![p].applied = TRUE]
  BY DEF Desk!Apply, Desk!ReloadUser, Desk!ReloadHistory, Desk!PressFails
<1>3. /\ usersPress' \in [Presses -> Desk!Adjustment \cup {None}]
      /\ usersPress'[p] # None /\ usersPress'[p].user = usersPress[p].user
      /\ usersPress'[p].opening = usersPress[p].opening
      /\ \A q \in Presses : q # p => usersPress'[q] = usersPress[q]
  BY <1>1, <1>2, DeskPressMoves
<1>4. /\ usersDetail' \in {usersDetail, usersPress[p].user}
      /\ usersHistory' \in {usersHistory, usersPress[p].user}
      /\ usersModal' = usersModal \/ usersModal' = FALSE
      /\ UNCHANGED <<usersLoad, usersSelected, usersIntended, usersOpenings, usersMisdirected, usersHasty, usersMuddled>>
  BY DEF Desk!Apply, Desk!ReloadUser, Desk!ReloadHistory, Desk!PressFails
<1>5. usersPress[p].user \in Pair /\ None \notin Pair
  BY <1>1, DeskRecords
<1>6. usersDetail' \in Pair \cup {None} /\ (usersModal => usersDetail' # None)
  BY <1>4, <1>5 DEF DeskTypes
<1>7. usersModal \in BOOLEAN
  BY DEF DeskTypes
<1>8. usersModal' \in BOOLEAN
  BY <1>4, <1>7
<1>9. usersModal' => usersModal
  BY <1>4, <1>7
<1> QED
  BY <1>1, <1>3, <1>4, <1>6, <1>8, <1>9

\* A load is under way, or an adjustment is.
LEMMA DeskIsBusy ==
  Desk!Busy <=> (\E l \in FailingLoads : LoadOpen(l)) \/ (\E p \in Presses : PressOpen(p))
  BY DEF Desk!Busy, Desk!Loading, Desk!Adjusting, LoadOpen, PressOpen

(* What is under way stays of the user shown.                              *)
LEMMA DeskStays ==
  ASSUME DeskInv, Desk!Next
  PROVE  DeskInv'
<1>0. DeskTypes /\ DeskIntent /\ DeskOrder
  BY DEF DeskInv
<1>t. /\ usersLoad \in [FailingLoads -> Desk!Load \cup {None}]
      /\ usersPress \in [Presses -> Desk!Adjustment \cup {None}]
      /\ usersDetail \in Pair \cup {None} /\ usersModal \in BOOLEAN /\ usersMuddled \in BOOLEAN
      /\ usersOpenings \in Nat /\ (usersModal => usersDetail # None)
  BY <1>0 DEF DeskTypes
<1>1. ASSUME NEW l \in FailingLoads, NEW u \in Pair, Desk!Click(l, u)
      PROVE  DeskInv'
  <2>1. /\ usersLoad' \in [FailingLoads -> Desk!Load \cup {None}]
        /\ usersLoad'[l] # None /\ usersLoad'[l].user = u /\ usersLoad'[l].at = "user"
        /\ \A k \in FailingLoads : k # l => usersLoad'[k] = usersLoad[k]
    BY <1>0, <1>1, DeskClicks
  <2>2. /\ ~usersModal /\ usersMuddled' \in BOOLEAN
        /\ ~usersMuddled' => ~usersMuddled /\ ~Desk!Busy
        /\ UNCHANGED <<usersDetail, usersHistory, usersModal, usersIntended, usersOpenings, usersPress, usersMisdirected>>
    BY <1>t, <1>1 DEF Desk!Click, Desk!modalVars
  <2>3. DeskTypes' /\ DeskIntent'
    BY <1>0, <1>t, <2>1, <2>2 DEF DeskTypes, DeskIntent
  <2>4. DeskOrder'
    BY <1>0, <2>1, <2>2, DeskIsBusy DEF DeskOrder, LoadOpen, PressOpen
  <2> QED
    BY <2>3, <2>4 DEF DeskInv
<1>2. ASSUME NEW l \in FailingLoads, Desk!UserLoaded(l)
      PROVE  DeskInv'
  <2>1. /\ usersLoad[l] # None /\ LoadOpen(l) /\ usersLoad[l].at = "user" /\ usersDetail' = usersLoad[l].user
        /\ usersLoad' = [usersLoad EXCEPT ![l].at = "history"]
        /\ usersMuddled' \in BOOLEAN /\ (~usersMuddled' => ~usersMuddled \/ Desk!Alone(l))
        /\ UNCHANGED <<usersHistory, usersModal, usersIntended, usersOpenings, usersPress, usersMisdirected>>
    BY <1>t, <1>2 DEF Desk!UserLoaded, LoadOpen, Desk!modalVars
  <2>2. /\ usersLoad' \in [FailingLoads -> Desk!Load \cup {None}]
        /\ usersLoad'[l] # None /\ usersLoad'[l].at = "history" /\ usersLoad'[l].user = usersLoad[l].user
        /\ \A k \in FailingLoads : k # l => usersLoad'[k] = usersLoad[k] /\ (LoadOpen(k)' <=> LoadOpen(k))
    BY <1>0, <2>1, DeskLoadMoves
  <2>3. usersLoad[l].user \in Pair /\ None \notin Pair
    BY <1>0, <2>1, DeskRecords
  <2>4. DeskTypes' /\ DeskIntent'
    <3>1. ~(usersModal' /\ usersIntended' # None) /\ usersMisdirected' = {}
      BY <1>0, <2>1 DEF DeskIntent
    <3> QED
      BY <1>t, <2>1, <2>2, <2>3, <3>1 DEF DeskTypes, DeskIntent
  <2>5. ~usersMuddled' => (\A k \in FailingLoads : k # l => ~LoadOpen(k)) /\ (\A p \in Presses : ~PressOpen(p))
    <3>1. ~usersMuddled => (\A k \in FailingLoads : k # l => ~LoadOpen(k)) /\ (\A p \in Presses : ~PressOpen(p))
      BY <1>0, <2>1 DEF DeskOrder
    <3>2. Desk!Alone(l) => (\A k \in FailingLoads : k # l => ~LoadOpen(k)) /\ (\A p \in Presses : ~PressOpen(p))
      BY DEF Desk!Alone, Desk!Adjusting, LoadOpen, PressOpen
    <3> QED
      BY <2>1, <3>1, <3>2
  <2>6. LoadOpen(l)' /\ \A p \in Presses : PressOpen(p)' <=> PressOpen(p)
    BY <2>1, <2>2 DEF LoadOpen, PressOpen
  <2>7. DeskOrder'
    BY <2>1, <2>2, <2>5, <2>6 DEF DeskOrder
  <2> QED
    BY <2>4, <2>7 DEF DeskInv
<1>3. ASSUME NEW l \in FailingLoads, Desk!UserNotLoaded(l) \/ Desk!HistoryLoaded(l)
      PROVE  DeskInv'
  <2>1. /\ usersLoad[l] # None /\ LoadOpen(l)
        /\ usersLoad' = [usersLoad EXCEPT ![l].at = "ended"]
        /\ UNCHANGED <<usersDetail, usersModal, usersIntended, usersOpenings, usersPress, usersMisdirected, usersMuddled>>
        /\ \/ usersLoad[l].at = "user" /\ usersHistory' = usersHistory
           \/ usersLoad[l].at = "history" /\ usersHistory' \in {usersLoad[l].user, None}
    BY <1>3 DEF Desk!UserNotLoaded, Desk!HistoryLoaded, LoadOpen, Desk!modalVars
  <2>2. /\ usersLoad' \in [FailingLoads -> Desk!Load \cup {None}]
        /\ usersLoad'[l].at = "ended"
        /\ \A k \in FailingLoads : k # l => usersLoad'[k] = usersLoad[k] /\ (LoadOpen(k)' <=> LoadOpen(k))
    BY <1>0, <2>1, DeskLoadMoves
  <2>3. ~LoadOpen(l)' /\ \A p \in Presses : PressOpen(p)' <=> PressOpen(p)
    BY <2>1, <2>2 DEF LoadOpen, PressOpen
  <2>4. DeskTypes' /\ DeskIntent'
    <3>1. ~(usersModal' /\ usersIntended' # None) /\ usersMisdirected' = {}
      BY <1>0, <2>1 DEF DeskIntent
    <3> QED
      BY <1>t, <2>1, <2>2, <3>1 DEF DeskTypes, DeskIntent
  <2>5. DeskOrder'
    <3> SUFFICES ASSUME ~usersMuddled' PROVE DeskOrder'
      BY DEF DeskOrder
    <3>1. /\ \A k \in FailingLoads : k # l => ~LoadOpen(k)
          /\ \A p \in Presses : ~PressOpen(p)
          /\ usersLoad[l].at = "history" => usersLoad[l].user = usersDetail
          /\ \/ usersHistory \in {usersDetail, None}
             \/ \E k \in FailingLoads : LoadOpen(k) /\ usersLoad[k].at = "history"
      BY <1>0, <2>1 DEF DeskOrder
    <3>2. usersHistory' \in {usersDetail', None}
      BY <2>1, <3>1
    <3> QED
      BY <2>1, <2>2, <2>3, <3>1, <3>2 DEF DeskOrder
  <2> QED
    BY <2>4, <2>5 DEF DeskInv
<1>4. CASE Desk!Close \/ Desk!CancelModal
  <2>1. /\ UNCHANGED <<usersLoad, usersDetail, usersHistory, usersIntended, usersOpenings, usersPress, usersMisdirected, usersMuddled>>
        /\ usersModal' = usersModal \/ usersModal' = FALSE
    BY <1>4 DEF Desk!Close, Desk!CancelModal, Desk!modalVars
  <2>2. usersModal' \in BOOLEAN
    BY <1>t, <2>1
  <2>3. usersModal' => usersModal
    BY <1>t, <2>1
  <2> QED
    BY <1>0, <2>1, <2>2, <2>3 DEF DeskInv, DeskTypes, DeskIntent, DeskOrder, LoadOpen, PressOpen
<1>5. CASE Desk!OpenModal
  <2>1. /\ usersDetail # None /\ usersModal' = TRUE /\ usersOpenings' = usersOpenings + 1
        /\ usersIntended' = IF Desk!Busy THEN None ELSE usersDetail
        /\ UNCHANGED <<usersLoad, usersDetail, usersHistory, usersPress, usersMisdirected, usersMuddled>>
    BY <1>5 DEF Desk!OpenModal, Desk!Shown
  <2>2. DeskTypes'
    BY <1>t, <2>1 DEF DeskTypes
  <2>3. DeskIntent'
    BY <1>0, <2>1, DeskIsBusy DEF DeskIntent, LoadOpen, PressOpen
  <2> QED
    BY <1>0, <2>1, <2>2, <2>3 DEF DeskInv, DeskOrder, LoadOpen, PressOpen
<1>6. ASSUME NEW p \in Presses, Desk!Submit(p)
      PROVE  DeskInv'
  <2>1. /\ usersPress' \in [Presses -> Desk!Adjustment \cup {None}]
        /\ usersPress'[p].user = usersDetail
        /\ \A q \in Presses : q # p => usersPress'[q] = usersPress[q]
    BY <1>0, <1>6, DeskSubmits
  <2>2. /\ usersModal /\ usersMuddled' \in BOOLEAN
        /\ ~usersMuddled' => ~usersMuddled /\ ~Desk!Busy
        /\ usersMisdirected' = IF usersIntended \in {usersDetail, None} THEN usersMisdirected ELSE usersMisdirected \cup {p}
        /\ UNCHANGED <<usersLoad, usersDetail, usersHistory, usersModal, usersIntended, usersOpenings>>
    BY <1>t, <1>6 DEF Desk!Submit
  <2>3. DeskTypes' /\ DeskIntent'
    BY <1>0, <1>t, <2>1, <2>2 DEF DeskTypes, DeskIntent, LoadOpen, PressOpen
  <2>4. DeskOrder'
    BY <1>0, <2>1, <2>2, DeskIsBusy DEF DeskOrder, LoadOpen, PressOpen
  <2> QED
    BY <2>3, <2>4 DEF DeskInv
<1>7. ASSUME NEW p \in Presses, Desk!Apply(p) \/ Desk!ReloadUser(p) \/ Desk!ReloadHistory(p) \/ Desk!PressFails(p)
      PROVE  DeskInv'
  <2>1. /\ PressOpen(p) /\ usersPress[p] # None
        /\ usersPress' \in [Presses -> Desk!Adjustment \cup {None}]
        /\ usersPress'[p] # None /\ usersPress'[p].user = usersPress[p].user
        /\ \A q \in Presses : q # p => usersPress'[q] = usersPress[q]
        /\ usersDetail' \in {usersDetail, usersPress[p].user} /\ usersDetail' \in Pair \cup {None}
        /\ usersHistory' \in {usersHistory, usersPress[p].user}
        /\ usersModal' \in BOOLEAN /\ (usersModal' => usersModal) /\ (usersModal => usersDetail' # None)
        /\ UNCHANGED <<usersLoad, usersIntended, usersOpenings, usersMisdirected, usersMuddled>>
    BY <1>0, <1>7, DeskAdjusts
  <2>2. DeskTypes'
    BY <1>t, <2>1 DEF DeskTypes
  <2>3. DeskIntent'
    BY <1>0, <2>1 DEF DeskIntent, LoadOpen, PressOpen
  <2>4. DeskOrder'
    <3> SUFFICES ASSUME ~usersMuddled' PROVE DeskOrder'
      BY DEF DeskOrder
    <3>1. /\ \A l \in FailingLoads : ~LoadOpen(l)
          /\ \A q \in Presses : PressOpen(q) => usersPress[q].user = usersDetail
          /\ usersHistory \in {usersDetail, None}
      BY <1>0, <2>1 DEF DeskOrder
    <3>2. usersDetail' = usersDetail /\ usersHistory' \in {usersDetail, None}
      BY <2>1, <3>1
    <3>3. /\ \A l \in FailingLoads : ~LoadOpen(l)'
          /\ \A q \in Presses : PressOpen(q)' => usersPress'[q].user = usersDetail'
      BY <2>1, <3>1, <3>2 DEF LoadOpen, PressOpen
    <3> QED
      BY <3>2, <3>3 DEF DeskOrder
  <2> QED
    BY <2>2, <2>3, <2>4 DEF DeskInv
<1> QED
  BY <1>1, <1>2, <1>3, <1>4, <1>5, <1>6, <1>7 DEF Desk!Next

DeskSureTypes ==
  /\ usersLoad \in [Loads -> DeskSure!Load \cup {None}]
  /\ usersDetail \in Pair \cup {None}
  /\ usersModal \in BOOLEAN /\ usersMuddled \in BOOLEAN
  /\ usersOpenings \in Nat
  /\ usersPress \in [Presses -> DeskSure!Adjustment \cup {None}]
  /\ usersModal => usersDetail # None

\* Under a modal that was opened while nothing was under way, nothing brings
\* another user.
DeskSureIntent ==
  /\ usersMisdirected = {}
  /\ usersModal /\ usersIntended # None =>
       /\ usersIntended = usersDetail
       /\ \A l \in Loads : ~LoadOpen(l)
       /\ \A p \in Presses : PressOpen(p) => usersPress[p].user = usersDetail

\* Unless requests overlapped, what is under way is of the user shown, and a
\* load excludes everything else.
DeskSureOrder ==
  ~usersMuddled =>
    /\ \A l, k \in Loads : LoadOpen(l) /\ LoadOpen(k) => l = k
    /\ \A l \in Loads, p \in Presses : ~(LoadOpen(l) /\ PressOpen(p))
    /\ \A p \in Presses : PressOpen(p) => usersPress[p].user = usersDetail
    /\ \A l \in Loads : LoadOpen(l) /\ usersLoad[l].at = "history" => usersLoad[l].user = usersDetail
    /\ \/ usersHistory \in {usersDetail, None}
       \/ \E l \in Loads : LoadOpen(l) /\ usersLoad[l].at = "history"

DeskSureInv == DeskSureTypes /\ DeskSureIntent /\ DeskSureOrder

(* What the page holds.                                                    *)
LEMMA DeskSureRecords ==
  ASSUME DeskSureTypes
  PROVE  /\ \A l \in Loads : usersLoad[l] # None =>
              /\ usersLoad[l] \in DeskSure!Load /\ usersLoad[l].user \in Pair
              /\ usersLoad[l].at \in {"user", "history", "ended"}
         /\ \A p \in Presses : usersPress[p] # None =>
              /\ usersPress[p] \in DeskSure!Adjustment /\ usersPress[p].user \in Pair
              /\ usersPress[p].at \in {"sent", "applied", "refreshing", "ended"}
              /\ usersPress[p].opening \in Nat
         /\ None \notin Pair /\ None \notin DeskSure!Load /\ None \notin DeskSure!Adjustment
<1>1. \A l \in Loads : usersLoad[l] # None =>
        /\ usersLoad[l] \in DeskSure!Load /\ usersLoad[l].user \in Pair
        /\ usersLoad[l].at \in {"user", "history", "ended"}
  BY DEF DeskSureTypes, DeskSure!Load
<1>2. \A p \in Presses : usersPress[p] # None =>
        /\ usersPress[p] \in DeskSure!Adjustment /\ usersPress[p].user \in Pair
        /\ usersPress[p].at \in {"sent", "applied", "refreshing", "ended"}
        /\ usersPress[p].opening \in Nat
  BY DEF DeskSureTypes, DeskSure!Adjustment
<1> QED
  BY <1>1, <1>2, DeskSureAssumption DEF DeskSure!UserDeskAssumption

(* A load moves on.                                                        *)
LEMMA DeskSureLoadMoves ==
  ASSUME DeskSureTypes, NEW l \in Loads, usersLoad[l] # None, NEW pc \in {"history", "ended"},
         usersLoad' = [usersLoad EXCEPT ![l].at = pc]
  PROVE  /\ usersLoad' \in [Loads -> DeskSure!Load \cup {None}]
         /\ usersLoad'[l] # None /\ usersLoad'[l].at = pc /\ usersLoad'[l].user = usersLoad[l].user
         /\ \A k \in Loads : k # l => usersLoad'[k] = usersLoad[k] /\ (LoadOpen(k)' <=> LoadOpen(k))
<1>1. usersLoad[l] \in DeskSure!Load /\ None \notin DeskSure!Load /\ usersLoad \in [Loads -> DeskSure!Load \cup {None}]
  BY DeskSureRecords DEF DeskSureTypes
<1>2. [usersLoad[l] EXCEPT !.at = pc] \in DeskSure!Load
  BY <1>1 DEF DeskSure!Load
<1>3. /\ usersLoad' \in [Loads -> DeskSure!Load \cup {None}]
      /\ usersLoad'[l] = [usersLoad[l] EXCEPT !.at = pc]
      /\ \A k \in Loads : k # l => usersLoad'[k] = usersLoad[k]
  BY <1>1, <1>2
<1> QED
  BY <1>1, <1>2, <1>3 DEF DeskSure!Load, LoadOpen

(* A press moves on.                                                       *)
LEMMA DeskSurePressMoves ==
  ASSUME DeskSureTypes, NEW p \in Presses, usersPress[p] # None, NEW pc \in {"applied", "refreshing", "ended"},
         \/ usersPress' = [usersPress EXCEPT ![p].at = pc]
         \/ usersPress' = [usersPress EXCEPT ![p].at = pc, ![p].applied = TRUE]
  PROVE  /\ usersPress' \in [Presses -> DeskSure!Adjustment \cup {None}]
         /\ usersPress'[p] # None /\ usersPress'[p].at = pc
         /\ usersPress'[p].user = usersPress[p].user /\ usersPress'[p].opening = usersPress[p].opening
         /\ \A q \in Presses : q # p => usersPress'[q] = usersPress[q]
<1>1. usersPress[p] \in DeskSure!Adjustment /\ None \notin DeskSure!Adjustment
      /\ usersPress \in [Presses -> DeskSure!Adjustment \cup {None}]
  BY DeskSureRecords DEF DeskSureTypes
<1> DEFINE A == [usersPress[p] EXCEPT !.at = pc]
           B == [A EXCEPT !.applied = TRUE]
<1>2. A \in DeskSure!Adjustment /\ A.at = pc /\ A.user = usersPress[p].user /\ A.opening = usersPress[p].opening
  BY <1>1 DEF DeskSure!Adjustment
<1> HIDE DEF A
<1>3. B \in DeskSure!Adjustment /\ B.at = pc /\ B.user = usersPress[p].user /\ B.opening = usersPress[p].opening
  BY <1>2 DEF DeskSure!Adjustment
<1> HIDE DEF B
<1>4. usersPress' = [usersPress EXCEPT ![p] = A] \/ usersPress' = [usersPress EXCEPT ![p] = B]
  <2>1. CASE usersPress' = [usersPress EXCEPT ![p].at = pc]
    BY <2>1 DEF A
  <2>2. CASE usersPress' = [usersPress EXCEPT ![p].at = pc, ![p].applied = TRUE]
    BY <1>1, <2>2 DEF A, B
  <2> QED
    BY <2>1, <2>2
<1>5. /\ usersPress' \in [Presses -> DeskSure!Adjustment \cup {None}]
      /\ usersPress'[p] \in {A, B}
      /\ \A q \in Presses : q # p => usersPress'[q] = usersPress[q]
  BY <1>1, <1>2, <1>3, <1>4
<1> QED
  BY <1>1, <1>2, <1>3, <1>5

(* The page opens with nothing loaded.                                     *)
LEMMA DeskSureStarts ==
  ASSUME DeskSure!Init
  PROVE  DeskSureInv
  BY DEF DeskSure!Init, DeskSureInv, DeskSureTypes, DeskSureIntent, DeskSureOrder, LoadOpen, PressOpen

(* A row is clicked.                                                       *)
LEMMA DeskSureClicks ==
  ASSUME DeskSureTypes, NEW l \in Loads, NEW u \in Pair, DeskSure!Click(l, u)
  PROVE  /\ usersLoad' \in [Loads -> DeskSure!Load \cup {None}]
         /\ usersLoad'[l] # None /\ usersLoad'[l].user = u /\ usersLoad'[l].at = "user"
         /\ \A k \in Loads : k # l => usersLoad'[k] = usersLoad[k]
<1>1. [user |-> u, at |-> "user"] \in DeskSure!Load
  BY DEF DeskSure!Load
<1>2. /\ usersLoad' \in [Loads -> DeskSure!Load \cup {None}]
      /\ usersLoad'[l] = [user |-> u, at |-> "user"]
      /\ \A k \in Loads : k # l => usersLoad'[k] = usersLoad[k]
  BY <1>1 DEF DeskSure!Click, DeskSureTypes
<1> QED
  BY <1>1, <1>2, DeskSureRecords

(* Submit is pressed.                                                      *)
LEMMA DeskSureSubmits ==
  ASSUME DeskSureTypes, NEW p \in Presses, DeskSure!Submit(p)
  PROVE  /\ usersPress' \in [Presses -> DeskSure!Adjustment \cup {None}]
         /\ usersPress'[p].user = usersDetail /\ usersPress'[p].at = "sent"
         /\ usersPress'[p].opening = usersOpenings
         /\ \A q \in Presses : q # p => usersPress'[q] = usersPress[q]
<1> DEFINE r == [user |-> usersDetail, at |-> "sent", applied |-> FALSE, opening |-> usersOpenings]
<1>1. r \in DeskSure!Adjustment
  BY DEF DeskSure!Submit, DeskSureTypes, DeskSure!Adjustment
<1>2. usersPress' = [usersPress EXCEPT ![p] = r]
  BY DEF DeskSure!Submit
<1>3. r.user = usersDetail /\ r.at = "sent" /\ r.opening = usersOpenings
  OBVIOUS
<1> HIDE DEF r
<1>4. /\ usersPress' \in [Presses -> DeskSure!Adjustment \cup {None}] /\ usersPress'[p] = r
      /\ \A q \in Presses : q # p => usersPress'[q] = usersPress[q]
  BY <1>1, <1>2 DEF DeskSureTypes
<1> QED
  BY <1>3, <1>4

(* What an adjustment does as its requests are answered, or one fails.     *)
LEMMA DeskSureAdjusts ==
  ASSUME DeskSureTypes, NEW p \in Presses,
         DeskSure!Apply(p) \/ DeskSure!ReloadUser(p) \/ DeskSure!ReloadHistory(p) \/ DeskSure!PressFails(p)
  PROVE  /\ PressOpen(p) /\ usersPress[p] # None
         /\ usersPress' \in [Presses -> DeskSure!Adjustment \cup {None}]
         /\ usersPress'[p] # None /\ usersPress'[p].user = usersPress[p].user
         /\ usersPress'[p].opening = usersPress[p].opening
         /\ \A q \in Presses : q # p => usersPress'[q] = usersPress[q]
         /\ usersDetail' \in {usersDetail, usersPress[p].user} /\ usersDetail' \in Pair \cup {None}
         /\ usersHistory' \in {usersHistory, usersPress[p].user}
         /\ usersModal' \in BOOLEAN /\ (usersModal' => usersModal) /\ (usersModal => usersDetail' # None)
         /\ UNCHANGED <<usersLoad, usersSelected, usersIntended, usersOpenings, usersMisdirected, usersHasty, usersMuddled>>
<1>1. PressOpen(p) /\ usersPress[p] # None
  BY DEF DeskSure!Apply, DeskSure!ReloadUser, DeskSure!ReloadHistory, DeskSure!PressFails, PressOpen
<1>2. PICK pc \in {"applied", "refreshing", "ended"} :
          \/ usersPress' = [usersPress EXCEPT ![p].at = pc]
          \/ usersPress' = [usersPress EXCEPT ![p].at = pc, ![p].applied = TRUE]
  BY DEF DeskSure!Apply, DeskSure!ReloadUser, DeskSure!ReloadHistory, DeskSure!PressFails
<1>3. /\ usersPress' \in [Presses -> DeskSure!Adjustment \cup {None}]
      /\ usersPress'[p] # None /\ usersPress'[p].user = usersPress[p].user
      /\ usersPress'[p].opening = usersPress[p].opening
      /\ \A q \in Presses : q # p => usersPress'[q] = usersPress[q]
  BY <1>1, <1>2, DeskSurePressMoves
<1>4. /\ usersDetail' \in {usersDetail, usersPress[p].user}
      /\ usersHistory' \in {usersHistory, usersPress[p].user}
      /\ usersModal' = usersModal \/ usersModal' = FALSE
      /\ UNCHANGED <<usersLoad, usersSelected, usersIntended, usersOpenings, usersMisdirected, usersHasty, usersMuddled>>
  BY DEF DeskSure!Apply, DeskSure!ReloadUser, DeskSure!ReloadHistory, DeskSure!PressFails
<1>5. usersPress[p].user \in Pair /\ None \notin Pair
  BY <1>1, DeskSureRecords
<1>6. usersDetail' \in Pair \cup {None} /\ (usersModal => usersDetail' # None)
  BY <1>4, <1>5 DEF DeskSureTypes
<1>7. usersModal \in BOOLEAN
  BY DEF DeskSureTypes
<1>8. usersModal' \in BOOLEAN
  BY <1>4, <1>7
<1>9. usersModal' => usersModal
  BY <1>4, <1>7
<1> QED
  BY <1>1, <1>3, <1>4, <1>6, <1>8, <1>9

\* A load is under way, or an adjustment is.
LEMMA DeskSureIsBusy ==
  DeskSure!Busy <=> (\E l \in Loads : LoadOpen(l)) \/ (\E p \in Presses : PressOpen(p))
  BY DEF DeskSure!Busy, DeskSure!Loading, DeskSure!Adjusting, LoadOpen, PressOpen

(* What is under way stays of the user shown.                              *)
LEMMA DeskSureStays ==
  ASSUME DeskSureInv, DeskSure!Next
  PROVE  DeskSureInv'
<1>0. DeskSureTypes /\ DeskSureIntent /\ DeskSureOrder
  BY DEF DeskSureInv
<1>t. /\ usersLoad \in [Loads -> DeskSure!Load \cup {None}]
      /\ usersPress \in [Presses -> DeskSure!Adjustment \cup {None}]
      /\ usersDetail \in Pair \cup {None} /\ usersModal \in BOOLEAN /\ usersMuddled \in BOOLEAN
      /\ usersOpenings \in Nat /\ (usersModal => usersDetail # None)
  BY <1>0 DEF DeskSureTypes
<1>1. ASSUME NEW l \in Loads, NEW u \in Pair, DeskSure!Click(l, u)
      PROVE  DeskSureInv'
  <2>1. /\ usersLoad' \in [Loads -> DeskSure!Load \cup {None}]
        /\ usersLoad'[l] # None /\ usersLoad'[l].user = u /\ usersLoad'[l].at = "user"
        /\ \A k \in Loads : k # l => usersLoad'[k] = usersLoad[k]
    BY <1>0, <1>1, DeskSureClicks
  <2>2. /\ ~usersModal /\ usersMuddled' \in BOOLEAN
        /\ ~usersMuddled' => ~usersMuddled /\ ~DeskSure!Busy
        /\ UNCHANGED <<usersDetail, usersHistory, usersModal, usersIntended, usersOpenings, usersPress, usersMisdirected>>
    BY <1>t, <1>1 DEF DeskSure!Click, DeskSure!modalVars
  <2>3. DeskSureTypes' /\ DeskSureIntent'
    BY <1>0, <1>t, <2>1, <2>2 DEF DeskSureTypes, DeskSureIntent
  <2>4. DeskSureOrder'
    BY <1>0, <2>1, <2>2, DeskSureIsBusy DEF DeskSureOrder, LoadOpen, PressOpen
  <2> QED
    BY <2>3, <2>4 DEF DeskSureInv
<1>2. ASSUME NEW l \in Loads, DeskSure!UserLoaded(l)
      PROVE  DeskSureInv'
  <2>1. /\ usersLoad[l] # None /\ LoadOpen(l) /\ usersLoad[l].at = "user" /\ usersDetail' = usersLoad[l].user
        /\ usersLoad' = [usersLoad EXCEPT ![l].at = "history"]
        /\ usersMuddled' \in BOOLEAN /\ (~usersMuddled' => ~usersMuddled \/ DeskSure!Alone(l))
        /\ UNCHANGED <<usersHistory, usersModal, usersIntended, usersOpenings, usersPress, usersMisdirected>>
    BY <1>t, <1>2 DEF DeskSure!UserLoaded, LoadOpen, DeskSure!modalVars
  <2>2. /\ usersLoad' \in [Loads -> DeskSure!Load \cup {None}]
        /\ usersLoad'[l] # None /\ usersLoad'[l].at = "history" /\ usersLoad'[l].user = usersLoad[l].user
        /\ \A k \in Loads : k # l => usersLoad'[k] = usersLoad[k] /\ (LoadOpen(k)' <=> LoadOpen(k))
    BY <1>0, <2>1, DeskSureLoadMoves
  <2>3. usersLoad[l].user \in Pair /\ None \notin Pair
    BY <1>0, <2>1, DeskSureRecords
  <2>4. DeskSureTypes' /\ DeskSureIntent'
    <3>1. ~(usersModal' /\ usersIntended' # None) /\ usersMisdirected' = {}
      BY <1>0, <2>1 DEF DeskSureIntent
    <3> QED
      BY <1>t, <2>1, <2>2, <2>3, <3>1 DEF DeskSureTypes, DeskSureIntent
  <2>5. ~usersMuddled' => (\A k \in Loads : k # l => ~LoadOpen(k)) /\ (\A p \in Presses : ~PressOpen(p))
    <3>1. ~usersMuddled => (\A k \in Loads : k # l => ~LoadOpen(k)) /\ (\A p \in Presses : ~PressOpen(p))
      BY <1>0, <2>1 DEF DeskSureOrder
    <3>2. DeskSure!Alone(l) => (\A k \in Loads : k # l => ~LoadOpen(k)) /\ (\A p \in Presses : ~PressOpen(p))
      BY DEF DeskSure!Alone, DeskSure!Adjusting, LoadOpen, PressOpen
    <3> QED
      BY <2>1, <3>1, <3>2
  <2>6. LoadOpen(l)' /\ \A p \in Presses : PressOpen(p)' <=> PressOpen(p)
    BY <2>1, <2>2 DEF LoadOpen, PressOpen
  <2>7. DeskSureOrder'
    BY <2>1, <2>2, <2>5, <2>6 DEF DeskSureOrder
  <2> QED
    BY <2>4, <2>7 DEF DeskSureInv
<1>3. ASSUME NEW l \in Loads, DeskSure!UserNotLoaded(l) \/ DeskSure!HistoryLoaded(l)
      PROVE  DeskSureInv'
  <2>1. /\ usersLoad[l] # None /\ LoadOpen(l)
        /\ usersLoad' = [usersLoad EXCEPT ![l].at = "ended"]
        /\ UNCHANGED <<usersDetail, usersModal, usersIntended, usersOpenings, usersPress, usersMisdirected, usersMuddled>>
        /\ \/ usersLoad[l].at = "user" /\ usersHistory' = usersHistory
           \/ usersLoad[l].at = "history" /\ usersHistory' \in {usersLoad[l].user, None}
    BY <1>3 DEF DeskSure!UserNotLoaded, DeskSure!HistoryLoaded, LoadOpen, DeskSure!modalVars
  <2>2. /\ usersLoad' \in [Loads -> DeskSure!Load \cup {None}]
        /\ usersLoad'[l].at = "ended"
        /\ \A k \in Loads : k # l => usersLoad'[k] = usersLoad[k] /\ (LoadOpen(k)' <=> LoadOpen(k))
    BY <1>0, <2>1, DeskSureLoadMoves
  <2>3. ~LoadOpen(l)' /\ \A p \in Presses : PressOpen(p)' <=> PressOpen(p)
    BY <2>1, <2>2 DEF LoadOpen, PressOpen
  <2>4. DeskSureTypes' /\ DeskSureIntent'
    <3>1. ~(usersModal' /\ usersIntended' # None) /\ usersMisdirected' = {}
      BY <1>0, <2>1 DEF DeskSureIntent
    <3> QED
      BY <1>t, <2>1, <2>2, <3>1 DEF DeskSureTypes, DeskSureIntent
  <2>5. DeskSureOrder'
    <3> SUFFICES ASSUME ~usersMuddled' PROVE DeskSureOrder'
      BY DEF DeskSureOrder
    <3>1. /\ \A k \in Loads : k # l => ~LoadOpen(k)
          /\ \A p \in Presses : ~PressOpen(p)
          /\ usersLoad[l].at = "history" => usersLoad[l].user = usersDetail
          /\ \/ usersHistory \in {usersDetail, None}
             \/ \E k \in Loads : LoadOpen(k) /\ usersLoad[k].at = "history"
      BY <1>0, <2>1 DEF DeskSureOrder
    <3>2. usersHistory' \in {usersDetail', None}
      BY <2>1, <3>1
    <3> QED
      BY <2>1, <2>2, <2>3, <3>1, <3>2 DEF DeskSureOrder
  <2> QED
    BY <2>4, <2>5 DEF DeskSureInv
<1>4. CASE DeskSure!Close \/ DeskSure!CancelModal
  <2>1. /\ UNCHANGED <<usersLoad, usersDetail, usersHistory, usersIntended, usersOpenings, usersPress, usersMisdirected, usersMuddled>>
        /\ usersModal' = usersModal \/ usersModal' = FALSE
    BY <1>4 DEF DeskSure!Close, DeskSure!CancelModal, DeskSure!modalVars
  <2>2. usersModal' \in BOOLEAN
    BY <1>t, <2>1
  <2>3. usersModal' => usersModal
    BY <1>t, <2>1
  <2> QED
    BY <1>0, <2>1, <2>2, <2>3 DEF DeskSureInv, DeskSureTypes, DeskSureIntent, DeskSureOrder, LoadOpen, PressOpen
<1>5. CASE DeskSure!OpenModal
  <2>1. /\ usersDetail # None /\ usersModal' = TRUE /\ usersOpenings' = usersOpenings + 1
        /\ usersIntended' = IF DeskSure!Busy THEN None ELSE usersDetail
        /\ UNCHANGED <<usersLoad, usersDetail, usersHistory, usersPress, usersMisdirected, usersMuddled>>
    BY <1>5 DEF DeskSure!OpenModal, DeskSure!Shown
  <2>2. DeskSureTypes'
    BY <1>t, <2>1 DEF DeskSureTypes
  <2>3. DeskSureIntent'
    BY <1>0, <2>1, DeskSureIsBusy DEF DeskSureIntent, LoadOpen, PressOpen
  <2> QED
    BY <1>0, <2>1, <2>2, <2>3 DEF DeskSureInv, DeskSureOrder, LoadOpen, PressOpen
<1>6. ASSUME NEW p \in Presses, DeskSure!Submit(p)
      PROVE  DeskSureInv'
  <2>1. /\ usersPress' \in [Presses -> DeskSure!Adjustment \cup {None}]
        /\ usersPress'[p].user = usersDetail
        /\ \A q \in Presses : q # p => usersPress'[q] = usersPress[q]
    BY <1>0, <1>6, DeskSureSubmits
  <2>2. /\ usersModal /\ usersMuddled' \in BOOLEAN
        /\ ~usersMuddled' => ~usersMuddled /\ ~DeskSure!Busy
        /\ usersMisdirected' = IF usersIntended \in {usersDetail, None} THEN usersMisdirected ELSE usersMisdirected \cup {p}
        /\ UNCHANGED <<usersLoad, usersDetail, usersHistory, usersModal, usersIntended, usersOpenings>>
    BY <1>t, <1>6 DEF DeskSure!Submit
  <2>3. DeskSureTypes' /\ DeskSureIntent'
    BY <1>0, <1>t, <2>1, <2>2 DEF DeskSureTypes, DeskSureIntent, LoadOpen, PressOpen
  <2>4. DeskSureOrder'
    BY <1>0, <2>1, <2>2, DeskSureIsBusy DEF DeskSureOrder, LoadOpen, PressOpen
  <2> QED
    BY <2>3, <2>4 DEF DeskSureInv
<1>7. ASSUME NEW p \in Presses, DeskSure!Apply(p) \/ DeskSure!ReloadUser(p) \/ DeskSure!ReloadHistory(p) \/ DeskSure!PressFails(p)
      PROVE  DeskSureInv'
  <2>1. /\ PressOpen(p) /\ usersPress[p] # None
        /\ usersPress' \in [Presses -> DeskSure!Adjustment \cup {None}]
        /\ usersPress'[p] # None /\ usersPress'[p].user = usersPress[p].user
        /\ \A q \in Presses : q # p => usersPress'[q] = usersPress[q]
        /\ usersDetail' \in {usersDetail, usersPress[p].user} /\ usersDetail' \in Pair \cup {None}
        /\ usersHistory' \in {usersHistory, usersPress[p].user}
        /\ usersModal' \in BOOLEAN /\ (usersModal' => usersModal) /\ (usersModal => usersDetail' # None)
        /\ UNCHANGED <<usersLoad, usersIntended, usersOpenings, usersMisdirected, usersMuddled>>
    BY <1>0, <1>7, DeskSureAdjusts
  <2>2. DeskSureTypes'
    BY <1>t, <2>1 DEF DeskSureTypes
  <2>3. DeskSureIntent'
    BY <1>0, <2>1 DEF DeskSureIntent, LoadOpen, PressOpen
  <2>4. DeskSureOrder'
    <3> SUFFICES ASSUME ~usersMuddled' PROVE DeskSureOrder'
      BY DEF DeskSureOrder
    <3>1. /\ \A l \in Loads : ~LoadOpen(l)
          /\ \A q \in Presses : PressOpen(q) => usersPress[q].user = usersDetail
          /\ usersHistory \in {usersDetail, None}
      BY <1>0, <2>1 DEF DeskSureOrder
    <3>2. usersDetail' = usersDetail /\ usersHistory' \in {usersDetail, None}
      BY <2>1, <3>1
    <3>3. /\ \A l \in Loads : ~LoadOpen(l)'
          /\ \A q \in Presses : PressOpen(q)' => usersPress'[q].user = usersDetail'
      BY <2>1, <3>1, <3>2 DEF LoadOpen, PressOpen
    <3> QED
      BY <3>2, <3>3 DEF DeskSureOrder
  <2> QED
    BY <2>2, <2>3, <2>4 DEF DeskSureInv
<1> QED
  BY <1>1, <1>2, <1>3, <1>4, <1>5, <1>6, <1>7 DEF DeskSure!Next

\* Where nothing fails and nothing overlaps, the user shown is the one clicked.
SureClicked ==
  ~usersMuddled =>
    /\ \A l \in Loads : LoadOpen(l) => usersSelected \in {usersLoad[l].user, None}
    /\ \/ usersSelected \in {usersDetail, None}
       \/ \E l \in Loads : LoadOpen(l) /\ usersLoad[l].at = "user"

\* A press that ended has had the modal closed, and one that was not hasty has
\* an opening of its own.
SurePressed ==
  /\ \A p \in Presses : usersPress[p] # None =>
       /\ usersPress[p].opening <= usersOpenings
       /\ usersModal /\ usersPress[p].at = "ended" => usersPress[p].opening < usersOpenings
  /\ \A p, q \in Presses \ usersHasty :
       usersPress[p] # None /\ usersPress[q] # None /\ usersPress[p].opening = usersPress[q].opening => p = q

SureInv == SureClicked /\ SurePressed

LEMMA SureStarts ==
  ASSUME DeskSure!Init
  PROVE  SureInv
  BY DEF DeskSure!Init, SureInv, SureClicked, SurePressed, LoadOpen

(* A click is answered before the next, unless requests overlap.           *)
LEMMA SureStaysClicked ==
  ASSUME DeskSureInv, SureClicked, DeskSure!Next
  PROVE  SureClicked'
<1>0. DeskSureTypes /\ DeskSureOrder /\ usersMuddled \in BOOLEAN
  BY DEF DeskSureInv, DeskSureTypes
<1>1. ASSUME NEW l \in Loads, NEW u \in Pair, DeskSure!Click(l, u)
      PROVE  SureClicked'
  <2>1. /\ usersLoad'[l] # None /\ usersLoad'[l].user = u /\ usersLoad'[l].at = "user"
        /\ \A k \in Loads : k # l => usersLoad'[k] = usersLoad[k]
    BY <1>0, <1>1, DeskSureClicks
  <2>2. usersSelected' = u /\ (~usersMuddled' => ~DeskSure!Busy)
    BY <1>0, <1>1 DEF DeskSure!Click
  <2> QED
    BY <2>1, <2>2, DeskSureIsBusy DEF SureClicked, LoadOpen
<1>2. ASSUME NEW l \in Loads, DeskSure!UserLoaded(l)
      PROVE  SureClicked'
  <2>1. /\ usersLoad[l] # None /\ LoadOpen(l) /\ usersDetail' = usersLoad[l].user
        /\ usersLoad' = [usersLoad EXCEPT ![l].at = "history"]
        /\ ~usersMuddled' => ~usersMuddled \/ DeskSure!Alone(l)
        /\ usersSelected' = usersSelected
    BY <1>0, <1>2 DEF DeskSure!UserLoaded, LoadOpen
  <2>2. /\ usersLoad'[l].user = usersLoad[l].user
        /\ \A k \in Loads : k # l => usersLoad'[k] = usersLoad[k] /\ (LoadOpen(k)' <=> LoadOpen(k))
    BY <1>0, <2>1, DeskSureLoadMoves
  <2>3. ~usersMuddled' => usersSelected \in {usersLoad[l].user, None} /\ \A k \in Loads : k # l => ~LoadOpen(k)
    <3>1. ~usersMuddled => usersSelected \in {usersLoad[l].user, None} /\ \A k \in Loads : k # l => ~LoadOpen(k)
      BY <1>0, <2>1 DEF SureClicked, DeskSureOrder
    <3>2. DeskSure!Alone(l) => usersSelected \in {usersLoad[l].user, None} /\ \A k \in Loads : k # l => ~LoadOpen(k)
      BY DEF DeskSure!Alone, LoadOpen
    <3> QED
      BY <2>1, <3>1, <3>2
  <2> QED
    BY <2>1, <2>2, <2>3 DEF SureClicked
<1>3. ASSUME NEW l \in Loads, DeskSure!HistoryLoaded(l)
      PROVE  SureClicked'
  <2>1. /\ usersLoad[l] # None /\ LoadOpen(l) /\ usersLoad[l].at = "history"
        /\ usersLoad' = [usersLoad EXCEPT ![l].at = "ended"]
        /\ UNCHANGED <<usersSelected, usersDetail, usersMuddled>>
    BY <1>3 DEF DeskSure!HistoryLoaded, LoadOpen
  <2>2. /\ usersLoad'[l].at = "ended"
        /\ \A k \in Loads : k # l => usersLoad'[k] = usersLoad[k] /\ (LoadOpen(k)' <=> LoadOpen(k))
    BY <1>0, <2>1, DeskSureLoadMoves
  <2>3. ~LoadOpen(l)'
    BY <2>2 DEF LoadOpen
  <2> QED
    BY <2>1, <2>2, <2>3 DEF SureClicked
<1>4. CASE DeskSure!Close \/ DeskSure!OpenModal \/ DeskSure!CancelModal
  <2>1. /\ UNCHANGED <<usersLoad, usersDetail, usersMuddled>> /\ usersSelected' \in {usersSelected, None}
    BY <1>4 DEF DeskSure!Close, DeskSure!OpenModal, DeskSure!CancelModal, DeskSure!modalVars
  <2> QED
    BY <2>1 DEF SureClicked, LoadOpen
<1>5. ASSUME NEW p \in Presses, DeskSure!Submit(p)
      PROVE  SureClicked'
  <2>1. UNCHANGED <<usersLoad, usersDetail, usersSelected>> /\ (~usersMuddled' => ~usersMuddled)
    BY <1>0, <1>5 DEF DeskSure!Submit
  <2> QED
    BY <2>1 DEF SureClicked, LoadOpen
<1>6. ASSUME NEW p \in Presses, DeskSure!Apply(p) \/ DeskSure!ReloadUser(p) \/ DeskSure!ReloadHistory(p)
      PROVE  SureClicked'
  <2>1. /\ PressOpen(p) /\ usersDetail' \in {usersDetail, usersPress[p].user}
        /\ UNCHANGED <<usersLoad, usersSelected, usersMuddled>>
    BY <1>0, <1>6, DeskSureAdjusts
  <2>2. ~usersMuddled => usersDetail' = usersDetail
    BY <1>0, <2>1 DEF DeskSureOrder
  <2> QED
    BY <2>1, <2>2 DEF SureClicked, LoadOpen
<1>7. ~(\E l \in Loads : DeskSure!UserNotLoaded(l)) /\ ~(\E p \in Presses : DeskSure!PressFails(p))
  BY DEF DeskSure!UserNotLoaded, DeskSure!PressFails
<1> QED
  BY <1>1, <1>2, <1>3, <1>4, <1>5, <1>6, <1>7 DEF DeskSure!Next

(* An opening is pressed once while nothing is under way.                  *)
LEMMA SureStaysPressed ==
  ASSUME DeskSureTypes, SurePressed, DeskSure!Next
  PROVE  SurePressed'
<1>s. /\ \A p \in Presses : usersPress[p] # None =>
           /\ usersPress[p].opening <= usersOpenings
           /\ usersModal /\ usersPress[p].at = "ended" => usersPress[p].opening < usersOpenings
      /\ \A p, q \in Presses \ usersHasty :
           usersPress[p] # None /\ usersPress[q] # None /\ usersPress[p].opening = usersPress[q].opening => p = q
  BY DEF SurePressed
<1>t. /\ usersPress \in [Presses -> DeskSure!Adjustment \cup {None}]
      /\ usersModal \in BOOLEAN /\ usersOpenings \in Nat
      /\ \A p \in Presses : usersPress[p] # None => usersPress[p].opening \in Nat
  BY DeskSureRecords DEF DeskSureTypes
<1>1. ASSUME NEW l \in Loads, NEW u \in Pair, DeskSure!Click(l, u)
      PROVE  SurePressed'
  <2>1. UNCHANGED <<usersModal, usersOpenings, usersPress, usersHasty>>
    BY <1>1 DEF DeskSure!Click, DeskSure!modalVars
  <2> QED
    BY <1>s, <2>1 DEF SurePressed
<1>2. ASSUME NEW l \in Loads, DeskSure!UserLoaded(l) \/ DeskSure!HistoryLoaded(l)
      PROVE  SurePressed'
  <2>1. UNCHANGED <<usersModal, usersOpenings, usersPress, usersHasty>>
    BY <1>2 DEF DeskSure!UserLoaded, DeskSure!HistoryLoaded, DeskSure!modalVars
  <2> QED
    BY <1>s, <2>1 DEF SurePressed
<1>3. CASE DeskSure!Close \/ DeskSure!CancelModal
  <2>1. UNCHANGED <<usersOpenings, usersPress, usersHasty>> /\ (usersModal' = usersModal \/ usersModal' = FALSE)
    BY <1>3 DEF DeskSure!Close, DeskSure!CancelModal, DeskSure!modalVars
  <2> QED
    BY <1>s, <2>1 DEF SurePressed
<1>4. CASE DeskSure!OpenModal
  <2>1. usersOpenings' = usersOpenings + 1 /\ UNCHANGED <<usersPress, usersHasty>>
    BY <1>4 DEF DeskSure!OpenModal
  <2>2. \A p \in Presses : usersPress[p] # None =>
          usersPress[p].opening < usersOpenings' /\ usersPress[p].opening <= usersOpenings'
    BY <1>s, <1>t, <2>1
  <2> QED
    BY <1>s, <2>1, <2>2 DEF SurePressed
<1>5. ASSUME NEW p \in Presses, DeskSure!Submit(p)
      PROVE  SurePressed'
  <2>1. /\ usersPress'[p].at = "sent" /\ usersPress'[p].opening = usersOpenings
        /\ \A q \in Presses : q # p => usersPress'[q] = usersPress[q]
    BY <1>5, DeskSureSubmits
  <2>2. /\ usersModal /\ usersPress[p] = None
        /\ usersHasty' = IF DeskSure!Busy THEN usersHasty \cup {p} ELSE usersHasty
        /\ UNCHANGED <<usersModal, usersOpenings>>
    BY <1>5 DEF DeskSure!Submit
  <2>3. \A q \in Presses : usersPress'[q] # None =>
          /\ usersPress'[q].opening <= usersOpenings'
          /\ usersModal' /\ usersPress'[q].at = "ended" => usersPress'[q].opening < usersOpenings'
    BY <1>s, <1>t, <2>1, <2>2
  <2>4. ASSUME NEW q \in Presses \ usersHasty', NEW s \in Presses \ usersHasty',
               usersPress'[q] # None, usersPress'[s] # None,
               usersPress'[q].opening = usersPress'[s].opening
        PROVE  q = s
    <3>1. ASSUME p \notin usersHasty', NEW z \in Presses, z # p, usersPress[z] # None
          PROVE  usersPress[z].opening # usersOpenings
      <4>1. ~DeskSure!Busy
        BY <2>2, <3>1
      <4>2. usersPress[z].at = "ended"
        BY <3>1, <4>1, DeskSureIsBusy DEF PressOpen
      <4> QED
        BY <1>s, <1>t, <2>2, <3>1, <4>2
    <3>2. CASE q # p /\ s # p
      BY <1>s, <2>1, <2>2, <2>4, <3>2
    <3>3. CASE q = p /\ s # p
      BY <2>1, <2>4, <3>1, <3>3
    <3>4. CASE q # p /\ s = p
      BY <2>1, <2>4, <3>1, <3>4
    <3> QED
      BY <3>2, <3>3, <3>4
  <2> QED
    BY <2>3, <2>4 DEF SurePressed
<1>6. ASSUME NEW p \in Presses, DeskSure!Apply(p) \/ DeskSure!ReloadUser(p) \/ DeskSure!ReloadHistory(p)
      PROVE  SurePressed'
  <2>1. /\ usersPress[p] # None /\ usersPress'[p].opening = usersPress[p].opening
        /\ \A q \in Presses : q # p => usersPress'[q] = usersPress[q]
        /\ UNCHANGED <<usersOpenings, usersHasty>> /\ (usersModal' => usersModal)
    BY <1>6, DeskSureAdjusts
  <2>2. usersModal' => usersPress'[p].at # "ended"
    <3>1. usersModal \in BOOLEAN /\ usersPress[p] \in DeskSure!Adjustment
      BY <1>t, <2>1
    <3>2. CASE DeskSure!ReloadHistory(p)
      BY <3>2 DEF DeskSure!ReloadHistory
    <3>3. CASE DeskSure!Apply(p) \/ DeskSure!ReloadUser(p)
      <4>1. PICK pc \in {"applied", "refreshing"} :
              \/ usersPress' = [usersPress EXCEPT ![p].at = pc]
              \/ usersPress' = [usersPress EXCEPT ![p].at = pc, ![p].applied = TRUE]
        BY <3>3 DEF DeskSure!Apply, DeskSure!ReloadUser
      <4>2. usersPress'[p].at = pc
        BY <2>1, <4>1, DeskSurePressMoves
      <4> QED
        BY <4>2
    <3> QED
      BY <1>6, <3>2, <3>3
  <2>3. \A q \in Presses : usersPress'[q] # None => usersPress[q] # None /\ usersPress'[q].opening = usersPress[q].opening
    BY <2>1
  <2>4. \A q \in Presses : usersPress'[q] # None =>
          /\ usersPress'[q].opening <= usersOpenings'
          /\ usersModal' /\ usersPress'[q].at = "ended" => usersPress'[q].opening < usersOpenings'
    <3>1. \A q \in Presses : usersPress'[q] # None => usersPress'[q].opening <= usersOpenings'
      BY <1>s, <2>1, <2>3
    <3>2. ASSUME NEW q \in Presses, usersPress'[q] # None, usersModal', usersPress'[q].at = "ended"
          PROVE  usersPress'[q].opening < usersOpenings'
      BY <1>s, <2>1, <2>2, <2>3, <3>2
    <3> QED
      BY <3>1, <3>2
  <2>5. \A q, s \in Presses \ usersHasty' :
          usersPress'[q] # None /\ usersPress'[s] # None /\ usersPress'[q].opening = usersPress'[s].opening => q = s
    BY <1>s, <2>1, <2>3
  <2> QED
    BY <2>4, <2>5 DEF SurePressed
<1>7. ~(\E l \in Loads : DeskSure!UserNotLoaded(l)) /\ ~(\E p \in Presses : DeskSure!PressFails(p))
  BY DEF DeskSure!UserNotLoaded, DeskSure!PressFails
<1> QED
  BY <1>1, <1>2, <1>3, <1>4, <1>5, <1>6, <1>7 DEF DeskSure!Next

(* What the page shows and sends.                                          *)
LEMMA DeskIsSure ==
  /\ DeskInv => Desk!HistoryIsOfUser /\ Desk!AddedToShown
  /\ DeskSureInv /\ SureInv => DeskSure!ShownIsClicked /\ DeskSure!OncePerOpening
<1>1. ASSUME DeskInv
      PROVE  Desk!HistoryIsOfUser /\ Desk!AddedToShown
  BY <1>1, DeskIsBusy DEF DeskInv, DeskIntent, DeskOrder, Desk!HistoryIsOfUser, Desk!AddedToShown
<1>2. ASSUME DeskSureInv, SureInv
      PROVE  DeskSure!ShownIsClicked
  BY <1>2, DeskSureIsBusy DEF DeskSureInv, DeskSureOrder, SureInv, SureClicked, DeskSure!ShownIsClicked, DeskSure!Shown
<1>3. ASSUME SureInv
      PROVE  DeskSure!OncePerOpening
  BY <1>3 DEF SureInv, SurePressed, DeskSure!OncePerOpening
<1> QED
  BY <1>1, <1>2, <1>3

-----------------------------------------------------------------------------
(* AdjustmentForm, where no answer is lost.                                *)
AdjustTypes ==
  /\ adjustUser \in Accounts \cup {None}
  /\ adjustAmount \in 0 .. MaxTyped /\ adjustTyped \in 0 .. MaxTyped
  /\ adjustPress \in Seq(AdjustingSure!Adjustment) /\ Len(adjustPress) <= MaxPresses
  /\ adjustLedger \in Seq(AdjustingSure!Row)

\* One press is under way at most, the last; what is in the ledger was applied,
\* and its amount is in the field only until the answer comes.
AdjustInv ==
  /\ AdjustTypes
  /\ \A p \in DOMAIN adjustPress : adjustPress[p].at # "ended" =>
       p = Len(adjustPress) /\ adjustShown = "pending"
  /\ adjustAmount <= adjustTyped
  /\ \A p \in DOMAIN adjustPress : adjustPress[p].amount <= adjustTyped
  /\ \A i \in DOMAIN adjustLedger : adjustLedger[i].press <= Len(adjustPress)
  /\ \A p \in DOMAIN adjustPress : AdjustingSure!InLedger(p) =>
       /\ adjustPress[p].at \notin {"sent", "refused"}
       /\ adjustPress[p].amount = adjustAmount => adjustPress[p].at = "applied"
  /\ \A p, q \in DOMAIN adjustPress : p < q /\ AdjustingSure!InLedger(p) =>
       adjustPress[p].amount # adjustPress[q].amount

(* What the page and the ledger hold.                                      *)
LEMMA AdjustRecords ==
  ASSUME AdjustTypes
  PROVE  /\ MaxTyped \in Nat /\ MaxPresses \in Nat /\ None \notin Accounts
         /\ Len(adjustPress) \in Nat /\ DOMAIN adjustPress = 1 .. Len(adjustPress)
         /\ Len(adjustLedger) \in Nat /\ DOMAIN adjustLedger = 1 .. Len(adjustLedger)
         /\ \A p \in DOMAIN adjustPress :
              /\ adjustPress[p] \in AdjustingSure!Adjustment
              /\ adjustPress[p].amount \in 1 .. MaxTyped /\ adjustPress[p].amount \in Nat \ {0}
              /\ adjustPress[p].at \in {"sent", "applied", "refused", "refreshing", "loading_users", "ended"}
         /\ \A i \in DOMAIN adjustLedger : adjustLedger[i] \in AdjustingSure!Row /\ adjustLedger[i].press \in Nat
<1>1. MaxTyped \in Nat /\ MaxPresses \in Nat /\ None \notin Accounts
  BY AdjustingSureAssumption DEF AdjustingSure!AdjustmentFormAssumption
<1>2. /\ Len(adjustPress) \in Nat /\ DOMAIN adjustPress = 1 .. Len(adjustPress)
      /\ Len(adjustLedger) \in Nat /\ DOMAIN adjustLedger = 1 .. Len(adjustLedger)
  BY DEF AdjustTypes
<1>3. ASSUME NEW p \in DOMAIN adjustPress
      PROVE  adjustPress[p] \in AdjustingSure!Adjustment
  BY <1>2, <1>3, ElementOfSeq DEF AdjustTypes
<1>4. ASSUME NEW i \in DOMAIN adjustLedger
      PROVE  adjustLedger[i] \in AdjustingSure!Row
  BY <1>2, <1>4, ElementOfSeq DEF AdjustTypes
<1>5. \A a \in AdjustingSure!Adjustment :
        /\ a.amount \in 1 .. MaxTyped /\ a.amount \in Nat \ {0}
        /\ a.at \in {"sent", "applied", "refused", "refreshing", "loading_users", "ended"}
  BY <1>1 DEF AdjustingSure!Adjustment
<1>6. \A r \in AdjustingSure!Row : r.press \in Nat
  BY <1>1 DEF AdjustingSure!Row
<1> QED
  BY <1>1, <1>2, <1>3, <1>4, <1>5, <1>6

(* A press is at another step, and perhaps marked.                         *)
LEMMA AdjustMoves ==
  ASSUME AdjustTypes, NEW p \in DOMAIN adjustPress,
         NEW pc \in {"applied", "refused", "refreshing", "ended"},
         \/ adjustPress' = [adjustPress EXCEPT ![p].at = pc]
         \/ \E b \in BOOLEAN : adjustPress' = [adjustPress EXCEPT ![p].at = pc, ![p].fresh = b]
  PROVE  /\ adjustPress' \in Seq(AdjustingSure!Adjustment)
         /\ Len(adjustPress') = Len(adjustPress) /\ DOMAIN adjustPress' = DOMAIN adjustPress
         /\ adjustPress'[p].at = pc /\ adjustPress'[p].amount = adjustPress[p].amount
         /\ \A q \in DOMAIN adjustPress : q # p => adjustPress'[q] = adjustPress[q]
<1>1. adjustPress[p] \in AdjustingSure!Adjustment /\ adjustPress \in Seq(AdjustingSure!Adjustment)
      /\ Len(adjustPress) \in Nat /\ DOMAIN adjustPress = 1 .. Len(adjustPress)
  BY AdjustRecords DEF AdjustTypes
<1> DEFINE A == [adjustPress[p] EXCEPT !.at = pc]
<1>2. A \in AdjustingSure!Adjustment /\ A.at = pc /\ A.amount = adjustPress[p].amount
  BY <1>1 DEF AdjustingSure!Adjustment
<1>3. \E a \in AdjustingSure!Adjustment :
        a.at = pc /\ a.amount = adjustPress[p].amount /\ adjustPress' = [adjustPress EXCEPT ![p] = a]
  <2>1. CASE adjustPress' = [adjustPress EXCEPT ![p].at = pc]
    BY <1>2, <2>1
  <2>2. ASSUME NEW b \in BOOLEAN, adjustPress' = [adjustPress EXCEPT ![p].at = pc, ![p].fresh = b]
        PROVE  \E a \in AdjustingSure!Adjustment :
                 a.at = pc /\ a.amount = adjustPress[p].amount /\ adjustPress' = [adjustPress EXCEPT ![p] = a]
    <3> DEFINE B == [A EXCEPT !.fresh = b]
    <3>1. adjustPress' = [adjustPress EXCEPT ![p] = B]
      BY <1>1, <2>2
    <3> HIDE DEF A
    <3>2. B \in AdjustingSure!Adjustment /\ B.at = pc /\ B.amount = adjustPress[p].amount
      BY <1>2, <2>2 DEF AdjustingSure!Adjustment
    <3> QED
      BY <3>1, <3>2
  <2> QED
    BY <2>1, <2>2
<1> HIDE DEF A
<1>4. PICK a \in AdjustingSure!Adjustment :
        a.at = pc /\ a.amount = adjustPress[p].amount /\ adjustPress' = [adjustPress EXCEPT ![p] = a]
  BY <1>3
<1>5. p \in 1 .. Len(adjustPress)
  BY <1>1
<1>6. adjustPress' \in Seq(AdjustingSure!Adjustment) /\ Len(adjustPress') = Len(adjustPress)
  BY <1>1, <1>4, <1>5, ExceptSeq
<1> QED
  BY <1>1, <1>4, <1>6

(* The page opens with nothing pressed.                                    *)
LEMMA AdjustStarts ==
  ASSUME AdjustingSure!Init
  PROVE  AdjustInv
<1>1. MaxTyped \in Nat /\ MaxPresses \in Nat
  BY AdjustingSureAssumption DEF AdjustingSure!AdjustmentFormAssumption
<1>2. /\ adjustUser = None /\ adjustAmount = 0 /\ adjustTyped = 0
      /\ adjustPress = << >> /\ adjustLedger = << >>
  BY DEF AdjustingSure!Init
<1>3. << >> \in Seq(AdjustingSure!Adjustment) /\ << >> \in Seq(AdjustingSure!Row) /\ Len(<< >>) = 0
  BY EmptySeq
<1>4. 0 \in 0 .. MaxTyped /\ 0 <= MaxPresses
  BY <1>1
<1>5. AdjustTypes
  BY <1>2, <1>3, <1>4 DEF AdjustTypes
<1> QED
  BY <1>2, <1>5 DEF AdjustInv

(* The last press is alone, so its amount is in the ledger once.           *)
LEMMA AdjustStays ==
  ASSUME AdjustInv, AdjustingSure!Next
  PROVE  AdjustInv'
<1>0. /\ AdjustTypes
      /\ \A p \in DOMAIN adjustPress : adjustPress[p].at # "ended" =>
           p = Len(adjustPress) /\ adjustShown = "pending"
      /\ adjustAmount <= adjustTyped
      /\ \A p \in DOMAIN adjustPress : adjustPress[p].amount <= adjustTyped
      /\ \A i \in DOMAIN adjustLedger : adjustLedger[i].press <= Len(adjustPress)
      /\ \A p \in DOMAIN adjustPress : AdjustingSure!InLedger(p) =>
           /\ adjustPress[p].at \notin {"sent", "refused"}
           /\ adjustPress[p].amount = adjustAmount => adjustPress[p].at = "applied"
      /\ \A p, q \in DOMAIN adjustPress : p < q /\ AdjustingSure!InLedger(p) =>
           adjustPress[p].amount # adjustPress[q].amount
  BY DEF AdjustInv
<1>t. /\ adjustUser \in Accounts \cup {None}
      /\ adjustAmount \in 0 .. MaxTyped /\ adjustTyped \in 0 .. MaxTyped
      /\ adjustPress \in Seq(AdjustingSure!Adjustment) /\ Len(adjustPress) <= MaxPresses
      /\ adjustLedger \in Seq(AdjustingSure!Row)
  BY <1>0 DEF AdjustTypes
<1>r. /\ MaxTyped \in Nat /\ MaxPresses \in Nat /\ None \notin Accounts
      /\ Len(adjustPress) \in Nat /\ DOMAIN adjustPress = 1 .. Len(adjustPress)
      /\ Len(adjustLedger) \in Nat /\ DOMAIN adjustLedger = 1 .. Len(adjustLedger)
      /\ \A p \in DOMAIN adjustPress :
           /\ adjustPress[p] \in AdjustingSure!Adjustment
           /\ adjustPress[p].amount \in 1 .. MaxTyped /\ adjustPress[p].amount \in Nat \ {0}
           /\ adjustPress[p].at \in {"sent", "applied", "refused", "refreshing", "loading_users", "ended"}
      /\ \A i \in DOMAIN adjustLedger : adjustLedger[i] \in AdjustingSure!Row /\ adjustLedger[i].press \in Nat
  BY <1>0, AdjustRecords
\* A row is appended to the ledger.
<1>a. ASSUME NEW n \in 0 .. MaxPresses, NEW u \in Accounts,
             adjustLedger' = Append(adjustLedger, [press |-> n, user |-> u])
      PROVE  /\ adjustLedger' \in Seq(AdjustingSure!Row)
             /\ \A p : AdjustingSure!InLedger(p)' => AdjustingSure!InLedger(p) \/ p = n
             /\ n <= Len(adjustPress) => \A i \in DOMAIN adjustLedger' : adjustLedger'[i].press <= Len(adjustPress)
  <2> DEFINE w == [press |-> n, user |-> u]
  <2>1. w \in AdjustingSure!Row /\ w.press = n
    BY <1>a DEF AdjustingSure!Row
  <2> HIDE DEF w
  <2>2. adjustLedger' = Append(adjustLedger, w)
    BY <1>a DEF w
  <2>3. /\ adjustLedger' \in Seq(AdjustingSure!Row)
        /\ Len(adjustLedger') = Len(adjustLedger) + 1
        /\ adjustLedger'[Len(adjustLedger) + 1] = w
        /\ \A i \in 1 .. Len(adjustLedger) : adjustLedger'[i] = adjustLedger[i]
    BY <1>t, <2>1, <2>2, AppendProperties
  <2>4. DOMAIN adjustLedger' = 1 .. Len(adjustLedger) + 1
    BY <2>3
  <2>5. \A i \in DOMAIN adjustLedger' : i \in DOMAIN adjustLedger \/ i = Len(adjustLedger) + 1
    BY <1>r, <2>4
  <2>6. \A i \in DOMAIN adjustLedger' :
          \/ i \in DOMAIN adjustLedger /\ adjustLedger'[i] = adjustLedger[i]
          \/ adjustLedger'[i].press = n
    BY <1>r, <2>1, <2>3, <2>5
  <2>7. \A p : AdjustingSure!InLedger(p)' => AdjustingSure!InLedger(p) \/ p = n
    BY <2>6 DEF AdjustingSure!InLedger
  <2> QED
    BY <1>0, <2>3, <2>6, <2>7
\* The presses stay, or one of them ends or is answered.
<1>1. ASSUME NEW u \in Accounts, AdjustingSure!SelectUser(u)
      PROVE  AdjustInv'
  <2>1. adjustUser' = u /\ UNCHANGED <<adjustAmount, adjustTyped, adjustPress, adjustShown, adjustLedger>>
    BY <1>1 DEF AdjustingSure!SelectUser
  <2>2. AdjustTypes'
    BY <1>t, <2>1 DEF AdjustTypes
  <2> QED
    BY <1>0, <2>1, <2>2 DEF AdjustInv, AdjustingSure!InLedger
<1>2. ASSUME NEW u \in Accounts, AdjustingSure!Others(u)
      PROVE  AdjustInv'
  <2>1. /\ adjustLedger' = Append(adjustLedger, [press |-> 0, user |-> u])
        /\ UNCHANGED <<adjustUser, adjustAmount, adjustTyped, adjustPress, adjustShown>>
    BY <1>2 DEF AdjustingSure!Others, AdjustingSure!formVars
  <2>2. 0 \in 0 .. MaxPresses /\ 0 <= Len(adjustPress)
    BY <1>r
  <2>3. /\ adjustLedger' \in Seq(AdjustingSure!Row)
        /\ \A p : AdjustingSure!InLedger(p)' => AdjustingSure!InLedger(p) \/ p = 0
        /\ \A i \in DOMAIN adjustLedger' : adjustLedger'[i].press <= Len(adjustPress)
    BY <1>a, <2>1, <2>2
  <2>4. \A p \in DOMAIN adjustPress : AdjustingSure!InLedger(p)' => AdjustingSure!InLedger(p)
    BY <1>r, <2>3
  <2>5. AdjustTypes'
    BY <1>t, <2>1, <2>3 DEF AdjustTypes
  <2> QED
    BY <1>0, <2>1, <2>3, <2>4, <2>5 DEF AdjustInv
<1>3. CASE AdjustingSure!TypeAmount
  <2>1. /\ adjustTyped < MaxTyped /\ adjustTyped' = adjustTyped + 1 /\ adjustAmount' = adjustTyped + 1
        /\ UNCHANGED <<adjustUser, adjustPress, adjustShown, adjustLedger>>
    BY <1>3 DEF AdjustingSure!TypeAmount
  <2>2. adjustTyped' \in 0 .. MaxTyped /\ adjustAmount' \in 0 .. MaxTyped /\ adjustAmount' <= adjustTyped'
    BY <1>r, <1>t, <2>1
  <2>3. AdjustTypes'
    BY <1>t, <2>1, <2>2 DEF AdjustTypes
  <2>4. \A p \in DOMAIN adjustPress : adjustPress[p].amount <= adjustTyped' /\ adjustPress[p].amount # adjustAmount'
    BY <1>0, <1>r, <1>t, <2>1
  <2> QED
    BY <1>0, <2>1, <2>2, <2>3, <2>4 DEF AdjustInv, AdjustingSure!InLedger
<1>4. CASE AdjustingSure!Apply
  <2>1. /\ adjustShown # "pending"
        /\ UNCHANGED <<adjustUser, adjustAmount, adjustTyped, adjustLedger>>
    BY <1>4 DEF AdjustingSure!Apply, AdjustingSure!formVars
  <2>2. \A p \in DOMAIN adjustPress : adjustPress[p].at = "ended"
    BY <1>0, <2>1
  <2>3. CASE adjustPress' = adjustPress
    <3>1. AdjustTypes'
      BY <1>t, <2>1, <2>3 DEF AdjustTypes
    <3> QED
      BY <1>0, <2>1, <2>2, <2>3, <3>1 DEF AdjustInv, AdjustingSure!InLedger
  <2>4. CASE adjustPress' # adjustPress
    <3> DEFINE r == [user |-> adjustUser, amount |-> adjustAmount, at |-> "sent", fresh |-> FALSE]
               n == Len(adjustPress) + 1
    <3>1. /\ adjustUser # None /\ adjustAmount # 0 /\ Len(adjustPress) < MaxPresses
          /\ adjustPress' = Append(adjustPress, r) /\ adjustShown' = "pending"
      BY <1>4, <2>4 DEF AdjustingSure!Apply
    <3>2. adjustAmount \in 1 .. MaxTyped /\ adjustUser \in Accounts
      BY <1>r, <1>t, <3>1
    <3>3. r \in AdjustingSure!Adjustment /\ r.amount = adjustAmount
      BY <3>2 DEF AdjustingSure!Adjustment
    <3> HIDE DEF r
    <3>4. /\ adjustPress' \in Seq(AdjustingSure!Adjustment)
          /\ Len(adjustPress') = n /\ adjustPress'[n] = r
          /\ \A p \in 1 .. Len(adjustPress) : adjustPress'[p] = adjustPress[p]
      BY <1>t, <3>1, <3>3, AppendProperties
    <3>5. DOMAIN adjustPress' = 1 .. n
      BY <3>4
    <3>6. \A p \in DOMAIN adjustPress' : p = n \/ (p \in DOMAIN adjustPress /\ p < n /\ adjustPress'[p] = adjustPress[p])
      BY <1>r, <3>4, <3>5
    <3>7. ~AdjustingSure!InLedger(n)
      BY <1>0, <1>r DEF AdjustingSure!InLedger
    <3>8. AdjustTypes'
      BY <1>t, <1>r, <2>1, <3>1, <3>4 DEF AdjustTypes
    <3>9. \A i \in DOMAIN adjustLedger' : adjustLedger'[i].press <= Len(adjustPress')
      BY <1>0, <1>r, <2>1, <3>4
    <3>10. \A p : AdjustingSure!InLedger(p)' <=> AdjustingSure!InLedger(p)
      BY <2>1 DEF AdjustingSure!InLedger
    <3>11. \A p \in DOMAIN adjustPress : AdjustingSure!InLedger(p) => adjustPress[p].amount # adjustAmount
      BY <1>0, <2>2
    <3>12. \A p \in DOMAIN adjustPress' : adjustPress'[p].at # "ended" => p = Len(adjustPress')
      BY <2>2, <3>4, <3>6
    <3>13. \A p \in DOMAIN adjustPress' : adjustPress'[p].amount <= adjustTyped'
      BY <1>0, <2>1, <3>3, <3>4, <3>6
    <3>14. \A p \in DOMAIN adjustPress' : AdjustingSure!InLedger(p)' =>
             /\ adjustPress'[p].at \notin {"sent", "refused"}
             /\ adjustPress'[p].amount = adjustAmount' => adjustPress'[p].at = "applied"
      BY <1>0, <2>1, <3>6, <3>7, <3>10
    <3>15. ASSUME NEW p \in DOMAIN adjustPress', NEW q \in DOMAIN adjustPress', p < q, AdjustingSure!InLedger(p)'
           PROVE  adjustPress'[p].amount # adjustPress'[q].amount
      <4>1. p \in DOMAIN adjustPress /\ adjustPress'[p] = adjustPress[p] /\ AdjustingSure!InLedger(p)
        BY <3>6, <3>7, <3>10, <3>15
      <4>2. CASE q = n
        BY <3>3, <3>4, <3>11, <4>1, <4>2
      <4>3. CASE q # n
        BY <1>0, <3>6, <3>15, <4>1, <4>3
      <4> QED
        BY <4>2, <4>3
    <3> QED
      BY <1>0, <2>1, <3>1, <3>8, <3>9, <3>12, <3>13, <3>14, <3>15 DEF AdjustInv
  <2> QED
    BY <2>3, <2>4
<1>5. ASSUME NEW p \in DOMAIN adjustPress, AdjustingSure!AdjustUserCredit(p)
      PROVE  AdjustInv'
  <2>1. /\ adjustPress[p].at = "sent"
        /\ UNCHANGED <<adjustUser, adjustAmount, adjustTyped, adjustShown>>
    BY <1>5 DEF AdjustingSure!AdjustUserCredit, AdjustingSure!formVars
  <2>2. p = Len(adjustPress) /\ adjustShown = "pending"
    BY <1>0, <2>1
  <2>3. PICK pc \in {"applied", "refused"} :
          /\ adjustPress' = [adjustPress EXCEPT ![p].at = pc]
          /\ \/ pc = "applied" /\ adjustLedger' = Append(adjustLedger, [press |-> p, user |-> adjustPress[p].user])
             \/ adjustLedger' = adjustLedger
    BY <1>5, SMTT(30) DEF AdjustingSure!AdjustUserCredit
  <2>4. /\ adjustPress' \in Seq(AdjustingSure!Adjustment)
        /\ Len(adjustPress') = Len(adjustPress) /\ DOMAIN adjustPress' = DOMAIN adjustPress
        /\ adjustPress'[p].at = pc /\ adjustPress'[p].amount = adjustPress[p].amount
        /\ \A q \in DOMAIN adjustPress : q # p => adjustPress'[q] = adjustPress[q]
    BY <1>0, <2>3, AdjustMoves
  <2>5. /\ adjustLedger' \in Seq(AdjustingSure!Row)
        /\ \A q : AdjustingSure!InLedger(q)' => AdjustingSure!InLedger(q) \/ (q = p /\ pc = "applied")
        /\ \A i \in DOMAIN adjustLedger' : adjustLedger'[i].press <= Len(adjustPress)
    <3>1. CASE pc = "applied" /\ adjustLedger' = Append(adjustLedger, [press |-> p, user |-> adjustPress[p].user])
      <4>1. adjustPress[p].user \in Accounts
        BY <1>r DEF AdjustingSure!Adjustment
      <4>2. p \in 0 .. MaxPresses /\ p <= Len(adjustPress)
        BY <1>r, <1>t, <2>2
      <4> QED
        BY <1>a, <3>1, <4>1, <4>2
    <3>2. CASE adjustLedger' = adjustLedger
      BY <1>0, <1>t, <3>2 DEF AdjustingSure!InLedger
    <3> QED
      BY <2>3, <3>1, <3>2
  <2>6. AdjustTypes'
    BY <1>t, <2>1, <2>4, <2>5 DEF AdjustTypes
  <2>7. ~AdjustingSure!InLedger(p)
    BY <1>0, <2>1
  <2>8. \A q \in DOMAIN adjustPress' : adjustPress'[q].at # "ended" => q = Len(adjustPress') /\ adjustShown' = "pending"
    BY <1>0, <2>1, <2>2, <2>4
  <2>9. \A q \in DOMAIN adjustPress' : adjustPress'[q].amount = adjustPress[q].amount
    BY <2>4
  <2>10. \A q \in DOMAIN adjustPress' : AdjustingSure!InLedger(q)' =>
           /\ adjustPress'[q].at \notin {"sent", "refused"}
           /\ adjustPress'[q].amount = adjustAmount' => adjustPress'[q].at = "applied"
    BY <1>0, <2>1, <2>4, <2>5, <2>7
  <2>11. ASSUME NEW q \in DOMAIN adjustPress', NEW s \in DOMAIN adjustPress', q < s, AdjustingSure!InLedger(q)'
         PROVE  adjustPress'[q].amount # adjustPress'[s].amount
    <3>1. q # p
      BY <1>r, <2>2, <2>4, <2>11
    <3> QED
      BY <1>0, <2>4, <2>5, <2>9, <2>11, <3>1
  <2> QED
    BY <1>0, <2>1, <2>4, <2>5, <2>6, <2>8, <2>9, <2>10, <2>11 DEF AdjustInv
<1>6. ASSUME NEW p \in DOMAIN adjustPress, NEW pc \in {"refreshing", "ended"},
             \/ adjustPress' = [adjustPress EXCEPT ![p].at = pc]
             \/ \E b \in BOOLEAN : adjustPress' = [adjustPress EXCEPT ![p].at = pc, ![p].fresh = b],
             adjustPress[p].at # "ended",
             pc = "ended" \/ adjustShown' = adjustShown,
             adjustAmount' = 0 \/ (adjustAmount' = adjustAmount /\ adjustPress[p].at # "applied"),
             UNCHANGED <<adjustUser, adjustTyped, adjustLedger>>
      PROVE  AdjustInv'
  <2>1. /\ adjustPress' \in Seq(AdjustingSure!Adjustment)
        /\ Len(adjustPress') = Len(adjustPress) /\ DOMAIN adjustPress' = DOMAIN adjustPress
        /\ adjustPress'[p].at = pc /\ adjustPress'[p].amount = adjustPress[p].amount
        /\ \A q \in DOMAIN adjustPress : q # p => adjustPress'[q] = adjustPress[q]
    BY <1>0, <1>6, AdjustMoves
  <2>2. p = Len(adjustPress) /\ adjustShown = "pending"
    BY <1>0, <1>6
  <2>3. AdjustTypes'
    BY <1>t, <1>r, <1>6, <2>1 DEF AdjustTypes
  <2>4. \A q \in DOMAIN adjustPress' : adjustPress'[q].amount = adjustPress[q].amount
    BY <2>1
  <2>5. adjustLedger' = adjustLedger /\ adjustTyped' = adjustTyped
    BY <1>6
  <2>6. \A q : AdjustingSure!InLedger(q)' <=> AdjustingSure!InLedger(q)
    BY <2>5 DEF AdjustingSure!InLedger
  <2>7. \A q \in DOMAIN adjustPress' : adjustPress'[q].at # "ended" => q = Len(adjustPress') /\ adjustShown' = "pending"
    <3>1. pc # "ended" => adjustShown' = "pending"
      BY <1>6, <2>2
    <3>2. \A q \in DOMAIN adjustPress' : adjustPress'[q].at # "ended" => q = p /\ pc # "ended"
      BY <1>0, <2>1, <2>2
    <3> QED
      BY <2>1, <2>2, <3>1, <3>2
  <2>8. ASSUME NEW q \in DOMAIN adjustPress', AdjustingSure!InLedger(q)'
        PROVE  adjustPress'[q].at \notin {"sent", "refused"} /\ adjustPress'[q].amount # adjustAmount'
    <3>1. adjustPress'[q].at \notin {"sent", "refused"}
      BY <1>0, <2>1, <2>6, <2>8
    <3>2. adjustPress[q].at # "applied" \/ adjustAmount' = 0
      BY <1>0, <1>6, <2>1, <2>2, <2>8
    <3>3. adjustPress'[q].amount # 0 /\ adjustPress'[q].amount = adjustPress[q].amount
      BY <1>r, <2>1, <2>4
    <3>4. adjustPress'[q].amount # adjustAmount'
      BY <1>0, <1>6, <2>1, <2>6, <2>8, <3>2, <3>3
    <3> QED
      BY <3>1, <3>4
  <2>9. adjustAmount' <= adjustTyped'
    BY <1>0, <1>t, <1>r, <1>6
  <2> QED
    <3>1. \A q \in DOMAIN adjustPress' : adjustPress'[q].amount <= adjustTyped'
      BY <1>0, <2>5, <2>1, <2>4
    <3>2. \A i \in DOMAIN adjustLedger' : adjustLedger'[i].press <= Len(adjustPress')
      BY <1>0, <2>5, <2>1
    <3>3. \A q, s \in DOMAIN adjustPress' : q < s /\ AdjustingSure!InLedger(q)' =>
            adjustPress'[q].amount # adjustPress'[s].amount
      BY <1>0, <2>1, <2>4, <2>6
    <3> QED
      BY <2>3, <2>7, <2>8, <2>9, <3>1, <3>2, <3>3 DEF AdjustInv
<1>7. ASSUME NEW p \in DOMAIN adjustPress, AdjustingSure!Refused(p) \/ AdjustingSure!Succeed(p)
      PROVE  AdjustInv'
  <2>1. /\ adjustPress' = [adjustPress EXCEPT ![p].at = "ended"]
        /\ adjustPress[p].at # "ended" /\ adjustPress[p].at # "applied"
        /\ UNCHANGED <<adjustUser, adjustAmount, adjustTyped, adjustLedger>>
    <3>1. CASE AdjustingSure!Refused(p)
      BY <3>1 DEF AdjustingSure!Refused, AdjustingSure!formVars
    <3>2. CASE AdjustingSure!Succeed(p)
      <4>1. /\ adjustPress' = [adjustPress EXCEPT ![p].at = "ended"]
            /\ UNCHANGED <<adjustUser, adjustAmount, adjustTyped, adjustLedger>>
        BY <3>2 DEF AdjustingSure!Succeed, AdjustingSure!formVars
      <4>2. adjustPress[p].at # "ended" /\ adjustPress[p].at # "applied"
        BY <3>2, Zenon DEF AdjustingSure!Succeed
      <4> QED
        BY <4>1, <4>2
    <3> QED
      BY <1>7, <3>1, <3>2
  <2> QED
    BY <1>6, <2>1
<1>8. ASSUME NEW p \in DOMAIN adjustPress, AdjustingSure!Applied(p)
      PROVE  AdjustInv'
  <2>1. /\ adjustPress' = [adjustPress EXCEPT ![p].at = "refreshing", ![p].fresh = adjustRows # None \/ adjustFetch = None]
        /\ adjustPress[p].at # "ended" /\ adjustAmount' = 0
        /\ UNCHANGED <<adjustUser, adjustTyped, adjustShown, adjustLedger>>
    BY <1>8 DEF AdjustingSure!Applied
  <2>2. (adjustRows # None \/ adjustFetch = None) \in BOOLEAN
    OBVIOUS
  <2>3. \E b \in BOOLEAN : adjustPress' = [adjustPress EXCEPT ![p].at = "refreshing", ![p].fresh = b]
    BY <2>1, <2>2, Zenon
  <2> QED
    BY <1>6, <2>1, <2>3
<1>9. CASE AdjustingSure!RowsLoaded \/ AdjustingSure!RowsFail
  <2>1. /\ AdjustingSure!NowUsers
        /\ UNCHANGED <<adjustUser, adjustAmount, adjustTyped, adjustShown, adjustLedger>>
    BY <1>9 DEF AdjustingSure!RowsLoaded, AdjustingSure!RowsFail, AdjustingSure!formVars
  <2> DEFINE loading(q) == [adjustPress[q] EXCEPT !.at = "loading_users"]
  <2>2. adjustPress' = [q \in DOMAIN adjustPress |->
                          IF q \in AdjustingSure!Waiting THEN loading(q) ELSE adjustPress[q]]
    BY <2>1, Zenon DEF AdjustingSure!NowUsers
  <2>3. \A q \in DOMAIN adjustPress :
          /\ loading(q) \in AdjustingSure!Adjustment
          /\ loading(q).amount = adjustPress[q].amount
          /\ loading(q).at \notin {"sent", "refused", "applied", "ended"}
    BY <1>r DEF AdjustingSure!Adjustment
  <2>4. \A q \in AdjustingSure!Waiting : q \in DOMAIN adjustPress /\ adjustPress[q].at = "refreshing"
    BY DEF AdjustingSure!Waiting
  <2> HIDE DEF loading
  <2>5. DOMAIN adjustPress' = DOMAIN adjustPress
        /\ \A q \in DOMAIN adjustPress :
             /\ adjustPress'[q] \in AdjustingSure!Adjustment
             /\ adjustPress'[q].amount = adjustPress[q].amount
             /\ \/ adjustPress'[q] = adjustPress[q]
                \/ adjustPress[q].at = "refreshing" /\ adjustPress'[q].at \notin {"sent", "refused", "applied", "ended"}
    BY <1>r, <2>2, <2>3, <2>4
  <2>6. adjustPress' \in Seq(AdjustingSure!Adjustment) /\ Len(adjustPress') = Len(adjustPress)
    <3>1. adjustPress' \in [1 .. Len(adjustPress) -> AdjustingSure!Adjustment]
      <4>1. adjustPress' = [q \in DOMAIN adjustPress |-> adjustPress'[q]]
        BY <2>2
      <4> QED
        BY <1>r, <2>5, <4>1
    <3> QED
      BY <1>r, <3>1
  <2>7. AdjustTypes'
    BY <1>t, <2>1, <2>6 DEF AdjustTypes
  <2>8. \A q : AdjustingSure!InLedger(q)' <=> AdjustingSure!InLedger(q)
    BY <2>1 DEF AdjustingSure!InLedger
  <2>9. \A q \in DOMAIN adjustPress' : adjustPress'[q].at # "ended" => adjustPress[q].at # "ended"
    <3>1. \A q \in DOMAIN adjustPress : adjustPress[q].at = "ended" => adjustPress'[q] = adjustPress[q]
      BY <2>5
    <3> QED
      BY <2>5, <3>1
  <2>10. \A q \in DOMAIN adjustPress' : AdjustingSure!InLedger(q)' =>
           /\ adjustPress'[q].at \notin {"sent", "refused"}
           /\ adjustPress'[q].amount = adjustAmount' => adjustPress'[q].at = "applied"
    BY <1>0, <2>1, <2>5, <2>8
  <2> QED
    BY <1>0, <2>1, <2>5, <2>6, <2>7, <2>8, <2>9, <2>10 DEF AdjustInv
<1>10. CASE AdjustingSure!ReadRows \/ AdjustingSure!Refocus
  <2>1. UNCHANGED <<adjustUser, adjustAmount, adjustTyped, adjustPress, adjustShown, adjustLedger>>
    BY <1>10 DEF AdjustingSure!ReadRows, AdjustingSure!Refocus, AdjustingSure!formVars
  <2> QED
    BY <1>0, <2>1 DEF AdjustInv, AdjustTypes, AdjustingSure!InLedger
<1>11. ~(\E p \in DOMAIN adjustPress : AdjustingSure!Lost(p))
  BY DEF AdjustingSure!Lost
<1> QED
  BY <1>1, <1>2, <1>3, <1>4, <1>5, <1>7, <1>8, <1>9, <1>10, <1>11 DEF AdjustingSure!Next

(* The amounts in the ledger differ.                                       *)
LEMMA AdjustOnce == AdjustInv => AdjustingSure!OncePerTyping
<1> SUFFICES ASSUME AdjustInv, NEW p \in DOMAIN adjustPress, NEW q \in DOMAIN adjustPress,
                    adjustPress[p].amount = adjustPress[q].amount,
                    AdjustingSure!InLedger(p), AdjustingSure!InLedger(q)
             PROVE  p = q
  BY DEF AdjustingSure!OncePerTyping
<1>1. DOMAIN adjustPress = 1 .. Len(adjustPress) /\ Len(adjustPress) \in Nat
  BY AdjustRecords DEF AdjustInv
<1>2. ~(p < q) /\ ~(q < p)
  BY DEF AdjustInv
<1> QED
  BY <1>1, <1>2

-----------------------------------------------------------------------------
(* DeviceList: the page whose dialog is confirmed once.                    *)
RevokeOpen(c) == deviceCall[c] # None /\ deviceCall[c].at # "ended"

\* A device under revocation is the one selected, and one that has left the
\* rows was revoked.
DevicesInv ==
  /\ DevicesPage!DeviceListTypeOK
  /\ \A c \in DeviceCalls : RevokeOpen(c) =>
       /\ c = deviceLatest /\ deviceCall[c].device = deviceSelected
       /\ deviceCall[c].at # "sent" => deviceRow[deviceSelected] = "revoked"
  /\ deviceList # None => \A d \in deviceList : deviceRow[d] # "new"
  /\ deviceFetch \notin {None, Unanswered} =>
       /\ \A d \in deviceFetch : deviceRow[d] # "new"
       /\ deviceList # None => \A d \in deviceList : d \notin deviceFetch => deviceRow[d] = "revoked"

(* What the page and the server hold.                                      *)
LEMMA DeviceRecords ==
  ASSUME DevicesPage!DeviceListTypeOK
  PROVE  /\ deviceRow \in [Pair -> {"new", "trusted", "revoked"}]
         /\ deviceList \in (SUBSET Pair) \cup {None}
         /\ deviceFetch \in (SUBSET Pair) \cup {Unanswered, None}
         /\ deviceSelected \in Pair \cup {None}
         /\ deviceCall \in [DeviceCalls -> DevicesPage!Revocation \cup {None}]
         /\ deviceLatest \in DeviceCalls \cup {None} /\ deviceFailed \in BOOLEAN
         /\ \A c \in DeviceCalls : deviceCall[c] # None =>
              /\ deviceCall[c] \in DevicesPage!Revocation /\ deviceCall[c].device \in Pair
              /\ deviceCall[c].at \in {"sent", "served", "refreshing", "ended"}
         /\ None \notin Pair /\ None \notin DeviceCalls /\ None \notin DevicesPage!Revocation
         /\ Unanswered # None /\ \A D \in SUBSET Pair : D # None /\ D # Unanswered
<1>1. /\ deviceRow \in [Pair -> {"new", "trusted", "revoked"}]
      /\ deviceList \in (SUBSET Pair) \cup {None}
      /\ deviceFetch \in (SUBSET Pair) \cup {Unanswered, None}
      /\ deviceSelected \in Pair \cup {None}
      /\ deviceCall \in [DeviceCalls -> DevicesPage!Revocation \cup {None}]
      /\ deviceLatest \in DeviceCalls \cup {None} /\ deviceFailed \in BOOLEAN
  BY DEF DevicesPage!DeviceListTypeOK
<1>2. \A c \in DeviceCalls : deviceCall[c] # None => deviceCall[c] \in DevicesPage!Revocation
  BY <1>1
<1>3. \A r \in DevicesPage!Revocation : r.device \in Pair /\ r.at \in {"sent", "served", "refreshing", "ended"}
  BY DEF DevicesPage!Revocation
<1>4. /\ None \notin Pair /\ None \notin DeviceCalls /\ None \notin DevicesPage!Revocation
      /\ Unanswered # None /\ \A D \in SUBSET Pair : D # None /\ D # Unanswered
  BY DevicesPageAssumption DEF DevicesPage!DeviceListAssumption
<1> QED
  BY <1>1, <1>2, <1>3, <1>4

(* A revocation moves on.                                                  *)
LEMMA RevocationMoves ==
  ASSUME NEW r \in DevicesPage!Revocation, NEW pc \in {"served", "refreshing", "ended"}
  PROVE  /\ [r EXCEPT !.at = pc] \in DevicesPage!Revocation
         /\ [r EXCEPT !.at = pc].at = pc /\ [r EXCEPT !.at = pc].device = r.device
         /\ [r EXCEPT !.at = pc, !.ok = TRUE] \in DevicesPage!Revocation
         /\ [r EXCEPT !.at = pc, !.ok = TRUE].at = pc /\ [r EXCEPT !.at = pc, !.ok = TRUE].device = r.device
<1> DEFINE A == [r EXCEPT !.at = pc]
           B == [A EXCEPT !.ok = TRUE]
<1>1. A \in DevicesPage!Revocation /\ A.at = pc /\ A.device = r.device
  BY DEF DevicesPage!Revocation
<1>2. [r EXCEPT !.at = pc, !.ok = TRUE] = B
  OBVIOUS
<1> HIDE DEF A
<1>3. B \in DevicesPage!Revocation /\ B.at = pc /\ B.device = r.device
  BY <1>1 DEF DevicesPage!Revocation
<1> QED
  BY <1>1, <1>2, <1>3 DEF A

LEMMA DevicesStart ==
  ASSUME DevicesPage!Init
  PROVE  DevicesInv
<1>1. /\ deviceRow \in [Pair -> {"new", "trusted"}]
      /\ deviceList = None /\ deviceFailed = FALSE /\ deviceFetch = Unanswered /\ deviceSelected = None
      /\ deviceCall = [c \in DeviceCalls |-> None] /\ deviceLatest = None
  BY DEF DevicesPage!Init
<1>2. DevicesPage!DeviceListTypeOK
  BY <1>1 DEF DevicesPage!DeviceListTypeOK
<1> QED
  BY <1>1, <1>2 DEF DevicesInv, RevokeOpen

(* A device leaves the list that was asked about only when it is revoked   *)
(* (Devices.tsx:17-20).                                                    *)
LEMMA DevicesStay ==
  ASSUME DevicesInv, DevicesPage!Next
  PROVE  DevicesInv' /\ DevicesPage!ClosedIsRevoked
<1> DEFINE Goal == DevicesInv' /\ DevicesPage!ClosedIsRevoked
<1>0. /\ DevicesPage!DeviceListTypeOK
      /\ \A c \in DeviceCalls : RevokeOpen(c) =>
           /\ c = deviceLatest /\ deviceCall[c].device = deviceSelected
           /\ deviceCall[c].at # "sent" => deviceRow[deviceSelected] = "revoked"
      /\ deviceList # None => \A d \in deviceList : deviceRow[d] # "new"
      /\ deviceFetch \notin {None, Unanswered} =>
           /\ \A d \in deviceFetch : deviceRow[d] # "new"
           /\ deviceList # None => \A d \in deviceList : d \notin deviceFetch => deviceRow[d] = "revoked"
  BY DEF DevicesInv
<1>t. /\ deviceRow \in [Pair -> {"new", "trusted", "revoked"}]
      /\ deviceList \in (SUBSET Pair) \cup {None}
      /\ deviceFetch \in (SUBSET Pair) \cup {Unanswered, None}
      /\ deviceSelected \in Pair \cup {None}
      /\ deviceCall \in [DeviceCalls -> DevicesPage!Revocation \cup {None}]
      /\ deviceLatest \in DeviceCalls \cup {None} /\ deviceFailed \in BOOLEAN
  BY <1>0, DeviceRecords
<1>n. /\ None \notin Pair /\ None \notin DeviceCalls /\ None \notin DevicesPage!Revocation
      /\ Unanswered # None /\ \A D \in SUBSET Pair : D # None /\ D # Unanswered
  BY <1>0, DeviceRecords
<1>r. \A c \in DeviceCalls : deviceCall[c] # None =>
        /\ deviceCall[c] \in DevicesPage!Revocation /\ deviceCall[c].device \in Pair
        /\ deviceCall[c].at \in {"sent", "served", "refreshing", "ended"}
  BY <1>0, DeviceRecords
<1>k. DevicesPage!IsPending <=> (deviceLatest # None /\ deviceCall[deviceLatest].at # "ended")
  BY DEF DevicesPage!IsPending
<1>p. ~DevicesPage!IsPending => \A c \in DeviceCalls : ~RevokeOpen(c)
  BY <1>0, <1>k, <1>n DEF RevokeOpen
<1>d. DevicesPage!DialogOpen <=> deviceSelected # None /\ deviceList # None /\ deviceSelected \in deviceList
  BY DEF DevicesPage!DialogOpen
<1>e. DevicesPage!DialogOpen' <=> deviceSelected' # None /\ deviceList' # None /\ deviceSelected' \in deviceList'
  BY DEF DevicesPage!DialogOpen
<1>o. ASSUME DevicesPage!DialogOpen', DevicesInv'
      PROVE  Goal
  BY <1>o DEF DevicesPage!ClosedIsRevoked
<1>q. ASSUME DevicesInv', deviceList' = deviceList, deviceSelected' = deviceSelected
      PROVE  Goal
  BY <1>d, <1>e, <1>q DEF DevicesPage!ClosedIsRevoked
<1>1. ASSUME NEW d \in Pair, DevicesPage!Select(d)
      PROVE  Goal
  <2>1. /\ ~DevicesPage!IsPending /\ ~DevicesPage!DialogOpen /\ deviceSelected' = d
        /\ UNCHANGED <<deviceRow, deviceList, deviceFailed, deviceFetch, deviceCall, deviceLatest>>
    BY <1>1 DEF DevicesPage!Select
  <2>2. \A c \in DeviceCalls : ~RevokeOpen(c)'
    BY <1>p, <2>1 DEF RevokeOpen
  <2>3. DevicesPage!DeviceListTypeOK'
    BY <1>t, <2>1 DEF DevicesPage!DeviceListTypeOK
  <2>4. DevicesInv'
    BY <1>0, <2>1, <2>2, <2>3 DEF DevicesInv
  <2> QED
    BY <2>1, <2>4 DEF DevicesPage!ClosedIsRevoked
<1>2. ASSUME NEW d \in Pair, DevicesPage!CreateTrustedDevice(d)
      PROVE  Goal
  <2>1. /\ deviceRow[d] = "new" /\ deviceRow' = [deviceRow EXCEPT ![d] = "trusted"]
        /\ UNCHANGED <<deviceList, deviceFailed, deviceFetch, deviceSelected, deviceCall, deviceLatest>>
    BY <1>2 DEF DevicesPage!CreateTrustedDevice
  <2>2. /\ deviceRow' \in [Pair -> {"new", "trusted", "revoked"}]
        /\ \A e \in Pair : e # d => deviceRow'[e] = deviceRow[e]
    BY <1>t, <2>1
  <2>3. DevicesPage!DeviceListTypeOK'
    BY <1>t, <2>1, <2>2 DEF DevicesPage!DeviceListTypeOK
  <2>4. \A e \in Pair : /\ deviceRow'[e] = "new" => deviceRow[e] = "new"
                        /\ deviceRow[e] = "revoked" => deviceRow'[e] = "revoked"
    BY <2>1, <2>2
  <2>5. \A c \in DeviceCalls : RevokeOpen(c)' =>
           /\ c = deviceLatest' /\ deviceCall'[c].device = deviceSelected'
           /\ deviceCall'[c].at # "sent" => deviceRow'[deviceSelected'] = "revoked"
    BY <1>0, <1>r, <2>1, <2>4 DEF RevokeOpen
  <2>6. /\ deviceList' # None => \A e \in deviceList' : deviceRow'[e] # "new"
        /\ deviceFetch' \notin {None, Unanswered} =>
             /\ \A e \in deviceFetch' : deviceRow'[e] # "new"
             /\ deviceList' # None => \A e \in deviceList' : e \notin deviceFetch' => deviceRow'[e] = "revoked"
    BY <1>0, <1>t, <2>1, <2>4
  <2>7. DevicesInv'
    BY <2>3, <2>5, <2>6 DEF DevicesInv
  <2> QED
    BY <1>q, <2>1, <2>7
<1>3. ASSUME NEW d \in Pair, deviceRow' = [deviceRow EXCEPT ![d] = "revoked"],
             UNCHANGED <<deviceList, deviceFailed, deviceFetch, deviceSelected, deviceLatest>>,
             deviceCall' \in [DeviceCalls -> DevicesPage!Revocation \cup {None}],
             \A c \in DeviceCalls : RevokeOpen(c)' =>
               /\ RevokeOpen(c) /\ deviceCall'[c].device = deviceCall[c].device
               /\ deviceCall'[c].at # "sent" => deviceCall[c].at # "sent" \/ deviceCall[c].device = d
      PROVE  Goal
  <2>2. /\ deviceRow' \in [Pair -> {"new", "trusted", "revoked"}]
        /\ deviceRow'[d] = "revoked" /\ \A e \in Pair : e # d => deviceRow'[e] = deviceRow[e]
    BY <1>t, <1>3
  <2>3. DevicesPage!DeviceListTypeOK'
    BY <1>t, <1>3, <2>2 DEF DevicesPage!DeviceListTypeOK
  <2>4. \A e \in Pair : /\ deviceRow'[e] = "new" => deviceRow[e] = "new"
                        /\ deviceRow[e] = "revoked" => deviceRow'[e] = "revoked"
    BY <2>2
  <2>5. \A c \in DeviceCalls : RevokeOpen(c)' =>
           /\ c = deviceLatest' /\ deviceCall'[c].device = deviceSelected'
           /\ deviceCall'[c].at # "sent" => deviceRow'[deviceSelected'] = "revoked"
    <3>1. \A c \in DeviceCalls : RevokeOpen(c) => deviceSelected \in Pair
      BY <1>0, <1>r DEF RevokeOpen
    <3> QED
      BY <1>0, <1>3, <2>2, <2>4, <3>1
  <2>6. /\ deviceList' # None => \A e \in deviceList' : deviceRow'[e] # "new"
        /\ deviceFetch' \notin {None, Unanswered} =>
             /\ \A e \in deviceFetch' : deviceRow'[e] # "new"
             /\ deviceList' # None => \A e \in deviceList' : e \notin deviceFetch' => deviceRow'[e] = "revoked"
    BY <1>0, <1>t, <1>3, <2>4
  <2>7. DevicesInv'
    BY <2>3, <2>5, <2>6 DEF DevicesInv
  <2> QED
    BY <1>q, <1>3, <2>7
<1>4. ASSUME NEW d \in Pair, DevicesPage!RevokeElsewhere(d)
      PROVE  Goal
  <2>1. /\ deviceRow[d] = "trusted" /\ deviceRow' = [deviceRow EXCEPT ![d] = "revoked"]
        /\ UNCHANGED <<deviceList, deviceFailed, deviceFetch, deviceSelected, deviceCall, deviceLatest>>
    BY <1>4 DEF DevicesPage!RevokeElsewhere, DevicesPage!RevokeDeviceForUser
  <2>2. \A c \in DeviceCalls : RevokeOpen(c)' <=> RevokeOpen(c)
    BY <2>1 DEF RevokeOpen
  <2> QED
    BY <1>t, <1>3, <2>1, <2>2
<1>5. ASSUME NEW c \in DeviceCalls, DevicesPage!Revoke(c)
      PROVE  Goal
  <2>1. /\ deviceCall[c] # None /\ deviceCall[c].at = "sent"
        /\ deviceRow' = [deviceRow EXCEPT ![deviceCall[c].device] = "revoked"]
        /\ deviceCall' = [deviceCall EXCEPT ![c].at = "served"]
        /\ UNCHANGED <<deviceList, deviceFailed, deviceFetch, deviceSelected, deviceLatest>>
    BY <1>5 DEF DevicesPage!Revoke, DevicesPage!At, DevicesPage!RevokeDeviceForUser
  <2> DEFINE r == [deviceCall[c] EXCEPT !.at = "served"]
  <2>2. r \in DevicesPage!Revocation /\ r.at = "served" /\ r.device = deviceCall[c].device
    BY <1>r, <2>1, RevocationMoves
  <2>3. deviceCall' = [deviceCall EXCEPT ![c] = r]
    BY <2>1
  <2> HIDE DEF r
  <2>4. /\ deviceCall' \in [DeviceCalls -> DevicesPage!Revocation \cup {None}]
        /\ deviceCall'[c] = r /\ \A e \in DeviceCalls : e # c => deviceCall'[e] = deviceCall[e]
    BY <1>t, <2>2, <2>3
  <2>5. \A e \in DeviceCalls : RevokeOpen(e)' =>
          /\ RevokeOpen(e) /\ deviceCall'[e].device = deviceCall[e].device
          /\ deviceCall'[e].at # "sent" => deviceCall[e].at # "sent" \/ deviceCall[e].device = deviceCall[c].device
    BY <2>1, <2>2, <2>4 DEF RevokeOpen
  <2>6. deviceCall[c].device \in Pair
    BY <1>r, <2>1
  <2> QED
    BY <1>3, <2>1, <2>4, <2>5, <2>6
<1>6. CASE DevicesPage!Cancel
  <2>1. /\ ~DevicesPage!IsPending /\ deviceSelected' = None
        /\ UNCHANGED <<deviceRow, deviceList, deviceFailed, deviceFetch, deviceCall, deviceLatest>>
    BY <1>6 DEF DevicesPage!Cancel
  <2>2. \A c \in DeviceCalls : ~RevokeOpen(c)'
    BY <1>p, <2>1 DEF RevokeOpen
  <2>3. DevicesPage!DeviceListTypeOK'
    BY <1>t, <2>1 DEF DevicesPage!DeviceListTypeOK
  <2>4. DevicesInv'
    BY <1>0, <2>1, <2>2, <2>3 DEF DevicesInv
  <2> QED
    BY <1>6, <2>4 DEF DevicesPage!ClosedIsRevoked
<1>7. ASSUME NEW c \in DeviceCalls, DevicesPage!Confirm(c)
      PROVE  Goal
  <2> DEFINE r == [device |-> deviceSelected, at |-> "sent", ok |-> FALSE]
  <2>1. /\ deviceCall[c] = None /\ DevicesPage!DialogOpen /\ ~DevicesPage!IsPending
        /\ deviceCall' = [deviceCall EXCEPT ![c] = r] /\ deviceLatest' = c
        /\ UNCHANGED <<deviceRow, deviceList, deviceFailed, deviceFetch, deviceSelected>>
    BY <1>7 DEF DevicesPage!Confirm, DevicesPage!MayConfirm, DevicesPage!ConfirmOnDevices
  <2>2. deviceSelected \in Pair
    BY <1>d, <1>t, <2>1
  <2>3. r \in DevicesPage!Revocation /\ r.at = "sent" /\ r.device = deviceSelected
    BY <2>2 DEF DevicesPage!Revocation
  <2> HIDE DEF r
  <2>4. /\ deviceCall' \in [DeviceCalls -> DevicesPage!Revocation \cup {None}]
        /\ deviceCall'[c] = r /\ \A e \in DeviceCalls : e # c => deviceCall'[e] = deviceCall[e]
    BY <1>t, <2>1, <2>3
  <2>5. \A e \in DeviceCalls : RevokeOpen(e)' => e = c
    BY <1>p, <2>1, <2>4 DEF RevokeOpen
  <2>6. DevicesPage!DeviceListTypeOK'
    BY <1>t, <2>1, <2>4 DEF DevicesPage!DeviceListTypeOK
  <2>7. DevicesInv'
    BY <1>0, <2>1, <2>3, <2>4, <2>5, <2>6 DEF DevicesInv
  <2> QED
    BY <1>q, <2>1, <2>7
<1>8. CASE DevicesPage!ReadRows
  <2>1. /\ deviceFetch = Unanswered /\ deviceFetch' = DevicesPage!Trusted
        /\ UNCHANGED <<deviceRow, deviceList, deviceFailed, deviceSelected, deviceCall, deviceLatest>>
    BY <1>8 DEF DevicesPage!ReadRows
  <2>2. /\ DevicesPage!Trusted \in SUBSET Pair
        /\ \A d \in Pair : d \in DevicesPage!Trusted <=> deviceRow[d] = "trusted"
    BY DEF DevicesPage!Trusted
  <2>3. DevicesPage!DeviceListTypeOK'
    BY <1>t, <2>1, <2>2 DEF DevicesPage!DeviceListTypeOK
  <2>4. /\ \A d \in deviceFetch' : deviceRow[d] # "new"
        /\ deviceList # None => \A d \in deviceList : d \notin deviceFetch' => deviceRow[d] = "revoked"
    BY <1>0, <1>t, <2>1, <2>2
  <2>5. DevicesInv'
    BY <1>0, <2>1, <2>3, <2>4 DEF DevicesInv, RevokeOpen
  <2> QED
    BY <1>q, <2>1, <2>5
\* Who waited for the rows concludes.
<1>9. ASSUME DevicesPage!Conclude(DevicesPage!Refreshing)
      PROVE  /\ deviceCall' \in [DeviceCalls -> DevicesPage!Revocation \cup {None}]
             /\ deviceSelected' \in {deviceSelected, None}
             /\ deviceSelected' # deviceSelected => deviceRow[deviceSelected] = "revoked"
             /\ \A c \in DeviceCalls : RevokeOpen(c)' =>
                  RevokeOpen(c) /\ deviceCall'[c] = deviceCall[c] /\ deviceSelected' = deviceSelected
  <2> DEFINE over(c) == [deviceCall[c] EXCEPT !.at = "ended"]
  <2>1. /\ deviceCall' = [c \in DeviceCalls |-> IF c \in DevicesPage!Refreshing THEN over(c) ELSE deviceCall[c]]
        /\ deviceSelected' = IF DevicesPage!Refreshing = {} THEN deviceSelected ELSE None
    BY <1>9 DEF DevicesPage!Conclude
  <2>2. \A c \in DevicesPage!Refreshing : c \in DeviceCalls /\ deviceCall[c] # None /\ deviceCall[c].at = "refreshing"
    BY DEF DevicesPage!Refreshing, DevicesPage!At
  <2>3. \A c \in DevicesPage!Refreshing : over(c) \in DevicesPage!Revocation /\ over(c).at = "ended"
    BY <1>r, <2>2, RevocationMoves
  <2> HIDE DEF over
  <2>4. /\ deviceCall' \in [DeviceCalls -> DevicesPage!Revocation \cup {None}]
        /\ \A c \in DeviceCalls : c \in DevicesPage!Refreshing => deviceCall'[c].at = "ended"
        /\ \A c \in DeviceCalls : c \notin DevicesPage!Refreshing => deviceCall'[c] = deviceCall[c]
    BY <1>t, <2>1, <2>3
  <2>5. \A c \in DevicesPage!Refreshing : c = deviceLatest /\ deviceRow[deviceSelected] = "revoked"
    BY <1>0, <2>2 DEF RevokeOpen
  <2>6. ASSUME NEW c \in DeviceCalls, RevokeOpen(c)'
        PROVE  RevokeOpen(c) /\ deviceCall'[c] = deviceCall[c] /\ deviceSelected' = deviceSelected
    <3>1. c \notin DevicesPage!Refreshing /\ deviceCall'[c] = deviceCall[c] /\ RevokeOpen(c)
      BY <2>4, <2>6 DEF RevokeOpen
    <3>2. DevicesPage!Refreshing = {}
      BY <1>0, <2>5, <3>1
    <3> QED
      BY <2>1, <3>1, <3>2
  <2> QED
    BY <2>1, <2>4, <2>5, <2>6
<1>10. CASE DevicesPage!ListLoaded
  <2>1. /\ deviceFetch \notin {Unanswered, None} /\ deviceList' = deviceFetch /\ deviceFailed' = FALSE
        /\ deviceFetch' = None /\ DevicesPage!Conclude(DevicesPage!Refreshing)
        /\ UNCHANGED <<deviceRow, deviceLatest>>
    BY <1>10 DEF DevicesPage!ListLoaded
  <2>2. /\ deviceCall' \in [DeviceCalls -> DevicesPage!Revocation \cup {None}]
        /\ deviceSelected' \in {deviceSelected, None}
        /\ deviceSelected' # deviceSelected => deviceRow[deviceSelected] = "revoked"
        /\ \A c \in DeviceCalls : RevokeOpen(c)' =>
             RevokeOpen(c) /\ deviceCall'[c] = deviceCall[c] /\ deviceSelected' = deviceSelected
    BY <1>9, <2>1
  <2>3. DevicesPage!DeviceListTypeOK'
    BY <1>t, <2>1, <2>2 DEF DevicesPage!DeviceListTypeOK
  <2>4. DevicesInv'
    BY <1>0, <2>1, <2>2, <2>3 DEF DevicesInv
  <2>5. DevicesPage!DialogOpen /\ ~DevicesPage!DialogOpen' => deviceRow[deviceSelected] = "revoked"
    BY <1>0, <1>d, <1>e, <2>1, <2>2
  <2> QED
    BY <2>4, <2>5 DEF DevicesPage!ClosedIsRevoked
<1>11. CASE DevicesPage!ListFails
  <2>1. /\ deviceFailed' = TRUE
        /\ deviceFetch' = None /\ DevicesPage!Conclude(DevicesPage!Refreshing)
        /\ UNCHANGED <<deviceRow, deviceList, deviceLatest>>
    BY <1>11 DEF DevicesPage!ListFails
  <2>2. /\ deviceCall' \in [DeviceCalls -> DevicesPage!Revocation \cup {None}]
        /\ deviceSelected' \in {deviceSelected, None}
        /\ deviceSelected' # deviceSelected => deviceRow[deviceSelected] = "revoked"
        /\ \A c \in DeviceCalls : RevokeOpen(c)' =>
             RevokeOpen(c) /\ deviceCall'[c] = deviceCall[c] /\ deviceSelected' = deviceSelected
    BY <1>9, <2>1
  <2>3. DevicesPage!DeviceListTypeOK'
    BY <1>t, <2>1, <2>2 DEF DevicesPage!DeviceListTypeOK
  <2>4. DevicesInv'
    BY <1>0, <2>1, <2>2, <2>3 DEF DevicesInv
  <2>5. DevicesPage!DialogOpen /\ ~DevicesPage!DialogOpen' => deviceRow[deviceSelected] = "revoked"
    BY <1>0, <1>d, <1>e, <2>1, <2>2
  <2> QED
    BY <2>4, <2>5 DEF DevicesPage!ClosedIsRevoked
<1>12. CASE DevicesPage!Refocus
  <2>1. /\ deviceFetch' = Unanswered
        /\ UNCHANGED <<deviceRow, deviceList, deviceFailed, deviceSelected, deviceCall, deviceLatest>>
    BY <1>12 DEF DevicesPage!Refocus
  <2>2. DevicesPage!DeviceListTypeOK'
    BY <1>t, <2>1 DEF DevicesPage!DeviceListTypeOK
  <2>3. DevicesInv'
    BY <1>0, <2>1, <2>2 DEF DevicesInv, RevokeOpen
  <2> QED
    BY <1>q, <2>1, <2>3
<1>13. ASSUME NEW c \in DeviceCalls, DevicesPage!Revoked(c)
       PROVE  Goal
  <2> DEFINE over(e) == [deviceCall[e] EXCEPT !.at = "ended"]
             r == [deviceCall[c] EXCEPT !.at = "refreshing", !.ok = TRUE]
  <2>1. /\ deviceCall[c] # None /\ deviceCall[c].at = "served" /\ deviceFetch' = Unanswered
        /\ deviceCall' = [e \in DeviceCalls |-> CASE e = c -> r
                                                  [] e \in DevicesPage!Refreshing -> over(e)
                                                  [] OTHER -> deviceCall[e]]
        /\ deviceSelected' = IF DevicesPage!Refreshing = {} THEN deviceSelected ELSE None
        /\ UNCHANGED <<deviceRow, deviceList, deviceFailed, deviceLatest>>
    BY <1>13 DEF DevicesPage!Revoked, DevicesPage!At
  <2>2. r \in DevicesPage!Revocation /\ r.at = "refreshing" /\ r.device = deviceCall[c].device
    BY <1>r, <2>1, RevocationMoves
  <2> HIDE DEF r, over
  <2>3. \A e \in DeviceCalls : RevokeOpen(e) => e = c
    BY <1>0, <2>1 DEF RevokeOpen
  <2>4. DevicesPage!Refreshing = {}
    <3>1. \A e \in DevicesPage!Refreshing : e \in DeviceCalls /\ RevokeOpen(e) /\ deviceCall[e].at = "refreshing"
      BY DEF DevicesPage!Refreshing, DevicesPage!At, RevokeOpen
    <3> QED
      BY <2>1, <2>3, <3>1
  <2>5. /\ deviceCall' \in [DeviceCalls -> DevicesPage!Revocation \cup {None}]
        /\ deviceCall'[c] = r /\ \A e \in DeviceCalls : e # c => deviceCall'[e] = deviceCall[e]
    BY <1>t, <2>1, <2>2, <2>4
  <2>6. DevicesPage!DeviceListTypeOK'
    BY <1>t, <2>1, <2>4, <2>5 DEF DevicesPage!DeviceListTypeOK
  <2>7. RevokeOpen(c)
    BY <2>1 DEF RevokeOpen
  <2>8. \A e \in DeviceCalls : RevokeOpen(e)' => e = c
    BY <2>3, <2>5 DEF RevokeOpen
  <2>9. DevicesInv'
    BY <1>0, <2>1, <2>2, <2>4, <2>5, <2>6, <2>7, <2>8 DEF DevicesInv
  <2> QED
    BY <1>q, <2>1, <2>4, <2>9
<1>14. ASSUME NEW c \in DeviceCalls, DevicesPage!RevokeFails(c)
       PROVE  Goal
  <2> DEFINE r == [deviceCall[c] EXCEPT !.at = "ended"]
  <2>1. /\ deviceCall[c] # None
        /\ deviceCall' = [deviceCall EXCEPT ![c] = r]
        /\ UNCHANGED <<deviceRow, deviceList, deviceFailed, deviceFetch, deviceSelected, deviceLatest>>
    BY <1>14 DEF DevicesPage!RevokeFails, DevicesPage!At
  <2>2. r \in DevicesPage!Revocation /\ r.at = "ended"
    BY <1>r, <2>1, RevocationMoves
  <2> HIDE DEF r
  <2>3. /\ deviceCall' \in [DeviceCalls -> DevicesPage!Revocation \cup {None}]
        /\ deviceCall'[c] = r /\ \A e \in DeviceCalls : e # c => deviceCall'[e] = deviceCall[e]
    BY <1>t, <2>1, <2>2
  <2>4. DevicesPage!DeviceListTypeOK'
    BY <1>t, <2>1, <2>3 DEF DevicesPage!DeviceListTypeOK
  <2>5. \A e \in DeviceCalls : RevokeOpen(e)' => RevokeOpen(e) /\ deviceCall'[e] = deviceCall[e]
    BY <2>2, <2>3 DEF RevokeOpen
  <2>6. DevicesInv'
    BY <1>0, <2>1, <2>4, <2>5 DEF DevicesInv
  <2> QED
    BY <1>q, <2>1, <2>6
<1> QED
  BY <1>1, <1>2, <1>4, <1>5, <1>6, <1>7, <1>8, <1>10, <1>11, <1>12, <1>13, <1>14 DEF DevicesPage!Next

-----------------------------------------------------------------------------
(* AdminOverview, of staff who are alone.                                  *)
OverTypes ==
  /\ overviewRegistered \in 0 .. AlonePeople
  /\ overviewState \in [1 .. AlonePeople -> {"absent", "pending", "approved", "rejected"}]
  /\ overviewCounted # None =>
       overviewCounted \in [{"total", "active", "pending", "waiting"} -> Int \cup {Unread}]
  /\ overviewOverview # None =>
       overviewOverview \in [counts : [{"total", "active", "pending", "waiting"} -> Int \cup {Unread}],
                             recent : SUBSET (1 .. AlonePeople)]
  /\ overviewReview # None =>
       overviewReview \in [user : 1 .. AlonePeople, decision : {"approved", "rejected"}, handled : BOOLEAN]

StillWaiting == {u \in 1 .. AlonePeople : overviewState[u] = "pending"}

\* The overview counts and lists what waits, or what waited before the review
\* that the server has handled.
OverInv ==
  /\ OverTypes
  /\ overviewOverview = None => overviewReview = None
  /\ overviewCounted # None =>
       /\ overviewOverview = None
       /\ overviewCounted["waiting"] \in {Unread, Cardinality(StillWaiting)}
  /\ overviewFound = Unread \/ overviewFound \subseteq StillWaiting
  /\ overviewOverview # None => overviewFound = Unread
  /\ overviewOverview # None /\ (overviewReview = None \/ ~overviewReview.handled) =>
       /\ overviewOverview.counts["waiting"] = Cardinality(StillWaiting)
       /\ overviewOverview.recent \subseteq StillWaiting
       /\ overviewReview # None => overviewReview.user \in overviewOverview.recent
  /\ overviewOverview # None /\ overviewReview # None /\ overviewReview.handled =>
       /\ overviewOverview.counts["waiting"] = Cardinality(StillWaiting) + 1
       /\ overviewOverview.recent \ {overviewReview.user} \subseteq StillWaiting

(* The requests that wait can be counted.                                  *)
LEMMA WaitingCounts ==
  /\ AlonePeople \in Nat /\ IsFiniteSet(StillWaiting) /\ Cardinality(StillWaiting) \in Nat
  /\ OverviewAlone!Waiting = StillWaiting
  /\ \A S : OverviewAlone!Cardinality(S) = Cardinality(S)
<1>1. AlonePeople \in Nat
  BY OverviewAloneAssumption DEF OverviewAlone!AdminOverviewAssumption
<1>2. IsFiniteSet(1 .. AlonePeople)
  BY <1>1, FS_Interval
<1>3. StillWaiting \in SUBSET (1 .. AlonePeople)
  BY DEF StillWaiting
<1>4. IsFiniteSet(StillWaiting)
  BY <1>2, <1>3, FS_Subset
<1>5. Cardinality(StillWaiting) \in Nat
  BY <1>4, FS_CardinalityType
<1>6. OverviewAlone!Waiting = StillWaiting
  BY DEF OverviewAlone!Waiting, OverviewAlone!Users, StillWaiting
<1>7. \A S : OverviewAlone!Cardinality(S) = Cardinality(S)
  BY DEF OverviewAlone!Cardinality, Cardinality
<1> QED
  BY <1>1, <1>4, <1>5, <1>6, <1>7

(* The page opens before anything was counted.                             *)
LEMMA OverStarts ==
  ASSUME OverviewAlone!Init
  PROVE  OverInv
<1>1. /\ overviewRegistered \in 0 .. AlonePeople
      /\ overviewState \in [1 .. AlonePeople -> {"absent", "pending", "approved", "rejected"}]
  BY DEF OverviewAlone!Init, OverviewAlone!Users
<1>2. /\ overviewCounted = [q \in {"total", "active", "pending", "waiting"} |-> Unread]
      /\ overviewFound = Unread /\ overviewOverview = None /\ overviewReview = None
  BY DEF OverviewAlone!Init, OverviewAlone!NothingRead, OverviewAlone!Counts
<1>3. overviewCounted \in [{"total", "active", "pending", "waiting"} -> Int \cup {Unread}] /\ overviewCounted["waiting"] = Unread
  BY <1>2
<1>4. OverTypes
  BY <1>1, <1>2, <1>3 DEF OverTypes
<1> QED
  BY <1>2, <1>3, <1>4 DEF OverInv

(* Alone, staff correct the overview by what the server has decided        *)
(* (Dashboard.tsx:50-62).                                                  *)
LEMMA OverStays ==
  ASSUME OverInv, OverviewAlone!Next
  PROVE  OverInv' /\ OverviewAlone!DecisionStands
<1> DEFINE Goal == OverInv' /\ OverviewAlone!DecisionStands
           Names == {"total", "active", "pending", "waiting"}
<1>0. /\ OverTypes
      /\ overviewOverview = None => overviewReview = None
      /\ overviewCounted # None =>
           /\ overviewOverview = None
           /\ overviewCounted["waiting"] \in {Unread, Cardinality(StillWaiting)}
      /\ overviewFound = Unread \/ overviewFound \subseteq StillWaiting
      /\ overviewOverview # None => overviewFound = Unread
      /\ overviewOverview # None /\ (overviewReview = None \/ ~overviewReview.handled) =>
           /\ overviewOverview.counts["waiting"] = Cardinality(StillWaiting)
           /\ overviewOverview.recent \subseteq StillWaiting
           /\ overviewReview # None => overviewReview.user \in overviewOverview.recent
      /\ overviewOverview # None /\ overviewReview # None /\ overviewReview.handled =>
           /\ overviewOverview.counts["waiting"] = Cardinality(StillWaiting) + 1
           /\ overviewOverview.recent \ {overviewReview.user} \subseteq StillWaiting
  BY DEF OverInv
<1>t. /\ overviewRegistered \in 0 .. AlonePeople
      /\ overviewState \in [1 .. AlonePeople -> {"absent", "pending", "approved", "rejected"}]
      /\ overviewCounted # None => overviewCounted \in [Names -> Int \cup {Unread}]
      /\ overviewOverview # None =>
           overviewOverview \in [counts : [Names -> Int \cup {Unread}], recent : SUBSET (1 .. AlonePeople)]
      /\ overviewReview # None =>
           overviewReview \in [user : 1 .. AlonePeople, decision : {"approved", "rejected"}, handled : BOOLEAN]
  BY <1>0 DEF OverTypes
<1>c. /\ AlonePeople \in Nat /\ IsFiniteSet(StillWaiting) /\ Cardinality(StillWaiting) \in Nat
      /\ OverviewAlone!Waiting = StillWaiting
      /\ \A S : OverviewAlone!Cardinality(S) = Cardinality(S)
  BY WaitingCounts
<1>v. /\ OverviewAlone!Decisions = {"approved", "rejected"}
      /\ OverviewAlone!Users = 1 .. AlonePeople /\ OverviewAlone!Counts = Names
  BY DEF OverviewAlone!Decisions, OverviewAlone!Users, OverviewAlone!Counts
<1> HIDE DEF Names
\* The server stays as it is.
<1>s. ASSUME UNCHANGED OverviewAlone!serverVars
      PROVE  /\ overviewRegistered' = overviewRegistered /\ overviewState' = overviewState
             /\ StillWaiting' = StillWaiting /\ OverviewAlone!DecisionStands
  <2>1. overviewRegistered' = overviewRegistered /\ overviewState' = overviewState
    BY <1>s DEF OverviewAlone!serverVars
  <2> QED
    BY <2>1 DEF StillWaiting, OverviewAlone!DecisionStands
<1>1. ASSUME NEW q \in OverviewAlone!Counts, OverviewAlone!Count(q)
      PROVE  Goal
  <2>1. /\ overviewCounted # None
        /\ overviewCounted' = [overviewCounted EXCEPT ![q] = OverviewAlone!CountOf(q)]
        /\ UNCHANGED <<overviewFound, overviewOverview, overviewReview>>
        /\ UNCHANGED OverviewAlone!serverVars
    BY <1>1 DEF OverviewAlone!Count
  <2>2. overviewRegistered' = overviewRegistered /\ overviewState' = overviewState /\ StillWaiting' = StillWaiting
    BY <1>s, <2>1
  <2>3. \A s : Cardinality(OverviewAlone!WithStatus(s)) \in Nat
    <3>1. IsFiniteSet(1 .. AlonePeople)
      BY <1>c, FS_Interval
    <3>2. \A s : OverviewAlone!WithStatus(s) \in SUBSET (1 .. AlonePeople)
      BY <1>v DEF OverviewAlone!WithStatus
    <3>3. \A s : IsFiniteSet(OverviewAlone!WithStatus(s))
      BY <3>1, <3>2, FS_Subset
    <3> QED
      BY <3>3, FS_CardinalityType
  <2>4. OverviewAlone!CountOf(q) \in Int
    BY <1>c, <1>t, <1>v, <1>1, <2>3 DEF OverviewAlone!CountOf, Names
  <2>5. q = "waiting" => OverviewAlone!CountOf(q) = Cardinality(StillWaiting)
    BY <1>c DEF OverviewAlone!CountOf
  <2>6. q \in Names /\ "waiting" \in Names
    BY <1>1, <1>v DEF Names
  <2>7. /\ overviewCounted' \in [Names -> Int \cup {Unread}]
        /\ overviewCounted'["waiting"] \in {Unread, Cardinality(StillWaiting)}
    BY <1>0, <1>t, <2>1, <2>4, <2>5, <2>6
  <2>8. OverTypes'
    BY <1>0, <2>1, <2>2, <2>7 DEF OverTypes, Names
  <2>9. OverInv'
    BY <1>0, <2>1, <2>2, <2>7, <2>8 DEF OverInv
  <2> QED
    BY <1>s, <2>1, <2>9
<1>2. CASE OverviewAlone!FindRecent
  <2>1. /\ overviewCounted # None /\ overviewFound' = OverviewAlone!NewestWaiting
        /\ UNCHANGED <<overviewCounted, overviewOverview, overviewReview>>
        /\ UNCHANGED OverviewAlone!serverVars
    BY <1>2 DEF OverviewAlone!FindRecent
  <2>2. overviewRegistered' = overviewRegistered /\ overviewState' = overviewState /\ StillWaiting' = StillWaiting
    BY <1>s, <2>1
  <2>3. OverviewAlone!NewestWaiting \subseteq StillWaiting
    BY <1>c DEF OverviewAlone!NewestWaiting
  <2>4. OverTypes'
    BY <1>0, <2>1, <2>2 DEF OverTypes
  <2>5. OverInv'
    BY <1>0, <2>1, <2>2, <2>3, <2>4 DEF OverInv
  <2> QED
    BY <1>s, <2>1, <2>5
<1>3. CASE OverviewAlone!Handle
  <2> DEFINE u == overviewReview.user
             r == [overviewReview EXCEPT !.handled = TRUE]
  <2>1. /\ overviewReview # None /\ ~overviewReview.handled
        /\ overviewState' = [overviewState EXCEPT ![u] = overviewReview.decision]
        /\ overviewRegistered' = overviewRegistered
        /\ overviewReview' = r
        /\ UNCHANGED <<overviewCounted, overviewFound, overviewOverview>>
    BY <1>3 DEF OverviewAlone!Handle, OverviewAlone!Decide
  <2>2. overviewOverview # None /\ overviewCounted = None
    BY <1>0, <2>1
  <2>3. /\ u \in StillWaiting /\ u \in 1 .. AlonePeople
        /\ overviewReview.decision \in {"approved", "rejected"}
    BY <1>0, <1>t, <2>1, <2>2
  <2>4. /\ r \in [user : 1 .. AlonePeople, decision : {"approved", "rejected"}, handled : BOOLEAN]
        /\ r.handled /\ r.user = u
    BY <1>t, <2>1
  <2> HIDE DEF u, r
  <2>5. /\ overviewState' \in [1 .. AlonePeople -> {"absent", "pending", "approved", "rejected"}]
        /\ overviewState'[u] # "pending"
        /\ \A w \in 1 .. AlonePeople : w # u => overviewState'[w] = overviewState[w]
    BY <1>t, <2>1, <2>3
  <2>6. StillWaiting' = StillWaiting \ {u}
    BY <2>3, <2>5 DEF StillWaiting
  <2>7. Cardinality(StillWaiting') = Cardinality(StillWaiting) - 1
    BY <1>c, <2>3, <2>6, FS_RemoveElement
  <2>8. OverTypes'
    BY <1>0, <2>1, <2>4, <2>5 DEF OverTypes
  <2>9. /\ overviewOverview'.counts["waiting"] = Cardinality(StillWaiting') + 1
        /\ overviewOverview'.recent \ {overviewReview'.user} \subseteq StillWaiting'
    BY <1>0, <1>c, <2>1, <2>2, <2>4, <2>6, <2>7
  <2>10. /\ overviewReview' # None /\ overviewReview'.handled
         /\ overviewOverview' # None /\ overviewCounted' = None
    <3>1. None \notin [user : 1 .. AlonePeople, decision : {"approved", "rejected"}, handled : BOOLEAN]
      BY <1>v, OverviewAloneAssumption DEF OverviewAlone!AdminOverviewAssumption
    <3> QED
      BY <2>1, <2>2, <2>4, <3>1
  <2>11. overviewFound' = Unread
    BY <1>0, <2>1, <2>2
  <2>12. OverInv'
    BY <2>8, <2>9, <2>10, <2>11 DEF OverInv
  <2>13. overviewState[u] = "pending"
    BY <2>3 DEF StillWaiting
  <2>14. OverviewAlone!DecisionStands
    BY <1>v, <2>5, <2>13 DEF OverviewAlone!DecisionStands
  <2> QED
    BY <2>12, <2>14
<1>4. CASE OverviewAlone!Fetched
  <2> DEFINE o == [counts |-> overviewCounted, recent |-> overviewFound]
  <2>1. /\ overviewCounted # None /\ overviewFound # Unread
        /\ \A q \in OverviewAlone!Counts : overviewCounted[q] # Unread
        /\ overviewOverview' = o /\ overviewCounted' = None /\ overviewFound' = Unread
        /\ overviewReview' = overviewReview
        /\ UNCHANGED OverviewAlone!serverVars
    BY <1>4 DEF OverviewAlone!Fetched
  <2>2. overviewRegistered' = overviewRegistered /\ overviewState' = overviewState /\ StillWaiting' = StillWaiting
    BY <1>s, <2>1
  <2>3. overviewReview = None
    BY <1>0, <2>1
  <2>4. "waiting" \in OverviewAlone!Counts
    BY <1>v DEF Names
  <2>5. /\ overviewCounted["waiting"] = Cardinality(StillWaiting)
        /\ overviewFound \subseteq StillWaiting /\ overviewFound \in SUBSET (1 .. AlonePeople)
    BY <1>0, <2>1, <2>4 DEF StillWaiting
  <2>6. /\ o \in [counts : [Names -> Int \cup {Unread}], recent : SUBSET (1 .. AlonePeople)]
        /\ o.counts["waiting"] = Cardinality(StillWaiting) /\ o.recent \subseteq StillWaiting
    BY <1>t, <2>1, <2>5
  <2> HIDE DEF o
  <2>7. OverTypes'
    BY <1>0, <2>1, <2>2, <2>3, <2>6 DEF OverTypes, Names
  <2>8. OverInv'
    BY <2>1, <2>2, <2>3, <2>6, <2>7 DEF OverInv
  <2> QED
    BY <1>s, <2>1, <2>8
<1>5. ASSUME NEW u \in OverviewAlone!Users, NEW d \in OverviewAlone!Decisions, OverviewAlone!Press(u, d)
      PROVE  Goal
  <2> DEFINE r == [user |-> u, decision |-> d, handled |-> FALSE]
  <2>1. /\ overviewOverview # None /\ u \in overviewOverview.recent /\ overviewReview = None
        /\ overviewReview' = r
        /\ UNCHANGED <<overviewCounted, overviewFound, overviewOverview>>
        /\ UNCHANGED OverviewAlone!serverVars
    BY <1>5 DEF OverviewAlone!Press
  <2>2. overviewRegistered' = overviewRegistered /\ overviewState' = overviewState /\ StillWaiting' = StillWaiting
    BY <1>s, <2>1
  <2>3. /\ r \in [user : 1 .. AlonePeople, decision : {"approved", "rejected"}, handled : BOOLEAN]
        /\ ~r.handled /\ r.user = u
    BY <1>5, <1>v
  <2> HIDE DEF r
  <2>4. OverTypes'
    BY <1>0, <2>1, <2>2, <2>3 DEF OverTypes
  <2>5. OverInv'
    BY <1>0, <2>1, <2>2, <2>3, <2>4 DEF OverInv
  <2> QED
    BY <1>s, <2>1, <2>5
<1>6. CASE OverviewAlone!Succeeded
  <2> DEFINE u == overviewReview.user
             n == overviewOverview.counts["waiting"]
             f == [overviewOverview.counts EXCEPT !["waiting"] = OverviewAlone!OneFewer(n)]
             o == [counts |-> f, recent |-> overviewOverview.recent \ {u}]
  <2>1. /\ overviewReview # None /\ overviewReview.handled
        /\ overviewOverview' = OverviewAlone!Corrected(overviewOverview, overviewReview.user)
        /\ overviewReview' = None
        /\ UNCHANGED <<overviewCounted, overviewFound>>
        /\ UNCHANGED OverviewAlone!serverVars
    BY <1>6 DEF OverviewAlone!Succeeded
  <2>2. overviewRegistered' = overviewRegistered /\ overviewState' = overviewState /\ StillWaiting' = StillWaiting
    BY <1>s, <2>1
  <2>3. overviewOverview # None /\ overviewCounted = None
    BY <1>0, <2>1
  <2>4. n = Cardinality(StillWaiting) + 1 /\ overviewOverview.recent \ {u} \subseteq StillWaiting
    BY <1>0, <2>1, <2>3
  <2>5. OverviewAlone!OneFewer(n) = Cardinality(StillWaiting)
    <3> DEFINE m == Cardinality(StillWaiting)
    <3>1. m \in Nat /\ n = m + 1
      BY <1>c, <2>4
    <3> HIDE DEF m, n
    <3>2. n - 1 = m
      BY <3>1
    <3>3. OverviewAlone!OneFewer(n) = OverviewAlone!Max({0, m})
      BY <3>2 DEF OverviewAlone!OneFewer
    <3>4. \A x \in {0, m} : (\A y \in {0, m} : x >= y) => x = m
      BY <3>1
    <3>5. \E x \in {0, m} : \A y \in {0, m} : x >= y
      BY <3>1
    <3>6. OverviewAlone!Max({0, m}) = m
      BY <3>4, <3>5 DEF OverviewAlone!Max
    <3> QED
      BY <3>3, <3>6 DEF m
  <2>6. overviewOverview' = o
    BY <2>1 DEF OverviewAlone!Corrected
  <2>7. /\ overviewOverview.counts \in [Names -> Int \cup {Unread}]
        /\ overviewOverview.recent \in SUBSET (1 .. AlonePeople) /\ "waiting" \in Names
    BY <1>t, <2>3 DEF Names
  <2>8. f \in [Names -> Int \cup {Unread}] /\ f["waiting"] = Cardinality(StillWaiting)
    BY <1>c, <2>5, <2>7
  <2> HIDE DEF f, n
  <2>9. /\ o \in [counts : [Names -> Int \cup {Unread}], recent : SUBSET (1 .. AlonePeople)]
        /\ o.counts["waiting"] = Cardinality(StillWaiting) /\ o.recent \subseteq StillWaiting
    BY <2>4, <2>7, <2>8
  <2> HIDE DEF o
  <2>10. OverTypes'
    BY <1>0, <2>1, <2>2, <2>3, <2>6, <2>9 DEF OverTypes, Names
  <2>11. OverInv'
    BY <1>0, <2>1, <2>2, <2>3, <2>6, <2>9, <2>10 DEF OverInv
  <2> QED
    BY <1>s, <2>1, <2>11
<1>7. /\ ~OverviewAlone!Register /\ ~OverviewAlone!Focus /\ ~OverviewAlone!Failed
      /\ \A u \in OverviewAlone!Users : ~OverviewAlone!Disable(u)
      /\ \A u \in OverviewAlone!Users, d \in OverviewAlone!Decisions : ~OverviewAlone!ReviewByOther(u, d)
  BY DEF OverviewAlone!Register, OverviewAlone!Focus, OverviewAlone!Failed, OverviewAlone!Disable, OverviewAlone!ReviewByOther
<1> QED
  BY <1>1, <1>2, <1>3, <1>4, <1>5, <1>6, <1>7 DEF OverviewAlone!Next

(* When no review is under way, the overview is exact.                     *)
LEMMA OverIsExact == OverInv => OverviewAlone!CorrectionsAreExact
  BY WaitingCounts DEF OverInv, OverviewAlone!CorrectionsAreExact

-----------------------------------------------------------------------------
(* One page is open, and the others stay as they are.                      *)
ReviewingInv == Reviewing!DeskTypeOK /\ ReviewingFresh /\ ReviewingHeld /\ ReviewingOffers
RequestingInv == Requesting!DeskTypeOK /\ RequestingFresh
ReviewSharedInv == ReviewShared!DeskTypeOK /\ ReviewSharedHeld
UsersSureInv == DeskSureInv /\ SureInv

\* The invariant of each part, while it is the one that acts.
PortalPagesInv ==
  /\ part = "tab" => TabInv
  /\ part = "reviews" => ReviewingInv
  /\ part = "requests" => RequestingInv
  /\ part = "reviews_shared" => ReviewSharedInv
  /\ part = "users" => DeskInv
  /\ part = "users_sure" => UsersSureInv
  /\ part = "adjustments_sure" => AdjustInv
  /\ part = "devices" => DevicesInv
  /\ part = "overview_alone" => OverInv

(* A review page opens with nothing offered, and asks for its rows.        *)
LEMMA ReviewsStart ==
  /\ Reviewing!Init => ReviewingInv
  /\ Requesting!Init => RequestingInv
  /\ ReviewShared!Init => ReviewSharedInv
<1>1. ASSUME Reviewing!Init
      PROVE  ReviewingInv
  <2>1. Reviewing!DeskTypeOK
    BY <1>1, ReviewingTypes
  <2>2. /\ reviewStatus = [i \in Pair |-> "pending"] /\ reviewDialog = [d \in {"approve", "reject"} |-> None]
        /\ reviewCall = [c \in ReviewCalls |-> None] /\ reviewLatest = [d \in {"approve", "reject"} |-> None]
        /\ reviewView \in {"v1", "v2"} /\ reviewFetch[reviewView] = Unanswered
    BY <1>1 DEF Reviewing!Init, Reviewing!Decisions, Reviewing!Pending
  <2>3. Unanswered # None /\ Unanswered \notin SUBSET Pair
    BY <2>1, ReviewingRecords
  <2>4. ReviewingFresh
    BY <2>2, <2>3 DEF ReviewingFresh
  <2>5. ReviewingHeld
    BY <2>2 DEF ReviewingHeld
  <2>6. OneApproval
    BY <2>2 DEF OneApproval
  <2>7. RowsToBeFetched
    BY <2>2, <2>3 DEF RowsToBeFetched
  <2> QED
    BY <2>1, <2>4, <2>5, <2>6, <2>7 DEF ReviewingInv, ReviewingOffers
<1>2. ASSUME Requesting!Init
      PROVE  RequestingInv
  <2>1. Requesting!DeskTypeOK
    BY <1>2, RequestingTypes
  <2>2. Unanswered # None /\ Unanswered \notin SUBSET Pair /\ reviewFetch[reviewView] = Unanswered
    BY <1>2, <2>1, RequestingRecords DEF Requesting!Init
  <2>3. RequestingFresh
    BY <2>2 DEF RequestingFresh
  <2> QED
    BY <2>1, <2>3 DEF RequestingInv
<1>3. ASSUME ReviewShared!Init
      PROVE  ReviewSharedInv
  <2>1. ReviewShared!DeskTypeOK
    BY <1>3, ReviewSharedTypes
  <2>2. reviewLatest = [d \in {"approve", "reject"} |-> None]
    BY <1>3 DEF ReviewShared!Init, ReviewShared!Decisions
  <2>3. ReviewSharedHeld
    BY <2>2 DEF ReviewSharedHeld
  <2> QED
    BY <2>1, <2>3 DEF ReviewSharedInv
<1> QED
  BY <1>1, <1>2, <1>3

(* Each review page keeps what holds of it.                                *)
LEMMA ReviewsStay ==
  /\ ReviewingInv /\ Reviewing!Next => ReviewingInv' /\ Reviewing!ClosedIsReviewed
  /\ RequestingInv /\ Requesting!Next => RequestingInv'
  /\ ReviewSharedInv /\ ReviewShared!Next => ReviewSharedInv' /\ ReviewShared!ClosedIsReviewed
<1>1. ASSUME ReviewingInv, Reviewing!Next
      PROVE  ReviewingInv' /\ Reviewing!ClosedIsReviewed
  <2>1. Reviewing!DeskTypeOK /\ ReviewingFresh /\ ReviewingHeld /\ ReviewingOffers
    BY <1>1 DEF ReviewingInv
  <2>2. Reviewing!DeskTypeOK' /\ ReviewingFresh'
    BY <1>1, <2>1, ReviewingTypes, ReviewingStaysFresh
  <2>3. ReviewingHeld' /\ Reviewing!ClosedIsReviewed
    BY <1>1, <2>1, ReviewingStaysHeld
  <2>4. ReviewingOffers'
    BY <1>1, <2>1, ReviewingStaysOffers
  <2> QED
    BY <2>2, <2>3, <2>4 DEF ReviewingInv
<1>2. ASSUME RequestingInv, Requesting!Next
      PROVE  RequestingInv'
  BY <1>2, RequestingTypes, RequestingStaysFresh DEF RequestingInv
<1>3. ASSUME ReviewSharedInv, ReviewShared!Next
      PROVE  ReviewSharedInv' /\ ReviewShared!ClosedIsReviewed
  BY <1>3, ReviewSharedTypes, ReviewSharedStaysHeld DEF ReviewSharedInv
<1> QED
  BY <1>1, <1>2, <1>3

(* A view that waits for nothing has the rows of the server.               *)
LEMMA FreshRowsArePending ==
  /\ ReviewingInv => Reviewing!OfferedIsNotApproved /\ Reviewing!QuietRowsArePending
  /\ RequestingInv => Requesting!QuietRowsArePending
<1>1. ASSUME ReviewingInv, Reviewing!Quiet, Reviewing!UpToDate(reviewView)
      PROVE  \A i \in reviewRows[reviewView] : reviewStatus[i] # "approved"
  <2>1. /\ Reviewing!DeskTypeOK /\ OneApproval /\ RowsToBeFetched
        /\ reviewRows[reviewView] \in SUBSET Pair /\ reviewFetch[reviewView] = None
        /\ reviewView \notin reviewJoined
    BY <1>1 DEF ReviewingInv, ReviewingOffers, Reviewing!DeskTypeOK, Reviewing!UpToDate
  <2>2. ~ApprovalHandled
    <3>1. reviewLatest["approve"] # None => reviewCall[reviewLatest["approve"]].at = "ended"
      BY <1>1 DEF Reviewing!Quiet, Reviewing!IsPending, Reviewing!Decisions
    <3>2. None \notin ReviewCalls
      BY <2>1, ReviewingRecords
    <3> QED
      BY <2>1, <3>1, <3>2 DEF OneApproval, ApprovalHandled
  <2> QED
    BY <2>1, <2>2 DEF RowsToBeFetched, NotApproved
<1>2. ReviewingInv => Reviewing!QuietRowsArePending
  BY DEF ReviewingInv, ReviewingFresh, ReviewingHandled, Reviewing!QuietRowsArePending, Reviewing!UpToDate
<1>3. RequestingInv => Requesting!QuietRowsArePending
  BY DEF RequestingInv, RequestingFresh, RequestingHandled, Requesting!QuietRowsArePending, Requesting!UpToDate
<1> QED
  BY <1>1, <1>2, <1>3 DEF Reviewing!OfferedIsNotApproved

(* It holds when the page is opened.                                       *)
LEMMA PortalPagesInvStarts ==
  ASSUME Init
  PROVE  PortalPagesInv
<1>1. part = "tab" => TabInv
  <2>1. part = "tab" => Tab!Init
    BY DEF Init
  <2> QED
    BY <2>1, TabInvHolds
<1>2. part = "reviews" => ReviewingInv
  <2>1. part = "reviews" => Reviewing!Init
    BY DEF Init
  <2> QED
    BY <2>1, ReviewsStart
<1>3. part = "requests" => RequestingInv
  <2>1. part = "requests" => Requesting!Init
    BY DEF Init
  <2> QED
    BY <2>1, ReviewsStart
<1>4. part = "reviews_shared" => ReviewSharedInv
  <2>1. part = "reviews_shared" => ReviewShared!Init
    BY DEF Init
  <2> QED
    BY <2>1, ReviewsStart
<1>5. part = "users" => DeskInv
  <2>1. part = "users" => Desk!Init
    BY DEF Init
  <2> QED
    BY <2>1, DeskStarts
<1>6. part = "users_sure" => UsersSureInv
  <2>1. part = "users_sure" => DeskSure!Init
    BY DEF Init
  <2> QED
    BY <2>1, DeskSureStarts, SureStarts DEF UsersSureInv
<1>7. part = "adjustments_sure" => AdjustInv
  <2>1. part = "adjustments_sure" => AdjustingSure!Init
    BY DEF Init
  <2> QED
    BY <2>1, AdjustStarts
<1>8. part = "devices" => DevicesInv
  <2>1. part = "devices" => DevicesPage!Init
    BY DEF Init
  <2> QED
    BY <2>1, DevicesStart
<1>9. part = "overview_alone" => OverInv
  <2>1. part = "overview_alone" => OverviewAlone!Init
    BY DEF Init
  <2> QED
    BY <2>1, OverStarts
<1> QED
  BY <1>1, <1>2, <1>3, <1>4, <1>5, <1>6, <1>7, <1>8, <1>9 DEF PortalPagesInv

(* A step of a part keeps that part's invariant; the part that acts stays  *)
(* the same, so the other conjuncts speak of no part.                      *)
LEMMA PortalPagesInvStays ==
  ASSUME PortalPagesInv, Next
  PROVE  PortalPagesInv'
<1>0. part' = part
  BY DEF Next, Only
<1>1. part = "tab" => TabInv'
  <2>1. part = "tab" => TabInv /\ Tab!Next
    BY DEF Next, Only, PortalPagesInv
  <2> QED
    BY <2>1, TabInvHolds
<1>2. part = "reviews" => ReviewingInv'
  <2>1. part = "reviews" => ReviewingInv /\ Reviewing!Next
    BY DEF Next, Only, PortalPagesInv
  <2> QED
    BY <2>1, ReviewsStay
<1>3. part = "requests" => RequestingInv'
  <2>1. part = "requests" => RequestingInv /\ Requesting!Next
    BY DEF Next, Only, PortalPagesInv
  <2> QED
    BY <2>1, ReviewsStay
<1>4. part = "reviews_shared" => ReviewSharedInv'
  <2>1. part = "reviews_shared" => ReviewSharedInv /\ ReviewShared!Next
    BY DEF Next, Only, PortalPagesInv
  <2> QED
    BY <2>1, ReviewsStay
<1>5. part = "users" => DeskInv'
  <2>1. part = "users" => DeskInv /\ Desk!Next
    BY DEF Next, Only, PortalPagesInv
  <2> QED
    BY <2>1, DeskStays
<1>6. part = "users_sure" => UsersSureInv'
  <2>1. part = "users_sure" => UsersSureInv /\ DeskSure!Next
    BY DEF Next, Only, PortalPagesInv
  <2> QED
    BY <2>1, DeskSureStays, SureStaysClicked, SureStaysPressed DEF UsersSureInv, DeskSureInv, SureInv
<1>7. part = "adjustments_sure" => AdjustInv'
  <2>1. part = "adjustments_sure" => AdjustInv /\ AdjustingSure!Next
    BY DEF Next, Only, PortalPagesInv
  <2> QED
    BY <2>1, AdjustStays
<1>8. part = "devices" => DevicesInv'
  <2>1. part = "devices" => DevicesInv /\ DevicesPage!Next
    BY DEF Next, Only, PortalPagesInv
  <2> QED
    BY <2>1, DevicesStay
<1>9. part = "overview_alone" => OverInv'
  <2>1. part = "overview_alone" => OverInv /\ OverviewAlone!Next
    BY DEF Next, Only, PortalPagesInv
  <2> QED
    BY <2>1, OverStays
<1> QED
  BY <1>0, <1>1, <1>2, <1>3, <1>4, <1>5, <1>6, <1>7, <1>8, <1>9 DEF PortalPagesInv

(* A step that changes nothing keeps it.                                   *)
LEMMA PortalPagesInvStutters ==
  ASSUME PortalPagesInv, UNCHANGED vars
  PROVE  PortalPagesInv'
<1>0. part' = part
  BY DEF vars
<1>1. TabInv => TabInv'
  <2>1. UNCHANGED Tab!vars
    BY DEF vars, Tab!vars
  <2> QED
    BY <2>1, TabInvHolds
<1>r. UNCHANGED <<reviewStatus, reviewDialog, reviewCall, reviewLatest, reviewView, reviewRows, reviewFetch,
                  reviewJoined, reviewWaits>>
  BY DEF vars
<1>2. ReviewingInv => ReviewingInv'
  <2>1. /\ Reviewing!DeskTypeOK => Reviewing!DeskTypeOK'
        /\ ReviewingFresh => ReviewingFresh' /\ (ReviewingHeld => ReviewingHeld')
    BY <1>r DEF Reviewing!DeskTypeOK, ReviewingFresh, ReviewingHandled, Reviewing!PendingItems, ReviewingHeld
  <2>2. ReviewingOffers => ReviewingOffers'
    BY <1>r DEF ReviewingOffers, OneApproval, RowsToBeFetched, ApprovalHandled, NotApproved
  <2> QED
    BY <2>1, <2>2 DEF ReviewingInv
<1>3. RequestingInv => RequestingInv'
  BY <1>r DEF RequestingInv, Requesting!DeskTypeOK, RequestingFresh, RequestingHandled, Requesting!PendingItems
<1>4. ReviewSharedInv => ReviewSharedInv'
  BY <1>r DEF ReviewSharedInv, ReviewShared!DeskTypeOK, ReviewSharedHeld
<1>u. UNCHANGED <<usersLoad, usersSelected, usersDetail, usersHistory, usersModal, usersIntended, usersOpenings,
                  usersPress, usersMisdirected, usersHasty, usersMuddled>>
  BY DEF vars
<1>5. DeskInv => DeskInv'
  BY <1>u DEF DeskInv, DeskTypes, DeskIntent, DeskOrder, LoadOpen, PressOpen
<1>6. UsersSureInv => UsersSureInv'
  <2>1. DeskSureInv => DeskSureInv'
    BY <1>u DEF DeskSureInv, DeskSureTypes, DeskSureIntent, DeskSureOrder, LoadOpen, PressOpen
  <2>2. SureInv => SureInv'
    BY <1>u DEF SureInv, SureClicked, SurePressed, LoadOpen
  <2> QED
    BY <2>1, <2>2 DEF UsersSureInv
<1>7. AdjustInv => AdjustInv'
  BY DEF vars, AdjustInv, AdjustTypes, AdjustingSure!InLedger
<1>8. DevicesInv => DevicesInv'
  BY DEF vars, DevicesInv, RevokeOpen, DevicesPage!DeviceListTypeOK
<1>9. OverInv => OverInv'
  BY DEF vars, OverInv, OverTypes, StillWaiting
<1> QED
  BY <1>0, <1>1, <1>2, <1>3, <1>4, <1>5, <1>6, <1>7, <1>8, <1>9 DEF PortalPagesInv

(* The invariant of the page that is open holds at every moment.           *)
THEOREM PortalPagesInvAlways == Spec => []PortalPagesInv
<1>1. PortalPagesInv /\ [Next]_vars => PortalPagesInv'
  BY PortalPagesInvStays, PortalPagesInvStutters
<1> QED
  BY <1>1, PortalPagesInvStarts, PTL DEF Spec

(***************************************************************************)
(* One session: in a browser with one tab the server finds a refresh token *)
(* reused, which it would answer by signing the user out, only after a     *)
(* refresh with that token was cut off by a reload or the loss of its      *)
(* answer; the calls that meet an expired token at a time share one        *)
(* refresh (http.ts). The account shown is the one that was signed in      *)
(* last, however the answers arrive (AuthProvider.tsx).                    *)
(***************************************************************************)
THEOREM SessionIsOne == Spec => []OneSession
<1>1. PortalPagesInv => OneSession
  BY TabInvGives DEF PortalPagesInv, OneSession
<1> QED
  BY <1>1, PortalPagesInvAlways, PTL

(***************************************************************************)
(* Staff decide about what they see, in whatever order answers arrive,     *)
(* with the exceptions that DecidedOnWhatIsShown names: on the page of the *)
(* users (admin/Users.tsx) the history is of the account shown, which is   *)
(* the one clicked, and the adjustments go to it; an amount typed is       *)
(* applied once (BalanceAdjustments.tsx); a top-up offered for approval    *)
(* was not approved (CreditTopups.tsx); the rows of a view that waits for  *)
(* nothing, and the overview (Dashboard.tsx), are those of the server.     *)
(***************************************************************************)
THEOREM StaffDecideOnWhatIsShown == Spec => []DecidedOnWhatIsShown
<1>1. PortalPagesInv => DecidedOnWhatIsShown
  <2>1. DeskInv => Desk!HistoryIsOfUser /\ Desk!AddedToShown
    BY DeskIsSure
  <2>2. UsersSureInv => DeskSure!ShownIsClicked /\ DeskSure!OncePerOpening
    BY DeskIsSure DEF UsersSureInv
  <2>3. AdjustInv => AdjustingSure!OncePerTyping
    BY AdjustOnce
  <2>4. OverInv => OverviewAlone!CorrectionsAreExact
    BY OverIsExact
  <2> QED
    BY <2>1, <2>2, <2>3, <2>4, FreshRowsArePending DEF PortalPagesInv, DecidedOnWhatIsShown
<1> QED
  BY <1>1, PortalPagesInvAlways, PTL

(***************************************************************************)
(* A decision stands: a dialog closes by itself only over what was decided *)
(* in it (CreditTopups.tsx:177-189), also when other staff review and      *)
(* answers are lost, the dialog of a device only when it is revoked        *)
(* (Devices.tsx), and a request decided in the overview is not decided     *)
(* again.                                                                  *)
(***************************************************************************)
THEOREM WhatWasDecidedStands == Spec => DecisionsStand
<1> DEFINE Stand ==
      /\ part = "reviews" => Reviewing!ClosedIsReviewed
      /\ part = "reviews_shared" => ReviewShared!ClosedIsReviewed
      /\ part = "devices" => DevicesPage!ClosedIsRevoked
      /\ part = "overview_alone" => OverviewAlone!DecisionStands
<1>1. ASSUME PortalPagesInv, Next
      PROVE  Stand
  <2>1. part = "reviews" => Reviewing!ClosedIsReviewed
    <3>1. part = "reviews" => ReviewingInv /\ Reviewing!Next
      BY <1>1 DEF Next, Only, PortalPagesInv
    <3> QED
      BY <3>1, ReviewsStay
  <2>2. part = "reviews_shared" => ReviewShared!ClosedIsReviewed
    <3>1. part = "reviews_shared" => ReviewSharedInv /\ ReviewShared!Next
      BY <1>1 DEF Next, Only, PortalPagesInv
    <3> QED
      BY <3>1, ReviewsStay
  <2>3. part = "devices" => DevicesPage!ClosedIsRevoked
    <3>1. part = "devices" => DevicesInv /\ DevicesPage!Next
      BY <1>1 DEF Next, Only, PortalPagesInv
    <3> QED
      BY <3>1, DevicesStay
  <2>4. part = "overview_alone" => OverviewAlone!DecisionStands
    <3>1. part = "overview_alone" => OverInv /\ OverviewAlone!Next
      BY <1>1 DEF Next, Only, PortalPagesInv
    <3> QED
      BY <3>1, OverStays
  <2> QED
    BY <2>1, <2>2, <2>3, <2>4
<1>2. PortalPagesInv /\ [Next]_vars => [Stand]_vars
  BY <1>1
<1> QED
  BY <1>2, PortalPagesInvAlways, PTL DEF Spec, DecisionsStand
=============================================================================
