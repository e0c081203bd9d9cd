--------------------------- MODULE CustomerReports ---------------------------
(***************************************************************************)
(* What a customer is told of the orders as a whole (dashboard.controller, *)
(* app/Dashboard.tsx, app/Analytics.tsx): the counts of a summary, and a   *)
(* feed of the orders last updated, which the page of analytics counts by  *)
(* day.  The days are found by going back a fixed number of hours from     *)
(* now, and counted anew only when the feed brings something else.         *)
(*                                                                         *)
(* Time is counted in hours of a shorter day; DayStarts says when the days *)
(* of the browser begin, so that a day may be shorter or longer when the   *)
(* clocks are changed.                                                     *)
(***************************************************************************)
EXTENDS Integers, FiniteSets, FiniteSetsExt, Functions

CONSTANTS Orders,
          Hours,      \* hours of a common day, 24 in the code
          DayStarts,  \* when the days of the calendar begin
          Window,     \* days that are counted, 7 in the code
          FeedLimit,  \* rows of the feed, 50 in the code
          MaxTime,    \* bound on the time
          MaxWork,    \* bound on the updates of orders
          None        \* nothing fetched

CustomerReportsAssumption ==
  /\ Hours \in Nat \ {0} /\ Window \in Nat \ {0} /\ FeedLimit \in Nat /\ MaxTime \in Nat
  /\ DayStarts \subseteq Nat /\ 0 \in DayStarts

VARIABLES now, work,
          row,      \* the orders
          feed,     \* the rows of the feed that the page holds
          fetched,  \* when they were fetched last
          memo,     \* the counts and when they were made
          summary   \* the summary that the page holds

vars == <<now, work, row, feed, fetched, memo, summary>>

Time == 0 .. MaxTime
Types == {"tracking", "empty", "design"}
Row == [type : Types, open : BOOLEAN, archived : BOOLEAN, updated : Time]

StartOfDay(t) == Max({d \in DayStarts : d <= t})

CustomerReportsTypeOK ==
  /\ now \in Time /\ work \in 0 .. MaxWork
  /\ row \in [Orders -> Row]
  /\ feed \in SUBSET [id : Orders, updated : Time] /\ Cardinality(feed) <= FeedLimit
  /\ fetched \in Time
  /\ memo.at \in Time /\ DOMAIN memo.counts \subseteq DayStarts
  /\ Cardinality(DOMAIN memo.counts) <= Window
  /\ summary \in [trackings : 0 .. Cardinality(Orders), empty : 0 .. Cardinality(Orders)] \cup {None}

-----------------------------------------------------------------------------
(* The server                                                              *)

OfType(t) == {o \in Orders : row[o].type = t}

\* getSummary: the orders that are not archived, whatever has become of them.
Summary == [trackings |-> Cardinality({o \in OfType("tracking") : ~row[o].archived}),
            empty |-> Cardinality({o \in OfType("empty") : ~row[o].archived})]

\* getActivity: the orders updated last, archived or not.
FeedOf(F) ==
  LET all == OfType("tracking") \cup OfType("empty")
  IN /\ F \subseteq all /\ Cardinality(F) = Min({FeedLimit, Cardinality(all)})
     /\ \A o \in F, p \in all \ F : row[p].updated <= row[o].updated

\* Someone starts, ends, or archives an order.
Work(o) ==
  /\ work < MaxWork /\ work' = work + 1
  /\ \E open, archived \in BOOLEAN :
       row' = [row EXCEPT ![o].open = open, ![o].archived = archived, ![o].updated = now]
  /\ UNCHANGED <<now, feed, fetched, memo, summary>>

Tick ==
  /\ now < MaxTime /\ now' = now + 1
  /\ UNCHANGED <<work, row, feed, fetched, memo, summary>>

-----------------------------------------------------------------------------
(* The page                                                                *)

\* The keys of the buckets.
Days(t) == {StartOfDay(t - i * Hours) : i \in 0 .. Window - 1}

OnDay(F, d) == {r \in F : StartOfDay(r.updated) = d}

Memo(F) == [at |-> now, counts |-> [d \in Days(now) |-> Cardinality(OnDay(F, d))]]

Init ==
  /\ now = Hours * Window /\ work = 0
  /\ row \in [Orders -> [type : Types, open : {TRUE}, archived : {FALSE}, updated : {0}]]
  /\ feed = {} /\ fetched = now /\ memo = Memo({}) /\ summary = None

\* An answer equal to what is held is held as the same object.
Same(F) == F = feed

FetchActivity ==
  /\ \E F \in SUBSET Orders :
       /\ FeedOf(F)
       /\ LET rows == {[id |-> o, updated |-> row[o].updated] : o \in F}
          IN /\ feed' = rows
             /\ memo' = IF Same(rows) THEN memo ELSE Memo(rows)
  /\ fetched' = now
  /\ UNCHANGED <<now, work, row, summary>>

\* The page is left and entered again.
Mount == memo' = Memo(feed) /\ UNCHANGED <<now, work, row, feed, fetched, summary>>

FetchSummary == summary' = Summary /\ UNCHANGED <<now, work, row, feed, fetched, memo>>

Next == Tick \/ FetchActivity \/ Mount \/ FetchSummary \/ \E o \in Orders : Work(o)

Spec == Init /\ [][Next]_vars

-----------------------------------------------------------------------------
(* Properties                                                              *)

\* The window's last days of the calendar, today's included.
LastDays(t) ==
  LET past == {d \in DayStarts : d <= t}
  IN {d \in past : Cardinality({e \in past : e > d}) < Window}

\* The bars count the rows of the feed by their day, whichever feed the counts
\* were made of (Analytics.tsx:43-64).
CountsAreOfFeed == \A d \in DOMAIN memo.counts : memo.counts[d] = Cardinality(OnDay(feed, d))

\* "Last 7 days" (Analytics.tsx:88): the days that are counted are the last
\* seven of the calendar when they are.
CountsLastDays == DOMAIN memo.counts = LastDays(memo.at)

\* "Last 7 days" (Analytics.tsx:88) of a feed that has just been fetched.
FetchedIsCurrent == fetched = now => DOMAIN memo.counts = LastDays(now)

\* "In-progress trackings" (Analytics.tsx:76) are those in progress when the
\* summary is read.
InProgressIsOpen ==
  [][summary' # summary =>
       summary'.trackings = Cardinality({o \in OfType("tracking") : row[o].open})]_vars
=============================================================================
