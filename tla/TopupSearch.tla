---------------------------- MODULE TopupSearch -----------------------------
(***************************************************************************)
(* The list of top-ups as staff page, filter and search it: the query      *)
(* CreditTopupsService.listAdminTopupsPaged runs and the page that shows   *)
(* its answers (admin/CreditTopups.tsx).  The rows and their total are two *)
(* statements, between which customers submit and other staff review.  The *)
(* page keeps one answer per view it has asked for, and shows that of the  *)
(* view it is on.  What a review does to this page is in ReviewDesk.       *)
(***************************************************************************)
EXTENDS Naturals, Sequences, FiniteSets

CONSTANTS MaxTopups,  \* top-ups ever submitted; a top-up is its rank in time
          Limits,     \* page sizes offered
          Searches,   \* TRUE where something is typed into the search box
          NoData,     \* nothing fetched yet
          MaxTurns    \* times the controls are used or the list is refetched

TopupSearchAssumption ==
  /\ MaxTopups \in Nat
  /\ Limits \subseteq Nat \ {0}
  /\ Searches \subseteq BOOLEAN

Statuses == {"pending", "approved", "rejected"}
Topups == 1..MaxTopups
View == [status : Statuses, q : BOOLEAN, page : Topups \cup {1},
         limit : Limits]
Row == [id : Topups, status : Statuses]

VARIABLES status,  \* status[t], of the top-ups submitted so far, in order
          match,   \* match[t]: where the words searched for occur in it
          view,    \* what the page's controls say
          cache,   \* the last answer of each view: [rows, total]
          fetch,   \* the fetch of each view, and what it has read
          turns    \* times the controls were used or the list was refetched

vars == <<status, match, view, cache, fetch, turns>>

Submitted == DOMAIN status

-----------------------------------------------------------------------------
(* The query                                                               *)

\* The conditions joined by AND, the search a text of its own: AND binds its
\* first alternative, the e-mail address, to the status and leaves the rest.
Where(t, v) ==
  \/ status[t] = v.status /\ (v.q => match[t] = "email")
  \/ v.q /\ match[t] = "txid"

Found(v) == {t \in Submitted : Where(t, v)}

\* Faulty: pages are counted from 0.
SkipPages(v) == v.page * v.limit

Skip(v) == (v.page - 1) * v.limit

\* The newest first, a page of them.
Rows(v) ==
  LET found == Found(v)
      newest == [n \in 1 .. Cardinality(found) |->
                   CHOOSE i \in found : Cardinality({j \in found : j >= i}) = n]
      Least(a, b) == IF a < b THEN a ELSE b
      page == SubSeq(newest, Skip(v) + 1,
                     Least(Skip(v) + v.limit, Len(newest)))
  IN  [i \in DOMAIN page |-> [id |-> page[i], status |-> status[page[i]]]]

Total(v) == Cardinality(Found(v))

-----------------------------------------------------------------------------
(* The page                                                                *)

\* The query key names every control.
Key(v) == v

Shown == cache[Key(view)]

TotalPages(answer, limit) ==
  IF answer = NoData \/ answer.total = 0 THEN 1
  ELSE (answer.total + limit - 1) \div limit

NoFetch == [at |-> "none"]
Ask(v) == [at |-> "asked", view |-> v]

Init ==
  /\ status = <<>>
  /\ match \in [Topups -> IF TRUE \in Searches
                           THEN {"email", "txid", "no"} ELSE {"no"}]
  /\ view = [status |-> "pending", q |-> FALSE, page |-> 1,
             limit |-> CHOOSE n \in Limits : \A m \in Limits : m >= n]
  /\ cache = [v \in View |-> NoData]
  /\ fetch = [v \in View |-> IF v = view THEN Ask(v) ELSE NoFetch]
  /\ turns = 0

Submit ==
  /\ Len(status) < MaxTopups
  /\ status' = Append(status, "pending")
  /\ UNCHANGED <<match, view, cache, fetch, turns>>

Review(t) ==
  /\ status[t] = "pending"
  /\ \E s \in {"approved", "rejected"} :
       status' = [status EXCEPT ![t] = s]
  /\ UNCHANGED <<match, view, cache, fetch, turns>>

\* A view that is turned to is fetched, unless its fetch is still under way.
Turn(v) ==
  /\ turns < MaxTurns /\ turns' = turns + 1
  /\ view' = v
  /\ fetch' = [fetch EXCEPT ![Key(v)] = IF @ = NoFetch THEN Ask(v) ELSE @]
  /\ UNCHANGED <<status, match, cache>>

\* The search box, the status and the page size each go back to page 1.
ChooseStatus ==
  \E s \in Statuses \ {view.status} :
    Turn([view EXCEPT !.status = s, !.page = 1])

Type ==
  \E q \in Searches \ {view.q} : Turn([view EXCEPT !.q = q, !.page = 1])

ChooseLimit ==
  \E n \in Limits \ {view.limit} :
    Turn([view EXCEPT !.limit = n, !.page = 1])

Prev == /\ Shown # NoData /\ view.page > 1
        /\ Turn([view EXCEPT !.page = @ - 1])

NextPage == /\ Shown # NoData
            /\ view.page < TotalPages(Shown, view.limit)
            /\ Turn([view EXCEPT !.page = @ + 1])

\* The window is focused again, or a review of this page has succeeded.
Refetch ==
  /\ turns < MaxTurns /\ turns' = turns + 1
  /\ fetch[Key(view)] = NoFetch
  /\ fetch' = [fetch EXCEPT ![Key(view)] = Ask(view)]
  /\ UNCHANGED <<status, match, view, cache>>

\* getManyAndCount: the rows, then their number.
ReadRows(k) ==
  /\ fetch[k].at = "asked"
  /\ fetch' = [fetch EXCEPT ![k] = [at |-> "read", view |-> @.view,
                                   rows |-> Rows(@.view)]]
  /\ UNCHANGED <<status, match, view, cache, turns>>

Answered(k) ==
  /\ fetch[k].at = "read"
  /\ cache' = [cache EXCEPT ![k] = [rows |-> fetch[k].rows,
                                   total |-> Total(fetch[k].view)]]
  /\ fetch' = [fetch EXCEPT ![k] = NoFetch]
  /\ UNCHANGED <<status, match, view, turns>>

Environment == Submit \/ \E t \in Submitted : Review(t)
Controls == ChooseStatus \/ Type \/ ChooseLimit \/ Prev \/ NextPage
Fetching == \E k \in View : ReadRows(k) \/ Answered(k)
Next == Environment \/ Controls \/ Refetch \/ Fetching

Spec == Init /\ [][Next]_vars

\* The server answers what it is asked.
FairSpec == Spec /\ \A k \in View : WF_vars(ReadRows(k) \/ Answered(k))

-----------------------------------------------------------------------------
(* Properties                                                              *)

Answer == [rows : UNION {[1..n -> Row] : n \in 0..MaxTopups},
           total : 0..MaxTopups]

TopupSearchTypeOK ==
  /\ status \in Seq(Statuses) /\ Len(status) <= MaxTopups
  /\ match \in [Topups -> {"email", "txid", "no"}]
  /\ view \in View
  /\ \A k \in View : cache[k] \in Answer \cup {NoData}
  /\ \A k \in View : fetch[k].at \in {"none", "asked", "read"}
  /\ turns \in 0..MaxTurns

\* The rows on the page are of the status it says, whatever was turned to and
\* in whatever order the answers came.  A search breaks it: what matches by
\* its transaction id is found in any status.
RowsHaveStatus ==
  Shown # NoData =>
    \A i \in DOMAIN Shown.rows : Shown.rows[i].status = view.status

\* While nothing changes the pages share out what was found: each top-up is
\* on one page of those counted, and on no other.
EachOnOnePage ==
  \A s \in Statuses, q \in Searches, n \in Limits :
    LET v(p) == [status |-> s, q |-> q, page |-> p, limit |-> n]
        pages == 1..TotalPages([total |-> Total(v(1))], n)
        On(t, p) == \E i \in DOMAIN Rows(v(p)) : Rows(v(p))[i].id = t
    IN  \A t \in Found(v(1)) : Cardinality({p \in pages : On(t, p)}) = 1

\* "No requests." is said of a list that has none.
EmptyMeansNone ==
  Shown # NoData /\ Shown.rows = <<>> => Shown.total = 0

\* A view that is kept is loaded, whatever else is being fetched.
ViewLoads ==
  \A v \in View :
    (view = v /\ Shown = NoData) ~> (view # v \/ Shown # NoData)

=============================================================================
