---------------------------- MODULE TopupClient ----------------------------
(***************************************************************************)
(* A customer buying credits in the browser: the pricing page opens a      *)
(* dialog for a package (PingPongTxIdModal), the dialog sends the id of a  *)
(* transfer, and the credit page shows the balance and the history of      *)
(* top-ups, two queries with a cache each.  Staff review the top-ups, and  *)
(* another customer may submit a transfer first; CreditTopups takes the    *)
(* reviews apart.                                                          *)
(*                                                                         *)
(* An answer can be lost before or after the server has handled the        *)
(* request; the router may leave a page whatever is under way on it.  A    *)
(* balance is the set of the top-ups it includes.                          *)
(***************************************************************************)
EXTENDS FiniteSets

CONSTANTS LeaveWhileLoading, \* the credit page may be left before it has loaded
          Packages,  \* keys of the packages on offer
          TxIds,     \* PingPong transaction ids, as trimmed
          None,      \* null
          Asked      \* what a fetch has read before the server answers it

Pending == "pending"
Row == [mine : BOOLEAN, pkg : Packages, status : {"pending", "approved", "rejected"}]
Errors == {"required", "exists", "lost"}

VARIABLES topups,    \* the server's rows, by transaction id
          page,      \* the page the router shows
          pkg,       \* the package the dialog is open for, or None
          txid,      \* the text field of the dialog, None when empty
          error,     \* the dialog's own error
          kept,      \* the error of its last mutation
          result,    \* the result dialog
          call,      \* the request the dialog waits for
          stray,     \* requests nobody waits for and the server has yet to read
          sent,      \* what Confirm was pressed with since the dialog opened
          told,      \* transfers said to be submitted
          shown,     \* what the credit page's two queries have cached
          asked      \* the fetches of the two: what each has read so far

dialogVars == <<pkg, txid, error, kept, result, call, stray, sent>>
pageVars == <<page, shown, asked>>
vars == <<topups, dialogVars, told, pageVars>>

Histories == [TxIds -> {"none", "pending", "approved", "rejected"}]

TopupClientTypeOK ==
  /\ topups \in [TxIds -> Row \cup {None}]
  /\ page \in {"pricing", "balance"}
  /\ pkg \in Packages \cup {None}
  /\ txid \in TxIds \cup {None}
  /\ error \in Errors \cup {None} /\ kept \in Errors \cup {None}
  /\ result \in {"success", "error", None}
  /\ call \in [txid : TxIds, pkg : Packages, at : {"sent", "created", "refused"}] \cup {None}
  /\ stray \in SUBSET [txid : TxIds, pkg : Packages]
  /\ sent \in SUBSET (TxIds \cup {None}) /\ told \in SUBSET TxIds
  /\ shown.balance \in (SUBSET TxIds) \cup {None}
  /\ shown.history \in Histories \cup {None}
  /\ asked.balance \in (SUBSET TxIds) \cup {None, Asked}
  /\ asked.history \in Histories \cup {None, Asked}
  /\ result # None => pkg # None
  /\ call # None => pkg # None /\ result = None

Init ==
  /\ topups = [x \in TxIds |-> None]
  /\ page = "pricing"
  /\ pkg = None /\ txid = None /\ error = None /\ kept = None /\ result = None
  /\ call = None /\ stray = {} /\ sent = {} /\ told = {}
  /\ shown = [balance |-> None, history |-> None]
  /\ asked = [balance |-> None, history |-> None]

-----------------------------------------------------------------------------
(* The server                                                              *)

Mine == {x \in TxIds : topups[x] # None /\ topups[x].mine}
Balance == {x \in Mine : topups[x].status = "approved"}
History == [x \in TxIds |-> IF x \in Mine THEN topups[x].status ELSE "none"]

\* createPingPongPackageTxIdTopup: the transaction id is unique.
Create(x, k) ==
  topups' = IF topups[x] = None
            THEN [topups EXCEPT ![x] = [mine |-> TRUE, pkg |-> k, status |-> Pending]]
            ELSE topups

\* Another customer submits the same transfer.
CreateByOther(x, k) ==
  /\ topups[x] = None
  /\ topups' = [topups EXCEPT ![x] = [mine |-> FALSE, pkg |-> k, status |-> Pending]]
  /\ UNCHANGED <<dialogVars, told, pageVars>>

Review(x, status) ==
  /\ topups[x] # None /\ topups[x].status = Pending
  /\ topups' = [topups EXCEPT ![x].status = status]
  /\ UNCHANGED <<dialogVars, told, pageVars>>

Handle ==
  /\ call # None /\ call.at = "sent"
  /\ Create(call.txid, call.pkg)
  /\ call' = [call EXCEPT !.at = IF topups[call.txid] = None THEN "created" ELSE "refused"]
  /\ UNCHANGED <<pkg, txid, error, kept, result, stray, sent, told, pageVars>>

HandleStray(c) ==
  /\ c \in stray
  /\ Create(c.txid, c.pkg)
  /\ stray' = stray \ {c}
  /\ UNCHANGED <<pkg, txid, error, kept, result, call, sent, told, pageVars>>

-----------------------------------------------------------------------------
(* The dialog                                                              *)

\* Opening it clears what the dialog itself holds, and not its mutation.
Buy(k) ==
  /\ page = "pricing" /\ pkg = None
  /\ pkg' = k
  /\ txid' = None /\ error' = None /\ result' = None
  /\ sent' = {}
  /\ UNCHANGED <<kept, call, stray, topups, told, pageVars>>

\* The field can be edited while the request is under way.
Type(x) ==
  /\ pkg # None /\ result = None
  /\ txid' = x
  /\ UNCHANGED <<pkg, error, kept, result, call, stray, sent, topups, told, pageVars>>

Fail(e) ==
  /\ error' = e /\ kept' = e
  /\ result' = "error"

Confirm ==
  /\ pkg # None /\ result = None /\ call = None
  /\ IF txid = None
     THEN /\ Fail("required")
          /\ UNCHANGED call
     ELSE /\ error' = None /\ kept' = None /\ result' = None
          /\ call' = [txid |-> txid, pkg |-> pkg, at |-> "sent"]
  /\ sent' = sent \cup {txid}
  /\ UNCHANGED <<pkg, txid, stray, topups, told, pageVars>>

Answered ==
  /\ call # None
  /\ \/ /\ call.at = "created"
        /\ result' = "success"
        /\ told' = told \cup {call.txid}
        /\ UNCHANGED <<error, kept>>
     \/ /\ call.at = "refused"
        /\ Fail("exists")
        /\ UNCHANGED told
  /\ call' = None
  /\ UNCHANGED <<pkg, txid, stray, sent, topups, pageVars>>

\* Whoever no longer waits for a request does not take it back.
Abandoned ==
  stray' = IF call # None /\ call.at = "sent"
           THEN stray \cup {[txid |-> call.txid, pkg |-> call.pkg]} ELSE stray

Lost ==
  /\ call # None
  /\ Fail("lost")
  /\ Abandoned
  /\ call' = None
  /\ UNCHANGED <<pkg, txid, sent, topups, told, pageVars>>

\* closeAll
CloseAll ==
  /\ pkg' = None /\ error' = None /\ result' = None
  /\ UNCHANGED <<txid, kept, call, stray, sent>>

\* The cross and Cancel.
Close ==
  /\ pkg # None /\ result = None /\ call = None
  /\ CloseAll
  /\ UNCHANGED <<topups, told, pageVars>>

\* Close, under a success.
Done ==
  /\ result = "success"
  /\ CloseAll
  /\ UNCHANGED <<topups, told, pageVars>>

\* Back and Try again, under a failure.
Back ==
  /\ result = "error"
  /\ result' = None
  /\ UNCHANGED <<pkg, txid, error, kept, call, stray, sent, topups, told, pageVars>>

-----------------------------------------------------------------------------
(* The pages                                                               *)

\* A mounted query is fetched again, its cached data being stale at once; a
\* fetch that is under way is shared.
MountBalance ==
  /\ page' = "balance"
  /\ asked' = [q \in DOMAIN asked |-> IF asked[q] = None THEN Asked ELSE asked[q]]
  /\ UNCHANGED shown

\* Go to credit history: closeAll and the page.
GoToHistory ==
  /\ result = "success"
  /\ CloseAll
  /\ MountBalance
  /\ UNCHANGED <<topups, told>>

\* The menu or the browser's Back: the pricing page unmounts with its dialog.
Leave ==
  /\ page = "pricing"
  /\ pkg' = None /\ txid' = None /\ error' = None /\ kept' = None /\ result' = None
  /\ Abandoned
  /\ call' = None /\ sent' = {}
  /\ MountBalance
  /\ UNCHANGED <<topups, told>>

\* A fetch that is under way goes on, and is found so when the page is back.
OpenPricing ==
  /\ page = "balance"
  /\ LeaveWhileLoading \/ \A q \in DOMAIN asked : asked[q] = None
  /\ page' = "pricing"
  /\ kept' = None
  /\ UNCHANGED <<pkg, txid, error, result, call, stray, sent, topups, told, shown, asked>>

\* Coming back to the window fetches the balance, and not the history
\* (refetchOnWindowFocus: false).
Focus ==
  /\ page = "balance" /\ asked.balance = None
  /\ asked' = [asked EXCEPT !.balance = Asked]
  /\ UNCHANGED <<dialogVars, topups, told, page, shown>>

\* The server reads the rows for a fetch.
ReadRows ==
  /\ \/ asked.balance = Asked /\ asked' = [asked EXCEPT !.balance = Balance]
     \/ asked.history = Asked /\ asked' = [asked EXCEPT !.history = History]
  /\ UNCHANGED <<dialogVars, topups, told, page, shown>>

Fetched(q) ==
  /\ asked[q] \notin {None, Asked}
  /\ shown' = [shown EXCEPT ![q] = asked[q]]
  /\ asked' = [asked EXCEPT ![q] = None]
  /\ UNCHANGED <<dialogVars, topups, told, page>>

-----------------------------------------------------------------------------
Next ==
  \/ \E x \in TxIds, k \in Packages : CreateByOther(x, k)
  \/ \E x \in TxIds, s \in {"approved", "rejected"} : Review(x, s)
  \/ Handle
  \/ \E c \in stray : HandleStray(c)
  \/ \E k \in Packages : Buy(k)
  \/ \E x \in TxIds \cup {None} : Type(x)
  \/ Confirm \/ Answered \/ Lost
  \/ Close \/ Done \/ Back
  \/ GoToHistory \/ Leave \/ OpenPricing \/ Focus
  \/ ReadRows
  \/ \E q \in {"balance", "history"} : Fetched(q)

Spec == Init /\ [][Next]_vars

-----------------------------------------------------------------------------
(* Properties                                                              *)

(***************************************************************************)
(* "Submitted successfully" is shown over the package whose transfer was   *)
(* submitted from this very dialog, and the server has it, whatever the    *)
(* field was changed to meanwhile (PingPongTxIdModal.tsx:46-58).           *)
(***************************************************************************)
SuccessIsTrue ==
  result = "success" =>
    \E x \in sent \cap told : x \in Mine /\ topups[x].pkg = pkg

(***************************************************************************)
(* What a customer was told to be submitted is in the credit history once  *)
(* the page has loaded, also when the page was cached before               *)
(* (Balance.tsx:42-46), if the page is only left once it has loaded: else  *)
(* a fetch from before the top-up answers after it, and the page can say   *)
(* "No credit history yet."                                                *)
(***************************************************************************)
ToldIsListed ==
  page = "balance" /\ asked.history = None =>
    \A x \in told : shown.history[x] # "none"

(***************************************************************************)
(* What the title of the result dialog says (PingPongTxIdModal.tsx:221,    *)
(* "Submit failed"): the transfer was not submitted.  It may have been, by *)
(* the request whose answer was lost, and Try again is then refused.       *)
(***************************************************************************)
FailedIsNotSubmitted ==
  result = "error" => sent \cap Mine \subseteq told

(***************************************************************************)
(* What the error under the field says (PingPongTxIdModal.tsx:49,          *)
(* "Transaction ID is required"): Confirm was pressed without one.  The    *)
(* error of the last mutation outlives the dialog it was made in, and is   *)
(* shown when the dialog has none of its own (PingPongTxIdModal.tsx:122).  *)
(***************************************************************************)
RequiredWasMissing ==
  pkg # None /\ (IF error # None THEN error ELSE kept) = "required" => None \in sent

(***************************************************************************)
(* What the credit page says (Balance.tsx:75, "Credits will be added after *)
(* admin confirmation"): the balance it shows has the credits of the       *)
(* top-ups it shows as confirmed, and of no other.                         *)
(***************************************************************************)
HistoryIsBalance ==
  page = "balance" /\ asked = [balance |-> None, history |-> None] =>
    shown.balance = {x \in TxIds : shown.history[x] = "approved"}
=============================================================================
