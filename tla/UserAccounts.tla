---------------------------- MODULE UserAccounts ----------------------------
(***************************************************************************)
(* The users row, which holds the account status beside the credit         *)
(* balance, and its two kinds of writers in the admin service:             *)
(* adjustUserCredit, which goes through BalanceService.applyChange and     *)
(* leaves an audit row, and updateUserStatus / updateAccountStatus, which  *)
(* read the whole row, await, and save the whole row.                      *)
(***************************************************************************)
EXTENDS BalanceService, FiniteSets

CONSTANTS Calls,        \* admin requests, each served once
          Changes       \* amounts credited or debited

AccountStatuses == {"pending", "active", "rejected", "disabled"}

\* An admin_audits row of ADMIN_ADJUST_CREDIT.
AuditRow == [user : Users, change : Int, before : Int, after : Int]

UserAccountsAssumption == Changes \subseteq Nat \ {0}

VARIABLES status,   \* status[u]: users.status
          audits,   \* the audit rows written
          signedIn, \* customers with a refresh token that is not revoked
          call      \* call[c]: where call c stands and what it has read

uaVars == <<balance, ledger, status, audits, signedIn, call>>

CallStates ==
  [pc : {"idle", "done"}]
  \cup [pc : {"adjusting"}, user : Users, change : Int, before : Nat]
  \cup [pc : {"revoking"}, user : Users]
  \cup [pc : {"saving"}, user : Users, status : AccountStatuses, balance : Nat]

AccountsTypeOK ==
  /\ MoneyTypeOK
  /\ status \in [Users -> AccountStatuses]
  /\ audits \subseteq AuditRow
  /\ signedIn \subseteq Users
  /\ call \in [Calls -> CallStates]

AccountsInit ==
  /\ MoneyInit
  /\ status = [u \in Users |-> "active"]
  /\ audits = {}
  /\ signedIn = Users
  /\ call = [c \in Calls |-> [pc |-> "idle"]]

-----------------------------------------------------------------------------
Accept(c) == call[c].pc = "idle"

\* The calls being served.
Serving == {c \in Calls : call[c].pc \notin {"idle", "done"}}

Return(c) == call' = [call EXCEPT ![c] = [pc |-> "done"]]

\* adjustUserCredit opens a transaction and reads the balance, without a lock.
AdjustRead(c, u, change) ==
  /\ Accept(c)
  /\ call' = [call EXCEPT ![c] =
       [pc |-> "adjusting", user |-> u, change |-> change, before |-> balance[u]]]
  /\ UNCHANGED <<moneyVars, status, audits, signedIn>>

\* Faulty: the audit is committed whether or not the change was refused.
AdjustCommitAnyway(c) ==
  LET q == call[c] IN
  /\ q.pc = "adjusting"
  /\ IF balance[q.user] + q.change >= 0
     THEN ApplyChange(q.user, q.change, NoOrder)
     ELSE UNCHANGED moneyVars
  /\ audits' = audits \cup {[user |-> q.user, change |-> q.change, before |-> q.before,
                             after |-> balance'[q.user]]}
  /\ Return(c)
  /\ UNCHANGED <<status, signedIn>>

\* applyChange locks the row and changes the balance it then reads; the audit
\* row commits with it.  A debit not covered rolls both back.
AdjustCommit(c) ==
  LET q == call[c] IN
  /\ q.pc = "adjusting"
  /\ IF balance[q.user] + q.change >= 0
     THEN /\ ApplyChange(q.user, q.change, NoOrder)
          /\ audits' = audits \cup
               {[user |-> q.user, change |-> q.change, before |-> q.before,
                 after |-> balance[q.user] + q.change]}
     ELSE UNCHANGED <<moneyVars, audits>>
  /\ Return(c)
  /\ UNCHANGED <<status, signedIn>>

\* updateUserStatus, updateAccountStatus: read the row...
StatusRead(c, u, s) ==
  /\ Accept(c)
  /\ call' = [call EXCEPT ![c] =
       [pc |-> "saving", user |-> u, status |-> s, balance |-> balance[u]]]
  /\ UNCHANGED <<moneyVars, status, audits, signedIn>>

\* ...and save the entity: TypeORM writes every column that now differs from
\* the row, the balance among them.
StatusSave(c) ==
  LET q == call[c] IN
  /\ q.pc = "saving"
  /\ status' = [status EXCEPT ![q.user] = q.status]
  /\ balance' = [balance EXCEPT ![q.user] = q.balance]
  /\ call' = [call EXCEPT ![c] = [pc |-> "revoking", user |-> q.user]]
  /\ UNCHANGED <<ledger, audits, signedIn>>

\* ...then end the customer's sessions, in a statement of its own.
StatusRevoke(c) ==
  /\ call[c].pc = "revoking"
  /\ signedIn' = signedIn \ {call[c].user}
  /\ Return(c)
  /\ UNCHANGED <<moneyVars, status, audits>>

-----------------------------------------------------------------------------
AccountsNext ==
  \E c \in Calls :
     \/ \E u \in Users, a \in Changes : AdjustRead(c, u, a) \/ AdjustRead(c, u, 0 - a)
     \/ AdjustCommit(c)
     \/ \E u \in Users, s \in AccountStatuses : StatusRead(c, u, s)
     \/ StatusSave(c)
     \/ StatusRevoke(c)

AccountsSpec == AccountsInit /\ [][AccountsNext]_uaVars

-----------------------------------------------------------------------------
(***************************************************************************)
(* The audit of an adjustment agrees with a ledger row that was written    *)
(* with it: same customer, same change, same balance afterwards.           *)
(* (admin.service.ts:209-230: one transaction.)                            *)
(***************************************************************************)
AuditsMatchLedger ==
  \A a \in audits : \E i \in DOMAIN ledger[a.user] :
     ledger[a.user][i].amount = a.change /\ ledger[a.user][i].after = a.after

(***************************************************************************)
(* The before and after of an audit differ by the change.  before is read  *)
(* without a lock, so this holds only when calls do not overlap.           *)
(***************************************************************************)
AuditsAddUp == \A a \in audits : a.before + a.change = a.after
=============================================================================
