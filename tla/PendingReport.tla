---------------------------- MODULE PendingReport ----------------------------
(***************************************************************************)
(* One run of telegram-pending-report.ts, which tells a Telegram group     *)
(* every evening which orders are pending: it finds the group, reads the   *)
(* orders, cuts the list into messages, and sends them one after another.  *)
(* Each message is tried a few times, with a limit on the time of a try,   *)
(* so that a message that arrived is sent again when its answer is late.   *)
(*                                                                         *)
(* Lengths are in units of the instance; that of a line is what the order, *)
(* the address and the amount make of it.                                  *)
(***************************************************************************)
EXTENDS Integers, Sequences, FiniteSets, SequencesExt

CONSTANTS N,          \* orders, numbered as they were created
          Lengths,    \* lengths a line can have
          Frame,      \* header and footer
          Title,      \* the title of a part
          MaxLength,  \* TELEGRAM_MAX_MESSAGE_LENGTH
          Retries,    \* TELEGRAM_SEND_RETRIES
          Groups,     \* groups that the bot is in
          None        \* no group is configured, or was found

PendingReportAssumption == Retries \in Nat \ {0} /\ Lengths \subseteq Nat

Orders == 1 .. N
MaxDelivered == (N + 1) * Retries    \* never reached: it bounds the variable

VARIABLES pending,    \* the orders that are pending
          line,       \* the length of the line of an order
          configured, \* TELEGRAM_CHAT_ID
          updates,    \* where the bot was written to, oldest first
          pc, target, read, messages, part, attempt,
          delivered   \* the parts that have arrived, with the group

envVars == <<line, configured, updates>>
vars == <<pending, envVars, pc, target, read, messages, part, attempt, delivered>>

PendingReportTypeOK ==
  /\ pending \in SUBSET Orders
  /\ line \in [Orders -> Lengths]
  /\ pc \in {"target", "orders", "sending", "ended", "failed"}
  /\ target \in Groups \cup {None}
  /\ read \in Seq(Orders) /\ messages \in Seq(Seq(Orders))
  /\ part \in Nat /\ attempt \in 1 .. Retries
  /\ pc = "sending" => part \in DOMAIN messages /\ target # None
  /\ delivered \in Seq([part : DOMAIN messages, to : Groups])

Init ==
  /\ pending \in SUBSET Orders
  /\ line \in [Orders -> Lengths]
  /\ configured \in Groups \cup {None}
  /\ updates \in UNION {[1 .. n -> Groups] : n \in 0 .. 2}
  /\ pc = "target" /\ target = None
  /\ read = << >> /\ messages = << >> /\ part = 1 /\ attempt = 1
  /\ delivered = << >>

-----------------------------------------------------------------------------
(* The messages                                                            *)

LinesLength(chunk) == FoldLeft(LAMBDA n, o : n + line[o], 0, chunk)

\* A line that does not fit begins a chunk; a chunk has a line at least.
AddLine(acc, o) ==
  IF Frame + LinesLength(Append(acc.chunk, o)) > MaxLength /\ acc.chunk # << >>
  THEN [chunks |-> Append(acc.chunks, acc.chunk), chunk |-> <<o>>]
  ELSE [acc EXCEPT !.chunk = Append(@, o)]

\* buildMessages: the lines of each message; without orders one message says so.
Messages(orders) ==
  LET acc == FoldLeft(AddLine, [chunks |-> << >>, chunk |-> << >>], orders)
  IN Append(acc.chunks, acc.chunk)

LengthOf(m) == Frame + LinesLength(m) + (IF Len(messages) > 1 THEN Title ELSE 0)

-----------------------------------------------------------------------------
(* The run                                                                 *)

Fail == pc' = "failed" /\ UNCHANGED <<target, read, messages, part, attempt, delivered>>

\* resolveTelegramTarget: the configured group, or the one last written in.
FindTarget ==
  LET found == IF configured # None THEN configured
               ELSE IF updates # << >> THEN Last(updates) ELSE None
  IN /\ pc = "target"
     /\ IF found = None THEN Fail
        ELSE /\ target' = found /\ pc' = "orders"
             /\ UNCHANGED <<read, messages, part, attempt, delivered>>
     /\ UNCHANGED <<pending, envVars>>

FetchOrders ==
  /\ pc = "orders"
  /\ read' = SetToSortSeq(pending, <)
  /\ messages' = Messages(read')
  /\ pc' = "sending"
  /\ UNCHANGED <<pending, envVars, target, part, attempt, delivered>>

\* A part that has failed for good ends the run.
GiveUp == pc' = "failed" /\ UNCHANGED <<part, attempt>>

\* Faulty: the tries are not counted.
RetryForever == UNCHANGED <<pc, part, attempt>>

Retry ==
  IF attempt >= Retries THEN GiveUp
  ELSE attempt' = attempt + 1 /\ UNCHANGED <<pc, part>>

Arrives == delivered' = Append(delivered, [part |-> part, to |-> target])

NextPart ==
  IF part < Len(messages)
  THEN part' = part + 1 /\ attempt' = 1 /\ UNCHANGED pc
  ELSE pc' = "ended" /\ UNCHANGED <<part, attempt>>

Send(arrives, answered) ==
  /\ pc = "sending"
  /\ answered => arrives
  /\ arrives => Len(delivered) < MaxDelivered
  /\ IF arrives THEN Arrives ELSE UNCHANGED delivered
  /\ IF answered THEN NextPart ELSE Retry
  /\ UNCHANGED <<pending, envVars, target, read, messages>>

\* The orders change while the report is being sent.
OrdersChange(o) ==
  /\ pc \in {"orders", "sending"}
  /\ o \in pending
  /\ pending' = pending \ {o}
  /\ UNCHANGED <<envVars, pc, target, read, messages, part, attempt, delivered>>

Run == FindTarget \/ FetchOrders \/ \E arrives, answered \in BOOLEAN : Send(arrives, answered)

Next == Run \/ \E o \in Orders : OrdersChange(o)

Spec == Init /\ [][Next]_vars

\* A try is answered, or cut off by its timer, and the process goes on.
FairSpec == Spec /\ WF_vars(Run)

-----------------------------------------------------------------------------
(* Properties                                                              *)

\* The messages are the orders that were read, each once and in their order
\* (telegram-pending-report.ts:104-116).
EveryOrderOnce == FlattenSeq(messages) = read

\* Without the title of a part, a message is too long only if it is one line
\* (telegram-pending-report.ts:105-106).
LongOnlyAlone ==
  \A i \in DOMAIN messages :
    Frame + LinesLength(messages[i]) > MaxLength => Len(messages[i]) <= 1

\* The parts arrive in their order and none is left out; a part arrives again
\* only as often as it is tried.
PartsInOrder ==
  /\ \A i \in DOMAIN delivered :
       delivered[i].part <= 1 + (IF i = 1 THEN 0 ELSE delivered[i - 1].part)
  /\ \A i, j \in DOMAIN delivered : i < j => delivered[i].part <= delivered[j].part
  /\ \A p \in DOMAIN messages : Cardinality({i \in DOMAIN delivered : delivered[i].part = p}) <= Retries

\* A run that ends well has delivered the whole list, to one group.
EndedIsComplete ==
  pc = "ended" => \A p \in DOMAIN messages :
                    \E i \in DOMAIN delivered : delivered[i] = [part |-> p, to |-> target]

\* A run ends, whatever Telegram does (telegram-pending-report.ts:139-164).
RunEnds == <>(pc \in {"ended", "failed"})

\* TELEGRAM_MAX_MESSAGE_LENGTH (telegram-pending-report.ts:6): a message of
\* several lines is not longer.
WithinMaximum ==
  \A i \in DOMAIN messages : Len(messages[i]) > 1 => LengthOf(messages[i]) <= MaxLength
=============================================================================
