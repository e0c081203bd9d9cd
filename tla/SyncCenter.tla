----------------------------- MODULE SyncCenter -----------------------------
(***************************************************************************)
(* Who starts the carrier synchronisation, and what is kept of it: the     *)
(* process byeastside-sync.ts, which reads the settings when it starts and *)
(* then runs by its clock; AdminByeastsideService, which runs it for staff *)
(* and keeps a history; and the page admin/Byeastside.tsx, on which staff  *)
(* edit the settings, start runs and see the results.  CarrierSync has     *)
(* what a run does.                                                        *)
(*                                                                         *)
(* The process is started again whenever it ends (docker-compose.yml).  It *)
(* ends by itself when the settings it has read are disabled or have a     *)
(* schedule that is none.  BYEASTSIDE_RUN_ON_START is not set.  The page   *)
(* and the page size of the settings behave as the limit does.             *)
(***************************************************************************)
EXTENDS Integers, Sequences, FiniteSets

CONSTANTS Limits,       \* limits that staff enter
          MaxEdits,     \* bound on what is changed in the form
          MaxRuns,      \* bound on the runs
          Clock,        \* the process runs beside the page
          OthersWork,   \* other staff save settings and start runs
          WritesFail,   \* a row of the history may not be written
          AnswersLost,  \* the answer to a run may be lost
          None          \* null

SyncCenterAssumption == Limits \subseteq Nat \ {0} /\ Limits # {}

Crons == {"nightly", "nonsense"}
Setting == [cron : Crons, enabled : BOOLEAN, limit : Limits]
Form == [cron : Crons, enabled : BOOLEAN, limit : Limits \cup {0}]  \* 0: emptied
Runs == 1 .. MaxRuns
FormUsed == MaxEdits > 0          \* else nobody looks at the settings

VARIABLES setting,  \* the row of app_settings
          proc,     \* the process: where it is and the settings it has read
          run,      \* the runs, in the order in which they were started
          history,  \* the rows of the history, oldest first
          form,     \* the settings in the form
          known,    \* settingsQuery.data
          fetching, \* what a fetch of the settings has read
          saving,   \* the save under way: the form sent, then what was stored
          told,     \* what was last said of this form: "saved"; "unsure" if it
                    \* was typed in after the answer, or the answer came
                    \* while the settings were loading for the first time
          syncing,  \* the run that the page waits for
          shown,    \* lastResult: the run it is of
          edits

serverVars == <<setting, run, history>>
formVars == <<form, known, fetching, saving, told, edits>>
vars == <<serverVars, proc, formVars, syncing, shown>>

Points == {"running", "updated", "ok", "error"}
Run == [by : {"clock", "page", "other"}, limit : Limits, at : Points]

SyncCenterTypeOK ==
  /\ setting \in Setting
  /\ proc \in [pc : {"starting", "loaded", "scheduled", "ended"}, read : Setting]
  /\ run \in Seq(Run) /\ Len(run) <= MaxRuns
  /\ history \in Seq([run : Runs, ok : BOOLEAN])
  /\ form \in Form /\ known \in Setting \cup {None} /\ told \in {"nothing", "saved", "unsure"}
  /\ fetching = None \/ fetching.at = "asked" \/ fetching.value \in Setting
  /\ saving = None \/ saving.value \in Form
  /\ saving # None /\ saving.at # "sent" => saving.value \in Setting /\ saving.sure \in BOOLEAN
  /\ syncing \in Runs \cup {None} /\ shown \in Runs \cup {None}

Asked == [at |-> "asked"]
Default == [cron |-> "nightly", enabled |-> TRUE, limit |-> CHOOSE l \in Limits : \A k \in Limits : l <= k]

Init ==
  /\ setting \in IF FormUsed THEN Setting ELSE {Default}
  /\ proc = [pc |-> IF Clock THEN "starting" ELSE "ended", read |-> Default]
  /\ run = << >> /\ history = << >>
  /\ form = Default /\ known = None /\ fetching = IF FormUsed THEN Asked ELSE None
  /\ saving = None /\ told = "nothing" /\ edits = 0
  /\ syncing = None /\ shown = None

-----------------------------------------------------------------------------
(* A run                                                                   *)

\* What is missing, and an emptied field is, is taken from the settings.
LimitOf(l) == IF l = 0 THEN setting.limit ELSE l

StartRun(by, l) ==
  /\ Len(run) < MaxRuns
  /\ run' = Append(run, [by |-> by, limit |-> LimitOf(l), at |-> "running"])

Kept(r) == run[r].by # "clock"      \* the history has what staff start
Row(r, ok) == [run |-> r, ok |-> ok]

\* The carrier has answered and the orders are saved.
Update(r) ==
  /\ run[r].at = "running"
  /\ run' = [run EXCEPT ![r].at = IF Kept(r) THEN "updated" ELSE "ok"]
  /\ UNCHANGED <<setting, history, proc, formVars, syncing, shown>>

RunFails(r) ==
  /\ run[r].at = "running"
  /\ run' = [run EXCEPT ![r].at = "error"]
  /\ history' = IF Kept(r) THEN Append(history, Row(r, FALSE)) ELSE history
  /\ UNCHANGED <<setting, proc, formVars, syncing, shown>>

Record(r) ==
  /\ run[r].at = "updated"
  /\ history' = Append(history, Row(r, TRUE))
  /\ run' = [run EXCEPT ![r].at = "ok"]
  /\ UNCHANGED <<setting, proc, formVars, syncing, shown>>

FailureRow(r) == Append(history, Row(r, FALSE))

\* The row of a success is written inside the try, so that its failure makes
\* the row of a failure.
RecordFails(r) ==
  /\ WritesFail
  /\ run[r].at = "updated"
  /\ history' = FailureRow(r)
  /\ run' = [run EXCEPT ![r].at = "error"]
  /\ UNCHANGED <<setting, proc, formVars, syncing, shown>>

-----------------------------------------------------------------------------
(* The process                                                             *)

LoadSettings ==
  /\ proc.pc = "starting"
  /\ proc' = [pc |-> "loaded", read |-> setting]
  /\ UNCHANGED <<serverVars, formVars, syncing, shown>>

Schedulable(s) == s.enabled /\ s.cron # "nonsense"

\* Faulty: the process stays, without a schedule.
AfterLoadStaying(s) == IF Schedulable(s) THEN "scheduled" ELSE "loaded"

AfterLoad(s) == IF Schedulable(s) THEN "scheduled" ELSE "ended"

Schedule ==
  /\ proc.pc = "loaded"
  /\ proc' = [proc EXCEPT !.pc = AfterLoad(proc.read)]
  /\ UNCHANGED <<serverVars, formVars, syncing, shown>>

\* runOnce: the limit is read again, the schedule and the switch are not.
ClockStrikes ==
  /\ proc.pc = "scheduled"
  /\ StartRun("clock", 0)
  /\ UNCHANGED <<setting, history, proc, formVars, syncing, shown>>

Crash ==
  /\ proc.pc # "ended"
  /\ proc' = [proc EXCEPT !.pc = "ended"]
  /\ UNCHANGED <<serverVars, formVars, syncing, shown>>

\* restart: unless-stopped
Restart ==
  /\ Clock /\ proc.pc = "ended"
  /\ proc' = [proc EXCEPT !.pc = "starting"]
  /\ UNCHANGED <<serverVars, formVars, syncing, shown>>

-----------------------------------------------------------------------------
(* The settings, stored and in the form                                    *)

Stored(f) == [f EXCEPT !.limit = LimitOf(@)]

\* updateSettings.
Store ==
  /\ saving # None /\ saving.at = "sent"
  /\ setting' = Stored(saving.value)
  /\ saving' = [saving EXCEPT !.at = "stored", !.value = setting']
  /\ UNCHANGED <<run, history, proc, form, known, fetching, told, edits, syncing, shown>>

OtherStores(s) ==
  /\ OthersWork
  /\ setting' = s
  /\ UNCHANGED <<run, history, proc, formVars, syncing, shown>>

ReadSettings ==
  /\ fetching = Asked
  /\ fetching' = [at |-> "read", value |-> setting]
  /\ UNCHANGED <<serverVars, proc, form, known, saving, told, edits, syncing, shown>>

\* A save waits for the fetch after it.
WaitOver == IF saving # None /\ saving.at = "refreshing" THEN [saving EXCEPT !.at = "refreshed"] ELSE saving

\* Data that is equal to the data known starts no effect.
SettingsFetched ==
  /\ fetching # None /\ fetching.at = "read"
  /\ known' = fetching.value
  /\ form' = IF known = fetching.value THEN form ELSE fetching.value
  /\ fetching' = None
  /\ saving' = WaitOver
  /\ UNCHANGED <<serverVars, proc, told, edits, syncing, shown>>

Focus ==
  /\ FormUsed /\ fetching = None
  /\ fetching' = Asked
  /\ UNCHANGED <<serverVars, proc, form, known, saving, told, edits, syncing, shown>>

Edit(f) ==
  /\ edits < MaxEdits /\ f # form
  /\ form' = f /\ edits' = edits + 1 /\ told' = "nothing"
  /\ saving' = IF saving = None THEN None ELSE [saving EXCEPT !.sure = @ /\ saving.at \in {"sent", "stored"}]
  /\ UNCHANGED <<serverVars, proc, known, fetching, syncing, shown>>

Save ==
  /\ FormUsed /\ saving = None
  /\ saving' = [at |-> "sent", value |-> form, sure |-> TRUE]
  /\ UNCHANGED <<serverVars, proc, form, known, fetching, told, edits, syncing, shown>>

\* Faulty: the form is left as it was sent.
FormAfterAsSent(f) == form

\* The answer replaces the form, and with it what was typed meanwhile.
FormAfter(f) == f

Loading == known = None /\ fetching # None

\* onSuccess: invalidateQueries has the settings fetched again, but for the
\* first time it loads them, when it waits for the load under way.
Saved ==
  /\ saving # None /\ saving.at = "stored"
  /\ form' = FormAfter(saving.value)
  /\ saving' = [saving EXCEPT !.at = "refreshing", !.sure = ~Loading]
  /\ fetching' = IF Loading THEN fetching ELSE Asked
  /\ UNCHANGED <<serverVars, proc, known, told, edits, syncing, shown>>

SayItIsSaved ==
  /\ saving # None /\ saving.at = "refreshed"
  /\ told' = IF saving.sure THEN "saved" ELSE "unsure"
  /\ saving' = None
  /\ UNCHANGED <<serverVars, proc, form, known, fetching, edits, syncing, shown>>

-----------------------------------------------------------------------------
(* Runs started by staff                                                   *)

\* The quick buttons, and the one that takes the limit of the form.
Sync(l) ==
  /\ syncing = None
  /\ StartRun("page", l)
  /\ syncing' = Len(run')
  /\ UNCHANGED <<setting, history, proc, formVars, shown>>

OtherSync(l) ==
  /\ OthersWork
  /\ StartRun("other", l)
  /\ UNCHANGED <<setting, history, proc, formVars, syncing, shown>>

SyncAnswered ==
  /\ syncing # None /\ run[syncing].at \in {"ok", "error"}
  /\ shown' = IF run[syncing].at = "ok" THEN syncing ELSE shown
  /\ syncing' = None
  /\ UNCHANGED <<serverVars, proc, formVars>>

SyncLost ==
  /\ AnswersLost /\ syncing # None
  /\ syncing' = None
  /\ UNCHANGED <<serverVars, proc, formVars, shown>>

ResultOf(row) == IF row.ok THEN row.run ELSE None

\* The first page of the history, whose newest row is shown if nothing is yet.
HistoryFetched ==
  /\ shown = None /\ history # << >>
  /\ shown' = ResultOf(history[Len(history)])
  /\ UNCHANGED <<serverVars, proc, formVars, syncing>>

-----------------------------------------------------------------------------
Next ==
  \/ \E r \in DOMAIN run : Update(r) \/ RunFails(r) \/ Record(r) \/ RecordFails(r)
  \/ LoadSettings \/ Schedule \/ ClockStrikes \/ Crash \/ Restart
  \/ Store \/ ReadSettings \/ SettingsFetched \/ Focus \/ Save \/ Saved \/ SayItIsSaved
  \/ \E f \in Form : Edit(f)
  \/ \E s \in Setting : OtherStores(s)
  \/ \E l \in Limits \cup {form.limit} : Sync(l)
  \/ \E l \in Limits : OtherSync(l)
  \/ SyncAnswered \/ SyncLost \/ HistoryFetched

Spec == Init /\ [][Next]_vars

\* Docker starts the process again each time, and not every start is cut off.
FairSpec == Spec /\ SF_vars(LoadSettings) /\ SF_vars(Schedule) /\ WF_vars(Restart)

-----------------------------------------------------------------------------
(* Properties                                                              *)

\* Where nobody else saves, what the form shows once it is said to be saved is
\* what is stored, with the fields the server has filled in, whatever fetches
\* answer meanwhile (Byeastside.tsx:39-43, 57-63). The exceptions are what is
\* typed before it is said, and a save that is answered during the first load:
\* the load may bring the old settings to the form.
SavedIsStored == told = "saved" => form = setting

\* A run has at most one row in the history, and has it when it has ended.
OneRowPerRun ==
  /\ \A i, j \in DOMAIN history : history[i].run = history[j].run => i = j
  /\ \A i \in DOMAIN history : run[history[i].run].at \in {"ok", "error"}

\* The result shown is that of a run that has one (Byeastside.tsx:50-55, :73).
ShownHasResult == shown # None => run[shown].at = "ok"

\* Unless an answer is lost, the page has one run under way (Byeastside.tsx:247).
OnePageRun ==
  Cardinality({r \in DOMAIN run : run[r].by = "page" /\ run[r].at \in {"running", "updated"}}) <= 1

\* Settings that stay enabled, with a schedule, are scheduled again and again,
\* whatever was in them before (byeastside-sync.ts:90-98).
EnabledGetsScheduled ==
  <>[]Schedulable(setting) => []<>(proc.pc = "scheduled")

\* "Toggle auto scheduler" (Byeastside.tsx:170): no run by the clock starts
\* while the settings are disabled.
DisabledIsQuiet ==
  [][Len(run') > Len(run) /\ run'[Len(run')].by = "clock" => setting.enabled]_vars

\* "Persistent run history for Byeastside tracking sync." (Byeastside.tsx:291)
EveryRunInHistory ==
  \A r \in DOMAIN run : run[r].at \in {"ok", "error"} => \E i \in DOMAIN history : history[i].run = r

\* "Summary from the most recent sync run." (Byeastside.tsx:263)
LatestIsShown ==
  shown # None => \A r \in DOMAIN run : r > shown => run[r].at # "ok" \/ syncing = r

\* "Sync failed" (Byeastside.tsx:105) is said of a run that has not been done.
FailedChangedNothing ==
  [][\A r \in DOMAIN run : run[r].at = "updated" => run'[r].at # "error"]_vars
=============================================================================
