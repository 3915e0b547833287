------------------------------ MODULE Scheduler ------------------------------
(***************************************************************************)
(* The agent's own activity (maip-agent/src/scheduler.ts,                  *)
(* reflection-engine.ts and the aggregator of data-interfaces.ts): tasks   *)
(* on timers, gathering that feeds reflection, thoughts that come of it.   *)
(*                                                                         *)
(* A timer does not wait for the run it started before: runs of one task   *)
(* overlap, and outlive the stop of their task.                            *)
(*                                                                         *)
(* Abstracted: a subject is two topics that occur together, and ripe for a *)
(* thought once they have done so twice.  Opinions come of sentiments in   *)
(* the same way; they, the synthesizer's own thoughts and the queue of     *)
(* questions are left out.  The aggregator reads a failing feed as empty.  *)
(***************************************************************************)
EXTENDS Naturals, FiniteSets

CONSTANTS Subjects,
          Synthesizer,    \* whether reflection awaits a model
          MaxStarts,      \* bound: starts of tasks
          MaxFirings      \* bound: runs of tasks

ASSUME SchedulerAssumption ==
  Synthesizer \in BOOLEAN /\ MaxStarts \in Nat /\ MaxFirings \in Nat

VARIABLES timers,       \* the tasks with a timer
          taskStatus,   \* the latest status of each task
          handlers,     \* the runs under way
          evidence,     \* contentLog and topics
          thoughts,     \* how many thoughts there are about a subject
          firings,
          starts,
          fired,        \* history: runs and failures since a task was started
          overlapped    \* history: a reflection began during another

schedulerVars == <<timers, taskStatus, handlers, evidence, thoughts, firings, starts, fired, overlapped>>

Tasks == {"reflection", "gather", "content", "backup"}
Names == Tasks \cup {"unknown"}
NoStatus == [since |-> 0, running |-> FALSE, runCount |-> 0, lastError |-> FALSE]

SchedulerInit ==
  /\ timers = {}
  /\ taskStatus = [t \in Names |-> NoStatus]
  /\ handlers = {}
  /\ evidence = [s \in Subjects |-> 0]
  /\ thoughts = [s \in Subjects |-> 0]
  /\ firings = 0 /\ starts = 0
  /\ fired = [t \in Tasks |-> [runs |-> 0, failed |-> 0]]
  /\ overlapped = FALSE

-----------------------------------------------------------------------------
(* Starting and stopping. *)

\* An unknown name gets a status that says it runs, and no timer.
StartTask(t) ==
  /\ starts < MaxStarts
  /\ t \notin timers
  /\ starts' = starts + 1
  /\ taskStatus' = [taskStatus EXCEPT ![t] = [NoStatus EXCEPT !.since = starts + 1, !.running = TRUE]]
  /\ timers' = timers \cup ({t} \cap Tasks)
  /\ fired' = [n \in Tasks |-> IF n = t THEN [runs |-> 0, failed |-> 0] ELSE fired[n]]
  /\ UNCHANGED <<handlers, evidence, thoughts, firings, overlapped>>

\* stopTask, and stopAll for all that have a timer: runs under way go on.
Stop(names) ==
  /\ timers' = timers \ names
  /\ taskStatus' = [t \in Names |->
       IF t \in names THEN [taskStatus[t] EXCEPT !.running = FALSE] ELSE taskStatus[t]]
  /\ UNCHANGED <<handlers, evidence, thoughts, firings, starts, fired, overlapped>>

-----------------------------------------------------------------------------
(* Runs. *)

\* A status after one more run.
Ran(s, ok) == [s EXCEPT !.runCount = IF ok THEN @ + 1 ELSE @, !.lastError = ~ok]

\* Mutation: a run counts for the status its task has when it ends.
FinishedLatest(run, ok) == [taskStatus EXCEPT ![run.task] = Ran(@, ok)]

\* The timer's function holds on to the status of its own start.
Finished(run, ok) ==
  IF run.since = 0 \/ run.since # taskStatus[run.task].since
  THEN taskStatus
  ELSE [taskStatus EXCEPT ![run.task] = Ran(@, ok)]

Run(t, since, about) == [id |-> firings + 1, task |-> t, since |-> since, about |-> about]

Counted(t, since) ==
  /\ firings < MaxFirings
  /\ firings' = firings + 1
  /\ fired' = IF since = 0 THEN fired ELSE [fired EXCEPT ![t].runs = @ + 1]
  /\ UNCHANGED <<timers, starts>>

\* A task with a timer runs for the status of its start; triggerReflection and
\* triggerGather run for none.
Sinces(t) ==
  (IF t \in timers THEN {taskStatus[t].since} ELSE {})
    \cup (IF t \in {"reflection", "gather"} THEN {0} ELSE {})

Begin(run) == handlers' = handlers \cup {run} /\ UNCHANGED <<taskStatus, evidence, thoughts>>

\* Mutation: a subject is thought about again each time it is ripe.
RipeAgain == {s \in Subjects : evidence[s] >= 2}

\* What reflect() finds to think about: what it has no thought about yet.
Ripe == {s \in Subjects : evidence[s] >= 2 /\ thoughts[s] = 0}

ThoughtsWith(about) == [s \in Subjects |-> IF s \in about THEN thoughts[s] + 1 ELSE thoughts[s]]

Reflecting == {h \in handlers : h.task = "reflection"}
Awaits == Synthesizer /\ \E s \in Subjects : evidence[s] > 0

\* reflect(), up to the synthesizer: its thoughts are not yet among the thoughts.
BeginReflection(since) ==
  /\ Awaits
  /\ Counted("reflection", since)
  /\ Begin(Run("reflection", since, Ripe))
  /\ overlapped' = (overlapped \/ Reflecting # {})

\* ... and without one, in one step.
ReflectAtOnce(since) ==
  /\ ~Awaits
  /\ Counted("reflection", since)
  /\ thoughts' = ThoughtsWith(Ripe)
  /\ taskStatus' = Finished(Run("reflection", since, {}), TRUE)
  /\ UNCHANGED <<handlers, evidence, overlapped>>

BeginGather(since) ==
  /\ Counted("gather", since)
  /\ Begin(Run("gather", since, {}))
  /\ UNCHANGED overlapped

\* The content and the backup task only emit an event.
Emit(t) ==
  /\ t \in {"content", "backup"} \cap timers
  /\ Counted(t, taskStatus[t].since)
  /\ taskStatus' = Finished(Run(t, taskStatus[t].since, {}), TRUE)
  /\ UNCHANGED <<handlers, evidence, thoughts, overlapped>>

Ended(run) == handlers' = handlers \ {run} /\ UNCHANGED <<timers, firings, starts, overlapped>>

EndReflection(run) ==
  /\ run \in Reflecting
  /\ thoughts' = ThoughtsWith(run.about)
  /\ taskStatus' = Finished(run, TRUE)
  /\ Ended(run)
  /\ UNCHANGED <<evidence, fired>>

\* The synthesizer throws: the thoughts found before are lost with it.
FailReflection(run) ==
  /\ run \in Reflecting
  /\ taskStatus' = Finished(run, FALSE)
  /\ fired' = IF run.since = 0 \/ run.since # taskStatus[run.task].since THEN fired
              ELSE [fired EXCEPT ![run.task].failed = @ + 1]
  /\ Ended(run)
  /\ UNCHANGED <<evidence, thoughts>>

EvidenceWith(found) ==
  [s \in Subjects |-> IF s \in found /\ evidence[s] < 2 THEN evidence[s] + 1 ELSE evidence[s]]

\* What was gathered goes to the reflection engine.
EndGather(run, found) ==
  /\ run \in handlers \ Reflecting
  /\ evidence' = EvidenceWith(found)
  /\ taskStatus' = Finished(run, TRUE)
  /\ Ended(run)
  /\ UNCHANGED <<thoughts, fired>>

\* recordContent, called by the agent itself.
RecordContent(s) ==
  /\ evidence' = EvidenceWith({s})
  /\ UNCHANGED <<timers, taskStatus, handlers, thoughts, firings, starts, fired, overlapped>>

-----------------------------------------------------------------------------
SchedulerNext ==
  \/ \E t \in Names : StartTask(t)
  \/ \E names \in {{t} : t \in Names} \cup {timers} : Stop(names)
  \/ \E since \in Sinces("reflection") : BeginReflection(since) \/ ReflectAtOnce(since)
  \/ \E since \in Sinces("gather") : BeginGather(since)
  \/ \E t \in Tasks : Emit(t)
  \/ \E run \in handlers : EndReflection(run) \/ FailReflection(run)
  \/ \E run \in handlers, found \in SUBSET Subjects : EndGather(run, found)
  \/ \E s \in Subjects : RecordContent(s)

-----------------------------------------------------------------------------
(* Properties. *)

SchedulerTypeOK ==
  /\ timers \subseteq Tasks
  /\ taskStatus \in [Names -> [since : 0..starts, running : BOOLEAN, runCount : 0..firings,
                               lastError : BOOLEAN]]
  /\ \A t \in Tasks : t \in timers <=> taskStatus[t].running
  /\ handlers \subseteq [id : 1..firings, task : {"reflection", "gather"}, since : 0..starts,
                         about : SUBSET Subjects]
  /\ evidence \in [Subjects -> 0..2] /\ thoughts \in [Subjects -> Nat]

\* The status of a task counts the runs since its start and no others: a run
\* that outlives a stop and a new start does not count for the new one
\* (AgentScheduler.startTask).
CountsOwnRuns ==
  \A t \in Tasks : taskStatus[t].since > 0 =>
    LET own == {h \in handlers : h.task = t /\ h.since = taskStatus[t].since}
    IN  taskStatus[t].runCount + fired[t].failed + Cardinality(own) = fired[t].runs

\* The engine thinks twice about one subject only if one reflection began while
\* another awaited its synthesizer (ReflectionEngine.reflect).
RepeatsNeedOverlap == \A s \in Subjects : thoughts[s] > 1 => overlapped

=============================================================================
