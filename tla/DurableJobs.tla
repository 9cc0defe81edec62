---------------------------- MODULE DurableJobs ----------------------------
(***************************************************************************)
(* The agent's durable-job engine (src/internal/jobs): for every job a     *)
(* manifest and a signed append-only log on disk, a lease that one         *)
(* controller holds, and one transient systemd unit per attempt of a step. *)
(*                                                                         *)
(* The Manager's mutex serialises the operations, so at most one is under  *)
(* way.  An operation decides everything it will write when it starts and  *)
(* then performs the writes one at a time: each store.Append is a log line *)
(* (fsynced) followed by a manifest save (atomic), and a failed write, a   *)
(* crash or a power cut can stop it between any two of them.  What runs    *)
(* beside an operation is the units, the clock and the crashes.            *)
(*                                                                         *)
(* Load's repair and restoreTrailing open every Lease, Advance, Decide and *)
(* Reconcile.  They are the actions Adopt, Refold, Reapply and             *)
(* AppendTrailing; an operation is enabled only on a job that needs none   *)
(* of them, so they are never optional, and writing them apart from the    *)
(* operation that runs them first changes no order of writes.              *)
(***************************************************************************)
EXTENDS Integers, Sequences

CONSTANTS
  Job,            \* job ids (joblog.JobIDFor: one per creating intent)
  Controller,     \* controllers the box's policy enrols
  NSteps,         \* steps of the plan
  AskKey,         \* keys of the questions a step may ask
  MaxAttempt,     \* the largest attempt a unit name holds (9999)
  AttemptBound,   \* bound: no retry past this attempt
  LogBound,       \* bound: no request on a job whose log is this long
  MaxFaults,      \* bound: how many faults a behaviour has
  Fault,          \* the kinds of fault that happen (see FaultKind)
  NoJob, NoOne, NoUnit, NoQuestion, NoAnswer

FaultKind == {"crash", "fail", "powercut", "kill", "start", "vanish",
              "tear", "abandon", "replan"}

ASSUME ConstantsOK ==
  /\ NSteps \in Nat \ {0}
  /\ MaxAttempt \in Nat
  /\ AttemptBound \in Nat
  /\ LogBound \in Nat
  /\ MaxFaults \in Nat
  /\ Fault \subseteq FaultKind
  /\ AskKey \cap {"none", "ok", "failed", "lost"} = {}
  /\ NoJob \notin Job

Step    == 0 .. NSteps - 1
Attempt == 0 .. AttemptBound
Unit    == Step \X Attempt                    \* UnitName(id, step, attempt)
Key     == AskKey \cup {"failed", "lost"}
Question == [step : Step, attempt : Attempt, key : Key]
Option  == {"retry", "go", "abort"}
Answer  == [q : Question, option : Option]
State   == {"waiting", "running", "needs-decision",
            "succeeded", "failed", "aborted"}
Outcome == AskKey \cup {"ok", "failed", "lost"}

\* What stands for an absent lease holder or answer is not one.
ASSUME AbsentOK == NoOne \notin Controller /\ NoAnswer \notin Answer

\* A result file: absent, or how the step ended.
Result == {"none", "ok", "failed"} \cup AskKey

Manifest ==
  [state    : State,
   step     : 0 .. NSteps,
   attempt  : Attempt,
   unit     : Unit \cup {NoUnit},
   question : Question \cup {NoQuestion},
   answer   : Answer \cup {NoAnswer},
   creator  : Controller \cup {NoOne},
   owner    : Controller \cup {NoOne},        \* lease
   fresh    : BOOLEAN,                        \* LeaseFresh(now)
   loglen   : Nat]

OutcomeKind == {"step.finished", "step.lost"}
LeaseKind   == {"lease.taken", "lease.released"}
EntryKind   == OutcomeKind \cup LeaseKind \cup
  {"job.created", "intent", "step.started",
   "decision.asked", "decision.answered", "job.finished"}
IntentOutcome == {"lease take", "lease release", "advance", "decide"}

Entry ==
  [kind : EntryKind,
   unit : Unit \cup {NoUnit},
   q    : Question \cup {NoQuestion},
   who  : Controller \cup {NoOne},
   out  : {"-", "ok", "failed"} \cup IntentOutcome \cup Option \cup State]

Write == [entry : Entry, man : Manifest]      \* one store.Append

VARIABLES
  file,      \* Job -> absent | present | orphan (no manifest) | gone
  man,       \* Job -> the manifest on disk
  log,       \* Job -> the log on disk
  torn,      \* Job -> the log ends with a line that does not parse
  active,    \* Job -> units systemd reports active
  begun,     \* Job -> units whose step has begun to act (history)
  results,   \* Job -> Unit -> result file
  lock,      \* the job of the operation under way, or NoJob
  todo,      \* the Appends it still has to make
  up,        \* the agent runs, with the jobs directory open
  knows,     \* this build of the agent knows the jobs' plan
  faults     \* faults so far

disk  == <<file, man, log, torn>>
units == <<active, begun, results>>
vars  == <<file, man, log, torn, active, begun, results,
           lock, todo, up, knows, faults>>

---------------------------------------------------------------------------
(* Entries *)

Blank(kind) == [kind |-> kind, unit |-> NoUnit, q |-> NoQuestion,
                who |-> NoOne, out |-> "-"]

Created(c)     == [Blank("job.created") EXCEPT !.who = c]
Intent(c, op)  == [Blank("intent") EXCEPT !.who = c, !.out = op]
Taken(c)       == [Blank("lease.taken") EXCEPT !.who = c]
Released       == Blank("lease.released")
Started(u)     == [Blank("step.started") EXCEPT !.unit = u]
Asked(q)       == [Blank("decision.asked") EXCEPT !.q = q]
Answered(q, c, opt) ==
  [Blank("decision.answered") EXCEPT !.q = q, !.who = c, !.out = opt]
Finished(st)   == [Blank("job.finished") EXCEPT !.out = st]

\* Mutant: the question's key is logged where the entry says ok.
EndedVerbatim(u, out) ==
  IF out = "lost" THEN [Blank("step.lost") EXCEPT !.unit = u]
  ELSE [Blank("step.finished") EXCEPT !.unit = u, !.out = out]

\* The entry readOutcome calls for: OK is true for a step that asks, too.
Ended(u, out) ==
  IF out = "lost" THEN [Blank("step.lost") EXCEPT !.unit = u]
  ELSE [Blank("step.finished") EXCEPT
          !.unit = u, !.out = IF out = "failed" THEN "failed" ELSE "ok"]

---------------------------------------------------------------------------
(* Manifests *)

Terminal(m) == m.state \in {"succeeded", "failed", "aborted"}

\* A new job is waiting at its first step and is its creator's to drive.
NewManifest(c) ==
  [state |-> "waiting", step |-> 0, attempt |-> 0, unit |-> NoUnit,
   question |-> NoQuestion, answer |-> NoAnswer, creator |-> c,
   owner |-> c, fresh |-> (c # NoOne), loglen |-> 0]

Renewed(m)  == [m EXCEPT !.fresh = TRUE]
TakenBy(m, c) == [m EXCEPT !.owner = c, !.fresh = TRUE]
ReleasedLease(m) == [m EXCEPT !.owner = NoOne, !.fresh = FALSE]

Running(m)  == [m EXCEPT !.state = "running", !.unit = <<m.step, m.attempt>>]

\* setQuestion: the job stops at the question key of its standing attempt.
SetQuestion(m, key) ==
  [m EXCEPT !.state = "needs-decision", !.unit = NoUnit,
            !.question = [step |-> m.step, attempt |-> m.attempt, key |-> key]]

\* Mutant: a step that failed is attempted again without asking.
SettleRetries(m, out) ==
  IF out = "ok"
  THEN [m EXCEPT !.step = m.step + 1, !.attempt = 0, !.answer = NoAnswer,
                 !.unit = NoUnit,
                 !.state = IF m.step + 1 = NSteps THEN "succeeded" ELSE "waiting"]
  ELSE [m EXCEPT !.attempt = m.attempt + 1, !.unit = NoUnit, !.state = "waiting"]

\* settle: a step that succeeded moves the job on, any other end asks.
Settle(m, out) ==
  IF out = "ok"
  THEN [m EXCEPT !.step = m.step + 1, !.attempt = 0, !.answer = NoAnswer,
                 !.unit = NoUnit,
                 !.state = IF m.step + 1 = NSteps THEN "succeeded" ELSE "waiting"]
  ELSE SetQuestion(m, out)

\* Mutant: the answer's step runs again as the attempt it already was.
DecideSameAttempt(m, opt) ==
  IF opt = "abort"
  THEN [m EXCEPT !.question = NoQuestion, !.state = "aborted"]
  ELSE [m EXCEPT !.question = NoQuestion, !.state = "waiting",
                 !.answer = [q |-> m.question, option |-> opt]]

\* Mutant: the answer of the attempt before is kept.
DecideKeepsAnswer(m, opt) ==
  IF opt = "abort"
  THEN [m EXCEPT !.question = NoQuestion, !.state = "aborted"]
  ELSE [m EXCEPT !.question = NoQuestion, !.state = "waiting",
                 !.attempt = m.attempt + 1]

\* decideState: abort ends the job, any other option is the next attempt's.
DecideState(m, opt) ==
  IF opt = "abort"
  THEN [m EXCEPT !.question = NoQuestion, !.state = "aborted"]
  ELSE [m EXCEPT !.question = NoQuestion, !.state = "waiting",
                 !.answer = [q |-> m.question, option |-> opt],
                 !.attempt = m.attempt + 1]

Options(q) == IF q.key \in {"failed", "lost"} THEN {"retry", "abort"}
              ELSE {"go", "abort"}

---------------------------------------------------------------------------
(* The log against the manifest *)

Last(j) == log[j][Len(log[j])]

\* The log is one entry ahead of its manifest: an Append not yet saved.
Ahead(j) == Len(log[j]) = man[j].loglen + 1

\* loggedOwner: the creator, then each lease.taken and lease.released in turn.
LoggedOwner(m, l) ==
  LET leases == {i \in DOMAIN l : l[i].kind \in LeaseKind}
      latest == CHOOSE i \in leases : \A k \in leases : k <= i
  IN  IF leases = {} THEN m.creator
      ELSE IF l[latest].kind = "lease.taken" THEN l[latest].who ELSE NoOne

\* foldedEntry: the log ends with the outcome of the running attempt.
Folded(j) ==
  /\ man[j].state = "running"
  /\ log[j] # <<>>
  /\ Last(j).kind \in OutcomeKind
  /\ Last(j).unit = man[j].unit

\* The log ends with the answer to the question still open.
AnswerLogged(j) ==
  /\ man[j].state = "needs-decision"
  /\ log[j] # <<>>
  /\ Last(j).kind = "decision.answered"
  /\ Last(j).q = man[j].question

\* The second half of a change, still unlogged after its first half, last.
AskUnlogged(m, last) ==
  /\ last.kind \in OutcomeKind
  /\ m.state = "needs-decision"
  /\ m.question.step = last.unit[1]

\* Mutant: any finished job whose log does not end so lacks its last entry.
EndUnloggedAnywhere(m, last) == Terminal(m) /\ last.kind # "job.finished"

EndUnlogged(m, last) ==
  \/ last.kind \in OutcomeKind /\ m.state = "succeeded"
  \/ last.kind = "decision.answered" /\ m.state = "aborted"

TakeUnlogged(m, last, l) ==
  /\ last.kind = "intent" /\ last.out = "lease take"
  /\ m.owner # NoOne /\ m.owner # LoggedOwner(m, l)

\* Mutant: releases are not repaired.
ReleaseNeverUnlogged(m, last, l) == FALSE

ReleaseUnlogged(m, last, l) ==
  /\ last.kind = "intent" /\ last.out = "lease release"
  /\ m.owner = NoOne /\ LoggedOwner(m, l) # NoOne

Completes(e, last, m, l) ==
  \/ e = Asked(m.question)  /\ AskUnlogged(m, last)
  \/ e = Finished(m.state)  /\ EndUnlogged(m, last)
  \/ e = Taken(m.owner)     /\ TakeUnlogged(m, last, l)
  \/ e = Released           /\ ReleaseUnlogged(m, last, l)

\* The entries restoreTrailing would append: at most one.
Missing(m, l) ==
  {e \in {Asked(m.question), Finished(m.state), Taken(m.owner), Released} :
     l # <<>> /\ Completes(e, l[Len(l)], m, l)}

WriteOf(m, entries) == [entry |-> CHOOSE e \in entries : TRUE, man |-> m]

\* Load accepts the job, with nothing to repair.
Loaded(j) == file[j] = "present" /\ ~torn[j] /\ ~Ahead(j)

\* Mutant: an answer logged but not saved is overlooked.
RestoredButAnswer(j) ==
  /\ Loaded(j)
  /\ ~Folded(j)
  /\ Missing(man[j], log[j]) = {}

\* restoreTrailing has nothing to do on the job.
Restored(j) ==
  /\ Loaded(j)
  /\ ~Folded(j)
  /\ ~AnswerLogged(j)
  /\ Missing(man[j], log[j]) = {}

---------------------------------------------------------------------------
(* The store: Append, one write at a time *)

Free == lock = NoJob /\ up

\* An operation starts on j: its first log line is written.
Run(j, writes) ==
  /\ lock' = j
  /\ todo' = writes
  /\ log' = [log EXCEPT ![j] = Append(@, Head(writes).entry)]

\* The log line of the next Append.
WriteEntry(j) ==
  /\ lock = j /\ todo # <<>> /\ ~Ahead(j)
  /\ log' = [log EXCEPT ![j] = Append(@, Head(todo).entry)]
  /\ UNCHANGED <<file, man, torn, units, lock, todo, up, knows, faults>>

\* The manifest save of the Append whose line is written.  After the last
\* one the operation ends, save that Advance still has to start its unit.
SaveManifest(j) ==
  /\ lock = j /\ todo # <<>> /\ Ahead(j)
  /\ man' = [man EXCEPT ![j] =
               [Head(todo).man EXCEPT !.loglen = Len(log[j])]]
  /\ todo' = Tail(todo)
  /\ lock' = IF Tail(todo) = <<>> /\ Head(todo).entry.kind # "step.started"
             THEN NoJob ELSE j
  /\ UNCHANGED <<file, log, torn, units, up, knows, faults>>

\* Load completes a log one entry ahead of its manifest.
Adopt(j) ==
  /\ Free
  /\ file[j] = "present" /\ ~torn[j] /\ Ahead(j)
  /\ man' = [man EXCEPT ![j].loglen = Len(log[j])]
  /\ UNCHANGED <<file, log, torn, units, lock, todo, up, knows, faults>>

---------------------------------------------------------------------------
(* restoreTrailing *)

\* refold: the outcome is logged but the job still says running.  What a
\* successful step produced is only in its result file: without it, nothing
\* is written.
Refold(j) ==
  /\ Free /\ knows /\ Loaded(j) /\ Folded(j)
  /\ LET last == Last(j)
         out  == IF last.kind = "step.lost" THEN "lost"
                 ELSE IF last.out = "failed" THEN "failed"
                 ELSE results[j][last.unit]
     IN  /\ out # "none"
         /\ man' = [man EXCEPT ![j] = Settle(@, out)]
  /\ UNCHANGED <<file, log, torn, units, lock, todo, up, knows, faults>>

\* A logged answer that was not saved is applied.
Reapply(j) ==
  /\ Free /\ knows /\ Loaded(j) /\ AnswerLogged(j)
  /\ man' = [man EXCEPT ![j] = DecideState(@, Last(j).out)]
  /\ UNCHANGED <<file, log, torn, units, lock, todo, up, knows, faults>>

\* The second entry of a change that stopped after its first.  An agent that
\* does not know the plan still gets here, through Lease.
AppendTrailing(j) ==
  /\ Free /\ Loaded(j)
  /\ knows => ~Folded(j) /\ ~AnswerLogged(j)
  /\ Missing(man[j], log[j]) # {}
  /\ Run(j, <<WriteOf(man[j], Missing(man[j], log[j]))>>)
  /\ UNCHANGED <<file, man, torn, units, up, knows, faults>>

---------------------------------------------------------------------------
(* Requests *)

\* Mutant: a box is free when no step runs on it.
BoxFreeIdle == \A k \in Job : file[k] = "present" => active[k] = {}

\* J1: every job List can read is finished, and its log is not ahead.
BoxFree ==
  \A k \in Job : file[k] = "present" =>
    torn[k] \/ (~Ahead(k) /\ Terminal(man[k]))

\* Start lists every job (which completes any log ahead of its manifest),
\* refuses while one is unfinished, and saves the new manifest with an empty
\* log before entry 0.
Start(j, c) ==
  /\ Free /\ knows /\ file[j] = "absent"
  /\ BoxFree
  /\ file' = [file EXCEPT ![j] = "present"]
  /\ man' = [man EXCEPT ![j] = NewManifest(c)]
  /\ lock' = j
  /\ todo' = <<[entry |-> Created(c), man |-> NewManifest(c)]>>
  /\ UNCHANGED <<log, torn, units, up, knows, faults>>

\* Mutant: an agent that does not know the plan settles nothing and goes on.
LeaseReadyUnsettled(j) ==
  IF knows THEN Restored(j) ELSE Loaded(j) /\ Missing(man[j], log[j]) = {}

\* Lease may go on: all is repaired, or this agent does not know the plan
\* and the log does not end with an outcome it cannot settle.
LeaseReady(j) ==
  IF knows THEN Restored(j)
  ELSE Loaded(j) /\ ~Folded(j) /\ Missing(man[j], log[j]) = {}

Room(j) == Len(log[j]) < LogBound

\* A renewal, or a retake by the owner: saved, not logged.
Renew(j, c) ==
  /\ Free /\ LeaseReady(j) /\ man[j].owner = c
  /\ man' = [man EXCEPT ![j] = Renewed(@)]
  /\ UNCHANGED <<file, log, torn, units, lock, todo, up, knows, faults>>

Take(j, c) ==
  /\ Free /\ LeaseReady(j) /\ Room(j)
  /\ man[j].owner # c
  /\ man[j].owner = NoOne \/ ~man[j].fresh
  /\ LET m == TakenBy(man[j], c)
     IN  Run(j, <<[entry |-> Intent(c, "lease take"), man |-> m],
                  [entry |-> Taken(c), man |-> m]>>)
  /\ UNCHANGED <<file, man, torn, units, up, knows, faults>>

Release(j, c) ==
  /\ Free /\ LeaseReady(j) /\ Room(j)
  /\ man[j].owner = c
  /\ LET m == ReleasedLease(man[j])
     IN  Run(j, <<[entry |-> Intent(c, "lease release"), man |-> m],
                  [entry |-> Released, man |-> m]>>)
  /\ UNCHANGED <<file, man, torn, units, up, knows, faults>>

\* Advance starts the step and attempt the request names, if the job stands
\* there and no unit of the job runs.  The job is saved running before the
\* unit starts (StartUnit).
Advance(j, c, u) ==
  /\ Free /\ knows /\ Restored(j) /\ Room(j)
  /\ man[j].owner = c
  /\ man[j].state = "waiting" /\ u = <<man[j].step, man[j].attempt>>
  /\ active[j] = {}
  /\ LET m == Renewed(man[j])
     IN  Run(j, <<[entry |-> [Intent(c, "advance") EXCEPT !.unit = u],
                   man |-> m],
                  [entry |-> Started(u), man |-> Running(m)]>>)
  /\ UNCHANGED <<file, man, torn, units, up, knows, faults>>

\* Decide answers the question it names, if that is the one open.
Decide(j, c, q, opt) ==
  /\ Free /\ knows /\ Restored(j) /\ Room(j)
  /\ man[j].owner = c
  /\ man[j].state = "needs-decision" /\ man[j].question = q
  /\ opt \in Options(q)
  /\ opt = "abort" \/ man[j].attempt < AttemptBound           \* bound
  /\ LET m0 == Renewed(man[j])
         m1 == DecideState(m0, opt)
         asked    == [entry |-> [Intent(c, "decide") EXCEPT !.q = q], man |-> m0]
         answered == [entry |-> Answered(q, c, opt), man |-> m1]
         finished == [entry |-> Finished("aborted"), man |-> m1]
     IN  Run(j, IF opt = "abort" THEN <<asked, answered, finished>>
                                 ELSE <<asked, answered>>)
  /\ UNCHANGED <<file, man, torn, units, up, knows, faults>>

\* An attempt past the four digits of a unit name: its unit cannot be started,
\* and Runner.Active cannot be asked about it either.
OverLimit(j) == man[j].state = "running" /\ man[j].attempt > MaxAttempt

\* Mutant: what the unit's being active says is not asked.
UnitEndedUnasked(j) == man[j].state = "running" /\ ~OverLimit(j)

\* Mutant: a unit has ended when it left a result.
UnitEndedWithResult(j) ==
  /\ man[j].state = "running" /\ ~OverLimit(j)
  /\ man[j].unit \notin active[j]
  /\ results[j][man[j].unit] # "none"

\* Active says the running unit is not active.  Where it can only err, the job
\* is left as it is, pass after pass.
UnitEnded(j) ==
  /\ man[j].state = "running" /\ ~OverLimit(j)
  /\ man[j].unit \notin active[j]

\* fold: the outcome of a unit that has ended, then what restoreTrailing adds.
Fold(j) ==
  /\ Free /\ knows /\ Restored(j)
  /\ UnitEnded(j)
  /\ LET u   == man[j].unit
         out == IF results[j][u] = "none" THEN "lost" ELSE results[j][u]
         m   == Settle(man[j], out)
         e   == [entry |-> Ended(u, out), man |-> m]
         next == Missing(m, Append(log[j], e.entry))
     IN  Run(j, IF next = {} THEN <<e>> ELSE <<e, WriteOf(m, next)>>)
  /\ UNCHANGED <<file, man, torn, units, up, knows, faults>>

\* Prune: the manifest of a finished job goes first, then its other files.
Prune(j) ==
  /\ Free /\ Loaded(j) /\ Terminal(man[j])
  /\ file' = [file EXCEPT ![j] = "orphan"]
  /\ man' = [man EXCEPT ![j] = NewManifest(NoOne)]          \* no manifest
  /\ UNCHANGED <<log, torn, units, lock, todo, up, knows, faults>>

RemoveFiles(j) ==
  /\ Free /\ file[j] = "orphan"
  /\ file' = [file EXCEPT ![j] = "gone"]
  /\ log' = [log EXCEPT ![j] = <<>>]
  /\ results' = [results EXCEPT ![j] = [u \in Unit |-> "none"]]
  /\ UNCHANGED <<man, torn, active, begun, lock, todo, up, knows, faults>>

\* Mutant: the job is ended without asking systemd about its units.
AbandonableUnasked(j) == Loaded(j) /\ ~Terminal(man[j])

Abandonable(j) == Loaded(j) /\ ~Terminal(man[j]) /\ active[j] = {}

\* job-abandon, while the agent is stopped: Load, then one entry.
Abandon(j) ==
  /\ "abandon" \in Fault /\ ~up /\ lock = NoJob
  /\ Abandonable(j)
  /\ LET m == [ReleasedLease(man[j]) EXCEPT
                 !.state = "failed", !.question = NoQuestion, !.unit = NoUnit]
     IN  Run(j, <<[entry |-> Finished("failed"), man |-> m]>>)
  /\ UNCHANGED <<file, man, torn, units, up, knows, faults>>

AbandonAdopt(j) ==
  /\ "abandon" \in Fault /\ ~up /\ lock = NoJob
  /\ file[j] = "present" /\ ~torn[j] /\ Ahead(j)
  /\ man' = [man EXCEPT ![j].loglen = Len(log[j])]
  /\ UNCHANGED <<file, log, torn, units, lock, todo, up, knows, faults>>

---------------------------------------------------------------------------
(* Units *)

Happens(kind) == kind \in Fault /\ faults < MaxFaults /\ faults' = faults + 1

\* Advance stops at the question of a step that could not start (askAfter).
AskAfter(j) ==
  LET m == SetQuestion(man[j], "failed")
  IN  Run(j, <<[entry |-> Ended(man[j].unit, "failed"), man |-> m],
               [entry |-> Asked(m.question), man |-> m]>>)

Starting(j) == lock = j /\ todo = <<>> /\ up

\* Mutant: any error of Start asks, though the unit is active.
StartUnitAsks(j) ==
  /\ Starting(j)
  /\ man[j].attempt <= MaxAttempt
  /\ active' = [active EXCEPT ![j] = @ \cup {man[j].unit}]
  /\ \/ lock' = NoJob /\ UNCHANGED <<log, todo>>
     \/ AskAfter(j)
  /\ UNCHANGED <<file, man, torn, begun, results, up, knows, faults>>

\* systemd took the unit.  Start may still have reported an error: the unit
\* is active, so the job stays running all the same.
StartUnit(j) ==
  /\ Starting(j)
  /\ man[j].attempt <= MaxAttempt
  /\ active' = [active EXCEPT ![j] = @ \cup {man[j].unit}]
  /\ lock' = NoJob
  /\ UNCHANGED <<disk, begun, results, todo, up, knows, faults>>

\* Mutant: the attempt is not asked about, as one that may have started.
RefuseStartUnclear(j) ==
  /\ Starting(j)
  /\ man[j].attempt > MaxAttempt
  /\ lock' = NoJob
  /\ UNCHANGED <<disk, units, todo, up, knows, faults>>

\* An attempt past what a unit name holds cannot start.
RefuseStart(j) ==
  /\ Starting(j)
  /\ man[j].attempt > MaxAttempt
  /\ AskAfter(j)
  /\ UNCHANGED <<file, man, torn, units, up, knows, faults>>

\* Start failed, and Active says the unit is surely not running: it never
\* was, or it has already come and gone.
StartFails(j) ==
  /\ Starting(j)
  /\ man[j].attempt <= MaxAttempt
  /\ Happens("start")
  /\ AskAfter(j)
  /\ \/ UNCHANGED <<begun, results>>
     \/ /\ begun' = [begun EXCEPT ![j] = @ \cup {man[j].unit}]
        /\ \E r \in Result :
             results' = [results EXCEPT ![j][man[j].unit] = r]
  /\ UNCHANGED <<file, man, torn, active, up, knows>>

\* Start failed and Active could not tell: the job stays running, with no unit.
StartUnclear(j) ==
  /\ Starting(j)
  /\ man[j].attempt <= MaxAttempt
  /\ Happens("start")
  /\ lock' = NoJob
  /\ UNCHANGED <<disk, units, todo, up, knows>>

\* RunStep reads the manifest, without the store, and runs only in its turn
\* and only a plan its own binary knows.
InTurn(j, u) ==
  /\ knows /\ file[j] = "present"
  /\ man[j].state = "running" /\ man[j].unit = u
  /\ u = <<man[j].step, man[j].attempt>>

BeginStep(j, u) ==
  /\ u \in active[j] \ begun[j]
  /\ InTurn(j, u)
  /\ begun' = [begun EXCEPT ![j] = @ \cup {u}]
  /\ UNCHANGED <<disk, active, results, lock, todo, up, knows, faults>>

RefuseStep(j, u) ==
  /\ u \in active[j] \ begun[j]
  /\ ~InTurn(j, u)
  /\ active' = [active EXCEPT ![j] = @ \ {u}]
  /\ UNCHANGED <<disk, begun, results, lock, todo, up, knows, faults>>

\* The step writes its result file, the only thing it writes, and exits.
EndStep(j, u) ==
  /\ u \in active[j] \cap begun[j]
  /\ \E r \in Result \ {"none"} : results' = [results EXCEPT ![j][u] = r]
  /\ active' = [active EXCEPT ![j] = @ \ {u}]
  /\ UNCHANGED <<disk, begun, lock, todo, up, knows, faults>>

---------------------------------------------------------------------------
(* Faults and the environment *)

Drop == lock' = NoJob /\ todo' = <<>>

\* A write fails: the operation returns its error and the agent goes on.
\* RefuseStart's first line may fail too, before any of it is on disk.
FailWrite ==
  /\ lock # NoJob
  /\ todo # <<>> \/ OverLimit(lock)
  /\ Happens("fail")
  /\ Drop
  /\ UNCHANGED <<disk, units, up, knows>>

\* The agent dies or is stopped.  Units are PID 1's children and live on.
Crash ==
  /\ up
  /\ Happens("crash")
  /\ up' = FALSE
  /\ Drop
  /\ UNCHANGED <<disk, units, knows>>

\* The box reboots: every unit dies without a result.  A line being appended
\* may be left half written.
PowerCut ==
  /\ Happens("powercut")
  /\ up' = FALSE
  /\ Drop
  /\ active' = [j \in Job |-> {}]
  /\ \/ UNCHANGED torn
     \/ \E j \in Job : /\ file[j] = "present" /\ ~Ahead(j)
                       /\ Free \/ (lock = j /\ todo # <<>>)
                       /\ torn' = [torn EXCEPT ![j] = TRUE]
  /\ UNCHANGED <<file, man, log, begun, results, knows>>

\* A unit is killed before it writes its result.
KillUnit(j, u) ==
  /\ u \in active[j]
  /\ Happens("kill")
  /\ active' = [active EXCEPT ![j] = @ \ {u}]
  /\ UNCHANGED <<disk, begun, results, lock, todo, up, knows>>

\* A result file is lost.
LoseResult(j, u) ==
  /\ results[j][u] # "none"
  /\ Happens("vanish")
  /\ results' = [results EXCEPT ![j][u] = "none"]
  /\ UNCHANGED <<disk, active, begun, lock, todo, up, knows>>

\* Writing a log line fails halfway, and so does cutting the log back.
TearLine(j) ==
  /\ lock = j /\ todo # <<>> /\ ~Ahead(j)
  /\ Happens("tear")
  /\ torn' = [torn EXCEPT ![j] = TRUE]
  /\ Drop
  /\ UNCHANGED <<file, man, log, units, up, knows>>

\* The agent starts, on the same build or on one that may not know the plan.
\* It cannot while job-abandon has the directory open.
Boot ==
  /\ ~up /\ lock = NoJob
  /\ up' = TRUE
  /\ knows' \in IF "replan" \in Fault THEN BOOLEAN ELSE {knows}
  /\ UNCHANGED <<disk, units, lock, todo, faults>>

\* The clock moves: a lease goes stale, or fresh again if it steps back.
ClockMoves(j) ==
  /\ file[j] = "present" /\ man[j].owner # NoOne
  /\ man' = [man EXCEPT ![j].fresh = ~@]
  /\ UNCHANGED <<file, log, torn, units, lock, todo, up, knows, faults>>

---------------------------------------------------------------------------
Init ==
  /\ file    = [j \in Job |-> "absent"]
  /\ man     = [j \in Job |-> NewManifest(NoOne)]
  /\ log     = [j \in Job |-> <<>>]
  /\ torn    = [j \in Job |-> FALSE]
  /\ active  = [j \in Job |-> {}]
  /\ begun   = [j \in Job |-> {}]
  /\ results = [j \in Job |-> [u \in Unit |-> "none"]]
  /\ lock = NoJob /\ todo = <<>>
  /\ up = TRUE /\ knows = TRUE /\ faults = 0

\* Mutant: the loop does not apply answers.
ReconcileNoAnswers(j) == Adopt(j) \/ Refold(j) \/ AppendTrailing(j) \/ Fold(j)

Reconcile(j) == Adopt(j) \/ Refold(j) \/ Reapply(j) \/ AppendTrailing(j) \/ Fold(j)

Request(j) ==
  \E c \in Controller :
    \/ Start(j, c) \/ Renew(j, c) \/ Take(j, c) \/ Release(j, c)
    \/ \E u \in Unit : Advance(j, c, u)
    \/ \E q \in Question, opt \in Option : Decide(j, c, q, opt)

Storage(j) == WriteEntry(j) \/ SaveManifest(j)

Launch(j) == StartUnit(j) \/ RefuseStart(j) \/ StartFails(j) \/ StartUnclear(j)

StepProcess(j, u) == BeginStep(j, u) \/ RefuseStep(j, u) \/ EndStep(j, u)

Housekeeping(j) == Prune(j) \/ RemoveFiles(j) \/ Abandon(j) \/ AbandonAdopt(j)

JobFault(j) ==
  \/ TearLine(j)
  \/ \E u \in Unit : KillUnit(j, u) \/ LoseResult(j, u)

Next ==
  \/ \E j \in Job :
       \/ Reconcile(j) \/ Request(j) \/ Storage(j) \/ Launch(j)
       \/ \E u \in Unit : StepProcess(j, u)
       \/ Housekeeping(j) \/ JobFault(j) \/ ClockMoves(j)
  \/ FailWrite \/ Crash \/ PowerCut \/ Boot

Spec == Init /\ [][Next]_vars

\* The store's steps and a started step go on until they end; systemd restarts
\* the agent; the reconcile loop runs every 5 s and the mutex is fair, so a
\* pass that is due again and again is not kept out by requests.
Fairness ==
  /\ WF_vars(Boot)
  /\ \A j \in Job :
       /\ WF_vars(Storage(j))
       /\ WF_vars(Launch(j))
       /\ SF_vars(Reconcile(j))
       /\ \A u \in Unit : WF_vars(StepProcess(j, u))

FairSpec == Spec /\ Fairness
---------------------------------------------------------------------------
(* Type *)

\* Every variable keeps its type.
TypeOK ==
  /\ file \in [Job -> {"absent", "present", "orphan", "gone"}]
  /\ man \in [Job -> Manifest]
  /\ log \in [Job -> Seq(Entry)]
  /\ torn \in [Job -> BOOLEAN]
  /\ active \in [Job -> SUBSET Unit]
  /\ begun \in [Job -> SUBSET Unit]
  /\ results \in [Job -> [Unit -> Result]]
  /\ lock \in Job \cup {NoJob}
  /\ todo \in Seq(Write)
  /\ up \in BOOLEAN /\ knows \in BOOLEAN /\ faults \in Nat

---------------------------------------------------------------------------
(* Safety: the units *)

Present(j) == file[j] = "present"
Unfinished(j) == Present(j) /\ ~torn[j] /\ ~Terminal(man[j])

\* A step's process is alive only while its job's manifest says running and
\* names that very unit: no crash, failed start or failed write may move a
\* job on, ask about it or end it under a step that still acts on the box.
UnitsInTurn ==
  \A j \in Job : \A u \in active[j] :
    Present(j) /\ man[j].state = "running" /\ man[j].unit = u

\* J1: the box never has two unfinished jobs.
OneUnfinished ==
  \A j, k \in Job : Unfinished(j) /\ Unfinished(k) => j = k

\* No two step processes of this box, of one job or of two, run at once.
OneStepOnBox ==
  \A j, k \in Job : \A u \in active[j], v \in active[k] : j = k /\ u = v

\* An attempt of a step is launched at most once, whatever crashed since.
NoSecondStart ==
  [][\A j \in Job : (active'[j] \ active[j]) \cap begun[j] = {}]_vars

\* Q9: no step is attempted again unless a person, asked about the attempt
\* before, answered with anything but abort.
RetriesAnswered ==
  \A j \in Job : Present(j) => \A u \in active[j] \cup begun[j] : u[2] > 0 =>
    \E i \in DOMAIN log[j] :
      /\ log[j][i].kind = "decision.answered" /\ log[j][i].out # "abort"
      /\ log[j][i].q.step = u[1] /\ log[j][i].q.attempt = u[2] - 1

\* A step is attempted only once the log holds the success of the step before.
StepsInOrder ==
  \A j \in Job : Present(j) => \A u \in active[j] \cup begun[j] : u[1] > 0 =>
    \E i \in DOMAIN log[j] :
      /\ log[j][i].kind = "step.finished" /\ log[j][i].out = "ok"
      /\ log[j][i].unit[1] = u[1] - 1

\* What acts has been earned: a retry by an answer, a later step by the success
\* of the one before, however many faults and repairs lie in between.
AttemptsEarned == RetriesAnswered /\ StepsInOrder

---------------------------------------------------------------------------
(* Safety: the log and the manifest *)

\* A manifest never claims history its log lacks, and lags it by one at most.
LogWithinOne ==
  \A j \in Job : Present(j) => Len(log[j]) - man[j].loglen \in {0, 1}

\* Each attempt folds once: no two entries of a log give its outcome.
OutcomeOnce ==
  \A j \in Job : \A i, k \in DOMAIN log[j] :
    /\ log[j][i].kind \in OutcomeKind /\ log[j][k].kind \in OutcomeKind
    /\ log[j][i].unit = log[j][k].unit
    => i = k

\* Each question is answered once: no later answer contradicts a logged one.
AnswerOnce ==
  \A j \in Job : \A i, k \in DOMAIN log[j] :
    /\ log[j][i].kind = "decision.answered"
    /\ log[j][k].kind = "decision.answered"
    /\ log[j][i].q = log[j][k].q
    => i = k

\* The log tells the job in order: an outcome after its step.started, a
\* question after the outcome it is about, an answer after its question.
LogInOrder ==
  \A j \in Job : \A i \in DOMAIN log[j] :
    LET e == log[j][i]
        Before(P(_)) == \E k \in 1 .. i - 1 : P(log[j][k])
    IN  /\ e.kind \in OutcomeKind =>
             Before(LAMBDA d : d = Started(e.unit))
        /\ e.kind = "decision.asked" =>
             Before(LAMBDA d : d.kind \in OutcomeKind /\
                               d.unit = <<e.q.step, e.q.attempt>>)
        /\ e.kind = "decision.answered" => Before(LAMBDA d : d = Asked(e.q))

\* The log is the job's history, as whoever verifies it reads it.
LogTrue == AnswerOnce /\ LogInOrder

\* After job.finished a log holds only lease changes, and the manifest is
\* finished in the state the entry says.
NothingAfterFinished ==
  \A j \in Job : \A i \in DOMAIN log[j] : log[j][i].kind = "job.finished" =>
    /\ Present(j) => man[j].state = log[j][i].out
    /\ \A k \in i + 1 .. Len(log[j]) :
         \/ log[j][k].kind \in LeaseKind
         \/ /\ log[j][k].kind = "intent"
            /\ log[j][k].out \in {"lease take", "lease release"}

\* Once repaired, the lease the manifest grants is the one the log records.
CustodyLogged ==
  \A j \in Job : Restored(j) /\ lock # j /\ man[j].state # "failed" =>
    man[j].owner = LoggedOwner(man[j], log[j])

\* A running retry has, in its manifest, the logged answer to the question
\* its previous attempt stopped at, and a first attempt has none.
AnswerDelivered ==
  \A j \in Job : Present(j) /\ man[j].state = "running" =>
    LET a == man[j].answer
    IN  IF man[j].attempt = 0 THEN a = NoAnswer
        ELSE /\ a # NoAnswer
             /\ a.q.step = man[j].step /\ a.q.attempt = man[j].attempt - 1
             /\ \E i \in DOMAIN log[j], c \in Controller :
                  log[j][i] = Answered(a.q, c, a.option)

\* The log's first entry is job.created, which proves who started the job.
FirstEntryCreated ==
  \A j \in Job : log[j] # <<>> => log[j][1].kind = "job.created"

---------------------------------------------------------------------------
(* Liveness *)

\* A job whose step runs or ran moves on once the step has ended.
EndedFold ==
  \A j \in Job :
    Present(j) /\ man[j].state = "running" /\ ~OverLimit(j)
      ~> torn[j] \/ man[j].state # "running"

\* A job at the question of the attempt it was to start.
AsksFailed(j) ==
  /\ man[j].state = "needs-decision"
  /\ man[j].question =
       [step |-> man[j].step, attempt |-> man[j].attempt, key |-> "failed"]

\* Cut off between saving the job as running and the first line that says its
\* attempt failed: no repair sees a change that stopped.
Stranded(j) == OverLimit(j) /\ Restored(j) /\ lock # j /\ faults > 0

\* An attempt past what a unit name holds is asked about, as a step that
\* failed, also when the asking is cut off and repaired.  Only a job cut off
\* before the first line of the asking is not.
LimitAsks ==
  \A j \in Job : Present(j) /\ OverLimit(j) ~>
                    torn[j] \/ AsksFailed(j) \/ Stranded(j)

\* No job stays running once its step has ended, or could not start.
StepsFold == EndedFold /\ LimitAsks

\* What the comment at Advance's start promises (manager.go:356-358): such an
\* attempt "asks like any other step that cannot" start, which is asked about
\* wherever Advance was cut off.
AsksLikeAnyOther ==
  \A j \in Job : Present(j) /\ OverLimit(j) ~> torn[j] \/ AsksFailed(j)

\* A change that stopped partway is finished.
GapsClose ==
  \A j \in Job : Present(j) /\ ~Restored(j) ~>
                    torn[j] \/ ~Present(j) \/ Restored(j)
---------------------------------------------------------------------------
(* Refinement *)

\* The manifests on disk, and the units, are a job lifecycle: the storage,
\* its repairs and every fault between two writes only delay its steps.
Lifecycle == INSTANCE JobLifecycle WITH
  phase   <- [j \in Job |->
                IF file[j] = "absent" THEN "none"
                ELSE IF file[j] # "present" THEN "pruned"
                ELSE IF torn[j] THEN "damaged" ELSE man[j].state],
  step    <- [j \in Job |-> man[j].step],
  attempt <- [j \in Job |-> man[j].attempt],
  acting  <- active

LifecycleSpec == Lifecycle!Spec
=============================================================================
