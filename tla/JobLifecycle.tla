---------------------------- MODULE JobLifecycle ----------------------------
(***************************************************************************)
(* What the durable-job engine promises of a job, with no storage in it:   *)
(* the phases a job goes through and when its step may act on the box.     *)
(* DurableJobs implements it (LifecycleSpec there).                        *)
(***************************************************************************)
EXTENDS Integers

CONSTANTS Job, NSteps

VARIABLES
  phase,     \* Job -> none, a job state, damaged or pruned
  step,      \* Job -> the step the job stands at
  attempt,   \* Job -> the attempt of that step
  acting     \* Job -> the <<step, attempt>>s acting on the box

lifecycle == <<phase, step, attempt, acting>>

Over == {"none", "succeeded", "failed", "aborted", "damaged", "pruned"}

Init ==
  /\ phase   = [j \in Job |-> "none"]
  /\ step    = [j \in Job |-> 0]
  /\ attempt = [j \in Job |-> 0]
  /\ acting  = [j \in Job |-> {}]

Move(j, from, to) == phase[j] = from /\ phase' = [phase EXCEPT ![j] = to]

\* One unfinished job at a time.
Create(j) ==
  /\ \A k \in Job : phase[k] \in Over
  /\ Move(j, "none", "waiting")
  /\ UNCHANGED <<step, attempt, acting>>

Begin(j) ==
  /\ acting[j] = {}
  /\ Move(j, "waiting", "running")
  /\ UNCHANGED <<step, attempt, acting>>

\* The one thing that may act is the standing attempt of a running job.
Act(j) ==
  /\ phase[j] = "running" /\ acting[j] = {}
  /\ acting' = [acting EXCEPT ![j] = {<<step[j], attempt[j]>>}]
  /\ UNCHANGED <<phase, step, attempt>>

Stop(j) ==
  /\ acting[j] # {}
  /\ acting' = [acting EXCEPT ![j] = {}]
  /\ UNCHANGED <<phase, step, attempt>>

\* A step's success moves the job on; the last one's ends it.
Succeed(j) ==
  /\ acting[j] = {}
  /\ Move(j, "running", IF step[j] + 1 = NSteps THEN "succeeded" ELSE "waiting")
  /\ step' = [step EXCEPT ![j] = @ + 1]
  /\ attempt' = [attempt EXCEPT ![j] = 0]
  /\ UNCHANGED acting

\* Any other end of a step asks.
Ask(j) ==
  /\ acting[j] = {}
  /\ Move(j, "running", "needs-decision")
  /\ UNCHANGED <<step, attempt, acting>>

\* Only an answer attempts the step again.
Retry(j) ==
  /\ Move(j, "needs-decision", "waiting")
  /\ attempt' = [attempt EXCEPT ![j] = @ + 1]
  /\ UNCHANGED <<step, acting>>

Abort(j) == Move(j, "needs-decision", "aborted") /\ UNCHANGED <<step, attempt, acting>>

Abandon(j) ==
  /\ phase[j] \in {"waiting", "running", "needs-decision"} /\ acting[j] = {}
  /\ phase' = [phase EXCEPT ![j] = "failed"]
  /\ UNCHANGED <<step, attempt, acting>>

Forget(j) ==
  /\ phase[j] \in {"succeeded", "failed", "aborted"}
  /\ phase' = [phase EXCEPT ![j] = "pruned"]
  /\ step' = [step EXCEPT ![j] = 0]
  /\ attempt' = [attempt EXCEPT ![j] = 0]
  /\ UNCHANGED acting

Damage(j) ==
  /\ phase[j] \notin {"none", "pruned", "damaged"}
  /\ phase' = [phase EXCEPT ![j] = "damaged"]
  /\ UNCHANGED <<step, attempt, acting>>

\* A reboot stops everything that acts, and may damage one job's log.
Reboot ==
  /\ acting' = [j \in Job |-> {}]
  /\ \/ UNCHANGED phase
     \/ \E j \in Job : /\ phase[j] \notin {"none", "pruned"}
                       /\ phase' = [phase EXCEPT ![j] = "damaged"]
  /\ UNCHANGED <<step, attempt>>

Next ==
  \/ \E j \in Job :
       \/ Create(j) \/ Begin(j) \/ Act(j) \/ Stop(j) \/ Succeed(j) \/ Ask(j)
       \/ Retry(j) \/ Abort(j) \/ Abandon(j) \/ Forget(j) \/ Damage(j)
  \/ Reboot

Spec == Init /\ [][Next]_lifecycle
=============================================================================
