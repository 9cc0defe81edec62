----------------------------- MODULE BoxControl ------------------------------
(***************************************************************************)
(* The controller servers and one box: what each server does over SSH      *)
(* (setup, clearing a service) and through the gate (starting a job),      *)
(* kept apart by the claims on the target's registry entry and by listing  *)
(* the box's jobs first (internal/server).  Every request to the gate is   *)
(* an intent of IntentAdmission.                                           *)
(***************************************************************************)
EXTENDS IntentAdmission

CONSTANTS
  NoJob,
  SshTasks   \* the handlers that work on the box over SSH: "setup" (setup runs and module changes), "clear"

ASSUME BoxConstants == "start" \notin SshTasks

Tasks == {"start"} \cup SshTasks

VARIABLES
  job,     \* the box's unfinished job, [by |-> the controller that started it], or NoJob
  claims,  \* claims[c]: jobStarting, a running setup and opBusy of the target's entry at c
  task,    \* task[c][t]: where the handler t of server c is
  listed   \* listed[c]: the last job.list answered to c named an unfinished job

boxVars == <<job, claims, task, listed>>
allVars == <<vars, boxVars>>

BoxInit ==
  /\ Init
  /\ job = NoJob
  /\ claims = [c \in Controllers |-> {}]
  /\ task = [c \in Controllers |-> [t \in Tasks |-> "idle"]]
  /\ listed = [c \in Controllers |-> FALSE]

At(c, t, pc) == [task EXCEPT ![c][t] = pc]
Release(c, t) == claims' = [claims EXCEPT ![c] = @ \ {t}]

-----------------------------------------------------------------------------
\* claimJobStart, claimSetupRun and claimTargetOp: each refuses while any of
\* the three holds the target. (A server that can sign no more stays out.)
Claim(c, t) ==
  /\ task[c][t] = "idle"
  /\ claims[c] = {}
  /\ left[c] > 0
  /\ claims' = [claims EXCEPT ![c] = {t}]
  /\ task' = At(c, t, "claimed")
  /\ UNCHANGED <<vars, job, listed>>

\* handleJobStart sends the job's intent under the claim and lets the claim
\* go with the answer, or without one.
StartSend(c) ==
  /\ task[c]["start"] = "claimed"
  /\ Begin(c, "start")
  /\ task' = At(c, "start", "asking")
  /\ UNCHANGED <<job, claims, listed>>

StartEnd(c) ==
  /\ task[c]["start"] = "asking"
  /\ call[c].st = "done"
  /\ Collect(c)
  /\ Release(c, "start")
  /\ task' = At(c, "start", "idle")
  /\ UNCHANGED <<job, listed>>

\* refuseDuringJob, under the claim: a fresh job.list, and no node is touched
\* unless it was answered and names no unfinished job.
GuardSend(c, t) ==
  /\ task[c][t] = "claimed"
  /\ Begin(c, "list")
  /\ task' = At(c, t, "asking")
  /\ UNCHANGED <<job, claims, listed>>

\* Mutant: a box that did not answer is taken to run no job.
GuardEndUnanswered(c, t) ==
  /\ task[c][t] = "asking"
  /\ call[c].st = "done"
  /\ Collect(c)
  /\ IF ~listed[c]
     THEN task' = At(c, t, "acting") /\ UNCHANGED claims
     ELSE task' = At(c, t, "idle") /\ Release(c, t)
  /\ UNCHANGED <<job, listed>>

GuardEnd(c, t) ==
  /\ task[c][t] = "asking"
  /\ call[c].st = "done"
  /\ Collect(c)
  /\ IF call[c].res = "ok" /\ ~listed[c]
     THEN task' = At(c, t, "acting") /\ UNCHANGED claims
     ELSE task' = At(c, t, "idle") /\ Release(c, t)
  /\ UNCHANGED <<job, listed>>

\* The setup run or the clear ends.
ActEnd(c, t) ==
  /\ task[c][t] = "acting"
  /\ task' = At(c, t, "idle")
  /\ Release(c, t)
  /\ UNCHANGED <<vars, job, listed>>

\* The server stops at any point and starts again: the claims and the calls
\* are gone, the envelopes on their way are not.
ServerRestart(c) ==
  /\ faults < MaxFaults
  /\ faults' = faults + 1
  /\ call' = [call EXCEPT ![c] = [st |-> "idle", do |-> @.do]]
  /\ claims' = [claims EXCEPT ![c] = {}]
  /\ task' = [task EXCEPT ![c] = [t \in Tasks |-> "idle"]]
  /\ UNCHANGED <<now, gateVars, net, signed, left, next, job, listed>>

-----------------------------------------------------------------------------
\* The box runs an admitted intent. A job is created unless one is unfinished
\* (Manager.Create); a listing names the unfinished job.
RunStart(h) ==
  /\ h.env.kind = "start"
  /\ IF job = NoJob
     THEN Run(h, "ok") /\ job' = [by |-> h.env.ctl]
     ELSE Run(h, "rejected") /\ UNCHANGED job
  /\ UNCHANGED <<claims, task, listed>>

RunList(h) ==
  /\ h.env.kind = "list"
  /\ Run(h, "ok")
  /\ listed' = IF call' = call THEN listed ELSE [listed EXCEPT ![h.env.ctl] = job # NoJob]
  /\ UNCHANGED <<job, claims, task>>

\* The job ends (DurableJobs says how).
JobEnd ==
  /\ job # NoJob
  /\ job' = NoJob
  /\ UNCHANGED <<vars, claims, task, listed>>

BoxNext ==
  \/ \E c \in Controllers :
        \/ \E t \in Tasks : Claim(c, t)
        \/ StartSend(c) \/ StartEnd(c)
        \/ \E t \in SshTasks : GuardSend(c, t) \/ GuardEnd(c, t) \/ ActEnd(c, t)
        \/ ServerRestart(c)
        \/ ClientStep(c) /\ UNCHANGED boxVars
  \/ GateStep /\ UNCHANGED boxVars
  \/ \E h \in handling : RunStart(h) \/ RunList(h)
  \/ JobEnd

BoxSpec == BoxInit /\ [][BoxNext]_allVars

-----------------------------------------------------------------------------
EnvelopeOK(e) ==
  /\ e.ctl \in Controllers /\ e.kind \in {"start", "list"}
  /\ e.n \in Nat \ {0} /\ e.seq \in Nat \ {0} /\ e.expiry \in Nat /\ e.do \in Nat

BoxTypeOK ==
  /\ now \in 0 .. MaxNow /\ faults \in 0 .. MaxFaults /\ loaded \in BOOLEAN
  /\ \A r \in {disk, mem} :
        /\ r.last \in [Controllers -> Nat]
        /\ \A s \in r.seen : s.nonce.ctl \in Controllers /\ s.until \in Nat
  /\ busy \subseteq Controllers
  /\ \A h \in handling :
        /\ EnvelopeOK(h.env) /\ h.live \in BOOLEAN
        /\ h.at \in {"claimed", "admitted"} /\ h.time \in 0 .. now
  /\ net \subseteq UNION {signed[c] : c \in Controllers}
  /\ \A c \in Controllers :
        /\ \A e \in signed[c] : EnvelopeOK(e) /\ e.ctl = c
        /\ next[c] \in Nat \ {0} /\ left[c] \in Nat
        /\ call[c].st \in {"idle", "ready", "sent", "answered", "done"}
        /\ call[c].st = "answered" => call[c].status \in Statuses
        /\ call[c].st = "done" => call[c].res \in {"ok", "rejected", "error"}
        /\ \A k \in DOMAIN ran[c] : ran[c][k] \in signed[c]
        /\ claims[c] \subseteq Tasks /\ listed[c] \in BOOLEAN
        /\ \A t \in Tasks : task[c][t] \in {"idle", "claimed", "asking", "acting"}
  /\ job = NoJob \/ job.by \in Controllers

\* No server works on the box over SSH beside an unfinished job of its own:
\* a start whose caller gave up and whose claim is gone may still reach the
\* gate, but then its number is no longer above the listing's.
NodeExclusive ==
  \A c \in Controllers, t \in SshTasks :
     task[c][t] = "acting" => ~(job # NoJob /\ job.by = c)
=============================================================================
