------------------------------ MODULE JobDriver ------------------------------
(***************************************************************************)
(* The controller's job driver (internal/server/jobs.go, jobsdrive.go):    *)
(* one server, one paired box and one node.migrate-names job on it.  The   *)
(* hub lists the box's jobs when the server starts, after an unlock and    *)
(* while someone watches; a listing starts a driver goroutine for a job    *)
(* this controller holds, and a goroutine that settles one that finished.  *)
(* A driver reads its job, advances it at a step boundary and renews its   *)
(* lease, until it sees a reason to return.                                *)
(*                                                                         *)
(* The box is what the job engine shows a controller (DurableJobs): each   *)
(* request reads or changes the job in one step.  Beside the server, the   *)
(* box's steps end, leases go stale, another controller adopts and drives  *)
(* the job, requests are lost or refused, the vault is locked and the      *)
(* server stops or dies.  Left out are the inbox's cache, which decides    *)
(* nothing here, log marks, and the length of waits.                       *)
(***************************************************************************)
EXTENDS Naturals

CONSTANTS
  Slot,       \* driver goroutines, numbered: more than the hub may have
  Late,       \* the goroutine of finishLater; bound: one at a time
  NSteps,     \* steps of the job's plan
  MaxAttempt, \* bound on attempts of a step
  InVault,    \* the controller's key is kept in the vault
  Fault,      \* what may happen: lose, refuse, disk, lock, stop, crash
  MaxFaults,  \* bound on how often
  None

ASSUME DriverConstants ==
  /\ NSteps \in Nat \ {0} /\ MaxAttempt \in Nat /\ MaxFaults \in Nat
  /\ InVault \in BOOLEAN
  /\ Slot \subseteq Nat /\ Late \notin Slot
  /\ Fault \subseteq {"lose", "refuse", "disk", "lock", "stop", "crash"}

VARIABLES
  job,     \* the job on the box; its state is "absent" before it is started
  fresh,   \* its lease is
  fits,    \* the box still runs the node that the stored wire describes
  wire,    \* the names in the controller's stored wire of the box
  server,  \* on, stopping (stopWithin waits), waited (it has), or off
  locked,  \* the vault that holds the controller's key is locked
  driving, \* h.driving has the job's entry
  settled, \* h.settled has the job
  run,     \* run[g]: where goroutine g is, and the record it read
  list,    \* where the listing is, and its answer
  due,     \* a sweep is due
  op,      \* a handler whose request the box answered has yet to call drive
  faults

serverVars == <<server, locked>>
hubVars == <<driving, settled, run, list, due, op>>
boxVars == <<job, fresh, fits>>
vars == <<boxVars, wire, serverVars, hubVars, faults>>

Goroutine == Slot \cup {Late}

\* Another controller owns the job, or nobody does (then its lease is stale).
Owner == {"me", "other"}
States == {"absent", "waiting", "running", "needs-decision", "succeeded", "aborted"}
Record == [state : States, step : 0 .. NSteps, attempt : 0 .. MaxAttempt, owner : Owner]
Absent == [state |-> "absent", step |-> 0, attempt |-> 0, owner |-> "other"]
Terminal(r) == r.state \in {"succeeded", "aborted"}

At(pc) == [pc |-> pc, rec |-> None]
With(pc, r) == [pc |-> pc, rec |-> r]
Off == At("off")

Init ==
  /\ job = Absent /\ fresh = FALSE /\ fits = TRUE
  /\ wire = "legacy"
  /\ server = "on" /\ locked = InVault
  /\ driving = FALSE /\ settled = FALSE
  /\ run = [g \in Goroutine |-> Off] /\ list = Off
  /\ due = TRUE /\ op = FALSE
  /\ faults = 0

-----------------------------------------------------------------------------
(* The box: what a request does there, and what happens without one. *)

\* The names in the box's agent.info: the job's success switched them.
BoxNames == IF job.state = "succeeded" THEN "current" ELSE "legacy"

CanAdvance(who, r) ==
  /\ job.owner = who /\ job.state = "waiting"
  /\ job.step = r.step /\ job.attempt = r.attempt /\ job.step < NSteps
Advance == job' = [job EXCEPT !.state = "running"] /\ fresh' = TRUE

Renew == UNCHANGED job /\ fresh' = TRUE

Take(who) ==
  /\ job.state # "absent" /\ (job.owner = who \/ ~fresh)
  /\ job' = [job EXCEPT !.owner = who] /\ fresh' = TRUE

Create(who) ==
  /\ job.state = "absent"
  /\ job' = [Absent EXCEPT !.state = "waiting", !.owner = who] /\ fresh' = TRUE

\* Decide: abort, or another attempt.
Decide(who) ==
  /\ job.owner = who /\ job.state = "needs-decision"
  /\ \/ job' = [job EXCEPT !.state = "aborted"]
     \/ /\ job.attempt < MaxAttempt                               \* bound
        /\ job' = [job EXCEPT !.state = "waiting", !.attempt = @ + 1]
  /\ fresh' = TRUE

\* What a person at controller who may do to the job.
Operation(who) == Create(who) \/ Take(who) \/ Decide(who)

\* The agent folds a step that ended: it asks, or goes on.
StepEnds ==
  /\ job.state = "running"
  /\ \/ job' = [job EXCEPT !.state = "needs-decision"]
     \/ job' = [job EXCEPT !.step = @ + 1, !.attempt = 0,
                           !.state = IF job.step + 1 = NSteps THEN "succeeded" ELSE "waiting"]
  /\ UNCHANGED <<fresh, fits, wire, serverVars, hubVars, faults>>

LeaseAges ==
  /\ fresh /\ fresh' = FALSE
  /\ UNCHANGED <<job, fits, wire, serverVars, hubVars, faults>>

\* Another controller, and the person behind it.
Other ==
  /\ Operation("other") \/ (CanAdvance("other", job) /\ Advance)
  /\ UNCHANGED <<fits, wire, serverVars, hubVars, faults>>

\* Someone sets the box up anew once the job has succeeded.
SetUpAnew ==
  /\ job.state = "succeeded" /\ fits
  /\ fits' = FALSE
  /\ UNCHANGED <<job, fresh, wire, serverVars, hubVars, faults>>

Happens(kind) == kind \in Fault /\ faults < MaxFaults /\ faults' = faults + 1

\* A request is answered only if the key could sign it.
Sent == ~locked /\ UNCHANGED faults

\* It gets no answer when nothing could sign it, when the hub's context has
\* ended, and when the box cannot be reached.
Lost ==
  \/ (locked \/ server # "on") /\ UNCHANGED faults
  \/ Happens("lose")

Refused == ~locked /\ Happens("refuse")

-----------------------------------------------------------------------------
(* Goroutines the hub starts, each counted in h.wg under h.mu. *)

Begin ==
  \E d \in Slot :
    /\ run[d] = Off /\ \A e \in Slot : run[e] = Off => d <= e
    /\ run' = [run EXCEPT ![d] = At("read")]
    /\ driving' = TRUE

\* Mutant: a driver is started beside the one there is.
DriveTwice == IF server = "on" THEN Begin ELSE UNCHANGED <<driving, run>>

\* Mutant: a hub that has stopped still starts a driver.
DriveStopped == IF ~driving THEN Begin ELSE UNCHANGED <<driving, run>>

\* drive: one driver per job, and none once the hub has stopped.
Drive == IF server = "on" /\ ~driving THEN Begin ELSE UNCHANGED <<driving, run>>

FinishLater ==
  /\ run[Late] = Off
  /\ run' = IF server = "on" /\ ~settled THEN [run EXCEPT ![Late] = At("finished")] ELSE run
  /\ UNCHANGED driving

-----------------------------------------------------------------------------
(* driveLoop *)

Goto(g, pc) == run' = [run EXCEPT ![g] = At(pc)]

\* readVerified: the job as the box has it now. A refusal, or a log that does
\* not verify, ends the driver; a read that fails is tried again.
Read(d) ==
  /\ run[d].pc = "read"
  /\ \/ Sent /\ run' = [run EXCEPT ![d] = With("got", job)]
     \/ Lost /\ Goto(d, "wait")
     \/ Refused /\ Goto(d, "exit")
  /\ UNCHANGED <<boxVars, wire, serverVars, driving, settled, list, due, op>>

\* A finished job is settled. While the key is locked the driver waits.
Look(d) ==
  /\ run[d].pc = "got"
  /\ LET r == run[d].rec
     IN  IF r.state = "succeeded" THEN Goto(d, "finished")
         ELSE IF Terminal(r) THEN Goto(d, "exit")
         ELSE IF locked THEN Goto(d, "wait")
         ELSE run' = [run EXCEPT ![d] = With("mine", r)]
  /\ UNCHANGED <<boxVars, wire, serverVars, driving, settled, list, due, op, faults>>

\* mine: a key locked since holds nothing.
Mine(r) == ~locked /\ r.owner = "me"

\* The box does what the driver asks of it for the record it read: at a
\* boundary to advance the job, else to renew the lease.
Serves(r) ==
  IF r.state = "waiting" THEN CanAdvance("me", r) /\ Advance ELSE job.owner = "me" /\ Renew

\* The box refuses it: the job has moved on, or is another's.
Declines(r) == IF r.state = "waiting" THEN ~CanAdvance("me", r) ELSE job.owner # "me"

\* Nothing is asked before a renewal is due. Any refusal ends the driver; a
\* lost request or answer does not.
Ask(d) ==
  /\ run[d].pc = "mine"
  /\ LET r == run[d].rec
     IN  \/ ~Mine(r) /\ Goto(d, "exit") /\ UNCHANGED <<job, fresh, faults>>
         \/ Mine(r) /\ r.state # "waiting" /\ Goto(d, "wait") /\ UNCHANGED <<job, fresh, faults>>
         \/ Mine(r) /\ Serves(r) /\ Goto(d, "wait") /\ (Sent \/ Lost)
         \/ Mine(r) /\ Lost /\ Goto(d, "wait") /\ UNCHANGED <<job, fresh>>
         \/ Mine(r) /\ ((Declines(r) /\ Sent) \/ Refused) /\ Goto(d, "exit") /\ UNCHANGED <<job, fresh>>
  /\ UNCHANGED <<fits, wire, serverVars, driving, settled, list, due, op>>

Wait(d) ==
  /\ run[d].pc = "wait"
  /\ Goto(d, IF server = "on" THEN "read" ELSE "exit")
  /\ UNCHANGED <<boxVars, wire, serverVars, driving, settled, list, due, op, faults>>

\* Mutant: the goroutine ends and its entry stays.
ExitKeeps(d) ==
  /\ run[d].pc = "exit"
  /\ Goto(d, "off")
  /\ UNCHANGED <<boxVars, wire, serverVars, driving, settled, list, due, op, faults>>

\* The deferred end of the goroutine.
Exit(d) ==
  /\ run[d].pc = "exit"
  /\ Goto(d, "off") /\ driving' = FALSE
  /\ UNCHANGED <<boxVars, wire, serverVars, settled, list, due, op, faults>>

-----------------------------------------------------------------------------
(* finished: by the driver that saw the job succeed, or by finishLater. *)

\* Mutant: finishLater's goroutine ends as a driver does.
EndAsDriver(g) == "exit"

End(g) == IF g = Late THEN "off" ELSE "exit"

Settle(g) ==
  /\ run[g].pc = "finished"
  /\ Goto(g, IF settled THEN End(g) ELSE "apply")
  /\ settled' = TRUE
  /\ UNCHANGED <<boxVars, wire, serverVars, driving, list, due, op, faults>>

\* Mutant: a box that could not answer stays settled.
UnsettleNever(g) == UNCHANGED settled /\ Goto(g, End(g))

Unsettle(g) == settled' = FALSE /\ Goto(g, End(g))

\* applyBoxNames asks the box for agent.info: an answer about another node
\* settles the job with the wire as it is.
AskInfo(g) ==
  /\ run[g].pc = "apply"
  /\ \/ Sent /\ Goto(g, IF fits THEN "save" ELSE End(g)) /\ UNCHANGED settled
     \/ (Lost \/ Refused) /\ Unsettle(g)
  /\ UNCHANGED <<boxVars, wire, serverVars, driving, list, due, op>>

\* updateConfig. (The names it saves are those the box reported: nothing
\* switches them back.)
Save(g) ==
  /\ run[g].pc = "save"
  /\ \/ wire' = BoxNames /\ Goto(g, End(g)) /\ UNCHANGED <<settled, faults>>
     \/ Happens("disk") /\ Unsettle(g) /\ UNCHANGED wire
  /\ UNCHANGED <<boxVars, serverVars, driving, list, due, op>>

-----------------------------------------------------------------------------
(* The listing *)

Listing == IF server = "on" /\ list = Off THEN list' = At("asked") ELSE UNCHANGED list

\* sweep: refresh waits for a listing that is under way, forced or not.
Sweep ==
  /\ due /\ due' = FALSE
  /\ Listing
  /\ UNCHANGED <<boxVars, wire, serverVars, driving, settled, run, op, faults>>

\* A front end that watches the fleet or the jobs has them listed.
Watch ==
  /\ server = "on" /\ list = Off
  /\ Listing
  /\ UNCHANGED <<boxVars, wire, serverVars, driving, settled, run, due, op, faults>>

ListAsk ==
  /\ list.pc = "asked"
  /\ \/ Sent /\ list' = With("got", [state |-> job.state, owner |-> job.owner])
     \/ (Lost \/ Refused) /\ list' = At("end")
  /\ UNCHANGED <<boxVars, wire, serverVars, driving, settled, run, due, op>>

\* afterList: drives this controller's own unfinished job, and settles a
\* finished one whoever drove it.
AfterList ==
  /\ list.pc = "got"
  /\ list' = At("end")
  /\ LET r == list.rec
     IN  IF r.state # "absent" /\ ~Terminal(r) /\ Mine(r) THEN Drive
         ELSE IF r.state = "succeeded" THEN FinishLater
         ELSE UNCHANGED <<driving, run>>
  /\ UNCHANGED <<boxVars, wire, serverVars, settled, due, op, faults>>

ListEnd ==
  /\ list.pc = "end"
  /\ list' = Off
  /\ UNCHANGED <<boxVars, wire, serverVars, driving, settled, run, due, op, faults>>

-----------------------------------------------------------------------------
(* handleJobStart, handleJobAdopt and handleJobDecide *)

\* The handler's request reaches the box; its answer may be lost.
Operate ==
  /\ server = "on" /\ ~op /\ ~locked
  /\ Operation("me")
  /\ \/ op' = TRUE /\ UNCHANGED faults
     \/ op' = FALSE /\ Happens("lose")
  /\ UNCHANGED <<fits, wire, serverVars, driving, settled, run, list, due>>

OpDrive ==
  /\ op /\ op' = FALSE
  /\ Drive
  /\ UNCHANGED <<boxVars, wire, serverVars, settled, list, due, faults>>

-----------------------------------------------------------------------------
(* The server and the vault *)

Stop ==
  /\ server = "on" /\ Happens("stop")
  /\ server' = "stopping"
  /\ UNCHANGED <<boxVars, wire, locked, hubVars>>

Idle == list = Off /\ \A g \in Goroutine : run[g] = Off

\* h.wg.Wait returns.
Waited ==
  /\ server = "stopping" /\ Idle
  /\ server' = "waited"
  /\ UNCHANGED <<boxVars, wire, locked, hubVars, faults>>

\* The process ends: stopped (stopWithin waits a few seconds at most), or killed.
Down ==
  /\ \/ server \in {"stopping", "waited"} /\ UNCHANGED faults
     \/ server = "on" /\ Happens("crash")
  /\ server' = "off"
  /\ driving' = FALSE /\ settled' = FALSE
  /\ run' = [g \in Goroutine |-> Off] /\ list' = Off
  /\ due' = FALSE /\ op' = FALSE
  /\ UNCHANGED <<boxVars, wire, locked>>

Boot ==
  /\ server = "off"
  /\ server' = "on" /\ locked' = InVault /\ due' = TRUE
  /\ UNCHANGED <<boxVars, wire, driving, settled, run, list, op, faults>>

Lock ==
  /\ server = "on" /\ InVault /\ ~locked /\ Happens("lock")
  /\ locked' = TRUE
  /\ UNCHANGED <<boxVars, wire, server, hubVars>>

Unlock ==
  /\ server = "on" /\ locked
  /\ locked' = FALSE /\ due' = TRUE
  /\ UNCHANGED <<boxVars, wire, server, driving, settled, run, list, op, faults>>

-----------------------------------------------------------------------------
Drives(d) == Read(d) \/ Look(d) \/ Ask(d) \/ Wait(d) \/ Exit(d)
Finishes(g) == Settle(g) \/ AskInfo(g) \/ Save(g)
Lists == ListAsk \/ AfterList \/ ListEnd

Next ==
  \/ StepEnds \/ LeaseAges \/ Other \/ SetUpAnew
  \/ \E d \in Slot : Drives(d)
  \/ \E g \in Goroutine : Finishes(g)
  \/ Sweep \/ Watch \/ Lists
  \/ Operate \/ OpDrive
  \/ Stop \/ Waited \/ Down \/ Boot \/ Lock \/ Unlock

\* Go schedules every goroutine; a stop comes to its end, a server that ended is
\* started again, and a locked vault is unlocked.
Fairness ==
  /\ \A d \in Slot : WF_vars(Drives(d))
  /\ \A g \in Goroutine : WF_vars(Finishes(g))
  /\ WF_vars(Sweep) /\ WF_vars(Lists) /\ WF_vars(OpDrive)
  /\ WF_vars(server # "on" /\ Down) /\ WF_vars(Boot) /\ WF_vars(Unlock)

Spec == Init /\ [][Next]_vars /\ Fairness

\* Someone watches, now and then.
WatchedSpec == Spec /\ WF_vars(Watch)
-----------------------------------------------------------------------------
(* Properties *)

DriverPC == {"off", "read", "got", "mine", "wait", "exit", "finished", "apply", "save"}
LatePC == {"off", "finished", "apply", "save"}

\* Every variable keeps its type.
TypeOK ==
  /\ job \in Record /\ fresh \in BOOLEAN /\ fits \in BOOLEAN
  /\ wire \in {"legacy", "current"}
  /\ server \in {"on", "stopping", "waited", "off"} /\ locked \in BOOLEAN
  /\ driving \in BOOLEAN /\ settled \in BOOLEAN
  /\ run \in [Goroutine -> [pc : DriverPC, rec : Record \cup {None}]]
  /\ run[Late].pc \in LatePC
  /\ list \in [pc : {"off", "asked", "got", "end"},
               rec : [state : States, owner : Owner] \cup {None}]
  /\ due \in BOOLEAN /\ op \in BOOLEAN
  /\ faults \in 0 .. MaxFaults

Live(d) == run[d].pc # "off"

\* The hub's entry for the job is there exactly while a driver runs, and there
\* is never a second driver, however starts, listings and ends interleave.
OneDriver ==
  /\ driving = (\E d \in Slot : Live(d))
  /\ \A d, e \in Slot : Live(d) /\ Live(e) => d = e

\* Once stopWithin has waited, nothing of the hub runs or starts again.
QuietAfterStop == server = "waited" => Idle

DriversCounted == OneDriver /\ QuietAfterStop

\* A job of this controller at a step boundary is advanced, or leaves its
\* hands, whatever request was lost or refused and whoever stopped.
Driven == job.state = "waiting" /\ job.owner = "me" ~> job.state # "waiting" \/ job.owner # "me"

\* The controller's record follows a box whose names were migrated.
NamesFollow == job.state = "succeeded" ~> wire = "current" \/ ~fits

\* An unlock resumes this controller's jobs, watched or not.
UnlockResumes ==
  locked /\ job.state = "waiting" /\ job.owner = "me" ~> job.state # "waiting" \/ job.owner # "me"
=============================================================================
