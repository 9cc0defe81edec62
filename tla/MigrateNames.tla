---------------------------- MODULE MigrateNames -----------------------------
(***************************************************************************)
(* The node.migrate-names plan (internal/jobs/migratenames.go): a durable  *)
(* job of eight steps that renames a node's account, group, data root and  *)
(* units from the legacy names to the current ones, switches node.json and *)
(* the markers, and starts what ran.  A step is a list of commands; it may *)
(* be cut off before any of them, by an error or a reboot, and is retried  *)
(* or aborted by a person, after whom a new job may begin.  The engine     *)
(* that keeps the job is DurableJobs: here a step's result counts once the *)
(* step has returned, and nothing is retried unasked.                      *)
(*                                                                         *)
(* A directory is told apart only by the root it lies under.  Left out are *)
(* the refusals of boxes that no operation here makes (two accounts, two   *)
(* roots, other units that use them) and the validation of paths.          *)
(***************************************************************************)
EXTENDS Naturals, Sequences

CONSTANTS
  Boxes,     \* the boxes as they are before the first job
  MaxJobs,   \* bound on jobs: the last one is not aborted
  MaxFaults, \* bound on commands cut off, and on reboots
  MaxRepairs, \* bound on re-pairs by a controller that missed the migration
  None

Names == {"legacy", "current"}
Services == {"exec", "beacon"}
Units == Names \X Services
Dirs == {"legacy", "current", "custom"}

ASSUME MigrateConstants ==
  /\ Boxes \subseteq [dir : {"legacy", "custom"}, enabled : SUBSET Services, active : SUBSET Services,
                      restored : BOOLEAN, owned : BOOLEAN, mounted : BOOLEAN, foreign : BOOLEAN,
                      other : {"none", "soft", "hard"}]
  /\ MaxJobs \in Nat \ {0} /\ MaxFaults \in Nat /\ MaxRepairs \in Nat
  /\ None \notin Dirs

VARIABLES
  box,      \* the box at first (a history), with what no step changes: mounts, and files whose owner is foreign
  user, group, \* the service account and its group: the names they have
  root,     \* where the data root is
  unit,     \* unit[n, s]: the data dir in the unit file of service s under names n, or None
  enabled, active, \* the units that are
  other,    \* processes of the account outside the units: "soft" ones exit at a SIGTERM
  node,     \* node.json
  names,    \* names.json: None, or whether it records that the data root "moved" or was "kept"
  owner,    \* the owner marker: the account whose ownership it vouches for
  snapshot, \* the snapshot marker: the dir it vouches for
  job,      \* the job's manifest, and the commands its running step has still to do
  left,     \* budgets
  cut       \* a job was aborted between its writing node.json and names.json (a history)

accountVars == <<user, group>>
unitVars == <<unit, enabled, active>>
fileVars == <<node, names, owner, snapshot>>
boxVars == <<accountVars, root, unitVars, other, fileVars>>
vars == <<box, boxVars, job, left, cut>>

Plan == <<"preflight", "stop-units", "rename-account", "move-data",
          "rewrite-units", "ownership", "start-units", "verify">>

NoAnswer == [key |-> None, option |-> None]
NewJob(n) == [n |-> n, pc |-> "ready", step |-> 1, ask |-> None, answer |-> NoAnswer, todo |-> <<>>,
              already |-> FALSE, wasActive |-> {}, wasEnabled |-> {}, moved |-> FALSE, dir |-> None]

Init ==
  /\ box \in Boxes
  /\ user = "legacy" /\ group = "legacy" /\ root = "legacy"
  /\ unit = [u \in Units |-> IF u[1] = "legacy" THEN box.dir ELSE None]
  /\ enabled = {"legacy"} \X box.enabled /\ active = {"legacy"} \X box.active
  /\ other = box.other
  /\ node = [names |-> "legacy", dir |-> box.dir]
  /\ names = None
  /\ owner = IF box.owned THEN "legacy" ELSE None
  /\ snapshot = IF box.restored THEN box.dir ELSE None
  /\ job = NewJob(1)
  /\ left = [faults |-> MaxFaults, repairs |-> MaxRepairs]
  /\ cut = FALSE

-----------------------------------------------------------------------------
(* What the steps read. *)

\* Rebase, from the legacy root to the current one.
Rebase(d) == IF d = "legacy" THEN "current" ELSE d

\* NamesMarker.Apply: node.json as the marker corrects it.
Apply(w) == [names |-> "current", dir |-> IF names = "moved" THEN Rebase(w.dir) ELSE w.dir]

\* readNode.
Node == IF names = None THEN node ELSE Apply(node)

\* leftovers: what still says the box uses the legacy names.
Leftovers ==
  \/ group = "legacy"
  \/ \E s \in Services : unit[<<"legacy", s>>] # None
  \/ owner = "legacy"
  \/ Node.dir = "current" /\ snapshot = "legacy"

Question(key, options) == [key |-> key, options |-> options]
Failed == Question("step-failed", {"retry", "abort"})
Busy == Question("busy-user", {"retry", "stop-processes", "abort"})
StillBusy == Question("busy-user", {"retry", "kill-processes", "abort"})
BusyAgain == Question("busy-user", {"retry", "abort"})
Mounted == Question("mounted-data", {"retry", "keep-path"})
Questions == {Failed, Busy, StillBusy, BusyAgain, Mounted}
Options == {"retry", "stop-processes", "kill-processes", "keep-path"}

\* No answer is not an option, and no question is not one.
ASSUME NoneOK == None \notin Options \cup {"moved", "kept"} /\ None \notin Questions

\* An Outcome with a question, or an error.
Ask(q) == job' = [job EXCEPT !.pc = "asking", !.ask = q, !.todo = <<>>]

\* The step goes on with commands todo.
Run(todo) == job' = [job EXCEPT !.pc = "running", !.todo = todo]

At(step) == job.pc = "ready" /\ Plan[job.step] = step /\ UNCHANGED <<box, boxVars, left, cut>>

-----------------------------------------------------------------------------
(* The steps: what each reads, and the commands it then runs. *)

Preflight ==
  /\ At("preflight")
  /\ IF user = "legacy" /\ Node.names = "current"
     THEN Ask(Failed)
     ELSE job' = [job EXCEPT !.pc = "running",
                    !.already = user = "current" /\ Node.names = "current" /\ ~Leftovers,
                    !.wasActive = {s \in Services : \E n \in Names : <<n, s>> \in active},
                    !.wasEnabled = {s \in Services : \E n \in Names : <<n, s>> \in enabled}]

\* stopNodeUnits: both name sets, one unit after the other.
StopNodeUnits == <<<<"stop", <<"legacy", "exec">>>>, <<"stop", <<"legacy", "beacon">>>>,
                   <<"stop", <<"current", "exec">>>>, <<"stop", <<"current", "beacon">>>>>>

StopUnits ==
  /\ At("stop-units")
  /\ Run(IF job.already THEN <<>> ELSE Append(StopNodeUnits, <<"others">>))

\* Mutant: retry checks again and does not stop the node again.
RenameAccountOnlyAsks ==
  /\ At("rename-account")
  /\ Run(IF job.already THEN <<>> ELSE <<<<"idle">>, <<"usermod">>, <<"groupmod">>>>)

\* What is renamed already is skipped by the commands themselves.
RenameAccount ==
  /\ At("rename-account")
  /\ LET again == user = "legacy" /\ job.answer = [key |-> "busy-user", option |-> "retry"]
     IN Run(IF job.already THEN <<>>
            ELSE (IF again THEN StopNodeUnits ELSE <<>>) \o <<<<"idle">>, <<"usermod">>, <<"groupmod">>>>)

\* A step's result, and the commands that make it true.
Result(moved, dir, todo) ==
  job' = [job EXCEPT !.pc = "running", !.todo = todo, !.moved = moved, !.dir = dir]

\* Mutant: a root an earlier attempt moved is not reported as moved.
MoveDataAgain ==
  /\ At("move-data")
  /\ LET w == Node
     IN IF job.already \/ w.dir # "legacy" \/ root = "current" THEN Result(FALSE, w.dir, <<>>)
        ELSE IF job.answer.option = "keep-path" THEN Result(FALSE, w.dir, <<>>)
        ELSE IF box.mounted THEN Ask(Mounted)
        ELSE Result(TRUE, Rebase(w.dir), <<<<"mv">>>>)

MoveData ==
  /\ At("move-data")
  /\ LET w == Node
     IN IF job.already THEN Result(FALSE, w.dir, <<>>)
        ELSE IF names = "moved" THEN IF root = "legacy" THEN Ask(Failed) ELSE Result(TRUE, w.dir, <<>>)
        ELSE IF w.dir # "legacy" THEN Result(FALSE, w.dir, <<>>)
        ELSE IF root = "current" THEN Result(TRUE, Rebase(w.dir), <<>>)
        ELSE IF job.answer.option = "keep-path" THEN Result(FALSE, w.dir, <<>>)
        ELSE IF box.mounted THEN Ask(Mounted)
        ELSE Result(TRUE, Rebase(w.dir), <<<<"mv">>>>)

\* Mutant: the legacy units are disabled first.
RewriteUnitsDisableFirst ==
  /\ At("rewrite-units")
  /\ Run(IF job.already THEN <<>>
         ELSE <<<<"write", "exec">>, <<"write", "beacon">>, <<"disable">>, <<"enable">>, <<"remove">>,
                <<"snapshot">>, <<"node">>, <<"names">>>>)

\* The move's result must describe this node.json (sameOrMoved).
RewriteUnits ==
  /\ At("rewrite-units")
  /\ IF ~job.already /\ job.dir \notin {Node.dir, Rebase(Node.dir)}
     THEN Ask(Failed)
     ELSE Run(IF job.already THEN <<>>
              ELSE <<<<"write", "exec">>, <<"write", "beacon">>, <<"enable">>, <<"disable">>, <<"remove">>,
                     <<"snapshot">>, <<"node">>, <<"names">>>>)

\* usermod keeps the uid, so only a mount with foreign owners is walked.
Ownership ==
  /\ At("ownership")
  /\ IF ~job.already /\ Node.names # "current"
     THEN Ask(Failed)
     ELSE Run(IF ~job.already /\ (box.foreign \/ owner = "legacy") THEN <<<<"owner">>>> ELSE <<>>)

StartIfActive(s) == IF s \in job.wasActive THEN <<<<"start", <<"current", s>>>>>> ELSE <<>>

StartUnits ==
  /\ At("start-units")
  /\ Run(IF job.already THEN <<>> ELSE StartIfActive("exec") \o StartIfActive("beacon"))

\* What verify finds wrong.
Problems ==
  \/ user = "legacy" \/ Node.names # "current" \/ Leftovers
  \/ \E s \in Services :
       \/ unit[<<"current", s>>] = None
       \/ ~job.already /\ (s \in job.wasEnabled) # (<<"current", s>> \in enabled)

Verify ==
  /\ At("verify")
  /\ IF Problems THEN Ask(Failed) ELSE Run(<<>>)

Begin ==
  \/ Preflight \/ StopUnits \/ RenameAccount \/ MoveData
  \/ RewriteUnits \/ Ownership \/ StartUnits \/ Verify

-----------------------------------------------------------------------------
(* The commands. *)

Turn(command) ==
  /\ job.pc = "running" /\ job.todo # <<>>
  /\ Head(job.todo)[1] = command
  /\ UNCHANGED <<box, left, cut>>
Arg == Head(job.todo)[2]
Done == job' = [job EXCEPT !.todo = Tail(@)]

Stop ==
  /\ Turn("stop") /\ Done
  /\ active' = active \ {Arg}
  /\ UNCHANGED <<accountVars, root, unit, enabled, other, fileVars>>

\* The account's other processes: signalled on an answer, killed on a second one.
Others ==
  /\ Turn("others")
  /\ CASE other = "none" -> Done /\ UNCHANGED other
       [] other # "none" /\ job.answer.option = "stop-processes" ->
            IF other = "soft" THEN other' = "none" /\ Done ELSE Ask(StillBusy) /\ UNCHANGED other
       [] other # "none" /\ job.answer.option = "kill-processes" -> other' = "none" /\ Done
       [] OTHER -> Ask(Busy) /\ UNCHANGED other
  /\ UNCHANGED <<accountVars, root, unitVars, fileVars>>

\* busyWith: a reboot may have started the legacy units again.
Idle ==
  /\ Turn("idle")
  /\ IF user = "legacy" /\ (active # {} \/ other # "none") THEN Ask(BusyAgain) ELSE Done
  /\ UNCHANGED boxVars

Usermod ==
  /\ Turn("usermod") /\ Done
  /\ user' = "current"
  /\ UNCHANGED <<group, root, unitVars, other, fileVars>>

Groupmod ==
  /\ Turn("groupmod") /\ Done
  /\ group' = "current"
  /\ UNCHANGED <<user, root, unitVars, other, fileVars>>

Move ==
  /\ Turn("mv") /\ Done
  /\ root' = "current"
  /\ UNCHANGED <<accountVars, unitVars, other, fileVars>>

\* Mutant: the units are rendered from node.json as it was.
WriteUnitUnmoved ==
  /\ Turn("write") /\ Done
  /\ unit' = [unit EXCEPT ![<<"current", Arg>>] = Node.dir]
  /\ UNCHANGED <<accountVars, root, enabled, active, other, fileVars>>

WriteUnit ==
  /\ Turn("write") /\ Done
  /\ unit' = [unit EXCEPT ![<<"current", Arg>>] = job.dir]
  /\ UNCHANGED <<accountVars, root, enabled, active, other, fileVars>>

Enable ==
  /\ Turn("enable") /\ Done
  /\ enabled' = enabled \cup ({"current"} \X job.wasEnabled)
  /\ UNCHANGED <<accountVars, root, unit, active, other, fileVars>>

Disable ==
  /\ Turn("disable") /\ Done
  /\ enabled' = enabled \ ({"legacy"} \X Services)
  /\ UNCHANGED <<accountVars, root, unit, active, other, fileVars>>

RemoveUnits ==
  /\ Turn("remove") /\ Done
  /\ unit' = [u \in Units |-> IF u[1] = "legacy" THEN None ELSE unit[u]]
  /\ UNCHANGED <<accountVars, root, enabled, active, other, fileVars>>

\* followSnapshotMarker: only a marker that vouches for the dir that moved.
Snapshot ==
  /\ Turn("snapshot") /\ Done
  /\ snapshot' = IF job.moved /\ job.dir = "current" /\ snapshot = "legacy" THEN "current" ELSE snapshot
  /\ UNCHANGED <<accountVars, root, unitVars, other, node, names, owner>>

WriteNode ==
  /\ Turn("node") /\ Done
  /\ node' = [names |-> "current", dir |-> job.dir]
  /\ UNCHANGED <<accountVars, root, unitVars, other, names, owner, snapshot>>

WriteNames ==
  /\ Turn("names") /\ Done
  /\ names' = IF job.moved THEN "moved" ELSE "kept"
  /\ UNCHANGED <<accountVars, root, unitVars, other, node, owner, snapshot>>

FollowOwner ==
  /\ Turn("owner") /\ Done
  /\ owner' = Node.names
  /\ UNCHANGED <<accountVars, root, unitVars, other, node, names, snapshot>>

\* systemd starts a unit whose file and account exist.
Startable(u) == unit[u] # None /\ user = u[1] /\ group = u[1]

Start ==
  /\ Turn("start")
  /\ IF Startable(Arg) THEN active' = active \cup {Arg} /\ Done ELSE Ask(Failed) /\ UNCHANGED active
  /\ UNCHANGED <<accountVars, root, unit, enabled, other, fileVars>>

Command ==
  \/ Stop \/ Others \/ Idle \/ Usermod \/ Groupmod \/ Move \/ WriteUnit \/ Enable
  \/ Disable \/ RemoveUnits \/ Snapshot \/ WriteNode \/ WriteNames \/ FollowOwner \/ Start

\* Mutant: the job ends with a question open.
ReturnAsked ==
  /\ job.pc = "running" /\ job.todo = <<>>
  /\ IF job.step = Len(Plan)
     THEN job' = [job EXCEPT !.pc = "done", !.answer = NoAnswer, !.ask = Failed]
     ELSE job' = [job EXCEPT !.pc = "ready", !.answer = NoAnswer, !.step = @ + 1]
  /\ UNCHANGED <<box, boxVars, left, cut>>

\* The step succeeds (the engine's settle).
Return ==
  /\ job.pc = "running" /\ job.todo = <<>>
  /\ IF job.step = Len(Plan)
     THEN job' = [job EXCEPT !.pc = "done", !.answer = NoAnswer]
     ELSE job' = [job EXCEPT !.pc = "ready", !.answer = NoAnswer, !.step = @ + 1]
  /\ UNCHANGED <<box, boxVars, left, cut>>

-----------------------------------------------------------------------------
(* The people and the faults around the job. *)

\* The engine's decideState.
Answer(option) ==
  /\ job.pc = "asking" /\ option \in job.ask.options \ {"abort"}
  /\ job' = [job EXCEPT !.pc = "ready", !.ask = None, !.answer = [key |-> job.ask.key, option |-> option]]
  /\ UNCHANGED <<box, boxVars, left, cut>>

\* "stop the job here", and a new one may finish what it left.
Abort ==
  /\ job.pc = "asking" /\ "abort" \in job.ask.options /\ job.n < MaxJobs
  /\ job' = [job EXCEPT !.pc = "aborted", !.ask = None]
  /\ cut' = (cut \/ (node.names = "current" /\ names = None))
  /\ UNCHANGED <<box, boxVars, left>>

StartJob ==
  /\ job.pc \in {"done", "aborted"} /\ job.n < MaxJobs
  /\ job' = NewJob(job.n + 1)
  /\ UNCHANGED <<box, boxVars, left, cut>>

Fault == left.faults > 0 /\ left' = [left EXCEPT !.faults = @ - 1]

\* A command fails, or the step's process is killed.
Interrupted ==
  /\ Fault
  /\ job.pc = "running" /\ Ask(Failed)
  /\ UNCHANGED <<box, boxVars, cut>>

\* A reboot cuts the running step off and starts the enabled units that can start.
Reboot ==
  /\ Fault
  /\ IF job.pc = "running" THEN Ask(Failed) ELSE UNCHANGED job
  /\ active' = {u \in enabled : Startable(u)}
  /\ other' = "none"
  /\ UNCHANGED <<box, accountVars, root, unit, enabled, fileVars, cut>>

\* A controller that missed the migration pairs again and writes its copy of the wire.
Repair ==
  /\ left.repairs > 0 /\ left' = [left EXCEPT !.repairs = @ - 1]
  /\ node' = [names |-> "legacy", dir |-> box.dir]
  /\ UNCHANGED <<box, accountVars, root, unitVars, other, names, owner, snapshot, job, cut>>


Next ==
  \/ Begin \/ Command \/ Return
  \/ \E option \in Options : Answer(option)
  \/ Abort \/ StartJob \/ Interrupted \/ Reboot \/ Repair

\* Steps run, questions are answered, also with the options that get further,
\* and an aborted job is followed by another.
Fairness ==
  /\ WF_vars(Begin \/ Command \/ Return)
  /\ \A option \in Options : SF_vars(Answer(option))
  /\ WF_vars(job.pc = "aborted" /\ StartJob)

Spec == Init /\ [][Next]_vars /\ Fairness

-----------------------------------------------------------------------------
(* Properties. *)

\* Every variable has its type, a question is open exactly while the job asks,
\* and commands are left only while a step runs.
TypeOK ==
  /\ box \in Boxes
  /\ {user, group, root} \subseteq Names
  /\ unit \in [Units -> Dirs \cup {None}]
  /\ enabled \subseteq Units /\ active \subseteq Units
  /\ other \in {"none", "soft", "hard"}
  /\ node \in [names : Names, dir : Dirs]
  /\ names \in {None, "moved", "kept"} /\ owner \in Names \cup {None} /\ snapshot \in Dirs \cup {None}
  /\ job.n \in 1..MaxJobs /\ job.step \in 1..Len(Plan)
  /\ job.pc \in {"ready", "running", "asking", "done", "aborted"}
  /\ (job.ask # None) <=> (job.pc = "asking")
  /\ job.todo # <<>> => job.pc = "running"
  /\ {job.wasActive, job.wasEnabled} \subseteq SUBSET Services
  /\ {job.already, job.moved, cut} \subseteq BOOLEAN
  /\ job.dir \in Dirs \cup {None}
  /\ left \in [faults : 0..MaxFaults, repairs : 0..MaxRepairs]

\* Where the node's data is.
Place == IF box.dir = "custom" THEN "custom" ELSE root

\* What runs runs on the node's data, as an account that exists, and no
\* service runs under both names: through every cut, abort and reboot the
\* units that can start are units whose account and paths are there.
RunsOnItsData ==
  \A u \in active : /\ user = u[1] /\ group = u[1]
                    /\ unit[u] = Place

\* A service that was enabled is enabled under one of the names at all times,
\* so that a later job finds it, and a disabled one is never enabled
\* (rewrite-units' order, toEnable and preflight's reading of both names).
EnablementKept ==
  \A s \in Services : s \in box.enabled <=> \E n \in Names : <<n, s>> \in enabled

\* The wire every reader gets names the current account and the place of the data.
WireFollows == Node = [names |-> "current", dir |-> Place]

\* A job that ends well leaves nothing half switched, whichever earlier jobs
\* were cut off where: accounts, units, markers and node.json agree on the
\* current names and on the place of the data, also after a stale re-pair,
\* unless a job was aborted between node.json and names.json (RecordSurvives).
MigratedWhenDone ==
  job.pc = "done" =>
    /\ user = "current" /\ group = "current"
    /\ \A s \in Services : unit[<<"current", s>>] = Place /\ unit[<<"legacy", s>>] = None
    /\ enabled = {"current"} \X box.enabled
    /\ owner \in {None, "current"}
    /\ snapshot = IF box.restored THEN Place ELSE None
    /\ cut \/ WireFollows

\* names.json "stops a stale re-pair pointing the node at the old root", and
\* "a later job must carry the move it records, never drop it".
RecordSurvives == job.pc = "done" => WireFollows

\* However often it is cut off, the migration ends well once its questions
\* are answered and an aborted job is followed by another; without a record
\* (cut), a re-pair under a job that found nothing to do keeps verify failing.
Finishes == []<>(job.pc = "done" \/ cut)
=============================================================================
