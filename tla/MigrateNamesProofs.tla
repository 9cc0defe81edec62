------------------------- MODULE MigrateNamesProofs -------------------------
(***************************************************************************)
(* What the migration keeps for every set of boxes and any number of jobs, *)
(* faults and re-pairs, proved: the node runs on its data, its services    *)
(* stay enabled, and a job that ends well leaves nothing half switched.    *)
(*                                                                         *)
(* A step may be cut off before any of its commands, and a later job finds *)
(* what it left.  So the invariant says of each place on the box what it   *)
(* may be at any time, and of the running step what its commands so far    *)
(* have done: the commands are known by how many are left.                 *)
(***************************************************************************)
EXTENDS MigrateNames, SequenceTheorems, TLAPS

---------------------------------------------------------------------------
(* The types, with those of the job's record. *)

Commands ==
  {<<"stop", u>> : u \in Units} \cup {<<"write", s>> : s \in Services}
    \cup {<<"start", <<"current", s>>>> : s \in Services}
    \cup {<<c>> : c \in {"others", "idle", "usermod", "groupmod", "mv", "enable", "disable",
                         "remove", "snapshot", "node", "names", "owner"}}

JobType ==
  [n : 1 .. MaxJobs, pc : {"ready", "running", "asking", "done", "aborted"}, step : 1 .. 8,
   ask : {None} \cup Questions,
   answer : [key : {None} \cup {q.key : q \in Questions}, option : {None} \cup Options],
   todo : Seq(Commands), already : BOOLEAN, wasActive : SUBSET Services,
   wasEnabled : SUBSET Services, moved : BOOLEAN, dir : Dirs \cup {None}]

JobTyped ==
  /\ job \in JobType
  /\ job.ask # None <=> job.pc = "asking"
  /\ job.pc # "running" => job.todo = <<>>

BoxTyped ==
  /\ box \in Boxes
  /\ {user, group, root} \subseteq Names
  /\ unit \in [Units -> Dirs \cup {None}]
  /\ enabled \subseteq Units /\ active \subseteq Units
  /\ other \in {"none", "soft", "hard"}
  /\ node \in [names : Names, dir : Dirs]
  /\ names \in {None, "moved", "kept"} /\ owner \in Names \cup {None} /\ snapshot \in Dirs \cup {None}
  /\ left \in [faults : 0 .. MaxFaults, repairs : 0 .. MaxRepairs]
  /\ cut \in BOOLEAN

Types == BoxTyped /\ JobTyped

---------------------------------------------------------------------------
(* The box, at any time. *)

\* The data will move no more.
Settled == box.dir = "custom" \/ box.mounted \/ root = "current"

\* The snapshot marker vouches for the place of the data, as it did at first.
Followed == snapshot = IF box.restored THEN Place ELSE None

\* Account, group and root are renamed in this order.
Accounts ==
  /\ group = "current" => user = "current"
  /\ root = "current" => group = "current" /\ box.dir = "legacy" /\ ~box.mounted

\* A unit file leads to the data.
UnitFiles ==
  \A s \in Services :
    /\ unit[<<"legacy", s>>] \in {None, box.dir}
    /\ unit[<<"current", s>>] \in {None, Place}
    /\ unit[<<"current", s>>] # None => Settled

\* A legacy unit is disabled before any of the legacy files goes.
NoneLegacy == \A s \in Services : <<"legacy", s>> \notin enabled
Disabled == (\E s \in Services : unit[<<"legacy", s>>] = None) => NoneLegacy

\* node.json names the old dir or the place of the data, and says that the box
\* has switched only when the data and its marker have.
NodeFile ==
  /\ node.dir \in {box.dir, Place}
  /\ node.dir # box.dir => node.names = "current"
  /\ node.names = "current" \/ names # None => Settled /\ Followed

\* names.json records the move, unless a job was cut before it wrote one.
Record ==
  /\ names = "moved" => root = "current"
  /\ ~cut /\ names = "kept" => Place = box.dir
  /\ ~cut /\ names = None /\ node.names = "current" =>
       job.step = 5 /\ ~job.already /\ job.pc \notin {"done", "aborted"}

Marker == snapshot \in IF box.restored THEN {box.dir, Place} ELSE {None}

BoxInv ==
  /\ Accounts /\ UnitFiles /\ EnablementKept /\ Disabled /\ NodeFile /\ Record /\ Marker
  /\ RunsOnItsData

---------------------------------------------------------------------------
(* The job, between its steps. *)

\* What move-data returned, which the later steps use.
Located ==
  /\ job.dir = Place /\ Settled
  /\ job.moved => root = "current"
  /\ ~job.moved => Place # "current" \/ Followed
  /\ ~job.moved /\ ~cut => Place = box.dir

\* What verify has seen, and no re-pair or reboot undoes.
Verified ==
  /\ user = "current" /\ group = "current"
  /\ \A s \in Services : unit[<<"legacy", s>>] = None /\ unit[<<"current", s>>] # None
  /\ owner # "legacy" /\ Followed
  /\ cut \/ names # None

StepsDone ==
  /\ job.already => group = "current" /\ Settled
  /\ job.step > 1 \/ job.pc = "running" => job.wasEnabled = box.enabled
  /\ job.step > 3 => group = "current"
  /\ job.step > 4 /\ ~job.already => Located
  /\ job.step > 5 /\ ~job.already => names # None
  /\ job.pc = "done" \/ (job.pc = "running" /\ job.step = 8) => Verified
  /\ job.answer.option = "keep-path" \/ job.ask = Mounted => box.mounted

---------------------------------------------------------------------------
(* The commands of the running step that are left, and what those before    *)
(* them have done.                                                          *)

StopList == Append(StopNodeUnits, <<"others">>)
RenameList == StopNodeUnits \o <<<<"idle">>, <<"usermod">>, <<"groupmod">>>>
RewriteList == <<<<"write", "exec">>, <<"write", "beacon">>, <<"enable">>, <<"disable">>, <<"remove">>,
                 <<"snapshot">>, <<"node">>, <<"names">>>>

\* All but the last n of the commands L are done.
Rest(L, n) == SubSeq(L, Len(L) - n + 1, Len(L))
Todo == Len(job.todo)
LeftOf(L) == Todo <= Len(L) /\ job.todo = Rest(L, Todo)

Renaming ==
  /\ LeftOf(RenameList)
  /\ Todo = 2 /\ user = "legacy" => active = {}
  /\ Todo = 1 => user = "current"
  /\ Todo = 0 => group = "current"

Moving ==
  \/ job.todo = <<<<"mv">>>> /\ job.dir = "current" /\ job.moved /\ box.dir = "legacy" /\ ~box.mounted
     /\ ~job.already
  \/ job.todo = <<>> /\ (job.already \/ Located)

Rewriting ==
  IF job.already THEN job.todo = <<>>
  ELSE
    /\ LeftOf(RewriteList)
    /\ Todo < 6 => \A s \in box.enabled : <<"current", s>> \in enabled
    /\ Todo < 5 => NoneLegacy
    /\ Todo < 3 => Followed
    /\ Todo = 0 => names # None

Owning == job.todo = <<>> \/ (job.todo = <<<<"owner">>>> /\ ~job.already)

Starting == \A i \in DOMAIN job.todo : \E s \in Services : job.todo[i] = <<"start", <<"current", s>>>>

Running ==
  job.pc = "running" =>
    /\ job.step = 1 => job.todo = <<>>
    /\ job.step = 2 => LeftOf(StopList)
    /\ job.step = 3 => IF job.already THEN job.todo = <<>> ELSE Renaming
    /\ job.step = 4 => Moving
    /\ job.step = 5 => Rewriting
    /\ job.step = 6 => Owning
    /\ job.step = 7 => Starting
    /\ job.step = 8 => job.todo = <<>>

IInv == Types /\ BoxInv /\ StepsDone /\ Running

---------------------------------------------------------------------------
(* The lists of commands. *)

LEMMA PlanSteps ==
  /\ Len(Plan) = 8
  /\ Plan[1] = "preflight" /\ Plan[2] = "stop-units" /\ Plan[3] = "rename-account" /\ Plan[4] = "move-data"
  /\ Plan[5] = "rewrite-units" /\ Plan[6] = "ownership" /\ Plan[7] = "start-units" /\ Plan[8] = "verify"
BY DEF Plan

LEMMA StopsSeq == StopNodeUnits \in Seq(Commands)
<1>1. \A u \in Units : <<"stop", u>> \in Commands
  BY DEF Commands
<1>2. \A n \in Names : \A s \in Services : <<n, s>> \in Units
  BY DEF Units
<1> QED BY <1>1, <1>2 DEF StopNodeUnits, Names, Services

LEMMA Stops == Len(StopNodeUnits) = 4 /\ \A i \in 1 .. 4 : StopNodeUnits[i][1] = "stop"
BY DEF StopNodeUnits

LEMMA StopListSeq == StopList \in Seq(Commands)
<1>1. <<"others">> \in Commands
  BY DEF Commands
<1> QED BY <1>1, StopsSeq, AppendProperties DEF StopList

LEMMA StopListed ==
  Len(StopList) = 5 /\ \A i \in 1 .. 5 : StopList[i][1] = IF i = 5 THEN "others" ELSE "stop"
<1> DEFINE e == <<"others">>
<1>1. e \in Commands /\ e[1] = "others"
  BY DEF Commands
<1>2. StopList = Append(StopNodeUnits, e)
  BY DEF StopList
<1> HIDE DEF e
<1>3. /\ Len(StopList) = Len(StopNodeUnits) + 1 /\ StopList[Len(StopNodeUnits) + 1] = e
      /\ \A i \in 1 .. Len(StopNodeUnits) : StopList[i] = StopNodeUnits[i]
  BY <1>1, <1>2, StopsSeq, AppendProperties
<1> QED BY <1>1, <1>3, Stops

RenameTail == <<<<"idle">>, <<"usermod">>, <<"groupmod">>>>

LEMMA RenameTailSeq == RenameTail \in Seq(Commands)
BY DEF RenameTail, Commands

LEMMA RenameListSeq == RenameList \in Seq(Commands)
BY RenameTailSeq, StopsSeq, ConcatProperties DEF RenameList, RenameTail

LEMMA RenameListed ==
  /\ Len(RenameList) = 7
  /\ \A i \in 1 .. 4 : RenameList[i][1] = "stop"
  /\ RenameList[5][1] = "idle" /\ RenameList[6][1] = "usermod" /\ RenameList[7][1] = "groupmod"
<1>1. RenameList = StopNodeUnits \o RenameTail
  BY DEF RenameList, RenameTail
<1>2. /\ Len(RenameList) = Len(StopNodeUnits) + Len(RenameTail)
      /\ \A i \in 1 .. Len(StopNodeUnits) + Len(RenameTail) :
           RenameList[i] = IF i <= Len(StopNodeUnits) THEN StopNodeUnits[i] ELSE RenameTail[i - Len(StopNodeUnits)]
  BY <1>1, StopsSeq, RenameTailSeq, ConcatProperties
<1>3. /\ Len(RenameTail) = 3 /\ RenameTail[1][1] = "idle" /\ RenameTail[2][1] = "usermod"
      /\ RenameTail[3][1] = "groupmod"
  BY DEF RenameTail
<1>4. Len(RenameList) = 7
  BY <1>2, <1>3, Stops
<1>5. \A i \in 1 .. 4 : RenameList[i] = StopNodeUnits[i]
  BY <1>2, <1>3, Stops
<1>6. RenameList[5] = RenameTail[1] /\ RenameList[6] = RenameTail[2] /\ RenameList[7] = RenameTail[3]
  BY <1>2, <1>3, Stops
<1> QED BY <1>3, <1>4, <1>5, <1>6, Stops

LEMMA RewriteListSeq == RewriteList \in Seq(Commands)
<1>1. /\ <<"write", "exec">> \in Commands /\ <<"write", "beacon">> \in Commands
      /\ \A c \in {"enable", "disable", "remove", "snapshot", "node", "names"} : <<c>> \in Commands
  BY DEF Commands, Services
<1> QED BY <1>1 DEF RewriteList

LEMMA RewriteListed ==
  /\ Len(RewriteList) = 8
  /\ RewriteList[1][1] = "write" /\ RewriteList[2][1] = "write" /\ RewriteList[3][1] = "enable"
  /\ RewriteList[4][1] = "disable" /\ RewriteList[5][1] = "remove" /\ RewriteList[6][1] = "snapshot"
  /\ RewriteList[7][1] = "node" /\ RewriteList[8][1] = "names"
BY DEF RewriteList

\* The head and the tail of what is left of a list.
LEMMA RestParts ==
  ASSUME NEW L \in Seq(Commands), NEW n \in 1 .. Len(L)
  PROVE  /\ Rest(L, n) # <<>> /\ Len(Rest(L, n)) = n /\ Rest(L, n) \in Seq(Commands)
         /\ Head(Rest(L, n)) = L[Len(L) - n + 1]
         /\ Tail(Rest(L, n)) = Rest(L, n - 1)
BY DEF Rest

\* Nothing of it is left, or all of it.
LEMMA RestEnds == ASSUME NEW L \in Seq(Commands) PROVE Rest(L, 0) = <<>> /\ Rest(L, Len(L)) = L
BY DEF Rest

\* What is left of the list to rename after the units were stopped.
LEMMA RenameRest == Rest(RenameList, 3) = RenameTail
<1>1. RenameList = StopNodeUnits \o RenameTail
  BY DEF RenameList, RenameTail
<1>2. ASSUME NEW s \in Seq(Commands), NEW t \in Seq(Commands)
      PROVE  Rest(s \o t, Len(t)) = t
  BY <1>2 DEF Rest
<1>3. Rest(RenameList, Len(RenameTail)) = RenameTail
  BY <1>1, <1>2, StopsSeq, RenameTailSeq
<1>4. Len(RenameTail) = 3
  BY DEF RenameTail
<1> QED BY <1>3, <1>4

\* A command's argument.
LEMMA Arguments ==
  ASSUME NEW c \in Commands
  PROVE  /\ c[1] = "stop" => c[2] \in Units
         /\ c[1] = "write" => c[2] \in Services
         /\ c[1] = "start" => \E s \in Services : c[2] = <<"current", s>>
BY DEF Commands

---------------------------------------------------------------------------
(* What a running step is about to do. *)

LEMMA Spot ==
  ASSUME Types, Running, job.pc = "running", job.todo # <<>>
  PROVE  /\ job.step \in {2, 3, 4, 5, 6, 7}
         /\ Head(job.todo) \in Commands /\ Tail(job.todo) \in Seq(Commands)
         /\ Todo \in Nat \ {0} /\ Len(Tail(job.todo)) = Todo - 1
         /\ job.step = 2 => /\ Todo <= 5 /\ Tail(job.todo) = Rest(StopList, Todo - 1)
                            /\ Head(job.todo)[1] = IF Todo = 1 THEN "others" ELSE "stop"
         /\ job.step = 3 => /\ ~job.already /\ Todo <= 7 /\ Tail(job.todo) = Rest(RenameList, Todo - 1)
                            /\ Head(job.todo)[1] = RenameList[8 - Todo][1]
         /\ job.step = 4 => Head(job.todo)[1] = "mv" /\ Tail(job.todo) = <<>>
         /\ job.step = 5 => /\ ~job.already /\ Todo <= 8 /\ Tail(job.todo) = Rest(RewriteList, Todo - 1)
                            /\ Head(job.todo)[1] = RewriteList[9 - Todo][1]
         /\ job.step = 6 => ~job.already /\ Head(job.todo)[1] = "owner" /\ Tail(job.todo) = <<>>
         /\ job.step = 7 => Head(job.todo)[1] = "start"
<1>1. /\ job.todo \in Seq(Commands) /\ job.step \in 1 .. 8
      /\ Head(job.todo) \in Commands /\ Tail(job.todo) \in Seq(Commands)
      /\ Todo \in Nat \ {0} /\ Len(Tail(job.todo)) = Todo - 1
  BY DEF Types, JobTyped, JobType, Todo
<1>2. ASSUME NEW L \in Seq(Commands), LeftOf(L)
      PROVE  Todo <= Len(L) /\ Tail(job.todo) = Rest(L, Todo - 1) /\ Head(job.todo) = L[Len(L) - Todo + 1]
  <2>1. Todo \in 1 .. Len(L) /\ job.todo = Rest(L, Todo)
    BY <1>1, <1>2 DEF LeftOf
  <2>2. PICK n \in 1 .. Len(L) : n = Todo
    BY <2>1
  <2>3. Head(Rest(L, n)) = L[Len(L) - n + 1] /\ Tail(Rest(L, n)) = Rest(L, n - 1)
    BY RestParts
  <2> QED BY <2>1, <2>2, <2>3
<1>3. job.step \notin {1, 8}
  BY DEF Running
<1>4. CASE job.step = 2
  <2>1. LeftOf(StopList)
    BY <1>4 DEF Running
  <2>2. /\ Todo <= Len(StopList) /\ Tail(job.todo) = Rest(StopList, Todo - 1)
        /\ Head(job.todo) = StopList[Len(StopList) - Todo + 1]
    BY <1>2, <2>1, StopListSeq
  <2> QED BY <1>1, <1>4, <2>2, StopListed
<1>5. CASE job.step = 3
  <2>1. ~job.already /\ LeftOf(RenameList)
    BY <1>5 DEF Running, Renaming
  <2>2. /\ Todo <= Len(RenameList) /\ Tail(job.todo) = Rest(RenameList, Todo - 1)
        /\ Head(job.todo) = RenameList[Len(RenameList) - Todo + 1]
    BY <1>2, <2>1, RenameListSeq
  <2> QED BY <1>1, <1>5, <2>1, <2>2, RenameListed
<1>6. CASE job.step = 4
  <2>1. job.todo = <<<<"mv">>>>
    BY <1>6 DEF Running, Moving
  <2>2. Head(job.todo)[1] = "mv" /\ Tail(job.todo) = <<>>
    BY <2>1
  <2> QED BY <1>1, <1>6, <2>2
<1>7. CASE job.step = 5
  <2>1. ~job.already /\ LeftOf(RewriteList)
    BY <1>7 DEF Running, Rewriting
  <2>2. /\ Todo <= Len(RewriteList) /\ Tail(job.todo) = Rest(RewriteList, Todo - 1)
        /\ Head(job.todo) = RewriteList[Len(RewriteList) - Todo + 1]
    BY <1>2, <2>1, RewriteListSeq
  <2> QED BY <1>1, <1>7, <2>1, <2>2, RewriteListed
<1>8. CASE job.step = 6
  <2>1. job.todo = <<<<"owner">>>> /\ ~job.already
    BY <1>8 DEF Running, Owning
  <2>2. Head(job.todo)[1] = "owner" /\ Tail(job.todo) = <<>>
    BY <2>1
  <2> QED BY <1>1, <1>8, <2>1, <2>2
<1>9. CASE job.step = 7
  <2>1. PICK s \in Services : job.todo[1] = <<"start", <<"current", s>>>>
    BY <1>1, <1>9 DEF Running, Starting, Todo
  <2>2. Head(job.todo) = job.todo[1]
    BY <1>1
  <2> QED BY <1>1, <1>9, <2>1, <2>2
<1> QED BY <1>1, <1>3, <1>4, <1>5, <1>6, <1>7, <1>8, <1>9

\* So a command is the one of its step.
LEMMA Spots ==
  ASSUME Types, Running, NEW c, Turn(c)
  PROVE  /\ c \in {"stop", "others"} => job.step \in {2, 3}
         /\ c = "stop" => job.step = 2 \/ Todo > 3
         /\ c = "others" => job.step = 2
         /\ c \in {"idle", "usermod", "groupmod"} => job.step = 3 /\ ~job.already
         /\ c = "idle" => Todo = 3
         /\ c = "usermod" => Todo = 2
         /\ c = "groupmod" => Todo = 1
         /\ c = "mv" => job.step = 4
         /\ c \in {"write", "enable", "disable", "remove", "snapshot", "node", "names"}
              => job.step = 5 /\ ~job.already
         /\ c = "write" => Todo > 6 /\ Arg \in Services
         /\ c = "enable" => Todo = 6
         /\ c = "disable" => Todo = 5
         /\ c = "remove" => Todo = 4
         /\ c = "snapshot" => Todo = 3
         /\ c = "node" => Todo = 2
         /\ c = "names" => Todo = 1
         /\ c = "owner" => job.step = 6 /\ ~job.already
         /\ c = "start" => job.step = 7 /\ \E s \in Services : Arg = <<"current", s>>
<1>1. job.pc = "running" /\ job.todo # <<>> /\ Head(job.todo)[1] = c
  BY DEF Turn
<1>2. CASE job.step = 2
  BY <1>1, <1>2, Spot
<1>3. CASE job.step = 3
  <2>1. Todo \in 1 .. 7 /\ c = RenameList[8 - Todo][1] /\ ~job.already
    BY <1>1, <1>3, Spot
  <2>2. Todo > 3 => c = "stop"
    BY <2>1, RenameListed
  <2>3. (Todo = 3 => c = "idle") /\ (Todo = 2 => c = "usermod") /\ (Todo = 1 => c = "groupmod")
    BY <2>1, RenameListed
  <2> QED BY <1>3, <2>1, <2>2, <2>3
<1>4. CASE job.step = 4
  BY <1>1, <1>4, Spot
<1>5. CASE job.step = 5
  <2>1. Todo \in 1 .. 8 /\ c = RewriteList[9 - Todo][1] /\ ~job.already
    BY <1>1, <1>5, Spot
  <2>2. Todo > 6 => c = "write"
    BY <2>1, RewriteListed
  <2>3. /\ (Todo = 6 => c = "enable") /\ (Todo = 5 => c = "disable") /\ (Todo = 4 => c = "remove")
        /\ (Todo = 3 => c = "snapshot") /\ (Todo = 2 => c = "node") /\ (Todo = 1 => c = "names")
    BY <2>1, RewriteListed
  <2>4. c = "write" => Arg \in Services
    BY <1>1, Spot, Arguments DEF Arg
  <2> QED BY <1>5, <2>1, <2>2, <2>3, <2>4
<1>6. CASE job.step = 6
  BY <1>1, <1>6, Spot
<1>7. CASE job.step = 7
  BY <1>1, <1>7, Spot, Arguments DEF Arg
<1> QED BY <1>1, <1>2, <1>3, <1>4, <1>5, <1>6, <1>7, Spot

---------------------------------------------------------------------------
(* What a step does to the job's manifest. *)

\* The fields that only preflight, move-data, an answer or the next step set.
Steady ==
  /\ job'.n = job.n /\ job'.step = job.step /\ job'.answer = job.answer
  /\ job'.already = job.already /\ job'.wasActive = job.wasActive /\ job'.wasEnabled = job.wasEnabled
  /\ job'.moved = job.moved /\ job'.dir = job.dir

LEMMA BoxFacts ==
  ASSUME Types
  PROVE  /\ box.dir \in {"legacy", "custom"} /\ box.enabled \subseteq Services /\ box.restored \in BOOLEAN
         /\ box.mounted \in BOOLEAN /\ None \notin Dirs
BY MigrateConstants DEF Types, BoxTyped

LEMMA DoneFields ==
  ASSUME JobTyped, NEW c, Turn(c), Done
  PROVE  JobTyped' /\ Steady /\ job'.pc = "running" /\ job'.ask = job.ask /\ job'.todo = Tail(job.todo)
<1>1. /\ job' = [job EXCEPT !.todo = Tail(job.todo)] /\ job.pc = "running"
      /\ Tail(job.todo) \in Seq(Commands)
  BY DEF JobTyped, JobType, Done, Turn
<1> QED BY <1>1 DEF JobTyped, JobType, Steady

LEMMA AskFields ==
  ASSUME JobTyped, NEW q \in Questions, Ask(q)
  PROVE  JobTyped' /\ Steady /\ job'.pc = "asking" /\ job'.ask = q /\ job'.todo = <<>>
<1>1. job' = [job EXCEPT !.pc = "asking", !.ask = q, !.todo = <<>>] /\ q # None /\ <<>> \in Seq(Commands)
  BY NoneOK DEF Ask
<1> QED BY <1>1 DEF JobTyped, JobType, Steady

LEMMA RunFields ==
  ASSUME JobTyped, job.pc = "ready", NEW t \in Seq(Commands), Run(t)
  PROVE  JobTyped' /\ Steady /\ job'.pc = "running" /\ job'.ask = job.ask /\ job'.todo = t
<1>1. job' = [job EXCEPT !.pc = "running", !.todo = t]
  BY DEF Run
<1> QED BY <1>1 DEF JobTyped, JobType, Steady

LEMMA ResultFields ==
  ASSUME JobTyped, job.pc = "ready", NEW t \in Seq(Commands), NEW m \in BOOLEAN, NEW d \in Dirs, Result(m, d, t)
  PROVE  /\ JobTyped' /\ job'.pc = "running" /\ job'.ask = job.ask /\ job'.todo = t
         /\ job'.moved = m /\ job'.dir = d
         /\ job'.n = job.n /\ job'.step = job.step /\ job'.answer = job.answer
         /\ job'.already = job.already /\ job'.wasActive = job.wasActive /\ job'.wasEnabled = job.wasEnabled
<1>1. job' = [job EXCEPT !.pc = "running", !.todo = t, !.moved = m, !.dir = d]
  BY DEF Result
<1> QED BY <1>1 DEF JobTyped, JobType

LEMMA PreflightFields ==
  ASSUME JobTyped, Preflight, ~(user = "legacy" /\ Node.names = "current")
  PROVE  /\ JobTyped' /\ job'.pc = "running" /\ job'.ask = job.ask /\ job'.todo = <<>>
         /\ job'.already = (user = "current" /\ Node.names = "current" /\ ~Leftovers)
         /\ job'.wasEnabled = {s \in Services : \E n \in Names : <<n, s>> \in enabled}
         /\ job'.n = job.n /\ job'.step = job.step /\ job'.answer = job.answer
         /\ job'.moved = job.moved /\ job'.dir = job.dir
<1> DEFINE a == user = "current" /\ Node.names = "current" /\ ~Leftovers
           x == {s \in Services : \E n \in Names : <<n, s>> \in active}
           y == {s \in Services : \E n \in Names : <<n, s>> \in enabled}
<1>1. /\ job' = [job EXCEPT !.pc = "running", !.already = a, !.wasActive = x, !.wasEnabled = y]
      /\ job.pc = "ready"
  BY DEF Preflight, At
<1>2. a \in BOOLEAN /\ x \in SUBSET Services /\ y \in SUBSET Services
  OBVIOUS
<1>3. job.todo = <<>>
  BY <1>1 DEF JobTyped
<1> HIDE DEF a, x, y
<1>4. /\ JobTyped' /\ job'.pc = "running" /\ job'.ask = job.ask /\ job'.todo = <<>>
      /\ job'.already = a /\ job'.wasEnabled = y
      /\ job'.n = job.n /\ job'.step = job.step /\ job'.answer = job.answer
      /\ job'.moved = job.moved /\ job'.dir = job.dir
  BY <1>1, <1>2, <1>3 DEF JobTyped, JobType
<1> QED BY <1>4 DEF a, y

LEMMA ReturnFields ==
  ASSUME JobTyped, Return
  PROVE  /\ JobTyped' /\ job.pc = "running" /\ job.todo = <<>> /\ job'.todo = <<>> /\ job'.ask = job.ask
         /\ job'.answer = NoAnswer
         /\ job.step = 8 => job'.pc = "done" /\ job'.step = 8
         /\ job.step # 8 => job'.pc = "ready" /\ job'.step = job.step + 1
         /\ job'.n = job.n /\ job'.already = job.already /\ job'.wasActive = job.wasActive
         /\ job'.wasEnabled = job.wasEnabled /\ job'.moved = job.moved /\ job'.dir = job.dir
<1>1. /\ job.pc = "running" /\ job.todo = <<>>
      /\ job.step = 8 => job' = [job EXCEPT !.pc = "done", !.answer = NoAnswer]
      /\ job.step # 8 => job' = [job EXCEPT !.pc = "ready", !.answer = NoAnswer, !.step = job.step + 1]
  BY PlanSteps DEF Return, JobTyped, JobType
<1>2. NoAnswer \in [key : {None} \cup {q.key : q \in Questions}, option : {None} \cup Options]
  BY DEF NoAnswer
<1>3. job.step # 8 => job.step + 1 \in 1 .. 8
  BY DEF JobTyped, JobType
<1>4. CASE job.step = 8
  <2>1. job' = [job EXCEPT !.pc = "done", !.answer = NoAnswer]
    BY <1>1, <1>4
  <2> QED BY <1>1, <1>2, <1>4, <2>1 DEF JobTyped, JobType
<1>5. CASE job.step # 8
  <2> DEFINE k == job.step + 1
  <2>1. job' = [job EXCEPT !.pc = "ready", !.answer = NoAnswer, !.step = k] /\ k \in 1 .. 8
    BY <1>1, <1>3, <1>5
  <2>2. k = job.step + 1
    OBVIOUS
  <2> HIDE DEF k
  <2>3. JobTyped'
    BY <1>1, <1>2, <2>1 DEF JobTyped, JobType
  <2> QED BY <1>1, <1>5, <2>1, <2>2, <2>3 DEF JobTyped, JobType
<1> QED BY <1>4, <1>5

LEMMA AnswerFields ==
  ASSUME JobTyped, NEW o \in Options, Answer(o)
  PROVE  /\ JobTyped' /\ job.pc = "asking" /\ o \in job.ask.options
         /\ job'.pc = "ready" /\ job'.todo = <<>> /\ job'.ask = None /\ job'.answer.option = o
         /\ job'.n = job.n /\ job'.step = job.step
         /\ job'.already = job.already /\ job'.wasActive = job.wasActive
         /\ job'.wasEnabled = job.wasEnabled /\ job'.moved = job.moved /\ job'.dir = job.dir
<1> DEFINE a == [key |-> job.ask.key, option |-> o]
<1>1. /\ job.pc = "asking" /\ o \in job.ask.options /\ job.todo = <<>>
      /\ job' = [job EXCEPT !.pc = "ready", !.ask = None, !.answer = a]
  BY DEF Answer, JobTyped
<1>2. job.ask \in Questions
  BY <1>1 DEF JobTyped, JobType
<1>3. a \in [key : {None} \cup {q.key : q \in Questions}, option : {None} \cup Options] /\ a.option = o
  BY <1>2
<1> HIDE DEF a
<1> QED BY <1>1, <1>3 DEF JobTyped, JobType

LEMMA AbortFields ==
  ASSUME JobTyped, Abort
  PROVE  JobTyped' /\ Steady /\ job.pc = "asking" /\ job'.pc = "aborted" /\ job'.ask = None /\ job'.todo = <<>>
<1>1. job' = [job EXCEPT !.pc = "aborted", !.ask = None] /\ job.pc = "asking" /\ job.todo = <<>>
  BY DEF Abort, JobTyped
<1> QED BY <1>1 DEF JobTyped, JobType, Steady

LEMMA NewJobFields ==
  ASSUME NEW n \in 1 .. MaxJobs
  PROVE  /\ NewJob(n) \in JobType /\ NewJob(n).pc = "ready" /\ NewJob(n).step = 1 /\ NewJob(n).ask = None
         /\ NewJob(n).answer = NoAnswer /\ NewJob(n).todo = <<>> /\ NewJob(n).already = FALSE
<1>1. NoAnswer \in [key : {None} \cup {q.key : q \in Questions}, option : {None} \cup Options]
  BY DEF NoAnswer
<1> QED BY <1>1 DEF NewJob, JobType

LEMMA StartJobFields ==
  ASSUME JobTyped, StartJob
  PROVE  /\ JobTyped' /\ job'.pc = "ready" /\ job'.step = 1 /\ job'.ask = None /\ job'.todo = <<>>
         /\ job'.answer = NoAnswer /\ job'.already = FALSE
<1>1. job.n + 1 \in 1 .. MaxJobs /\ job' = NewJob(job.n + 1)
  BY MigrateConstants DEF StartJob, JobTyped, JobType
<1> QED BY <1>1, NewJobFields DEF JobTyped

---------------------------------------------------------------------------
(* The commands the steps begin with. *)

LEMMA StartsListed ==
  ASSUME NEW s \in Services
  PROVE  /\ StartIfActive(s) \in Seq(Commands)
         /\ \A i \in DOMAIN StartIfActive(s) : StartIfActive(s)[i] = <<"start", <<"current", s>>>>
<1>1. <<"start", <<"current", s>>>> \in Commands
  BY DEF Commands
<1> QED BY <1>1 DEF StartIfActive

\* The steps other than preflight and move-data either ask or begin a list.
BeginsWith(t) == t \in Seq(Commands) /\ Run(t) /\ UNCHANGED <<box, boxVars, left, cut>>

LEMMA BeginCases ==
  ASSUME Types, Begin
  PROVE  /\ job.pc = "ready" /\ UNCHANGED <<box, boxVars, left, cut>>
         /\ \/ Ask(Failed) \/ Ask(Mounted)
            \/ job.step = 1 /\ Preflight
            \/ job.step = 2 /\ \E t : BeginsWith(t) /\ t \in {<<>>, StopList}
            \/ job.step = 3 /\ \E t : BeginsWith(t) /\ t \in IF job.already THEN {<<>>} ELSE {RenameList, RenameTail}
            \/ job.step = 4 /\ MoveData
            \/ job.step = 5 /\ \E t : BeginsWith(t) /\ t = IF job.already THEN <<>> ELSE RewriteList
            \/ job.step = 6 /\ \E t : BeginsWith(t) /\ (t = <<>> \/ (t = <<<<"owner">>>> /\ ~job.already))
            \/ job.step = 7 /\ \E t : BeginsWith(t) /\ \A i \in DOMAIN t : \E s \in Services : t[i] = <<"start", <<"current", s>>>>
            \/ job.step = 8 /\ ~Problems /\ BeginsWith(<<>>)
<1>0. job.step \in 1 .. 8
  BY DEF Types, JobTyped, JobType
<1>1. ASSUME NEW name, At(name) PROVE job.pc = "ready" /\ UNCHANGED <<box, boxVars, left, cut>> /\ Plan[job.step] = name
  BY <1>1 DEF At
<1>2. <<>> \in Seq(Commands)
  OBVIOUS
<1>3. CASE Preflight
  <2>1. At("preflight")
    BY <1>3 DEF Preflight
  <2>2. job.step = 1
    BY <1>0, <1>1, <2>1, PlanSteps
  <2> QED BY <1>1, <1>3, <2>1, <2>2
<1>4. CASE StopUnits
  <2>1. At("stop-units") /\ Run(IF job.already THEN <<>> ELSE StopList)
    BY <1>4 DEF StopUnits, StopList
  <2>2. job.step = 2
    BY <1>0, <1>1, <2>1, PlanSteps
  <2> DEFINE t == IF job.already THEN <<>> ELSE StopList
  <2>3. BeginsWith(t) /\ t \in {<<>>, StopList}
    BY <1>1, <1>2, <2>1, StopListSeq DEF BeginsWith
  <2> QED BY <1>1, <2>1, <2>2, <2>3
<1>5. CASE RenameAccount
  <2> DEFINE again == user = "legacy" /\ job.answer = [key |-> "busy-user", option |-> "retry"]
             t == IF job.already THEN <<>> ELSE (IF again THEN StopNodeUnits ELSE <<>>) \o RenameTail
  <2>1. At("rename-account") /\ Run(t)
    BY <1>5 DEF RenameAccount, RenameTail
  <2>2. job.step = 3
    BY <1>0, <1>1, <2>1, PlanSteps
  <2>3. <<>> \o RenameTail = RenameTail /\ StopNodeUnits \o RenameTail = RenameList
    BY RenameTailSeq, ConcatEmptySeq DEF RenameList, RenameTail
  <2>4. t \in IF job.already THEN {<<>>} ELSE {RenameList, RenameTail}
    BY <2>3
  <2>5. t \in Seq(Commands)
    BY <1>2, <2>4, RenameTailSeq, RenameListSeq
  <2> HIDE DEF t
  <2>6. BeginsWith(t)
    BY <1>1, <2>1, <2>5 DEF BeginsWith
  <2> QED BY <1>1, <2>1, <2>2, <2>4, <2>6
<1>6. CASE MoveData
  <2>1. At("move-data")
    BY <1>6 DEF MoveData
  <2>2. job.step = 4
    BY <1>0, <1>1, <2>1, PlanSteps
  <2> QED BY <1>1, <1>6, <2>1, <2>2
<1>7. CASE RewriteUnits
  <2>1. At("rewrite-units") /\ (Ask(Failed) \/ Run(IF job.already THEN <<>> ELSE RewriteList))
    BY <1>7 DEF RewriteUnits, RewriteList
  <2>2. job.step = 5
    BY <1>0, <1>1, <2>1, PlanSteps
  <2> DEFINE t == IF job.already THEN <<>> ELSE RewriteList
  <2>3. t \in Seq(Commands)
    BY <1>2, RewriteListSeq
  <2>4. Run(t) => BeginsWith(t)
    BY <1>1, <2>1, <2>3 DEF BeginsWith
  <2> QED BY <1>1, <2>1, <2>2, <2>4
<1>8. CASE Ownership
  <2> DEFINE t == IF ~job.already /\ (box.foreign \/ owner = "legacy") THEN <<<<"owner">>>> ELSE <<>>
  <2>1. At("ownership") /\ (Ask(Failed) \/ Run(t))
    BY <1>8 DEF Ownership
  <2>2. job.step = 6
    BY <1>0, <1>1, <2>1, PlanSteps
  <2>3. t = <<>> \/ (t = <<<<"owner">>>> /\ ~job.already)
    OBVIOUS
  <2> HIDE DEF t
  <2>a. <<"owner">> \in Commands
    BY DEF Commands
  <2>b. <<<<"owner">>>> \in Seq(Commands)
    BY <2>a
  <2>4. t \in Seq(Commands)
    BY <1>2, <2>3, <2>b
  <2>5. Run(t) => BeginsWith(t)
    BY <1>1, <2>1, <2>4 DEF BeginsWith
  <2> QED BY <1>1, <2>1, <2>2, <2>3, <2>5
<1>9. CASE StartUnits
  <2> DEFINE t == IF job.already THEN <<>> ELSE StartIfActive("exec") \o StartIfActive("beacon")
  <2>1. At("start-units") /\ Run(t)
    BY <1>9 DEF StartUnits
  <2>2. job.step = 7
    BY <1>0, <1>1, <2>1, PlanSteps
  <2>3. t \in Seq(Commands) /\ \A i \in DOMAIN t : \E s \in Services : t[i] = <<"start", <<"current", s>>>>
    <3> DEFINE x == StartIfActive("exec")
               y == StartIfActive("beacon")
    <3>1. /\ x \in Seq(Commands) /\ y \in Seq(Commands)
          /\ \A i \in DOMAIN x : x[i] = <<"start", <<"current", "exec">>>>
          /\ \A i \in DOMAIN y : y[i] = <<"start", <<"current", "beacon">>>>
          /\ "exec" \in Services /\ "beacon" \in Services
      BY StartsListed DEF Services
    <3> HIDE DEF x, y
    <3>2. x \o y \in Seq(Commands)
      BY <3>1
    <3>3. ASSUME NEW i \in DOMAIN (x \o y)
          PROVE  \E s \in Services : (x \o y)[i] = <<"start", <<"current", s>>>>
      <4>1. \/ i \in DOMAIN x /\ (x \o y)[i] = x[i]
            \/ i - Len(x) \in DOMAIN y /\ (x \o y)[i] = y[i - Len(x)]
        BY <3>1, <3>3, ConcatProperties
      <4> QED BY <3>1, <4>1
    <3> QED BY <1>2, <3>2, <3>3 DEF x, y
  <2> HIDE DEF t
  <2>4. BeginsWith(t)
    BY <1>1, <2>1, <2>3 DEF BeginsWith
  <2> QED BY <1>1, <2>1, <2>2, <2>3, <2>4
<1>10. CASE Verify
  <2>1. At("verify") /\ (Ask(Failed) \/ (~Problems /\ Run(<<>>)))
    BY <1>10 DEF Verify
  <2>2. job.step = 8
    BY <1>0, <1>1, <2>1, PlanSteps
  <2>3. Run(<<>>) => BeginsWith(<<>>)
    BY <1>1, <1>2, <2>1 DEF BeginsWith
  <2> QED BY <1>1, <2>1, <2>2, <2>3
<1> QED BY <1>3, <1>4, <1>5, <1>6, <1>7, <1>8, <1>9, <1>10 DEF Begin

---------------------------------------------------------------------------
(* The types are kept. *)

\* A command is carried out, or the step asks instead.
LEMMA CommandCases ==
  ASSUME Command
  PROVE  /\ \E c : Turn(c)
         /\ UNCHANGED <<box, left, cut>> /\ job.pc = "running"
         /\ Done \/ \E q \in Questions : q # Mounted /\ Ask(q)
<1>1. {Failed, StillBusy, Busy, BusyAgain} \subseteq Questions
  BY DEF Questions
<1>2. \A q \in {Failed, StillBusy, Busy, BusyAgain} : q # Mounted
  BY DEF Failed, StillBusy, Busy, BusyAgain, Mounted, Question
<1>3. ASSUME NEW c, Turn(c) PROVE UNCHANGED <<box, left, cut>> /\ job.pc = "running"
  BY <1>3 DEF Turn
<1>4. CASE Others
  <2>1. Turn("others") /\ (Done \/ Ask(StillBusy) \/ Ask(Busy))
    BY <1>4 DEF Others
  <2> QED BY <1>1, <1>2, <1>3, <2>1
<1>5. CASE Idle
  <2>1. Turn("idle") /\ (Done \/ Ask(BusyAgain))
    BY <1>5 DEF Idle
  <2> QED BY <1>1, <1>2, <1>3, <2>1
<1>6. CASE Start
  <2>1. Turn("start") /\ (Done \/ Ask(Failed))
    BY <1>6 DEF Start
  <2> QED BY <1>1, <1>2, <1>3, <2>1
<1>7. CASE ~(Others \/ Idle \/ Start)
  <2>1. \E c : Turn(c) /\ Done
    BY <1>7 DEF Command, Stop, Usermod, Groupmod, Move, WriteUnit, Enable, Disable, RemoveUnits,
                Snapshot, WriteNode, WriteNames, FollowOwner
  <2> QED BY <1>3, <2>1
<1> QED BY <1>4, <1>5, <1>6, <1>7

\* What move-data makes of node.json and the place of the data.
Result4(m, d, t) ==
  /\ Result(m, d, t)
  /\ \/ t = <<>> /\ m = FALSE /\ d = Node.dir
        /\ \/ job.already
           \/ names # "moved" /\ d # "legacy"
           \/ names # "moved" /\ d = "legacy" /\ root # "current" /\ job.answer.option = "keep-path"
     \/ t = <<>> /\ m = TRUE /\ ~job.already /\ names = "moved" /\ root # "legacy" /\ d = Node.dir
     \/ t = <<>> /\ m = TRUE /\ ~job.already /\ names # "moved" /\ Node.dir = "legacy" /\ root = "current" /\ d = "current"
     \/ /\ t = <<<<"mv">>>> /\ m = TRUE /\ ~job.already /\ names # "moved" /\ Node.dir = "legacy" /\ root # "current"
        /\ ~box.mounted /\ d = "current"

LEMMA MoveCases ==
  ASSUME MoveData
  PROVE  Ask(Failed) \/ (Ask(Mounted) /\ box.mounted) \/ \E m, d, t : Result4(m, d, t)
<1> DEFINE w == Node
<1>1. w.dir = "legacy" => Rebase(w.dir) = "current"
  BY DEF Rebase
<1>2. CASE job.already
  <2>1. Result(FALSE, w.dir, <<>>)
    BY <1>2 DEF MoveData
  <2> QED BY <1>2, <2>1 DEF Result4
<1>3. CASE ~job.already /\ names = "moved"
  <2>1. Ask(Failed) \/ (root # "legacy" /\ Result(TRUE, w.dir, <<>>))
    BY <1>3 DEF MoveData
  <2> QED BY <1>3, <2>1 DEF Result4
<1>4. CASE ~job.already /\ names # "moved" /\ w.dir # "legacy"
  <2>1. Result(FALSE, w.dir, <<>>)
    BY <1>4 DEF MoveData
  <2> QED BY <1>4, <2>1 DEF Result4
<1>5. CASE ~job.already /\ names # "moved" /\ w.dir = "legacy" /\ root = "current"
  <2>1. Result(TRUE, "current", <<>>)
    BY <1>1, <1>5 DEF MoveData
  <2> QED BY <1>5, <2>1 DEF Result4
<1>6. CASE ~job.already /\ names # "moved" /\ w.dir = "legacy" /\ root # "current"
  <2>1. \/ job.answer.option = "keep-path" /\ Result(FALSE, w.dir, <<>>)
        \/ box.mounted /\ Ask(Mounted)
        \/ ~box.mounted /\ Result(TRUE, "current", <<<<"mv">>>>)
    BY <1>1, <1>6 DEF MoveData
  <2> QED BY <1>6, <2>1 DEF Result4
<1> QED BY <1>2, <1>3, <1>4, <1>5, <1>6

LEMMA ResultTyped ==
  ASSUME Types, NEW m, NEW d, NEW t, Result4(m, d, t)
  PROVE  m \in BOOLEAN /\ d \in Dirs /\ t \in Seq(Commands)
<1>1. Node.dir \in Dirs
  BY DEF Types, BoxTyped, Node, Apply, Rebase, Dirs
<1>2. <<"mv">> \in Commands
  BY DEF Commands
<1>3. <<>> \in Seq(Commands) /\ <<<<"mv">>>> \in Seq(Commands)
  BY <1>2
<1>4. "current" \in Dirs
  BY DEF Dirs
<1>5. m \in BOOLEAN
  BY DEF Result4
<1>6. d \in {Node.dir, "current"} /\ t \in {<<>>, <<<<"mv">>>>}
  BY DEF Result4
<1> QED BY <1>1, <1>3, <1>4, <1>5, <1>6

LEMMA BeginTyped == ASSUME Types, Begin PROVE JobTyped'
<1>1. job.pc = "ready" /\ JobTyped
  BY BeginCases DEF Types
<1>2. Failed \in Questions /\ Mounted \in Questions
  BY DEF Questions
<1>3. CASE Ask(Failed) \/ Ask(Mounted)
  BY <1>1, <1>2, <1>3, AskFields
<1>4. ASSUME NEW t, BeginsWith(t) PROVE JobTyped'
  BY <1>1, <1>4, RunFields DEF BeginsWith
<1>5. CASE Preflight
  <2>1. CASE user = "legacy" /\ Node.names = "current"
    BY <1>1, <1>2, <1>5, <2>1, AskFields DEF Preflight
  <2> QED BY <1>1, <1>5, <2>1, PreflightFields
<1>6. CASE MoveData
  <2>1. ASSUME NEW m, NEW d, NEW t, Result4(m, d, t) PROVE JobTyped'
    <3>1. m \in BOOLEAN /\ d \in Dirs /\ t \in Seq(Commands) /\ Result(m, d, t)
      BY <2>1, ResultTyped DEF Result4
    <3> QED BY <1>1, <3>1, ResultFields
  <2> QED BY <1>1, <1>2, <1>6, <2>1, MoveCases, AskFields
<1> QED BY <1>3, <1>4, <1>5, <1>6, BeginCases

LEMMA JobKept == ASSUME IInv, [Next]_vars PROVE JobTyped'
<1>1. JobTyped
  BY DEF IInv, Types
<1>2. Failed \in Questions
  BY DEF Questions
<1>3. CASE Begin
  BY <1>3, BeginTyped DEF IInv
<1>4. CASE Command
  BY <1>1, <1>4, CommandCases, DoneFields, AskFields
<1>5. CASE Return
  BY <1>1, <1>5, ReturnFields
<1>6. ASSUME NEW o \in Options, Answer(o) PROVE JobTyped'
  BY <1>1, <1>6, AnswerFields
<1>7. CASE Abort \/ StartJob
  BY <1>1, <1>7, AbortFields, StartJobFields
<1>8. CASE Interrupted \/ Reboot
  <2>1. Ask(Failed) \/ job' = job
    BY <1>8 DEF Interrupted, Reboot
  <2>2. ASSUME job' = job PROVE JobTyped'
    BY <1>1, <2>2 DEF JobTyped
  <2> QED BY <1>1, <1>2, <2>1, <2>2, AskFields
<1>9. CASE Repair \/ UNCHANGED vars
  <2>1. job' = job
    BY <1>9 DEF Repair, vars
  <2> QED BY <1>1, <2>1 DEF JobTyped
<1> QED BY <1>3, <1>4, <1>5, <1>6, <1>7, <1>8, <1>9 DEF Next

\* A step that goes on with the job alone leaves the box and the budgets.
LEMMA Quiet ==
  ASSUME Begin \/ Return \/ (\E o \in Options : Answer(o)) \/ StartJob \/ UNCHANGED vars
  PROVE  UNCHANGED <<box, boxVars, left, cut>>
<1>1. ASSUME NEW name, At(name) PROVE UNCHANGED <<box, boxVars, left, cut>>
  BY <1>1 DEF At
<1>2. CASE Begin
  BY <1>1, <1>2 DEF Begin, Preflight, StopUnits, RenameAccount, MoveData, RewriteUnits, Ownership, StartUnits, Verify
<1> QED BY <1>2 DEF Return, Answer, StartJob, vars

LEMMA BoxKept == ASSUME IInv, [Next]_vars PROVE BoxTyped'
<1> USE DEF BoxTyped
<1>0. BoxTyped /\ JobTyped /\ Types /\ Running
  BY DEF IInv, Types
<1>1. CASE UNCHANGED <<box, boxVars, left, cut>>
  BY <1>0, <1>1 DEF boxVars, accountVars, unitVars, fileVars
<1>2. ASSUME NEW c, Turn(c) PROVE box' = box /\ left' = left /\ cut' = cut
  BY <1>2 DEF Turn
<1>3. CASE Stop \/ Start
  <2>2. active' \subseteq Units
    <3>1. CASE Stop
      BY <1>0, <3>1 DEF Stop
    <3>2. CASE Start
      <4>1. Turn("start")
        BY <3>2 DEF Start
      <4>2. Arg \in Units
        BY <1>0, <4>1, Spots DEF Units, Names
      <4> QED BY <1>0, <3>2, <4>2 DEF Start
    <3> QED BY <1>3, <3>1, <3>2
  <2> QED BY <1>0, <1>2, <1>3, <2>2 DEF Stop, Start, accountVars, fileVars, unitVars
<1>4. CASE Others \/ Idle
  <2>1. other' \in {"none", "soft", "hard"}
    BY <1>0, <1>4 DEF Others, Idle, boxVars
  <2> QED BY <1>0, <1>2, <1>4, <2>1 DEF Others, Idle, boxVars, accountVars, fileVars, unitVars
<1>5. CASE Usermod \/ Groupmod \/ Move
  BY <1>0, <1>2, <1>5 DEF Usermod, Groupmod, Move, accountVars, fileVars, unitVars, Names
<1>6. CASE WriteUnit
  <2>1. Turn("write") /\ job.dir \in Dirs \cup {None}
    BY <1>0, <1>6 DEF WriteUnit, JobTyped, JobType
  <2>2. unit' = [unit EXCEPT ![<<"current", Arg>>] = job.dir]
    BY <1>6 DEF WriteUnit
  <2>3. unit' \in [Units -> Dirs \cup {None}]
    BY <1>0, <2>1, <2>2
  <2> QED BY <1>0, <1>2, <1>6, <2>3 DEF WriteUnit, accountVars, fileVars
<1>7. CASE Enable \/ Disable
  <2>1. job.wasEnabled \subseteq Services
    BY <1>0 DEF JobTyped, JobType
  <2>2. enabled' \subseteq Units
    BY <1>0, <1>7, <2>1 DEF Enable, Disable, Units, Names
  <2> QED BY <1>0, <1>2, <1>7, <2>2 DEF Enable, Disable, accountVars, fileVars
<1>8. CASE RemoveUnits
  <2>1. unit' = [u \in Units |-> IF u[1] = "legacy" THEN None ELSE unit[u]]
    BY <1>8 DEF RemoveUnits
  <2>2. unit' \in [Units -> Dirs \cup {None}]
    BY <1>0, <2>1
  <2> QED BY <1>0, <1>2, <1>8, <2>2 DEF RemoveUnits, accountVars, fileVars
<1>9. CASE Snapshot
  <2>1. snapshot' \in Dirs \cup {None}
    BY <1>0, <1>9 DEF Snapshot, Dirs
  <2> QED BY <1>0, <1>2, <1>9, <2>1 DEF Snapshot, accountVars, unitVars
<1>10. CASE WriteNode
  <2>1. Turn("node")
    BY <1>10 DEF WriteNode
  <2>2. job.dir = Place
    BY <1>0, <2>1, Spots DEF IInv, StepsDone, Located
  <2>3. job.dir \in Dirs /\ "current" \in Names
    BY <1>0, <2>2 DEF Place, Names, Dirs
  <2>4. node' = [names |-> "current", dir |-> job.dir]
    BY <1>10 DEF WriteNode
  <2>5. node' \in [names : Names, dir : Dirs]
    BY <2>3, <2>4
  <2> QED BY <1>0, <1>2, <1>10, <2>5 DEF WriteNode, accountVars, unitVars
<1>11. CASE WriteNames
  <2>1. names' \in {None, "moved", "kept"}
    BY <1>11 DEF WriteNames
  <2> QED BY <1>0, <1>2, <1>11, <2>1 DEF WriteNames, accountVars, unitVars
<1>12. CASE FollowOwner
  <2>1. owner' = Node.names /\ Node.names \in Names
    BY <1>0, <1>12 DEF FollowOwner, Node, Apply, Names
  <2> QED BY <1>0, <1>2, <1>12, <2>1 DEF FollowOwner, accountVars, unitVars
<1>13. CASE Abort
  <2>1. cut' \in BOOLEAN
    BY <1>13 DEF Abort
  <2> QED BY <1>0, <1>13, <2>1 DEF Abort, boxVars, accountVars, unitVars, fileVars
<1>14. ASSUME Fault PROVE left' \in [faults : 0 .. MaxFaults, repairs : 0 .. MaxRepairs]
  BY <1>0, <1>14, MigrateConstants DEF Fault
<1>15. CASE Interrupted
  BY <1>0, <1>14, <1>15 DEF Interrupted, boxVars, accountVars, unitVars, fileVars
<1>16. CASE Reboot
  <2>1. active' \subseteq Units /\ other' = "none"
    BY <1>0, <1>16 DEF Reboot
  <2> QED BY <1>0, <1>14, <1>16, <2>1 DEF Reboot, accountVars, fileVars
<1>17. CASE Repair
  <2>1. left' \in [faults : 0 .. MaxFaults, repairs : 0 .. MaxRepairs]
    BY <1>0, <1>17, MigrateConstants DEF Repair
  <2>2. node' \in [names : Names, dir : Dirs]
    BY <1>0, <1>17, BoxFacts DEF Repair, Names, Dirs
  <2> QED BY <1>0, <1>17, <2>1, <2>2 DEF Repair, accountVars, unitVars
<1> QED BY <1>1, <1>3, <1>4, <1>5, <1>6, <1>7, <1>8, <1>9, <1>10, <1>11, <1>12, <1>13, <1>15, <1>16, <1>17,
           Quiet DEF Next, Command

---------------------------------------------------------------------------
(* The box is kept. *)

\* Which actions change what.
LEMMA Changes ==
  ASSUME [Next]_vars
  PROVE  /\ box' = box
         /\ (user' = user /\ group' = group) \/ Usermod \/ Groupmod
         /\ root' = root \/ Move
         /\ unit' = unit \/ WriteUnit \/ RemoveUnits
         /\ enabled' = enabled \/ Enable \/ Disable
         /\ active' = active \/ Stop \/ Start \/ Reboot
         /\ node' = node \/ WriteNode \/ Repair
         /\ names' = names \/ WriteNames
         /\ snapshot' = snapshot \/ Snapshot
         /\ owner' = owner \/ FollowOwner
         /\ cut' = cut \/ Abort
<1> USE DEF boxVars, accountVars, unitVars, fileVars
<1>1. CASE UNCHANGED <<box, boxVars, left, cut>>
  BY <1>1
<1>2. CASE Stop \/ Others \/ Idle \/ Start
  BY <1>2 DEF Stop, Others, Idle, Start, Turn
<1>3. CASE Usermod \/ Groupmod \/ Move
  BY <1>3 DEF Usermod, Groupmod, Move, Turn
<1>4. CASE WriteUnit \/ Enable \/ Disable \/ RemoveUnits
  BY <1>4 DEF WriteUnit, Enable, Disable, RemoveUnits, Turn
<1>5. CASE Snapshot \/ WriteNode \/ WriteNames \/ FollowOwner
  BY <1>5 DEF Snapshot, WriteNode, WriteNames, FollowOwner, Turn
<1>6. CASE Abort \/ Interrupted \/ Reboot \/ Repair
  BY <1>6 DEF Abort, Interrupted, Reboot, Repair
<1> QED BY <1>1, <1>2, <1>3, <1>4, <1>5, <1>6, Quiet DEF Next, Command

\* What holds when the data moves.
LEMMA AtMove ==
  ASSUME IInv, Move
  PROVE  /\ box.dir = "legacy" /\ ~box.mounted /\ group = "current" /\ user = "current"
         /\ root' = "current" /\ root \in {"legacy", "current"}
         /\ UNCHANGED <<box, user, group, unit, enabled, active, node, names, owner, snapshot, cut>>
<1>1. Turn("mv") /\ job.step = 4 /\ job.pc = "running" /\ job.todo # <<>>
  BY Spots DEF IInv, Move, Turn
<1>2. box.dir = "legacy" /\ ~box.mounted
  BY <1>1 DEF IInv, Running, Moving
<1>3. group = "current" /\ user = "current"
  BY <1>1 DEF IInv, StepsDone, BoxInv, Accounts
<1>4. root \in {"legacy", "current"}
  BY DEF IInv, Types, BoxTyped, Names
<1> QED BY <1>1, <1>2, <1>3, <1>4 DEF Move, Turn, accountVars, unitVars, fileVars

\* What holds at each command of rewrite-units.
LEMMA AtRewrite ==
  ASSUME IInv, NEW c, Turn(c),
         c \in {"write", "enable", "disable", "remove", "snapshot", "node", "names"}
  PROVE  /\ job.step = 5 /\ ~job.already /\ Located /\ Rewriting
         /\ job.wasEnabled = box.enabled /\ group = "current" /\ user = "current"
         /\ job.pc = "running"
<1>1. job.step = 5 /\ ~job.already /\ job.pc = "running"
  BY Spots DEF IInv, Turn
<1> QED BY <1>1 DEF IInv, StepsDone, Running, BoxInv, Accounts

LEMMA Places ==
  ASSUME IInv
  PROVE  /\ Place \in Dirs /\ Place # None /\ None \notin Dirs
         /\ root = "current" => Place = "current"
         /\ root # "current" => Place = box.dir
         /\ root = "current" => box.dir = "legacy"
BY BoxFacts DEF IInv, Types, BoxTyped, BoxInv, Accounts, Place, Dirs, Names

LEMMA AccountsKept == ASSUME IInv, [Next]_vars PROVE Accounts'
<1>1. Accounts
  BY DEF IInv, BoxInv
<1>2. CASE Usermod
  <2>1. user' = "current" /\ UNCHANGED <<group, root, box>>
    BY <1>2 DEF Usermod, Turn
  <2> QED BY <1>1, <2>1 DEF Accounts
<1>3. CASE Groupmod
  <2>1. group' = "current" /\ UNCHANGED <<user, root, box>> /\ Turn("groupmod")
    BY <1>3 DEF Groupmod, Turn
  <2>2. user = "current"
    BY <2>1, Spots DEF IInv, Running, Renaming, Turn
  <2> QED BY <1>1, <2>1, <2>2 DEF Accounts
<1>4. CASE Move
  BY <1>1, <1>4, AtMove DEF Accounts
<1>5. CASE UNCHANGED <<user, group, root, box>>
  BY <1>1, <1>5 DEF Accounts
<1> QED BY <1>2, <1>3, <1>4, <1>5, Changes

\* Neither the place nor the markers change with the job alone.
LEMMA PlaceSame ==
  ASSUME box' = box, root' = root
  PROVE  Place' = Place /\ Settled' = Settled
BY DEF Place, Settled

LEMMA UnitFilesKept == ASSUME IInv, [Next]_vars PROVE UnitFiles'
<1>1. UnitFiles /\ unit \in [Units -> Dirs \cup {None}]
  BY DEF IInv, BoxInv, Types, BoxTyped
<1>0. \A s \in Services : <<"legacy", s>> \in Units /\ <<"current", s>> \in Units
  BY DEF Units, Names
<1>2. CASE Move
  <2>1. root = "current" => Place' = Place /\ Settled'
    BY <1>2, AtMove DEF Place, Settled
  <2>2. root # "current" => \A s \in Services : unit[<<"current", s>>] = None
    BY <1>1, <1>2, AtMove DEF UnitFiles, Settled
  <2> QED BY <1>1, <1>2, <2>1, <2>2, AtMove DEF UnitFiles
<1>3. CASE WriteUnit
  <2>1. /\ Turn("write") /\ unit' = [unit EXCEPT ![<<"current", Arg>>] = job.dir]
        /\ UNCHANGED <<box, root>>
    BY <1>3 DEF WriteUnit, Turn
  <2>2. job.dir = Place /\ Settled
    BY <2>1, AtRewrite DEF Located
  <2>3. PICK a : a = Arg
    OBVIOUS
  <2>4. unit' = [unit EXCEPT ![<<"current", a>>] = Place]
    BY <2>1, <2>2, <2>3
  <2>5. \A s \in Services : /\ unit'[<<"legacy", s>>] = unit[<<"legacy", s>>]
                            /\ unit'[<<"current", s>>] \in {unit[<<"current", s>>], Place}
    BY <1>0, <1>1, <2>4
  <2> QED BY <1>1, <2>1, <2>2, <2>5, PlaceSame DEF UnitFiles
<1>4. CASE RemoveUnits
  <2>1. /\ unit' = [u \in Units |-> IF u[1] = "legacy" THEN None ELSE unit[u]]
        /\ UNCHANGED <<box, root>>
    BY <1>4 DEF RemoveUnits, Turn
  <2>2. \A s \in Services : /\ unit'[<<"legacy", s>>] = None
                            /\ unit'[<<"current", s>>] = unit[<<"current", s>>]
    BY <1>0, <2>1
  <2>3. Place' = Place /\ Settled' = Settled /\ box' = box
    BY <2>1, PlaceSame
  <2> QED BY <1>1, <2>2, <2>3 DEF UnitFiles
<1>5. CASE UNCHANGED <<unit, root, box>>
  <2>1. Place' = Place /\ Settled' = Settled /\ box' = box /\ unit' = unit
    BY <1>5, PlaceSame
  <2> QED BY <1>1, <2>1 DEF UnitFiles
<1> QED BY <1>2, <1>3, <1>4, <1>5, Changes

LEMMA EnabledKept == ASSUME IInv, [Next]_vars PROVE EnablementKept'
<1>1. EnablementKept
  BY DEF IInv, BoxInv
<1>2. CASE Enable
  <2>1. /\ Turn("enable") /\ enabled' = enabled \cup ({"current"} \X job.wasEnabled)
        /\ box' = box
    BY <1>2 DEF Enable, Turn
  <2>2. job.wasEnabled = box.enabled
    BY <2>1, AtRewrite
  <2>3. \A n, s : <<n, s>> \in enabled' <=> <<n, s>> \in enabled \/ (n = "current" /\ s \in box.enabled)
    BY <2>1, <2>2
  <2>4. "current" \in Names
    BY DEF Names
  <2> QED BY <1>1, <2>1, <2>3, <2>4 DEF EnablementKept
<1>3. CASE Disable
  <2>1. Turn("disable") /\ enabled' = enabled \ ({"legacy"} \X Services) /\ box' = box
    BY <1>3 DEF Disable, Turn
  <2>2. \A s \in box.enabled : <<"current", s>> \in enabled
    <3>1. Todo = 5
      BY <2>1, Spots DEF IInv
    <3>2. Rewriting /\ ~job.already
      BY <2>1, AtRewrite
    <3>3. Todo < 6 => \A s \in box.enabled : <<"current", s>> \in enabled
      BY <3>2, Zenon DEF Rewriting
    <3>4. 5 < 6
      OBVIOUS
    <3> QED BY <3>1, <3>3, <3>4, Zenon
  <2>3. \A s \in Services : <<"current", s>> \in enabled' <=> <<"current", s>> \in enabled
    BY <2>1
  <2>4. enabled' \subseteq enabled /\ "current" \in Names
    BY <2>1 DEF Names
  <2> QED BY <1>1, <2>1, <2>2, <2>3, <2>4 DEF EnablementKept
<1>4. CASE UNCHANGED <<enabled, box>>
  BY <1>1, <1>4 DEF EnablementKept
<1> QED BY <1>2, <1>3, <1>4, Changes

LEMMA DisabledKept == ASSUME IInv, [Next]_vars PROVE Disabled'
<1>1. Disabled /\ unit \in [Units -> Dirs \cup {None}]
  BY DEF IInv, BoxInv, Types, BoxTyped
<1>2. CASE Enable
  <2>1. enabled' = enabled \cup ({"current"} \X job.wasEnabled) /\ unit' = unit
    BY <1>2 DEF Enable
  <2> QED BY <1>1, <2>1 DEF Disabled, NoneLegacy
<1>3. CASE Disable
  <2>1. enabled' = enabled \ ({"legacy"} \X Services)
    BY <1>3 DEF Disable
  <2> QED BY <2>1 DEF Disabled, NoneLegacy
<1>4. CASE WriteUnit
  <2>1. unit' = [unit EXCEPT ![<<"current", Arg>>] = job.dir] /\ enabled' = enabled
    BY <1>4 DEF WriteUnit
  <2>2. \A s \in Services : unit'[<<"legacy", s>>] = unit[<<"legacy", s>>]
    BY <1>1, <2>1 DEF Units, Names
  <2> QED BY <1>1, <2>1, <2>2 DEF Disabled, NoneLegacy
<1>5. CASE RemoveUnits
  <2>1. Turn("remove") /\ enabled' = enabled
    BY <1>5 DEF RemoveUnits
  <2>2. NoneLegacy
    BY <2>1, AtRewrite, Spots DEF IInv, Rewriting
  <2> QED BY <2>1, <2>2 DEF Disabled, NoneLegacy
<1>6. CASE UNCHANGED <<enabled, unit>>
  BY <1>1, <1>6 DEF Disabled, NoneLegacy
<1> QED BY <1>2, <1>3, <1>4, <1>5, <1>6, Changes

\* A marker that follows the data goes on following it: the data moves no more.
LEMMA FollowedKept == ASSUME IInv, [Next]_vars, Settled, Followed PROVE Settled' /\ Followed'
<1>1. box' = box
  BY Changes
<1>2. root' = root
  <2>1. CASE Move
    BY <2>1, AtMove DEF Settled
  <2> QED BY <2>1, Changes
<1>3. CASE Snapshot
  <2>1. /\ Turn("snapshot")
        /\ snapshot' = IF job.moved /\ job.dir = "current" /\ snapshot = "legacy" THEN "current" ELSE snapshot
    BY <1>3 DEF Snapshot
  <2>2. job.dir = Place
    BY <2>1, AtRewrite DEF Located
  <2>3. snapshot' = snapshot
    BY <2>1, <2>2, Places DEF Followed, Dirs
  <2> QED BY <1>1, <1>2, <2>3, PlaceSame DEF Followed
<1>4. CASE snapshot' = snapshot
  BY <1>1, <1>2, <1>4, PlaceSame DEF Followed
<1> QED BY <1>3, <1>4, Changes

LEMMA NodeFileKept == ASSUME IInv, [Next]_vars PROVE NodeFile'
<1>1. NodeFile /\ node \in [names : Names, dir : Dirs] /\ box' = box
  BY Changes DEF IInv, BoxInv, Types, BoxTyped
<1>2. CASE Move
  <2>1. node.dir = "current" => node.names = "current"
    BY <1>1, <1>2, AtMove DEF NodeFile
  <2>2. node.dir \in {box.dir, "current"} /\ Place' = "current"
    BY <1>1, <1>2, AtMove, Places DEF NodeFile, Place
  <2> QED BY <1>1, <1>2, <2>2, AtMove, FollowedKept DEF NodeFile
<1>3. CASE WriteNode
  <2>1. Turn("node") /\ node' = [names |-> "current", dir |-> job.dir] /\ UNCHANGED <<names, root, snapshot>>
    BY <1>3 DEF WriteNode
  <2>2. job.dir = Place /\ Settled /\ Followed
    BY <2>1, AtRewrite, Spots DEF IInv, Rewriting, Located
  <2>3. Place' = Place /\ Settled' /\ Followed'
    BY <1>1, <2>1, <2>2, PlaceSame, FollowedKept
  <2> QED BY <1>1, <2>1, <2>2, <2>3 DEF NodeFile
<1>4. CASE WriteNames
  <2>1. Turn("names") /\ UNCHANGED <<node, root, snapshot>>
    BY <1>4 DEF WriteNames
  <2>2. Settled /\ Followed
    BY <2>1, AtRewrite, Spots DEF IInv, Rewriting, Located
  <2>3. Place' = Place /\ Settled' /\ Followed'
    BY <1>1, <2>1, <2>2, PlaceSame, FollowedKept
  <2> QED BY <1>1, <2>1, <2>2, <2>3 DEF NodeFile
<1>5. CASE Repair
  <2>1. node' = [names |-> "legacy", dir |-> box.dir] /\ UNCHANGED <<names, root, snapshot>>
    BY <1>5 DEF Repair
  <2>2. names' # None => Settled' /\ Followed'
    BY <1>1, <2>1, FollowedKept DEF NodeFile
  <2> QED BY <1>1, <2>1, <2>2 DEF NodeFile
<1>6. CASE UNCHANGED <<node, names, root>>
  <2>1. node.names = "current" \/ names # None => Settled' /\ Followed'
    BY <1>1, FollowedKept DEF NodeFile
  <2> QED BY <1>1, <1>6, <2>1, PlaceSame DEF NodeFile
<1> QED BY <1>2, <1>3, <1>4, <1>5, <1>6, Changes

LEMMA MarkerKept == ASSUME IInv, [Next]_vars PROVE Marker'
<1>1. Marker /\ box' = box
  BY Changes DEF IInv, BoxInv
<1>2. CASE Move
  <2>1. Place' = "current" /\ Place \in {box.dir, "current"}
    BY <1>1, <1>2, AtMove, Places DEF Place
  <2> QED BY <1>1, <1>2, <2>1, AtMove DEF Marker
<1>3. CASE Snapshot
  <2>1. /\ Turn("snapshot") /\ root' = root
        /\ snapshot' = IF job.moved /\ job.dir = "current" /\ snapshot = "legacy" THEN "current" ELSE snapshot
    BY <1>3 DEF Snapshot
  <2>2. job.dir = Place
    BY <2>1, AtRewrite DEF Located
  <2>3. snapshot = "legacy" => box.restored
    BY <1>1, BoxFacts DEF Marker, IInv, Dirs
  <2> QED BY <1>1, <2>1, <2>2, <2>3, PlaceSame DEF Marker
<1>4. CASE UNCHANGED <<snapshot, root>>
  BY <1>1, <1>4, PlaceSame DEF Marker
<1> QED BY <1>2, <1>3, <1>4, Changes

\* A unit that can start leads to the data.
LEMMA StartsOnData ==
  ASSUME IInv, NEW u \in Units, Startable(u)
  PROVE  user = u[1] /\ group = u[1] /\ unit[u] = Place
<1>1. user = u[1] /\ group = u[1] /\ unit[u] # None
  BY DEF Startable
<1>2. PICK n \in Names, s \in Services : u = <<n, s>>
  BY DEF Units
<1>3. CASE n = "current"
  BY <1>1, <1>2, <1>3 DEF IInv, BoxInv, UnitFiles
<1>4. CASE n = "legacy"
  <2>1. root # "current"
    BY <1>1, <1>2, <1>4 DEF IInv, BoxInv, Accounts
  <2>2. unit[u] = box.dir
    BY <1>1, <1>2, <1>4 DEF IInv, BoxInv, UnitFiles
  <2> QED BY <1>1, <2>1, <2>2, Places
<1> QED BY <1>2, <1>3, <1>4 DEF Names

LEMMA DataKept == ASSUME IInv, [Next]_vars PROVE RunsOnItsData'
<1>0. box' = box
  BY Changes
<1>1. RunsOnItsData /\ active \subseteq Units /\ unit \in [Units -> Dirs \cup {None}]
  BY DEF IInv, BoxInv, Types, BoxTyped
<1>2. CASE Usermod
  <2>1. Turn("usermod") /\ user' = "current" /\ UNCHANGED <<group, root, unit, active>>
    BY <1>2 DEF Usermod, unitVars
  <2>2. user = "legacy" => active = {}
    BY <2>1, Spots DEF IInv, Running, Renaming, Turn
  <2>3. user \in {"legacy", "current"}
    BY DEF IInv, Types, BoxTyped, Names
  <2> QED BY <1>0, <1>1, <2>1, <2>2, <2>3, PlaceSame DEF RunsOnItsData
<1>3. CASE Groupmod
  <2>1. Turn("groupmod") /\ group' = "current" /\ UNCHANGED <<user, root, unit, active>>
    BY <1>3 DEF Groupmod, unitVars
  <2>2. user = "current"
    BY <2>1, Spots DEF IInv, Running, Renaming, Turn
  <2> QED BY <1>0, <1>1, <2>1, <2>2, PlaceSame DEF RunsOnItsData
<1>4. CASE Move
  <2>1. ASSUME NEW u \in active PROVE root = "current"
    <3>1. u[1] = "current" /\ unit[u] = Place /\ u \in Units
      BY <1>1, <1>4, AtMove DEF RunsOnItsData
    <3>2. PICK s \in Services : u = <<"current", s>>
      BY <3>1 DEF Units
    <3>3. Settled
      BY <3>1, <3>2, Places DEF IInv, BoxInv, UnitFiles
    <3> QED BY <1>4, <3>3, AtMove DEF Settled
  <2>2. root = "current" => Place' = Place
    BY <1>4, AtMove DEF Place
  <2> QED BY <1>1, <1>4, <2>1, <2>2, AtMove DEF RunsOnItsData
<1>5. CASE WriteUnit
  <2>1. /\ Turn("write") /\ unit' = [unit EXCEPT ![<<"current", Arg>>] = job.dir]
        /\ UNCHANGED <<user, group, root, active>>
    BY <1>5 DEF WriteUnit, accountVars
  <2>2. job.dir = Place
    BY <2>1, AtRewrite DEF Located
  <2>3. \A u \in Units : unit'[u] \in {unit[u], Place}
    BY <1>1, <2>1, <2>2
  <2> QED BY <1>0, <1>1, <2>1, <2>3, PlaceSame DEF RunsOnItsData
<1>6. CASE RemoveUnits
  <2>1. /\ Turn("remove") /\ unit' = [u \in Units |-> IF u[1] = "legacy" THEN None ELSE unit[u]]
        /\ UNCHANGED <<user, group, root, active>>
    BY <1>6 DEF RemoveUnits, accountVars
  <2>2. user = "current"
    BY <2>1, AtRewrite
  <2> QED BY <1>0, <1>1, <2>1, <2>2, PlaceSame DEF RunsOnItsData
<1>7. CASE Stop \/ Start \/ Reboot
  <2>1. /\ UNCHANGED <<user, group, root, unit>>
        /\ \A u \in active' : u \in active \/ (u \in Units /\ Startable(u))
    <3>1. CASE Stop
      BY <3>1 DEF Stop, accountVars
    <3>2. CASE Start
      <4>1. Turn("start")
        BY <3>2 DEF Start
      <4>2. Arg \in Units
        BY <4>1, Spots DEF Units, Names, IInv
      <4> QED BY <3>2, <4>2 DEF Start, accountVars
    <3>3. CASE Reboot
      <4>1. enabled \subseteq Units
        BY DEF IInv, Types, BoxTyped
      <4> QED BY <3>3, <4>1 DEF Reboot, accountVars
    <3> QED BY <1>7, <3>1, <3>2, <3>3
  <2> QED BY <1>0, <1>1, <2>1, StartsOnData, PlaceSame DEF RunsOnItsData
<1>8. CASE UNCHANGED <<user, group, root, unit, active>>
  BY <1>0, <1>1, <1>8, PlaceSame DEF RunsOnItsData
<1> QED BY <1>2, <1>3, <1>4, <1>5, <1>6, <1>7, <1>8, Changes

---------------------------------------------------------------------------
(* The job's ways on. *)

\* The step asks, or was cut off.
Asks ==
  Steady /\ job'.pc = "asking" /\ job'.todo = <<>> /\ (job'.ask = Mounted => box.mounted)

\* A command is done.
Works == /\ Command /\ Done /\ Steady /\ job.pc = "running" /\ job'.pc = "running"
         /\ job'.ask = job.ask /\ job.todo # <<>> /\ job'.todo = Tail(job.todo)

\* A step other than preflight and move-data has begun with the commands t.
Starts(t) ==
  /\ job.pc = "ready" /\ UNCHANGED <<box, boxVars, left, cut>>
  /\ Steady /\ job'.pc = "running" /\ job'.ask = job.ask /\ job'.todo = t
  /\ \/ job.step = 2 /\ t \in {<<>>, StopList}
     \/ job.step = 3 /\ t \in IF job.already THEN {<<>>} ELSE {RenameList, RenameTail}
     \/ job.step = 5 /\ t = IF job.already THEN <<>> ELSE RewriteList
     \/ job.step = 6 /\ (t = <<>> \/ (t = <<<<"owner">>>> /\ ~job.already))
     \/ job.step = 7 /\ \A i \in DOMAIN t : \E s \in Services : t[i] = <<"start", <<"current", s>>>>
     \/ job.step = 8 /\ ~Problems /\ t = <<>>

Looks ==
  /\ job.step = 1 /\ job.pc = "ready" /\ Preflight /\ ~(user = "legacy" /\ Node.names = "current")
  /\ UNCHANGED <<box, boxVars, left, cut>>

Places4(m, d, t) ==
  job.step = 4 /\ job.pc = "ready" /\ Result4(m, d, t) /\ UNCHANGED <<box, boxVars, left, cut>>

LEMMA JobCases ==
  ASSUME IInv, [Next]_vars
  PROVE  \/ job' = job /\ (job.pc # "running" \/ UNCHANGED <<box, boxVars>> \/ Repair)
         \/ Asks \/ Works \/ Looks
         \/ \E t : Starts(t)
         \/ \E m, d, t : Places4(m, d, t)
         \/ Return \/ (\E o \in Options : Answer(o)) \/ Abort \/ StartJob
<1>1. Types /\ JobTyped /\ Running
  BY DEF IInv, Types
<1>2. Failed \in Questions /\ Mounted \in Questions
  BY DEF Questions
<1>3. Failed # Mounted
  BY DEF Failed, Mounted, Question
<1>4. ASSUME NEW q \in Questions, Ask(q), q = Mounted => box.mounted PROVE Asks
  BY <1>1, <1>4, AskFields DEF Asks
<1>5. CASE Begin
  <2>0. job.pc = "ready" /\ UNCHANGED <<box, boxVars, left, cut>>
    BY <1>1, <1>5, BeginCases
  <2>1. ASSUME NEW t, BeginsWith(t) PROVE Steady /\ job'.pc = "running" /\ job'.ask = job.ask /\ job'.todo = t
    BY <1>1, <2>0, <2>1, RunFields DEF BeginsWith
  <2>2. CASE Ask(Failed)
    BY <1>2, <1>3, <1>4, <2>2
  <2>3. CASE MoveData
    <3>1. job.step = 4
      <4>1. At("move-data")
        BY <2>3 DEF MoveData
      <4>2. Plan[job.step] = "move-data" /\ job.step \in 1 .. 8
        BY <1>1, <4>1 DEF At, JobTyped, JobType
      <4> QED BY <4>2, PlanSteps
    <3> QED BY <1>2, <1>3, <1>4, <2>0, <2>3, <3>1, MoveCases DEF Places4
  <2>4. CASE Ask(Mounted) /\ ~MoveData
    <3>1. Mounted # Failed /\ job'.pc = "asking"
      BY <1>1, <1>2, <1>3, <2>4, AskFields
    <3>2. job'.ask = Mounted
      BY <1>1, <1>2, <2>4, AskFields
    <3>3. ASSUME NEW t, Run(t) PROVE FALSE
      <4>1. job'.pc = "running"
        BY <1>1, <3>3 DEF Run, JobTyped, JobType
      <4> QED BY <3>1, <4>1
    <3>4. ASSUME Ask(Failed) PROVE FALSE
      <4>1. job'.ask = Failed
        BY <1>1, <1>2, <3>4, AskFields
      <4> QED BY <1>3, <3>2, <4>1
    <3>5. ASSUME Preflight PROVE FALSE
      <4>1. CASE user = "legacy" /\ Node.names = "current"
        BY <3>4, <3>5, <4>1 DEF Preflight
      <4>2. CASE ~(user = "legacy" /\ Node.names = "current")
        BY <1>1, <3>1, <3>5, <4>2, PreflightFields
      <4> QED BY <4>1, <4>2
    <3> QED BY <1>5, <2>4, <3>3, <3>4, <3>5
            DEF Begin, StopUnits, RenameAccount, RewriteUnits, Ownership, StartUnits, Verify
  <2>5. CASE job.step = 1 /\ Preflight
    <3>1. CASE user = "legacy" /\ Node.names = "current"
      BY <2>2, <2>5, <3>1 DEF Preflight
    <3> QED BY <2>0, <2>5, <3>1 DEF Looks
  <2>6. CASE \/ job.step = 2 /\ \E t : BeginsWith(t) /\ t \in {<<>>, StopList}
             \/ job.step = 3 /\ \E t : BeginsWith(t) /\ t \in IF job.already THEN {<<>>} ELSE {RenameList, RenameTail}
             \/ job.step = 5 /\ \E t : BeginsWith(t) /\ t = IF job.already THEN <<>> ELSE RewriteList
             \/ job.step = 6 /\ \E t : BeginsWith(t) /\ (t = <<>> \/ (t = <<<<"owner">>>> /\ ~job.already))
             \/ job.step = 7 /\ \E t : BeginsWith(t) /\ \A i \in DOMAIN t : \E s \in Services : t[i] = <<"start", <<"current", s>>>>
             \/ job.step = 8 /\ ~Problems /\ BeginsWith(<<>>)
    BY <2>0, <2>1, <2>6 DEF Starts
  <2> QED BY <1>1, <1>5, <2>2, <2>3, <2>4, <2>5, <2>6, BeginCases
<1>6. CASE Command
  <2>1. CASE Done
    <3>1. PICK c : Turn(c)
      BY <1>6, CommandCases
    <3> QED BY <1>1, <1>6, <2>1, <3>1, DoneFields DEF Works, Turn
  <2>2. CASE \E q \in Questions : q # Mounted /\ Ask(q)
    BY <1>4, <2>2
  <2> QED BY <1>6, <2>1, <2>2, CommandCases
<1>7. CASE Interrupted \/ Reboot
  <2>1. Ask(Failed) \/ (job' = job /\ job.pc # "running")
    BY <1>7 DEF Interrupted, Reboot
  <2> QED BY <1>2, <1>3, <1>4, <2>1
<1>8. CASE Repair \/ UNCHANGED vars
  BY <1>8 DEF Repair, vars
<1> QED BY <1>5, <1>6, <1>7, <1>8 DEF Next

\* A command is known by its name.
LEMMA Known ==
  ASSUME Command
  PROVE  /\ Head(job.todo)[1] = "idle" => Idle
         /\ Head(job.todo)[1] = "usermod" => Usermod
         /\ Head(job.todo)[1] = "groupmod" => Groupmod
         /\ Head(job.todo)[1] = "mv" => Move
         /\ Head(job.todo)[1] = "enable" => Enable
         /\ Head(job.todo)[1] = "disable" => Disable
         /\ Head(job.todo)[1] = "snapshot" => Snapshot
         /\ Head(job.todo)[1] = "names" => WriteNames
BY DEF Command, Turn, Stop, Others, Idle, Usermod, Groupmod, Move, WriteUnit, Enable, Disable, RemoveUnits,
       Snapshot, WriteNode, WriteNames, FollowOwner, Start

---------------------------------------------------------------------------
(* The record and the finished steps are kept. *)

\* What is done is not undone.
LEMMA Onward ==
  ASSUME IInv, [Next]_vars
  PROVE  /\ box' = box
         /\ user = "current" => user' = "current"
         /\ group = "current" => group' = "current"
         /\ Settled => Settled' /\ Place' = Place
         /\ names # None => names' # None
         /\ cut => cut'
<1>1. box' = box
  BY Changes
<1>2. (user = "current" => user' = "current") /\ (group = "current" => group' = "current")
  BY Changes DEF Usermod, Groupmod
<1>3. ASSUME Settled PROVE Settled' /\ Place' = Place
  <2>1. root' = root
    BY <1>3, AtMove, Changes DEF Settled
  <2> QED BY <1>1, <1>3, <2>1, PlaceSame
<1>4. names # None => names' # None
  BY NoneOK, Changes DEF WriteNames
<1>5. cut => cut'
  <2>1. CASE Abort
    BY <2>1 DEF Abort
  <2> QED BY <2>1, Changes
<1> QED BY <1>1, <1>2, <1>3, <1>4, <1>5

LEMMA RecordKept == ASSUME IInv, [Next]_vars PROVE Record'
<1>0. Record /\ box' = box /\ (cut => cut') /\ JobTyped /\ Types /\ Running
  BY Onward DEF IInv, BoxInv, Types
<1>1. names' = "moved" => root' = "current"
  <2>1. CASE WriteNames
    <3>1. Turn("names") /\ root' = root /\ names' = IF job.moved THEN "moved" ELSE "kept"
      BY <2>1 DEF WriteNames
    <3>2. job.moved => root = "current"
      BY <3>1, AtRewrite DEF Located
    <3> QED BY <3>1, <3>2
  <2>2. CASE names' = names
    BY <1>0, <2>2, AtMove, Changes DEF Record
  <2> QED BY <2>1, <2>2, Changes
<1>2. ~cut' /\ names' = "kept" => Place' = box'.dir
  <2>1. CASE WriteNames
    <3>1. Turn("names") /\ root' = root /\ names' = IF job.moved THEN "moved" ELSE "kept"
      BY <2>1 DEF WriteNames
    <3>2. ~job.moved /\ ~cut => Place = box.dir
      BY <3>1, AtRewrite DEF Located
    <3>3. Place' = Place
      BY <1>0, <3>1, PlaceSame
    <3> QED BY <1>0, <3>1, <3>2, <3>3
  <2>2. CASE names' = names
    <3>1. ASSUME ~cut', names' = "kept" PROVE Place' = box'.dir
      <4>1. names # None /\ names = "kept" /\ ~cut
        BY <1>0, <2>2, <3>1, NoneOK
      <4>2. Settled
        BY <4>1 DEF IInv, BoxInv, NodeFile
      <4>3. Place' = Place
        BY <4>2, Onward
      <4> QED BY <1>0, <4>1, <4>3 DEF Record
    <3> QED BY <3>1
  <2> QED BY <2>1, <2>2, Changes
<1>3. ASSUME ~cut', names' = None, node'.names = "current"
      PROVE  job'.step = 5 /\ ~job'.already /\ job'.pc \notin {"done", "aborted"}
  <2>1. ~cut /\ names = None
    BY <1>0, <1>3, Onward
  <2>2. CASE WriteNode
    <3>1. Turn("node") /\ Done
      BY <2>2 DEF WriteNode
    <3>2. job.step = 5 /\ ~job.already
      BY <3>1, AtRewrite
    <3> QED BY <1>0, <3>1, <3>2, DoneFields DEF Steady
  <2>3. CASE Repair
    <3>1. node'.names = "legacy"
      BY <2>3 DEF Repair
    <3> QED BY <1>3, <3>1
  <2>4. CASE node' = node
    <3>1. job.step = 5 /\ ~job.already /\ job.pc \notin {"done", "aborted"}
      BY <1>0, <1>3, <2>1, <2>4 DEF Record
    <3>2. CASE Asks \/ Works \/ (\E t : Starts(t))
      BY <3>1, <3>2 DEF Asks, Works, Starts, Steady
    <3>3. CASE job' = job
      BY <3>1, <3>3
    <3>4. CASE Looks \/ (\E m, d, t : Places4(m, d, t)) \/ StartJob
      BY <3>1, <3>4 DEF Looks, Places4, StartJob
    <3>5. CASE Return
      <4>1. job.pc = "running" /\ job.todo = <<>>
        BY <3>5 DEF Return
      <4>2. Todo = 0
        BY <4>1 DEF Todo
      <4>3. Rewriting
        BY <1>0, <3>1, <4>1 DEF Running
      <4>4. names # None
        BY <3>1, <4>2, <4>3 DEF Rewriting
      <4> QED BY <2>1, <4>4
    <3>6. CASE \E o \in Options : Answer(o)
      BY <1>0, <3>1, <3>6, AnswerFields
    <3>7. CASE Abort
      <4>1. cut' = (cut \/ (node.names = "current" /\ names = None))
        BY <3>7 DEF Abort
      <4> QED BY <1>3, <2>1, <2>4, <4>1
    <3> QED BY <3>2, <3>3, <3>4, <3>5, <3>6, <3>7, JobCases
  <2> QED BY <2>2, <2>3, <2>4, Changes
<1> QED BY <1>1, <1>2, <1>3 DEF Record

LEMMA BoxInvKept == ASSUME IInv, [Next]_vars PROVE BoxInv'
BY AccountsKept, UnitFilesKept, EnabledKept, DisabledKept, NodeFileKept, RecordKept, MarkerKept, DataKept
   DEF BoxInv

---------------------------------------------------------------------------
(* The finished steps stay finished. *)

\* Which steps set a field.
LEMMA JobSame ==
  ASSUME IInv, [Next]_vars
  PROVE  \/ StartJob
         \/ /\ Looks \/ (job'.already = job.already /\ job'.wasEnabled = job.wasEnabled)
            /\ (\E m, d, t : Places4(m, d, t)) \/ (job'.moved = job.moved /\ job'.dir = job.dir)
            /\ Return \/ job'.step = job.step
<1>1. JobTyped /\ Types
  BY DEF IInv, Types
<1>2. CASE job' = job
  BY <1>2
<1>3. CASE Asks \/ Works \/ \E t : Starts(t)
  BY <1>3 DEF Asks, Works, Starts, Steady
<1>4. CASE Looks
  BY <1>1, <1>4, PreflightFields DEF Looks
<1>5. ASSUME NEW m, NEW d, NEW t, Places4(m, d, t)
      PROVE  job'.already = job.already /\ job'.wasEnabled = job.wasEnabled /\ job'.step = job.step
  <2>1. m \in BOOLEAN /\ d \in Dirs /\ t \in Seq(Commands) /\ Result(m, d, t) /\ job.pc = "ready"
    BY <1>1, <1>5, ResultTyped DEF Places4, Result4
  <2> QED BY <1>1, <2>1, ResultFields
<1>6. CASE Return
  BY <1>1, <1>6, ReturnFields
<1>7. CASE \E o \in Options : Answer(o)
  BY <1>1, <1>7, AnswerFields
<1>8. CASE Abort
  BY <1>1, <1>8, AbortFields DEF Steady
<1> QED BY <1>2, <1>3, <1>4, <1>5, <1>6, <1>7, <1>8, JobCases

\* The step after the last one that returned, and whether a step runs.
LEMMA Stepped ==
  ASSUME IInv, [Next]_vars
  PROVE  /\ job.step \in 1 .. 8 /\ job'.step \in 1 .. 8
         /\ StartJob => job'.step = 1 /\ job'.pc = "ready" /\ job'.already = FALSE
         /\ Looks => job.step = 1 /\ job'.step = 1
         /\ (\E m, d, t : Places4(m, d, t)) => job.step = 4 /\ job'.step = 4
         /\ Return => /\ job.pc = "running" /\ job.todo = <<>> /\ Todo = 0
                      /\ job'.step = job.step + 1 \/ (job.step = 8 /\ job'.step = 8)
<1>1. JobTyped /\ Types
  BY DEF IInv, Types
<1>2. job.step \in 1 .. 8
  BY <1>1 DEF JobTyped, JobType
<1>7. job'.step \in 1 .. 8
  BY JobKept DEF JobTyped, JobType
<1>3. StartJob => job'.step = 1 /\ job'.pc = "ready" /\ job'.already = FALSE
  BY <1>1, StartJobFields
<1>4. Looks => job.step = 1 /\ job'.step = 1
  BY <1>1, PreflightFields DEF Looks
<1>5. ASSUME NEW m, NEW d, NEW t, Places4(m, d, t) PROVE job.step = 4 /\ job'.step = 4
  <2>1. m \in BOOLEAN /\ d \in Dirs /\ t \in Seq(Commands) /\ Result(m, d, t) /\ job.pc = "ready"
    BY <1>1, <1>5, ResultTyped DEF Places4, Result4
  <2>2. job'.step = job.step
    BY <1>1, <2>1, ResultFields
  <2> QED BY <1>5, <2>2 DEF Places4
<1>6. ASSUME Return
      PROVE  /\ job.pc = "running" /\ job.todo = <<>> /\ Todo = 0
             /\ job'.step = job.step + 1 \/ (job.step = 8 /\ job'.step = 8)
  BY <1>1, <1>6, ReturnFields DEF Todo
<1> QED BY <1>2, <1>3, <1>4, <1>5, <1>6, <1>7

\* A later step is reached when the one before it returns.
LEMMA Advance ==
  ASSUME IInv, [Next]_vars, NEW k \in 1 .. 7, job'.step > k
  PROVE  /\ ~StartJob /\ ~Looks
         /\ k >= 4 => ~(\E m, d, t : Places4(m, d, t))
         /\ job.step > k \/ (Return /\ job.step = k)
<1>1. job.step \in 1 .. 8 /\ job'.step \in 1 .. 8
  BY Stepped
<1>2. (StartJob => job'.step = 1) /\ (Looks => job'.step = 1)
  BY Stepped
<1>3. (\E m, d, t : Places4(m, d, t)) => job'.step = 4
  BY Stepped
<1>4. Return => job'.step = job.step + 1 \/ (job.step = 8 /\ job'.step = 8)
  BY Stepped
<1>5. StartJob \/ Return \/ job'.step = job.step
  BY JobSame
<1>6. ~StartJob /\ ~Looks
  BY <1>1, <1>2
<1>7. k >= 4 => ~(\E m, d, t : Places4(m, d, t))
  BY <1>1, <1>3
<1>8. job.step > k \/ (Return /\ job.step = k)
  BY <1>1, <1>4, <1>5, <1>6
<1> QED BY <1>6, <1>7, <1>8

\* node.json and the marker say "current" only of data that moves no more.
LEMMA NodeSettled ==
  ASSUME IInv, Node.names = "current"
  PROVE  Settled /\ Followed
<1>1. node.names = "current" \/ names # None
  BY DEF Node
<1> QED BY <1>1 DEF IInv, BoxInv, NodeFile

LEMMA AlreadyKept == ASSUME IInv, [Next]_vars, job'.already PROVE group' = "current" /\ Settled'
<1>1. CASE Looks
  <2>1. job'.already = (user = "current" /\ Node.names = "current" /\ ~Leftovers)
    BY <1>1, PreflightFields DEF IInv, Types, Looks
  <2>2. group # "legacy" /\ Node.names = "current"
    BY <2>1 DEF Leftovers
  <2>3. group = "current"
    BY <2>2 DEF IInv, Types, BoxTyped, Names
  <2> QED BY <2>2, <2>3, NodeSettled, Onward
<1>2. CASE job'.already = job.already
  <2>1. group = "current" /\ Settled
    BY <1>2 DEF IInv, StepsDone
  <2> QED BY <2>1, Onward
<1> QED BY <1>1, <1>2, JobSame, Stepped

LEMMA EnabledKnown ==
  ASSUME IInv, [Next]_vars, job'.step > 1 \/ job'.pc = "running"
  PROVE  job'.wasEnabled = box'.enabled
<1>0. box' = box /\ JobTyped
  BY Onward DEF IInv, Types
<1>1. CASE Looks
  <2>1. job'.wasEnabled = {s \in Services : \E n \in Names : <<n, s>> \in enabled}
    BY <1>0, <1>1, PreflightFields DEF Looks
  <2>2. box.enabled \subseteq Services
    BY BoxFacts DEF IInv
  <2>3. \A s \in Services : s \in box.enabled <=> \E n \in Names : <<n, s>> \in enabled
    BY DEF IInv, BoxInv, EnablementKept
  <2> QED BY <1>0, <2>1, <2>2, <2>3
<1>2. CASE job'.wasEnabled = job.wasEnabled /\ ~StartJob /\ ~Looks
  <2>1. job.step > 1 \/ job.pc = "running"
    <3>1. CASE job' = job
      BY <3>1
    <3>2. CASE Asks \/ Works \/ \E t : Starts(t)
      BY <3>2 DEF Asks, Works, Starts, Steady
    <3>3. CASE \E m, d, t : Places4(m, d, t)
      BY <3>3 DEF Places4
    <3>4. CASE Return
      BY <3>4, Stepped
    <3>5. CASE (\E o \in Options : Answer(o)) \/ Abort
      BY <1>0, <3>5, AnswerFields, AbortFields DEF Steady
    <3> QED BY <1>2, <3>1, <3>2, <3>3, <3>4, <3>5, JobCases
  <2>2. job.wasEnabled = box.enabled
    BY <2>1 DEF IInv, StepsDone
  <2> QED BY <1>0, <1>2, <2>2
<1>3. CASE StartJob
  <2>1. job'.step = 1 /\ job'.pc = "ready"
    BY <1>3, Stepped
  <2>2. ~(1 > 1)
    OBVIOUS
  <2> QED BY <2>1, <2>2
<1> QED BY <1>1, <1>2, <1>3, JobSame

LEMMA GroupKept == ASSUME IInv, [Next]_vars, job'.step > 3 PROVE group' = "current"
<1>1. job.step > 3 \/ (Return /\ job.step = 3)
  BY Advance
<1>2. CASE Return /\ job.step = 3
  <2>1. job.already => group = "current"
    BY DEF IInv, StepsDone
  <2>2. ~job.already => group = "current"
    <3>1. job.pc = "running" /\ Todo = 0
      BY <1>2, Stepped
    <3> QED BY <1>2, <3>1 DEF IInv, Running, Renaming
  <2> QED BY <2>1, <2>2, Onward
<1>3. CASE job.step > 3
  BY <1>3, Onward DEF IInv, StepsDone
<1> QED BY <1>1, <1>2, <1>3

\* What move-data returned stays true until the next job.
LEMMA LocatedKept ==
  ASSUME IInv, [Next]_vars, Located, job'.moved = job.moved, job'.dir = job.dir
  PROVE  Located'
<1>1. job.dir = Place /\ Settled /\ box' = box /\ Place' = Place /\ Settled' /\ (cut => cut')
  BY Onward DEF Located
<1>2. root' = root
  BY <1>1, AtMove, Changes DEF Settled
<1>3. (job.moved => root = "current") /\ (~job.moved => Place # "current" \/ Followed)
  BY DEF Located
<1>4. Followed => Followed'
  BY <1>1, FollowedKept
<1>5. ~job.moved /\ ~cut => Place = box.dir
  BY DEF Located
<1> QED BY <1>1, <1>2, <1>3, <1>4, <1>5 DEF Located

LEMMA LocatedStays == ASSUME IInv, [Next]_vars, job'.step > 4, ~job'.already PROVE Located'
<1>1. ~StartJob /\ ~Looks /\ ~(\E m, d, t : Places4(m, d, t)) /\ (job.step > 4 \/ (Return /\ job.step = 4))
  BY Advance
<1>2. job'.already = job.already /\ job'.moved = job.moved /\ job'.dir = job.dir
  BY <1>1, JobSame
<1>3. CASE job.step > 4
  <2>1. Located
    BY <1>2, <1>3 DEF IInv, StepsDone
  <2> QED BY <1>2, <2>1, LocatedKept
<1>4. CASE Return /\ job.step = 4
  <2>1. job.pc = "running" /\ job.todo = <<>>
    BY <1>4, Stepped
  <2>2. Moving
    BY <1>4, <2>1 DEF IInv, Running
  <2>3. Located
    BY <1>2, <2>1, <2>2 DEF Moving
  <2> QED BY <1>2, <2>3, LocatedKept
<1> QED BY <1>1, <1>3, <1>4

LEMMA NamesWritten == ASSUME IInv, [Next]_vars, job'.step > 5, ~job'.already PROVE names' # None
<1>1. ~StartJob /\ ~Looks /\ (job.step > 5 \/ (Return /\ job.step = 5))
  BY Advance
<1>2. job'.already = job.already
  BY <1>1, JobSame
<1>3. CASE job.step > 5
  <2>1. names # None
    BY <1>2, <1>3 DEF IInv, StepsDone
  <2> QED BY <2>1, Onward
<1>4. CASE Return /\ job.step = 5
  <2>1. job.pc = "running" /\ Todo = 0
    BY <1>4, Stepped
  <2>2. Rewriting
    BY <1>4, <2>1 DEF IInv, Running
  <2>3. names # None
    BY <1>2, <2>1, <2>2 DEF Rewriting
  <2> QED BY <2>3, Onward
<1> QED BY <1>1, <1>3, <1>4

\* Only commands undo what verify has seen.
LEMMA VerifiedKept ==
  ASSUME IInv, [Next]_vars, Verified, \A c : ~Turn(c)
  PROVE  Verified'
<1>1. unit' = unit /\ owner' = owner
  BY Changes DEF WriteUnit, RemoveUnits, FollowOwner
<1>2. Settled
  <2>1. unit[<<"current", "exec">>] # None
    BY DEF Verified, Services
  <2> QED BY <2>1 DEF IInv, BoxInv, UnitFiles, Services
<1>3. Followed'
  BY <1>2, FollowedKept DEF Verified
<1>4. user' = "current" /\ group' = "current" /\ (cut' \/ names' # None)
  BY Onward DEF Verified
<1> QED BY <1>1, <1>3, <1>4 DEF Verified

\* What verify sees when it finds nothing wrong.
LEMMA Verifies ==
  ASSUME IInv, job.step = 8, ~Problems
  PROVE  Verified
<1>1. user # "legacy" /\ Node.names = "current" /\ ~Leftovers
  BY DEF Problems
<1>2. group # "legacy" /\ owner # "legacy" /\ \A s \in Services : unit[<<"legacy", s>>] = None
  BY <1>1 DEF Leftovers
<1>3. \A s \in Services : unit[<<"current", s>>] # None
  BY DEF Problems
<1>4. user = "current" /\ group = "current"
  BY <1>1, <1>2 DEF IInv, Types, BoxTyped, Names
<1>5. Followed
  BY <1>1, NodeSettled
<1>6. cut \/ names # None
  <2>1. names = None => node.names = "current"
    BY <1>1 DEF Node
  <2> QED BY <2>1 DEF IInv, BoxInv, Record
<1> QED BY <1>2, <1>3, <1>4, <1>5, <1>6 DEF Verified

LEMMA VerifiedStays ==
  ASSUME IInv, [Next]_vars, job'.pc = "done" \/ (job'.pc = "running" /\ job'.step = 8)
  PROVE  Verified'
<1>0. JobTyped
  BY DEF IInv, Types
<1>1. ASSUME job.pc = "done" \/ (job.pc = "running" /\ job.step = 8) PROVE Verified'
  <2>1. Verified
    BY <1>1 DEF IInv, StepsDone
  <2>2. \A c : ~Turn(c)
    BY <1>1 DEF IInv, Running, Turn
  <2> QED BY <2>1, <2>2, VerifiedKept
<1>2. CASE job' = job
  BY <1>1, <1>2
<1>3. ASSUME NEW t, Starts(t) PROVE Verified'
  <2>1. job.step = 8 /\ ~Problems
    BY <1>3 DEF Starts, Steady
  <2>2. \A c : ~Turn(c)
    BY <1>3 DEF Starts, Turn
  <2> QED BY <2>1, <2>2, Verifies, VerifiedKept
<1>4. CASE Works
  BY <1>1, <1>4 DEF Works, Steady
<1>5. CASE Return
  <2>1. job.pc = "running" /\ job.step = 8
    BY <1>0, <1>5, ReturnFields
  <2> QED BY <1>1, <2>1
<1>6. CASE Looks \/ (\E m, d, t : Places4(m, d, t)) \/ StartJob
  <2>1. job'.step \in {1, 4} /\ job'.pc # "done"
    <3>1. CASE Looks
      BY <1>0, <3>1, Stepped, PreflightFields DEF Looks
    <3>2. CASE StartJob
      BY <3>2, Stepped
    <3>3. ASSUME NEW m, NEW d, NEW t, Places4(m, d, t) PROVE job'.step = 4 /\ job'.pc # "done"
      <4>1. m \in BOOLEAN /\ d \in Dirs /\ t \in Seq(Commands) /\ Result(m, d, t) /\ job.pc = "ready"
        BY <3>3, ResultTyped DEF Places4, Result4, IInv
      <4>2. job'.pc = "running"
        BY <1>0, <4>1, ResultFields
      <4> QED BY <3>3, <4>2, Stepped
    <3> QED BY <1>6, <3>1, <3>2, <3>3
  <2> QED BY <2>1
<1>7. CASE Asks \/ (\E o \in Options : Answer(o)) \/ Abort
  BY <1>0, <1>7, AnswerFields, AbortFields DEF Asks
<1> QED BY <1>2, <1>3, <1>4, <1>5, <1>6, <1>7, JobCases

\* Only the question about mounted data offers to keep the path.
LEMMA KeepPath ==
  ASSUME NEW q \in Questions, "keep-path" \in q.options
  PROVE  q = Mounted
BY DEF Questions, Failed, Busy, StillBusy, BusyAgain, Question

LEMMA MountedKept ==
  ASSUME IInv, [Next]_vars, job'.answer.option = "keep-path" \/ job'.ask = Mounted
  PROVE  box'.mounted
<1>0. JobTyped /\ Types /\ box' = box
  BY Onward DEF IInv, Types
<1>1. job.answer.option = "keep-path" \/ job.ask = Mounted => box.mounted
  BY DEF IInv, StepsDone
<1>2. Mounted # None /\ NoAnswer.option # "keep-path"
  BY NoneOK DEF Questions, Options, NoAnswer
<1>3. CASE job' = job \/ Asks \/ Works \/ \E t : Starts(t)
  BY <1>0, <1>1, <1>3 DEF Asks, Works, Starts, Steady
<1>4. CASE Looks
  BY <1>0, <1>1, <1>4, PreflightFields DEF Looks
<1>5. ASSUME NEW m, NEW d, NEW t, Places4(m, d, t) PROVE job'.answer = job.answer /\ job'.ask = job.ask
  <2>1. m \in BOOLEAN /\ d \in Dirs /\ t \in Seq(Commands) /\ Result(m, d, t) /\ job.pc = "ready"
    BY <1>0, <1>5, ResultTyped DEF Places4, Result4
  <2> QED BY <1>0, <2>1, ResultFields
<1>6. CASE Return
  BY <1>0, <1>1, <1>2, <1>6, ReturnFields
<1>7. ASSUME NEW o \in Options, Answer(o) PROVE box'.mounted
  <2>1. job.pc = "asking" /\ o \in job.ask.options /\ job'.ask = None /\ job'.answer.option = o
    BY <1>0, <1>7, AnswerFields
  <2>2. job.ask \in Questions
    BY <1>0, <2>1 DEF JobTyped, JobType
  <2> QED BY <1>0, <1>1, <1>2, <2>1, <2>2, KeepPath
<1>8. CASE Abort \/ StartJob
  BY <1>0, <1>1, <1>2, <1>8, AbortFields, StartJobFields DEF Steady
<1> QED BY <1>0, <1>1, <1>3, <1>4, <1>5, <1>6, <1>7, <1>8, JobCases

LEMMA StepsDoneKept == ASSUME IInv, [Next]_vars PROVE StepsDone'
BY AlreadyKept, EnabledKnown, GroupKept, LocatedStays, NamesWritten, VerifiedStays, MountedKept DEF StepsDone

---------------------------------------------------------------------------
(* The running step does what its commands say. *)

LEMMA RunningSame ==
  ASSUME IInv, [Next]_vars, job' = job, UNCHANGED <<user, group, active, root, enabled, snapshot, names>>
  PROVE  Running'
<1>1. Running /\ box' = box
  BY Onward DEF IInv
<1>2. Todo' = Todo /\ Place' = Place
  BY <1>1, PlaceSame DEF Todo
<1>3. (LeftOf(StopList) => LeftOf(StopList)') /\ (Renaming => Renaming')
  BY <1>2 DEF LeftOf, Renaming, StopList, RenameList, StopNodeUnits, Rest
<1>4. Moving => Moving'
  BY <1>1, LocatedKept DEF Moving
<1>5. Rewriting => Rewriting'
  <2>1. (NoneLegacy => NoneLegacy') /\ (Followed => Followed')
    BY <1>1, <1>2 DEF NoneLegacy, Followed
  <2>2. LeftOf(RewriteList) => LeftOf(RewriteList)'
    BY <1>2 DEF LeftOf, RewriteList, Rest
  <2> QED BY <1>1, <1>2, <2>1, <2>2 DEF Rewriting
<1>6. (Owning => Owning') /\ (Starting => Starting')
  BY DEF Owning, Starting
<1> QED BY <1>1, <1>3, <1>4, <1>5, <1>6 DEF Running

\* What is left of a list after the step.
LEMMA LeftThen ==
  ASSUME NEW L \in Seq(Commands), NEW n \in 0 .. Len(L), job'.todo = Rest(L, n)
  PROVE  /\ Len(job'.todo) = n /\ Len(job'.todo) <= Len(L)
         /\ job'.todo = Rest(L, Len(job'.todo))
<1>1. CASE n = 0
  BY <1>1, RestEnds
<1>2. CASE n # 0
  <2>1. Len(Rest(L, n)) = n
    BY <1>2, RestParts
  <2> QED BY <2>1
<1> QED BY <1>1, <1>2

LEMMA RunningBegun == ASSUME IInv, NEW t, Starts(t) PROVE Running'
<1>1. /\ job.step \in {2, 3, 5, 6, 7, 8} /\ job'.step = job.step /\ job'.already = job.already
      /\ job'.todo = t
  BY DEF Starts, Steady
<1>2. CASE job.step = 2
  <2>1. job'.todo = Rest(StopList, 0) \/ job'.todo = Rest(StopList, Len(StopList))
    BY <1>1, <1>2, RestEnds, StopListSeq DEF Starts
  <2>2. Len(StopList) \in Nat
    BY StopListSeq
  <2>3. LeftOf(StopList)'
    BY <2>1, <2>2, LeftThen, StopListSeq DEF LeftOf, Todo
  <2> QED BY <1>1, <1>2, <2>3 DEF Running
<1>3. CASE job.step = 3
  <2>1. job.already => job'.todo = <<>>
    BY <1>1, <1>3 DEF Starts
  <2>2. ASSUME ~job.already PROVE Renaming'
    <3>1. job'.todo = RenameList \/ job'.todo = RenameTail
      BY <1>1, <1>3, <2>2 DEF Starts
    <3>2. PICK n \in {3, 7} : job'.todo = Rest(RenameList, n)
      <4>1. Rest(RenameList, Len(RenameList)) = RenameList
        BY RestEnds, RenameListSeq
      <4>2. Rest(RenameList, 7) = RenameList
        BY <4>1, RenameListed
      <4> QED BY <3>1, <4>2, RenameRest
    <3>3. n \in 0 .. Len(RenameList)
      BY RenameListed
    <3>4. Len(job'.todo) = n /\ Len(job'.todo) <= Len(RenameList) /\ job'.todo = Rest(RenameList, Len(job'.todo))
      BY <3>2, <3>3, LeftThen, RenameListSeq
    <3>5. LeftOf(RenameList)' /\ Todo' = n
      BY <3>4 DEF LeftOf, Todo
    <3>6. Todo' \notin {0, 1, 2}
      BY <3>5
    <3> QED BY <3>5, <3>6 DEF Renaming
  <2> QED BY <1>1, <1>3, <2>1, <2>2 DEF Running
<1>4. CASE job.step = 5
  <2>1. ASSUME ~job.already PROVE LeftOf(RewriteList)' /\ Todo' = 8
    <3>1. job'.todo = RewriteList
      BY <1>1, <1>4, <2>1 DEF Starts
    <3>2. job'.todo = Rest(RewriteList, Len(RewriteList)) /\ Len(RewriteList) \in 0 .. Len(RewriteList)
      BY <3>1, RestEnds, RewriteListSeq
    <3>3. Len(job'.todo) = Len(RewriteList) /\ job'.todo = Rest(RewriteList, Len(job'.todo))
      BY <3>2, LeftThen, RewriteListSeq
    <3> QED BY <3>3, RewriteListed DEF LeftOf, Todo
  <2>2. job.already => job'.todo = <<>>
    BY <1>1, <1>4 DEF Starts
  <2>3. ~(8 < 6) /\ ~(8 < 5) /\ ~(8 < 3) /\ 8 # 0
    OBVIOUS
  <2>4. ASSUME ~job.already PROVE /\ LeftOf(RewriteList)'
                                  /\ ~(Todo' < 6) /\ ~(Todo' < 5) /\ ~(Todo' < 3) /\ Todo' # 0
    BY <2>1, <2>3, <2>4
  <2>5. Rewriting'
    BY <1>1, <2>2, <2>4 DEF Rewriting
  <2> QED BY <1>1, <1>4, <2>5 DEF Running
<1>5. CASE job.step = 6
  BY <1>1, <1>5 DEF Running, Owning, Starts
<1>6. CASE job.step = 7
  BY <1>1, <1>6 DEF Running, Starting, Starts
<1>7. CASE job.step = 8
  BY <1>1, <1>7 DEF Running, Starts
<1> QED BY <1>1, <1>2, <1>3, <1>4, <1>5, <1>6, <1>7

---------------------------------------------------------------------------
(* Where move-data finds the data. *)

\* A dir of node.json that is not legacy is the data's place, without a move of this job.
LEMMA FoundElsewhere ==
  ASSUME IInv, job.step = 4, names # "moved", Node.dir # "legacy"
  PROVE  /\ Node.dir = Place /\ Settled
         /\ Place # "current" \/ Followed
         /\ ~cut => Place = box.dir
<1>1. NodeFile /\ Record /\ Accounts
  BY DEF IInv, BoxInv
<1>2. box.dir \in {"legacy", "custom"} /\ root \in {"legacy", "current"}
  BY BoxFacts DEF IInv, Types, BoxTyped, Names
<1>3. Node.dir = node.dir
  BY DEF Node, Apply
<1>4. node.dir = Place /\ Settled
  BY <1>1, <1>2, <1>3 DEF NodeFile, Place, Settled
<1>5. Place # box.dir => node.names = "current"
  BY <1>1, <1>4 DEF NodeFile
<1>6. Place = "current" => box.dir # "current"
  BY <1>2
<1>7. Place # "current" \/ Followed
  BY <1>1, <1>5, <1>6 DEF NodeFile
<1>8. ~cut => Place = box.dir
  <2>1. names \in {None, "kept"}
    BY DEF IInv, Types, BoxTyped
  <2> QED BY <1>1, <1>5, <2>1 DEF Record
<1> QED BY <1>3, <1>4, <1>7, <1>8

\* A legacy dir is the one the box had.
LEMMA FoundLegacy ==
  ASSUME IInv, names # "moved", Node.dir = "legacy"
  PROVE  box.dir = "legacy" /\ Place = root
<1>1. node.dir \in {box.dir, Place} /\ node.dir = "legacy"
  BY DEF IInv, BoxInv, NodeFile, Node, Apply
<1>2. box.dir \in {"legacy", "custom"}
  BY BoxFacts DEF IInv
<1> QED BY <1>1, <1>2 DEF Place

LEMMA RunningPlaced == ASSUME IInv, NEW m, NEW d, NEW t, Places4(m, d, t) PROVE Running'
<1>1. Result4(m, d, t) /\ job.step = 4 /\ job.pc = "ready" /\ UNCHANGED <<box, boxVars, left, cut>>
  BY DEF Places4
<1>2. /\ job'.step = 4 /\ job'.todo = t /\ job'.moved = m /\ job'.dir = d /\ job'.already = job.already
      /\ m \in BOOLEAN
  <2>1. m \in BOOLEAN /\ d \in Dirs /\ t \in Seq(Commands) /\ Result(m, d, t)
    BY <1>1, ResultTyped DEF Result4, IInv
  <2> QED BY <1>1, <2>1, ResultFields DEF IInv, Types
<1>3. Place' = Place /\ Settled' = Settled /\ root' = root /\ cut' = cut /\ box' = box /\ Followed' = Followed
  <2>1. root' = root /\ cut' = cut /\ box' = box /\ snapshot' = snapshot
    BY <1>1 DEF boxVars, fileVars
  <2>2. Place' = Place /\ Settled' = Settled
    BY <2>1, PlaceSame
  <2> QED BY <2>1, <2>2 DEF Followed
<1>4. root \in {"legacy", "current"}
  BY DEF IInv, Types, BoxTyped, Names
<1>5. ASSUME d = Place, Settled, m => root = "current", ~m => Place # "current" \/ Followed, ~m /\ ~cut => Place = box.dir
      PROVE  Located'
  <2>1. job'.dir = Place' /\ Settled' /\ (job'.moved => root' = "current")
    BY <1>2, <1>3, <1>5
  <2>2. (~job'.moved => Place' # "current" \/ Followed') /\ (~job'.moved /\ ~cut' => Place' = box'.dir)
    BY <1>2, <1>3, <1>5
  <2> QED BY <2>1, <2>2 DEF Located
<1>6. CASE t = <<>> /\ job.already
  BY <1>2, <1>6 DEF Moving, Running
<1>7. ASSUME t = <<>>, Located' PROVE Running'
  BY <1>2, <1>7 DEF Moving, Running
<1>8. CASE t = <<>> /\ m = FALSE /\ d = Node.dir /\ names # "moved" /\ d # "legacy"
  <2>1. d = Place /\ Settled /\ (Place # "current" \/ Followed) /\ (~cut => Place = box.dir)
    BY <1>1, <1>8, FoundElsewhere
  <2> QED BY <1>5, <1>7, <1>8, <2>1
<1>9. CASE /\ t = <<>> /\ m = FALSE /\ d = Node.dir /\ names # "moved" /\ d = "legacy" /\ root # "current"
           /\ job.answer.option = "keep-path"
  <2>1. box.mounted
    BY <1>9 DEF IInv, StepsDone
  <2>2. box.dir = "legacy" /\ Place = "legacy"
    BY <1>4, <1>9, FoundLegacy
  <2>3. d = Place /\ Settled /\ Place # "current" /\ Place = box.dir
    BY <1>9, <2>1, <2>2 DEF Settled
  <2> QED BY <1>5, <1>7, <1>9, <2>3
<1>10. CASE t = <<>> /\ m = TRUE /\ names = "moved" /\ root # "legacy" /\ d = Node.dir
  <2>1. root = "current" /\ box.dir = "legacy" /\ Place = "current"
    BY <1>4, <1>10, Places DEF IInv
  <2>2. node.dir \in {"legacy", "current"}
    BY <2>1 DEF IInv, BoxInv, NodeFile
  <2>3. Node.dir = "current"
    BY <1>10, <2>2, NoneOK DEF Node, Apply, Rebase
  <2>4. d = Place /\ Settled
    BY <1>10, <2>1, <2>3 DEF Settled
  <2> QED BY <1>5, <1>7, <1>10, <2>1, <2>4
<1>11. CASE t = <<>> /\ m = TRUE /\ root = "current" /\ d = "current"
  <2>1. d = Place /\ Settled
    BY <1>11, Places DEF Settled
  <2> QED BY <1>5, <1>7, <1>11, <2>1
<1>12. CASE /\ t = <<<<"mv">>>> /\ m = TRUE /\ ~job.already /\ names # "moved" /\ Node.dir = "legacy" /\ root # "current"
            /\ ~box.mounted /\ d = "current"
  <2>1. box.dir = "legacy"
    BY <1>12, FoundLegacy
  <2>2. /\ job'.todo = <<<<"mv">>>> /\ job'.dir = "current" /\ job'.moved /\ box'.dir = "legacy" /\ ~box'.mounted
        /\ ~job'.already
    BY <1>2, <1>3, <1>12, <2>1
  <2> QED BY <1>2, <2>2 DEF Running, Moving
<1> QED BY <1>1, <1>6, <1>8, <1>9, <1>10, <1>11, <1>12 DEF Result4

\* After the marker's command it follows the data, whether or not this job moved it.
LEMMA SnapshotFollows ==
  ASSUME IInv, Located, Snapshot
  PROVE  Followed'
<1>1. /\ box' = box /\ root' = root
      /\ snapshot' = IF job.moved /\ job.dir = "current" /\ snapshot = "legacy" THEN "current" ELSE snapshot
  BY DEF Snapshot, Turn
<1>2. Place' = Place
  BY <1>1, PlaceSame
<1>3. job.dir = Place /\ (job.moved => root = "current") /\ (~job.moved => Place # "current" \/ Followed)
  BY DEF Located
<1>4. Marker /\ box.dir \in {"legacy", "custom"} /\ None # "legacy"
  BY BoxFacts DEF IInv, BoxInv, Dirs
<1>5. root \in {"legacy", "current"} /\ Place = IF box.dir = "custom" THEN "custom" ELSE root
  BY DEF IInv, Types, BoxTyped, Names, Place
<1>6. CASE job.moved
  <2>1. Place = "current" /\ box.dir = "legacy"
    BY <1>3, <1>6, Places
  <2>2. snapshot' = IF snapshot = "legacy" THEN "current" ELSE snapshot
    BY <1>1, <1>3, <1>6, <2>1
  <2>3. snapshot' = IF box.restored THEN "current" ELSE None
    BY <1>4, <2>1, <2>2 DEF Marker
  <2> QED BY <1>1, <1>2, <2>1, <2>3 DEF Followed
<1>7. CASE ~job.moved
  <2>1. snapshot' = snapshot
    BY <1>1, <1>7
  <2>2. Followed
    <3>1. CASE Place # "current"
      <4>1. box.dir = Place
        BY <1>4, <1>5, <3>1
      <4> QED BY <1>4, <4>1 DEF Marker, Followed
    <3> QED BY <1>3, <1>7, <3>1
  <2> QED BY <1>1, <1>2, <2>1, <2>2 DEF Followed
<1> QED BY <1>6, <1>7

LEMMA RunningOn == ASSUME IInv, [Next]_vars, Works PROVE Running'
<1>0. Types /\ JobTyped /\ Running /\ box' = box /\ job.pc = "running" /\ job.todo # <<>> /\ Command
  BY Onward DEF IInv, Types, Works
<1>1. /\ job'.step = job.step /\ job'.already = job.already /\ job'.moved = job.moved /\ job'.dir = job.dir
      /\ job'.wasEnabled = job.wasEnabled /\ job'.todo = Tail(job.todo)
  BY DEF Works, Steady
<1>2. PICK n \in Nat \ {0} : n = Todo
  BY <1>0, Spot
<1>3. job.step \in {2, 3, 4, 5, 6, 7}
  BY <1>0, Spot
<1>4. ASSUME NEW L \in Seq(Commands), n <= Len(L), job'.todo = Rest(L, n - 1)
      PROVE  LeftOf(L)' /\ Todo' = n - 1
  <2>1. n - 1 \in 0 .. Len(L)
    BY <1>4
  <2> QED BY <1>4, <2>1, LeftThen DEF LeftOf, Todo
<1>5. CASE job.step = 2
  <2>1. Todo <= 5 /\ Tail(job.todo) = Rest(StopList, Todo - 1)
    BY <1>0, <1>5, Spot
  <2>2. n <= Len(StopList) /\ job'.todo = Rest(StopList, n - 1)
    BY <1>1, <1>2, <2>1, StopListed
  <2>3. LeftOf(StopList)'
    BY <1>4, <2>2, StopListSeq
  <2> QED BY <1>1, <1>5, <2>3 DEF Running
<1>6. CASE job.step = 3
  <2>1. /\ ~job.already /\ Todo <= 7 /\ Tail(job.todo) = Rest(RenameList, Todo - 1)
        /\ Head(job.todo)[1] = RenameList[8 - Todo][1]
    BY <1>0, <1>6, Spot
  <2>2. n <= Len(RenameList) /\ job'.todo = Rest(RenameList, n - 1)
    BY <1>1, <1>2, <2>1, RenameListed
  <2>3. LeftOf(RenameList)' /\ Todo' = n - 1
    BY <1>4, <2>2, RenameListSeq
  <2>4. ASSUME Todo' = 2 PROVE user' = "legacy" => active' = {}
    <3>1. n = 3
      BY <1>2, <2>3, <2>4
    <3>2. Head(job.todo)[1] = RenameList[5][1]
      BY <1>2, <2>1, <3>1
    <3>3. Idle
      BY <1>0, <3>2, RenameListed, Known
    <3>4. ~Ask(BusyAgain)
      BY <1>0, AskFields DEF Works, Questions
    <3> QED BY <3>3, <3>4 DEF Idle, boxVars, accountVars, unitVars
  <2>5. ASSUME Todo' = 1 PROVE user' = "current"
    <3>1. n = 2
      BY <1>2, <2>3, <2>5
    <3>2. Head(job.todo)[1] = RenameList[6][1]
      BY <1>2, <2>1, <3>1
    <3> QED BY <1>0, <3>2, RenameListed, Known DEF Usermod
  <2>6. ASSUME Todo' = 0 PROVE group' = "current"
    <3>1. n = 1
      BY <1>2, <2>3, <2>6
    <3>2. Head(job.todo)[1] = RenameList[7][1]
      BY <1>2, <2>1, <3>1
    <3> QED BY <1>0, <3>2, RenameListed, Known DEF Groupmod
  <2>7. Renaming'
    BY <2>3, <2>4, <2>5, <2>6 DEF Renaming
  <2> QED BY <1>1, <1>6, <2>1, <2>7 DEF Running
<1>7. CASE job.step = 4
  <2>1. Head(job.todo)[1] = "mv" /\ Tail(job.todo) = <<>>
    BY <1>0, <1>7, Spot
  <2>2. Move
    BY <1>0, <2>1, Known
  <2>3. job.dir = "current" /\ job.moved
    BY <1>0, <1>7 DEF Running, Moving
  <2>4. root' = "current" /\ box.dir = "legacy"
    BY <2>2, AtMove
  <2>5. Place' = "current" /\ Settled'
    BY <1>0, <2>4 DEF Place, Settled
  <2>6. Located'
    BY <1>1, <2>3, <2>4, <2>5 DEF Located
  <2> QED BY <1>1, <1>7, <2>1, <2>6 DEF Running, Moving
<1>8. CASE job.step = 5
  <2>1. /\ ~job.already /\ Todo <= 8 /\ Tail(job.todo) = Rest(RewriteList, Todo - 1)
        /\ Head(job.todo)[1] = RewriteList[9 - Todo][1]
    BY <1>0, <1>8, Spot
  <2>2. n <= Len(RewriteList) /\ job'.todo = Rest(RewriteList, n - 1)
    BY <1>1, <1>2, <2>1, RewriteListed
  <2>3. LeftOf(RewriteList)' /\ Todo' = n - 1
    BY <1>4, <2>2, RewriteListSeq
  <2>4. Rewriting /\ Located /\ job.wasEnabled = box.enabled
    BY <1>0, <1>8, <2>1 DEF IInv, Running, StepsDone
  <2>5. ASSUME Todo' < 6 PROVE \A s \in box'.enabled : <<"current", s>> \in enabled'
    <3>1. n <= 6
      BY <1>2, <2>3, <2>5
    <3>2. CASE n = 6
      <4>1. Head(job.todo)[1] = RewriteList[3][1]
        BY <1>2, <2>1, <3>2
      <4>2. Enable
        BY <1>0, <4>1, RewriteListed, Known
      <4> QED BY <1>0, <2>4, <4>2 DEF Enable
    <3>3. CASE n < 6
      <4>1. \A s \in box.enabled : <<"current", s>> \in enabled
        <5>1. Todo < 6 => \A s \in box.enabled : <<"current", s>> \in enabled
          BY <2>1, <2>4, Zenon DEF Rewriting
        <5> QED BY <1>2, <3>3, <5>1
      <4>2. \A s : <<"current", s>> \in enabled => <<"current", s>> \in enabled'
        BY Changes DEF Enable, Disable
      <4>3. \A s \in box.enabled : <<"current", s>> \in enabled'
        BY <4>1, <4>2, Zenon
      <4>4. box'.enabled = box.enabled
        BY <1>0
      <4> QED BY <4>3, <4>4
    <3>4. n = 6 \/ n < 6
      BY <3>1
    <3> QED BY <3>2, <3>3, <3>4, Zenon
  <2>6. ASSUME Todo' < 5 PROVE NoneLegacy'
    <3>1. n <= 5
      BY <1>2, <2>3, <2>6
    <3>2. CASE n = 5
      <4>1. Head(job.todo)[1] = RewriteList[4][1]
        BY <1>2, <2>1, <3>2
      <4>2. Disable
        BY <1>0, <4>1, RewriteListed, Known
      <4> QED BY <4>2 DEF Disable, NoneLegacy
    <3>3. CASE n < 5
      <4>1. NoneLegacy
        <5>1. Todo < 5 => NoneLegacy
          BY <2>1, <2>4, Zenon DEF Rewriting
        <5> QED BY <1>2, <3>3, <5>1
      <4>2. \A s : <<"legacy", s>> \in enabled' => <<"legacy", s>> \in enabled
        BY Changes DEF Enable, Disable
      <4> QED BY <4>1, <4>2 DEF NoneLegacy
    <3> QED BY <3>1, <3>2, <3>3
  <2>7. ASSUME Todo' < 3 PROVE Followed'
    <3>1. n <= 3
      BY <1>2, <2>3, <2>7
    <3>2. CASE n = 3
      <4>1. Head(job.todo)[1] = RewriteList[6][1]
        BY <1>2, <2>1, <3>2
      <4>2. Snapshot
        BY <1>0, <4>1, RewriteListed, Known
      <4> QED BY <2>4, <4>2, SnapshotFollows
    <3>3. CASE n < 3
      <4>1. Todo < 3 => Followed
        BY <2>1, <2>4, Zenon DEF Rewriting
      <4>2. Followed /\ Settled
        BY <1>2, <2>4, <3>3, <4>1 DEF Located
      <4> QED BY <4>2, FollowedKept
    <3> QED BY <3>1, <3>2, <3>3
  <2>8. ASSUME Todo' = 0 PROVE names' # None
    <3>1. n = 1
      BY <1>2, <2>3, <2>8
    <3>2. Head(job.todo)[1] = RewriteList[8][1]
      BY <1>2, <2>1, <3>1
    <3>3. WriteNames
      BY <1>0, <3>2, RewriteListed, Known
    <3> QED BY <3>3, NoneOK DEF WriteNames
  <2>9. Rewriting'
    BY <1>1, <2>1, <2>3, <2>5, <2>6, <2>7, <2>8 DEF Rewriting
  <2> QED BY <1>1, <1>8, <2>9 DEF Running
<1>9. CASE job.step = 6
  <2>1. Tail(job.todo) = <<>>
    BY <1>0, <1>9, Spot
  <2> QED BY <1>1, <1>9, <2>1 DEF Running, Owning
<1>10. CASE job.step = 7
  <2>1. Starting /\ job.todo \in Seq(Commands)
    BY <1>0, <1>10 DEF Running, JobTyped, JobType
  <2>2. \A i \in DOMAIN Tail(job.todo) : i + 1 \in DOMAIN job.todo /\ Tail(job.todo)[i] = job.todo[i + 1]
    BY <1>0, <2>1
  <2>3. \A i \in DOMAIN Tail(job.todo) : \E s \in Services : Tail(job.todo)[i] = <<"start", <<"current", s>>>>
    BY <2>1, <2>2 DEF Starting
  <2>4. Starting'
    BY <1>1, <2>3 DEF Starting
  <2> QED BY <1>1, <1>10, <2>4 DEF Running
<1> QED BY <1>3, <1>5, <1>6, <1>7, <1>8, <1>9, <1>10

LEMMA RunningKept == ASSUME IInv, [Next]_vars PROVE Running'
<1>0. JobTyped
  BY DEF IInv, Types
<1>1. CASE job' = job /\ (job.pc # "running" \/ UNCHANGED <<box, boxVars>> \/ Repair)
  <2>1. CASE job.pc # "running"
    BY <1>1, <2>1 DEF Running
  <2>2. CASE UNCHANGED <<box, boxVars>> \/ Repair
    <3>1. UNCHANGED <<user, group, active, root, enabled, snapshot, names>>
      BY <2>2 DEF Repair, boxVars, accountVars, unitVars, fileVars
    <3> QED BY <1>1, <3>1, RunningSame
  <2> QED BY <1>1, <2>1, <2>2
<1>2. CASE Looks
  <2>1. job'.step = 1 /\ job'.todo = <<>>
    BY <1>0, <1>2, Stepped, PreflightFields DEF Looks
  <2> QED BY <2>1 DEF Running
<1>3. CASE Asks \/ Return \/ (\E o \in Options : Answer(o)) \/ Abort \/ StartJob
  <2>1. job'.pc # "running"
    BY <1>0, <1>3, ReturnFields, AnswerFields, AbortFields, StartJobFields DEF Asks
  <2> QED BY <2>1 DEF Running
<1> QED BY <1>1, <1>2, <1>3, RunningOn, RunningBegun, RunningPlaced, JobCases

---------------------------------------------------------------------------
(* The theorems. *)

LEMMA InitInv == Init => IInv
<1> SUFFICES ASSUME Init PROVE IInv
  OBVIOUS
<1>1. MaxJobs \in Nat \ {0} /\ MaxFaults \in Nat /\ MaxRepairs \in Nat
  BY MigrateConstants
<1>2. /\ box \in Boxes /\ box.dir \in {"legacy", "custom"} /\ box.enabled \subseteq Services
      /\ box.active \subseteq Services /\ box.restored \in BOOLEAN /\ box.other \in {"none", "soft", "hard"}
      /\ None \notin Dirs
  BY MigrateConstants DEF Init
<1>3. /\ user = "legacy" /\ group = "legacy" /\ root = "legacy" /\ names = None /\ cut = FALSE
      /\ unit = [u \in Units |-> IF u[1] = "legacy" THEN box.dir ELSE None]
      /\ enabled = {"legacy"} \X box.enabled /\ active = {"legacy"} \X box.active /\ other = box.other
      /\ node = [names |-> "legacy", dir |-> box.dir]
      /\ owner \in {"legacy", None} /\ snapshot = IF box.restored THEN box.dir ELSE None
      /\ job = NewJob(1) /\ left = [faults |-> MaxFaults, repairs |-> MaxRepairs]
  BY DEF Init
<1>4. Place = box.dir
  BY <1>2, <1>3 DEF Place
<1>5. BoxTyped
  <2>1. unit \in [Units -> Dirs \cup {None}]
    BY <1>2, <1>3 DEF Dirs
  <2>2. enabled \subseteq Units /\ active \subseteq Units
    BY <1>2, <1>3 DEF Units, Names
  <2>3. node \in [names : Names, dir : Dirs]
    BY <1>2, <1>3 DEF Names, Dirs
  <2>4. left \in [faults : 0 .. MaxFaults, repairs : 0 .. MaxRepairs]
    BY <1>1, <1>3
  <2>5. snapshot \in Dirs \cup {None} /\ owner \in Names \cup {None}
    BY <1>2, <1>3 DEF Names, Dirs
  <2> QED BY <1>2, <1>3, <2>1, <2>2, <2>3, <2>4, <2>5 DEF BoxTyped, Names
<1>6. 1 \in 1 .. MaxJobs
  BY <1>1
<1>7. /\ job \in JobType /\ job.pc = "ready" /\ job.step = 1 /\ job.ask = None /\ job.todo = <<>>
      /\ job.answer = NoAnswer /\ job.already = FALSE
  BY <1>3, <1>6, NewJobFields
<1>8. Types
  BY <1>5, <1>7 DEF Types, JobTyped
<1>9. \A s \in Services : unit[<<"legacy", s>>] = box.dir /\ unit[<<"current", s>>] = None
  BY <1>3 DEF Units, Names
<1>10. Accounts /\ UnitFiles /\ Marker
  BY <1>2, <1>3, <1>4, <1>9 DEF Accounts, UnitFiles, Marker
<1>11. EnablementKept
  BY <1>2, <1>3 DEF EnablementKept, Names
<1>12. Disabled
  BY <1>2, <1>9 DEF Disabled, Dirs
<1>13. NodeFile /\ Record
  BY <1>3, <1>4, NoneOK DEF NodeFile, Record
<1>14. RunsOnItsData
  <2>1. ASSUME NEW u \in active PROVE user = u[1] /\ group = u[1] /\ unit[u] = Place
    <3>1. PICK s \in Services : u = <<"legacy", s>>
      BY <1>2, <1>3
    <3> QED BY <1>3, <1>4, <1>9, <3>1
  <2> QED BY <2>1 DEF RunsOnItsData
<1>15. StepsDone
  <2>1. NoAnswer.option # "keep-path" /\ None # Mounted
    BY NoneOK DEF Options, Questions, NoAnswer
  <2>2. ~(job.step > 1) /\ ~(job.step > 3) /\ ~(job.step > 4) /\ ~(job.step > 5)
    BY <1>7
  <2> QED BY <1>7, <2>1, <2>2 DEF StepsDone
<1>16. Running
  BY <1>7 DEF Running
<1> QED BY <1>8, <1>10, <1>11, <1>12, <1>13, <1>14, <1>15, <1>16 DEF IInv, BoxInv

THEOREM Invariance == Spec => []IInv
<1>1. IInv /\ [Next]_vars => IInv'
  BY JobKept, BoxKept, BoxInvKept, StepsDoneKept, RunningKept DEF IInv, Types
<1> QED BY InitInv, <1>1, PTL DEF Spec

\* The types, that a question is open exactly while the job asks, and that
\* commands are left only while a step runs (the manifest of migratenames.go).
THEOREM MigrationTypes == Spec => []TypeOK
<1>1. IInv => TypeOK
  <2> SUFFICES ASSUME IInv PROVE TypeOK
    OBVIOUS
  <2>1. BoxTyped /\ JobTyped
    BY DEF IInv, Types
  <2> QED BY <2>1, PlanSteps DEF TypeOK, BoxTyped, JobTyped, JobType
<1> QED BY Invariance, <1>1, PTL

\* What runs, runs on the node's data as an account that exists, through every
\* cut, abort and reboot: the order rename-account, move-data, rewrite-units and
\* the checks of busyWith keep it.
THEOREM NodeRunsOnItsData == Spec => []RunsOnItsData
<1>1. IInv => RunsOnItsData
  BY DEF IInv, BoxInv
<1> QED BY Invariance, <1>1, PTL

\* An enabled service stays enabled under one of the names, and no other is:
\* rewrite-units enables before it disables, with what preflight has read.
THEOREM ServicesStayEnabled == Spec => []EnablementKept
<1>1. IInv => EnablementKept
  BY DEF IInv, BoxInv
<1> QED BY Invariance, <1>1, PTL

\* What the readers get of node.json once names.json was written or no job was cut before it.
LEMMA WireFound ==
  ASSUME IInv, Verified, job.pc = "done", ~cut
  PROVE  WireFollows
<1>1. names # None /\ Settled
  <2>1. names # None
    BY DEF Verified
  <2> QED BY <2>1 DEF IInv, BoxInv, NodeFile
<1>2. names \in {"moved", "kept"} /\ node \in [names : Names, dir : Dirs] /\ box.dir \in {"legacy", "custom"}
  BY <1>1, BoxFacts DEF IInv, Types, BoxTyped
<1>3. Node = Apply(node) /\ node.dir \in {box.dir, Place}
  BY <1>1 DEF Node, IInv, BoxInv, NodeFile
<1>4. CASE names = "moved"
  <2>1. root = "current" /\ box.dir = "legacy" /\ Place = "current"
    BY <1>4, Places DEF IInv, BoxInv, Record
  <2>2. Rebase(node.dir) = "current"
    BY <1>3, <2>1 DEF Rebase
  <2> QED BY <1>3, <1>4, <2>1, <2>2 DEF WireFollows, Apply
<1>5. CASE names = "kept"
  <2>1. Place = box.dir
    BY <1>5 DEF IInv, BoxInv, Record
  <2> QED BY <1>3, <1>5, <2>1 DEF WireFollows, Apply
<1> QED BY <1>2, <1>4, <1>5

\* A job that ends well leaves nothing half switched, whatever was cut off
\* before it and however often a stale controller paired again (verify).
THEOREM MigratedWell == Spec => []MigratedWhenDone
<1>1. IInv => MigratedWhenDone
  <2> SUFFICES ASSUME IInv, job.pc = "done" PROVE MigratedWhenDone
    BY DEF MigratedWhenDone
  <2>1. Verified
    BY DEF IInv, StepsDone
  <2>2. user = "current" /\ group = "current" /\ owner # "legacy" /\ Followed
    BY <2>1 DEF Verified
  <2>3. \A s \in Services : unit[<<"current", s>>] = Place /\ unit[<<"legacy", s>>] = None
    BY <2>1 DEF Verified, IInv, BoxInv, UnitFiles
  <2>4. enabled = {"current"} \X box.enabled
    <3>1. NoneLegacy
      BY <2>3 DEF IInv, BoxInv, Disabled, Services
    <3>2. enabled \subseteq Units /\ box.enabled \subseteq Services
      BY BoxFacts DEF IInv, Types, BoxTyped
    <3>3. \A s \in Services : s \in box.enabled <=> <<"current", s>> \in enabled
      BY <3>1 DEF IInv, BoxInv, EnablementKept, NoneLegacy, Names
    <3>4. ASSUME NEW u \in enabled PROVE u \in {"current"} \X box.enabled
      <4>1. PICK n \in Names, s \in Services : u = <<n, s>>
        BY <3>2 DEF Units
      <4>2. n = "current"
        BY <3>1, <4>1 DEF NoneLegacy, Names
      <4> QED BY <3>3, <4>1, <4>2
    <3>5. ASSUME NEW s \in box.enabled PROVE <<"current", s>> \in enabled
      BY <3>2, <3>3
    <3> QED BY <3>4, <3>5
  <2>5. owner \in {None, "current"}
    BY <2>2 DEF IInv, Types, BoxTyped, Names
  <2>6. snapshot = IF box.restored THEN Place ELSE None
    BY <2>2 DEF Followed
  <2>7. cut \/ WireFollows
    BY <2>1, WireFound
  <2> QED BY <2>2, <2>3, <2>4, <2>5, <2>6, <2>7 DEF MigratedWhenDone
<1> QED BY Invariance, <1>1, PTL
=============================================================================
