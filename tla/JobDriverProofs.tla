--------------------------- MODULE JobDriverProofs ---------------------------
(***************************************************************************)
(* What JobDriver keeps for every number of driver slots, steps, attempts  *)
(* and faults, proved: the types, and that the hub's entry for a job is    *)
(* there exactly while its one driver runs.                                *)
(*                                                                         *)
(* The invariant adds to these only that a running job stands at a step of *)
(* its plan, which bounds what StepEnds counts. Its parts are kept apart   *)
(* (the job, the flags, the goroutines, the listing, the server): each is  *)
(* shown kept by every action, in a theorem of its own.                    *)
(***************************************************************************)
EXTENDS JobDriver, TLAPS

JobInv ==
  /\ job \in Record /\ wire \in {"legacy", "current"}
  /\ job.state = "running" => job.step < NSteps

Flags ==
  /\ fresh \in BOOLEAN /\ fits \in BOOLEAN /\ locked \in BOOLEAN
  /\ driving \in BOOLEAN /\ settled \in BOOLEAN
  /\ due \in BOOLEAN /\ op \in BOOLEAN

RunType == [Goroutine -> [pc : DriverPC, rec : Record \cup {None}]]
RunInv == run \in RunType /\ run[Late].pc \in LatePC

ListInv == list \in [pc : {"off", "asked", "got", "end"},
                     rec : [state : States, owner : Owner] \cup {None}]

ServerInv == server \in {"on", "stopping", "waited", "off"} /\ faults \in 0 .. MaxFaults

Types == JobInv /\ Flags /\ RunInv /\ ListInv /\ ServerInv

LEMMA TypesGive == Types => TypeOK
  BY DEF Types, JobInv, Flags, RunInv, ListInv, ServerInv, TypeOK, RunType

LEMMA Initially == Init => Types
<1> SUFFICES ASSUME Init PROVE Types
  OBVIOUS
<1>1. JobInv
  BY DriverConstants DEF Init, JobInv, Absent, Record, States, Owner
<1>2. Flags
  BY DriverConstants, Zenon DEF Init, Flags
<1>3. RunInv
  BY DEF Init, RunInv, RunType, Off, At, Goroutine, DriverPC, LatePC
<1>4. ListInv
  BY DEF Init, ListInv, Off, At
<1>5. ServerInv
  BY DriverConstants DEF Init, ServerInv
<1> QED
  BY <1>1, <1>2, <1>3, <1>4, <1>5 DEF Types

\* What a request, a step's end or the passing of time does on the box.
LEMMA OperationKeeps ==
  ASSUME JobInv, NEW who \in Owner, Operation(who), UNCHANGED wire
  PROVE  JobInv' /\ fresh' \in BOOLEAN
<1> USE DriverConstants DEF JobInv, Record, States, Owner
<1>1. CASE Create(who)
  <2>1. job' = [state |-> "waiting", step |-> 0, attempt |-> 0, owner |-> who] /\ fresh' = TRUE
    BY <1>1 DEF Create, Absent
  <2> QED
    BY <2>1
<1>2. CASE Take(who)
  BY <1>2 DEF Take
<1>3. CASE Decide(who)
  <2>1. fresh' = TRUE
    BY <1>3 DEF Decide
  <2>2. CASE job' = [job EXCEPT !.state = "aborted"]
    BY <2>1, <2>2
  <2>3. CASE job.attempt < MaxAttempt /\ job' = [job EXCEPT !.state = "waiting", !.attempt = @ + 1]
    <3>1. job.attempt + 1 \in 0 .. MaxAttempt
      BY <2>3
    <3> QED
      BY <2>1, <2>3, <3>1
  <2> QED
    BY <1>3, <2>2, <2>3 DEF Decide
<1> QED
  BY <1>1, <1>2, <1>3 DEF Operation

LEMMA AdvanceKeeps ==
  ASSUME JobInv, Advance, NEW who, NEW r, CanAdvance(who, r), UNCHANGED wire
  PROVE  JobInv' /\ fresh' \in BOOLEAN
BY DriverConstants DEF JobInv, Record, States, Owner, Advance, CanAdvance

LEMMA StepEndsKeeps ==
  ASSUME JobInv, StepEnds
  PROVE  JobInv'
<1> USE DriverConstants DEF JobInv, Record, States, Owner
<1>1. wire' = wire
  BY DEF StepEnds
<1>2. CASE job' = [job EXCEPT !.state = "needs-decision"]
  BY <1>1, <1>2
<1>3. ASSUME NEW s \in {"waiting", "succeeded"}, job.state = "running",
             job' = [job EXCEPT !.step = @ + 1, !.attempt = 0, !.state = s]
      PROVE  JobInv'
  <2>1. job.step + 1 \in 0 .. NSteps /\ 0 \in 0 .. MaxAttempt
    BY <1>3
  <2> QED
    BY <1>1, <1>3, <2>1
<1> QED
  BY <1>2, <1>3 DEF StepEnds

\* What an answered request of a driver does on the box.
LEMMA ServesKeeps ==
  ASSUME JobInv, fresh \in BOOLEAN, NEW r, Serves(r), UNCHANGED wire
  PROVE  JobInv' /\ fresh' \in BOOLEAN
<1>1. CASE CanAdvance("me", r) /\ Advance
  BY <1>1, AdvanceKeeps
<1>2. CASE Renew
  BY <1>2 DEF Renew, JobInv
<1> QED
  BY <1>1, <1>2 DEF Serves

LEMMA JobKept == JobInv /\ fresh \in BOOLEAN /\ [Next]_vars => JobInv' /\ fresh' \in BOOLEAN
<1> SUFFICES ASSUME JobInv, fresh \in BOOLEAN, [Next]_vars
             PROVE  JobInv' /\ fresh' \in BOOLEAN
  OBVIOUS
<1>1. CASE UNCHANGED <<job, wire, fresh>>
  BY <1>1, Zenon DEF JobInv
<1>2. CASE StepEnds
  BY <1>2, StepEndsKeeps DEF StepEnds
<1>3. CASE LeaseAges
  BY <1>3 DEF LeaseAges, JobInv
<1>4. CASE Other
  <2>1. CASE Operation("other")
    BY <1>4, <2>1, OperationKeeps DEF Other, Owner
  <2>2. CASE CanAdvance("other", job) /\ Advance
    BY <1>4, <2>2, AdvanceKeeps DEF Other
  <2> QED
    BY <1>4, <2>1, <2>2 DEF Other
<1>5. CASE Operate
  BY <1>5, OperationKeeps DEF Operate, Owner
<1>6. ASSUME NEW d \in Slot, Ask(d)
      PROVE  JobInv' /\ fresh' \in BOOLEAN
  <2>1. CASE Serves(run[d].rec)
    BY <1>6, <2>1, ServesKeeps DEF Ask
  <2>2. CASE UNCHANGED <<job, fresh>>
    BY <1>6, <2>2, <1>1 DEF Ask
  <2> QED
    BY <1>6, <2>1, <2>2 DEF Ask
<1>7. ASSUME NEW g \in Goroutine, Save(g)
      PROVE  JobInv' /\ fresh' \in BOOLEAN
  BY <1>7 DEF Save, JobInv, boxVars, BoxNames
<1> QED
  BY <1>1, <1>2, <1>3, <1>4, <1>5, <1>6, <1>7
  DEF Next, vars, boxVars, Drives, Finishes, Lists, Read, Look, Wait, Exit, Settle, AskInfo,
      SetUpAnew, Sweep, Watch, ListAsk, AfterList, ListEnd, OpDrive, Stop, Waited, Down, Boot, Lock, Unlock

-----------------------------------------------------------------------------
(* The flags: each step sets one, or keeps it. *)

LEMMA DriveSets ==
  ASSUME Drive
  PROVE  driving' = TRUE \/ driving' = driving
BY Zenon DEF Drive, Begin

LEMMA AfterListSets ==
  ASSUME AfterList
  PROVE  /\ driving' = TRUE \/ driving' = driving
         /\ UNCHANGED <<fits, locked, settled, due, op>>
<1>1. UNCHANGED <<fits, locked, settled, due, op>>
  BY DEF AfterList, boxVars, serverVars
<1>2. Drive \/ FinishLater \/ UNCHANGED <<driving, run>>
  BY DEF AfterList
<1> QED
  BY <1>1, <1>2, DriveSets, Zenon DEF FinishLater

LEMMA FlagsSet ==
  ASSUME [Next]_vars
  PROVE  /\ fits' = FALSE \/ fits' = fits
         /\ locked' = InVault \/ locked' = TRUE \/ locked' = FALSE \/ locked' = locked
         /\ driving' = TRUE \/ driving' = FALSE \/ driving' = driving
         /\ settled' = TRUE \/ settled' = FALSE \/ settled' = settled
         /\ due' = TRUE \/ due' = FALSE \/ due' = due
         /\ op' = TRUE \/ op' = FALSE \/ op' = op
<1>1. CASE UNCHANGED vars
  BY <1>1, Zenon DEF vars, boxVars, serverVars, hubVars
<1>2. CASE StepEnds \/ LeaseAges \/ Other \/ SetUpAnew
  BY <1>2, Zenon DEF StepEnds, LeaseAges, Other, SetUpAnew, serverVars, hubVars
<1>3. ASSUME NEW d \in Slot, Drives(d)
      PROVE  /\ UNCHANGED <<fits, locked, settled, due, op>>
             /\ driving' = FALSE \/ driving' = driving
  BY <1>3, Zenon DEF Drives, Read, Look, Ask, Wait, Exit, boxVars, serverVars
<1>4. ASSUME NEW g \in Goroutine, Finishes(g)
      PROVE  /\ UNCHANGED <<fits, locked, driving, due, op>>
             /\ settled' = TRUE \/ settled' = FALSE \/ settled' = settled
  BY <1>4, Zenon DEF Finishes, Settle, AskInfo, Save, Unsettle, boxVars, serverVars
<1>5. CASE Sweep \/ Watch \/ ListAsk \/ ListEnd
  BY <1>5, Zenon DEF Sweep, Watch, ListAsk, ListEnd, boxVars, serverVars
<1>6. CASE AfterList
  BY <1>6, AfterListSets, Zenon
<1>7. CASE Operate
  BY <1>7, Zenon DEF Operate, serverVars
<1>8. CASE OpDrive
  BY <1>8, DriveSets, Zenon DEF OpDrive, boxVars, serverVars
<1>9. CASE Stop \/ Waited \/ Down
  BY <1>9, Zenon DEF Stop, Waited, Down, boxVars, hubVars
<1>10. CASE Boot \/ Lock \/ Unlock
  BY <1>10, Zenon DEF Boot, Lock, Unlock, boxVars, hubVars
<1> QED
  BY <1>1, <1>2, <1>3, <1>4, <1>5, <1>6, <1>7, <1>8, <1>9, <1>10, Zenon DEF Next, Lists

LEMMA FlagsKept == Flags /\ fresh' \in BOOLEAN /\ [Next]_vars => Flags'
<1> SUFFICES ASSUME Flags, fresh' \in BOOLEAN, [Next]_vars PROVE Flags'
  OBVIOUS
<1>1. InVault \in BOOLEAN
  BY DriverConstants
<1>2. fits' \in BOOLEAN /\ locked' \in BOOLEAN
  BY <1>1, FlagsSet, Zenon DEF Flags
<1>3. driving' \in BOOLEAN /\ settled' \in BOOLEAN
  BY FlagsSet, Zenon DEF Flags
<1>4. due' \in BOOLEAN /\ op' \in BOOLEAN
  BY FlagsSet, Zenon DEF Flags
<1> QED
  BY <1>2, <1>3, <1>4, Zenon DEF Flags

-----------------------------------------------------------------------------
(* The goroutines. A step of Next that touches them starts a driver or the *)
(* late goroutine, moves one on, or ends them all with the process.        *)

Entry == [pc : DriverPC, rec : Record \cup {None}]

LEMMA Places ==
  /\ \A pc \in DriverPC : At(pc) \in Entry /\ At(pc).pc = pc
  /\ \A pc \in DriverPC, r \in Record \cup {None} : With(pc, r) \in Entry /\ With(pc, r).pc = pc
  /\ Off \in Entry /\ Off.pc = "off"
BY DEF At, With, Off, Entry, DriverPC

\* A driver that is running moves on, and keeps its entry.
MovesOn(d) ==
  /\ run[d].pc # "off"
  /\ \E x \in Entry : x.pc # "off" /\ run' = [run EXCEPT ![d] = x]
  /\ UNCHANGED driving

\* The late goroutine moves, or ends.
LateMoves ==
  /\ \E x \in Entry : x.pc \in LatePC /\ run' = [run EXCEPT ![Late] = x]
  /\ UNCHANGED driving

Goes ==
  \/ UNCHANGED <<driving, run>>
  \/ Begin /\ ~driving
  \/ \E d \in Slot : MovesOn(d) \/ Exit(d)
  \/ LateMoves
  \/ driving' = FALSE /\ run' = [g \in Goroutine |-> Off]

LEMMA DriverGoes ==
  ASSUME RunInv, job \in Record, NEW d \in Slot, Drives(d)
  PROVE  MovesOn(d) \/ Exit(d)
<1> USE Places DEF MovesOn
<1>1. run[d] \in Entry /\ run[d].rec \in Record \cup {None}
  BY DEF RunInv, RunType, Goroutine, Entry
<1>2. CASE Read(d)
  BY <1>2 DEF Read, Goto, DriverPC
<1>3. CASE Look(d)
  BY <1>1, <1>3 DEF Look, Goto, DriverPC
<1>4. CASE Ask(d)
  BY <1>4 DEF Ask, Goto, DriverPC
<1>5. CASE Wait(d)
  BY <1>5 DEF Wait, Goto, DriverPC
<1> QED
  BY <1>2, <1>3, <1>4, <1>5 DEF Drives

LEMMA FinisherGoes ==
  ASSUME RunInv, NEW g \in Goroutine, Finishes(g)
  PROVE  (g \in Slot /\ MovesOn(g)) \/ LateMoves
<1> USE Places DEF MovesOn, LateMoves
<1>1. UNCHANGED driving /\ run[g].pc # "off"
  BY DEF Finishes, Settle, AskInfo, Save
<1>2. PICK pc \in {"apply", "save", End(g)} : run' = [run EXCEPT ![g] = At(pc)]
  BY DEF Finishes, Settle, AskInfo, Save, Unsettle, Goto
<1>3. CASE g = Late
  <2>1. pc \in LatePC /\ At(pc) \in Entry /\ At(pc).pc = pc
    BY <1>3 DEF End, LatePC, DriverPC
  <2> QED
    BY <1>1, <1>2, <1>3, <2>1
<1>4. CASE g # Late
  <2>1. pc # "off" /\ At(pc) \in Entry /\ At(pc).pc = pc
    BY <1>4 DEF End, DriverPC
  <2>2. g \in Slot
    BY <1>4 DEF Goroutine
  <2> QED
    BY <1>1, <1>2, <2>1, <2>2
<1> QED
  BY <1>3, <1>4

LEMMA AfterListGoes ==
  ASSUME AfterList
  PROVE  Goes
<1>1. CASE Drive
  BY <1>1, Zenon DEF Drive, Goes
<1>2. CASE FinishLater
  BY <1>2, Places DEF FinishLater, Goes, LateMoves, LatePC, DriverPC
<1> QED
  BY <1>1, <1>2 DEF AfterList, Goes

LEMMA RunGoes ==
  ASSUME RunInv, job \in Record, [Next]_vars
  PROVE  Goes
<1>1. CASE UNCHANGED <<driving, run>>
  BY <1>1 DEF Goes
<1>2. ASSUME NEW d \in Slot, Drives(d)
      PROVE  Goes
  BY <1>2, DriverGoes DEF Goes
<1>3. ASSUME NEW g \in Goroutine, Finishes(g)
      PROVE  Goes
  BY <1>3, FinisherGoes DEF Goes
<1>4. CASE AfterList
  BY <1>4, AfterListGoes
<1>5. CASE OpDrive
  BY <1>5, Zenon DEF OpDrive, Drive, Goes
<1>6. CASE Down
  BY <1>6 DEF Down, Goes
<1> QED
  BY <1>1, <1>2, <1>3, <1>4, <1>5, <1>6, Zenon
  DEF Next, vars, hubVars, StepEnds, LeaseAges, Other, SetUpAnew, Sweep, Watch, Lists, ListAsk,
      ListEnd, Operate, Stop, Waited, Boot, Lock, Unlock

LEMMA RunKept ==
  ASSUME RunInv, OneDriver, Goes
  PROVE  RunInv' /\ OneDriver'
<1> USE DriverConstants, Places DEF RunInv, RunType, Goroutine, OneDriver, Live
<1> DEFINE Typed == run \in [Goroutine -> Entry]
<1>0. Typed
  BY DEF Entry
<1>1. CASE UNCHANGED <<driving, run>>
  BY <1>1
<1>2. CASE Begin /\ ~driving
  <2>1. PICK d \in Slot : run' = [run EXCEPT ![d] = At("read")]
    BY <1>2 DEF Begin
  <2>2. driving' = TRUE
    BY <1>2 DEF Begin
  <2>3. At("read") \in Entry /\ At("read").pc = "read"
    BY DEF DriverPC
  <2>4. RunInv'
    BY <2>1, <2>3 DEF Entry
  <2>5. \A e \in Slot : run[e].pc = "off"
    BY <1>2
  <2>6. \A e \in Slot : run'[e].pc # "off" <=> e = d
    BY <1>0, <2>1, <2>3, <2>5
  <2> QED
    BY <2>2, <2>4, <2>6
<1>3. ASSUME NEW d \in Slot, MovesOn(d)
      PROVE  RunInv' /\ OneDriver'
  <2>1. PICK x \in Entry : x.pc # "off" /\ run' = [run EXCEPT ![d] = x]
    BY <1>3 DEF MovesOn
  <2>2. RunInv'
    BY <2>1 DEF Entry
  <2>3. \A e \in Slot : run'[e].pc # "off" <=> run[e].pc # "off"
    BY <1>0, <1>3, <2>1 DEF MovesOn
  <2> QED
    BY <1>3, <2>2, <2>3 DEF MovesOn
<1>4. ASSUME NEW d \in Slot, Exit(d)
      PROVE  RunInv' /\ OneDriver'
  <2>1. run' = [run EXCEPT ![d] = At("off")] /\ driving' = FALSE /\ run[d].pc # "off"
    BY <1>4 DEF Exit, Goto
  <2>2. At("off") \in Entry /\ At("off").pc = "off"
    BY DEF DriverPC
  <2>3. RunInv'
    BY <2>1, <2>2 DEF Entry
  <2>4. \A e \in Slot : run'[e].pc = "off"
    BY <1>0, <2>1, <2>2
  <2> QED
    BY <2>1, <2>3, <2>4
<1>5. CASE LateMoves
  <2>1. PICK x \in Entry : x.pc \in LatePC /\ run' = [run EXCEPT ![Late] = x]
    BY <1>5 DEF LateMoves
  <2>2. RunInv'
    BY <2>1 DEF Entry
  <2>3. \A e \in Slot : run'[e] = run[e]
    BY <1>0, <2>1
  <2> QED
    BY <1>5, <2>2, <2>3 DEF LateMoves
<1>6. CASE driving' = FALSE /\ run' = [g \in Goroutine |-> Off]
  <2>1. RunInv'
    BY <1>6 DEF Entry, LatePC
  <2> QED
    BY <1>6, <2>1
<1> QED
  BY <1>1, <1>2, <1>3, <1>4, <1>5, <1>6 DEF Goes

-----------------------------------------------------------------------------
(* The listing, the server, and quiet after the stop *)

LEMMA ListKept == ListInv /\ job \in Record /\ [Next]_vars => ListInv'
<1> SUFFICES ASSUME ListInv, job \in Record, [Next]_vars PROVE ListInv'
  OBVIOUS
<1>1. CASE UNCHANGED list
  BY <1>1 DEF ListInv
<1>2. CASE \E pc \in {"off", "asked", "end"} : list' = At(pc)
  BY <1>2 DEF ListInv, At
<1>3. CASE list' = With("got", [state |-> job.state, owner |-> job.owner])
  BY <1>3 DEF ListInv, With, Record
<1>4. CASE Sweep \/ Watch
  BY <1>1, <1>2, <1>4 DEF Sweep, Watch, Listing
<1>5. CASE Lists
  BY <1>2, <1>3, <1>5 DEF Lists, ListAsk, AfterList, ListEnd, Off
<1>6. CASE Down
  BY <1>2, <1>6 DEF Down, Off
<1> QED
  BY <1>1, <1>4, <1>5, <1>6
  DEF Next, vars, hubVars, StepEnds, LeaseAges, Other, SetUpAnew, Drives, Read, Look, Ask, Wait, Exit,
      Finishes, Settle, AskInfo, Save, Operate, OpDrive, Stop, Waited, Boot, Lock, Unlock

LEMMA ServerKept == ServerInv /\ [Next]_vars => ServerInv'
<1> SUFFICES ASSUME ServerInv, [Next]_vars PROVE ServerInv'
  OBVIOUS
<1>1. faults' \in 0 .. MaxFaults
  <2>1. CASE UNCHANGED faults
    BY <2>1 DEF ServerInv
  <2>2. ASSUME NEW kind, Happens(kind)
        PROVE  faults' \in 0 .. MaxFaults
    BY <2>2, DriverConstants DEF Happens, ServerInv
  <2>3. ASSUME NEW d \in Slot, Drives(d)
        PROVE  faults' \in 0 .. MaxFaults
    BY <2>1, <2>2, <2>3 DEF Drives, Read, Look, Ask, Wait, Exit, Sent, Lost, Refused
  <2>4. ASSUME NEW g \in Goroutine, Finishes(g)
        PROVE  faults' \in 0 .. MaxFaults
    BY <2>1, <2>2, <2>4 DEF Finishes, Settle, AskInfo, Save, Sent, Lost, Refused
  <2>5. CASE Lists
    BY <2>1, <2>2, <2>5 DEF Lists, ListAsk, AfterList, ListEnd, Sent, Lost, Refused
  <2>6. CASE Operate \/ Stop \/ Down \/ Lock
    BY <2>1, <2>2, <2>6 DEF Operate, Stop, Down, Lock
  <2> QED
    BY <2>1, <2>3, <2>4, <2>5, <2>6
    DEF Next, vars, StepEnds, LeaseAges, Other, SetUpAnew, Sweep, Watch, OpDrive, Waited, Boot, Unlock
<1>2. server' \in {"on", "stopping", "waited", "off"}
  BY DEF ServerInv, Next, vars, serverVars, StepEnds, LeaseAges, Other, SetUpAnew, Drives, Read, Look, Ask,
         Wait, Exit, Finishes, Settle, AskInfo, Save, Sweep, Watch, Lists, ListAsk, AfterList, ListEnd,
         Operate, OpDrive, Stop, Waited, Down, Boot, Lock, Unlock
<1> QED
  BY <1>1, <1>2 DEF ServerInv

\* A hub that has waited has nothing left to take a step, and starts nothing.
LEMMA QuietKept ==
  ASSUME QuietAfterStop, [Next]_vars
  PROVE  QuietAfterStop'
<1> SUFFICES ASSUME server' = "waited" PROVE Idle'
  BY DEF QuietAfterStop
<1>1. CASE Waited
  BY <1>1 DEF Waited, Idle, hubVars
<1>2. CASE UNCHANGED server
  <2>1. server = "waited" /\ Idle
    BY <1>2 DEF QuietAfterStop
  <2>2. \A g \in Goroutine : run[g].pc = "off"
    BY <2>1 DEF Idle, Off, At
  <2>3. list.pc = "off"
    BY <2>1 DEF Idle, Off, At
  <2>4. ~(\E d \in Slot : Drives(d))
    BY <2>2 DEF Goroutine, Drives, Read, Look, Ask, Wait, Exit
  <2>5. ~(\E g \in Goroutine : Finishes(g))
    BY <2>2 DEF Finishes, Settle, AskInfo, Save
  <2>6. ~Lists
    BY <2>3 DEF Lists, ListAsk, AfterList, ListEnd
  <2>7. CASE Sweep
    BY <2>1, <2>7 DEF Sweep, Listing, Idle
  <2>8. CASE OpDrive
    BY <2>1, <2>8 DEF OpDrive, Drive, Idle
  <2>9. ~Watch /\ ~Operate /\ ~Stop /\ ~Lock /\ ~Unlock /\ ~Boot
    BY <2>1 DEF Watch, Operate, Stop, Lock, Unlock, Boot
  <2>10. ~Down
    BY <1>2, <2>1 DEF Down
  <2>11. UNCHANGED <<list, run>> => Idle'
    BY <2>1 DEF Idle
  <2> QED
    BY <2>1, <2>4, <2>5, <2>6, <2>7, <2>8, <2>9, <2>10, <2>11, <1>1
    DEF Next, vars, hubVars, StepEnds, LeaseAges, Other, SetUpAnew
<1>3. CASE server # server'
  BY <1>1, <1>3
  DEF Next, vars, serverVars, StepEnds, LeaseAges, Other, SetUpAnew, Drives, Read, Look, Ask, Wait, Exit,
      Finishes, Settle, AskInfo, Save, Sweep, Watch, Lists, ListAsk, AfterList, ListEnd,
      Operate, OpDrive, Stop, Down, Boot, Lock, Unlock
<1> QED
  BY <1>2, <1>3

-----------------------------------------------------------------------------
Inv == Types /\ OneDriver /\ QuietAfterStop

LEMMA InvInit == Init => Inv
<1> SUFFICES ASSUME Init PROVE Inv
  OBVIOUS
<1>1. OneDriver
  <2>1. driving = FALSE /\ \A d \in Slot : run[d].pc = "off"
    BY DEF Init, Off, At, Goroutine
  <2> QED
    BY <2>1 DEF OneDriver, Live
<1>2. QuietAfterStop
  BY DEF Init, QuietAfterStop
<1> QED
  BY <1>1, <1>2, Initially DEF Inv

LEMMA InvNext == Inv /\ [Next]_vars => Inv'
<1> SUFFICES ASSUME Inv, [Next]_vars PROVE Inv'
  OBVIOUS
<1>1. JobInv /\ job \in Record
  BY DEF Inv, Types, JobInv
<1>2. fresh \in BOOLEAN
  BY Zenon DEF Inv, Types, Flags
<1>3. JobInv' /\ fresh' \in BOOLEAN
  BY <1>1, <1>2, JobKept
<1>4. Flags'
  BY <1>3, FlagsKept DEF Inv, Types
<1>5. RunInv' /\ OneDriver'
  BY <1>1, RunGoes, RunKept DEF Inv, Types
<1>6. ListInv' /\ ServerInv'
  BY <1>1, ListKept, ServerKept DEF Inv, Types
<1>7. QuietAfterStop'
  BY QuietKept DEF Inv
<1> QED
  BY <1>3, <1>4, <1>5, <1>6, <1>7 DEF Inv, Types

THEOREM Invariance == Spec => []Inv
BY InvInit, InvNext, PTL DEF Spec

\* Every variable keeps its type, for every number of slots, steps, attempts
\* and faults: what the hub counts and what a driver has read stay in range.
THEOREM DriverTypes == Spec => []TypeOK
<1>1. Inv => TypeOK
  BY TypesGive DEF Inv
<1> QED
  BY <1>1, Invariance, PTL

\* However starts, listings, ends, locks and crashes interleave, the hub has
\* its entry for a job exactly while one driver runs, never two, and nothing
\* of it runs once stopWithin has waited.
THEOREM OneDriverPerJob == Spec => []DriversCounted
<1>1. Inv => DriversCounted
  BY DEF Inv, DriversCounted
<1> QED
  BY <1>1, Invariance, PTL
=============================================================================
