------------------------- MODULE DurableJobsHistory -------------------------
(***************************************************************************)
(* What the log of a durable job proves about the job, as theorems: a      *)
(* retry was answered for and a later step earned, an attempt's outcome    *)
(* and a question's answer are logged once and in order, the lease is the  *)
(* logged one, and a log that is finished says nothing more of the job.    *)
(*                                                                         *)
(* The log and the manifest are written one after the other, so each of    *)
(* these holds of the manifest on disk, of the log together with the       *)
(* entries still to be written before it, and of every manifest still to   *)
(* be saved.  The invariants below say so for one job; a step is split by  *)
(* what it does to that job (JobCases), and each invariant is then kept    *)
(* case by case.  The last part uses the same cases to show that the       *)
(* engine implements JobLifecycle.                                         *)
(***************************************************************************)
EXTENDS DurableJobsSafety

Acts(k) == active[k] \cup begun[k]

\* Two manifests that differ in nothing but the lease's age and the log's length.
Same(m, n) ==
  /\ n.state = m.state /\ n.step = m.step /\ n.attempt = m.attempt /\ n.unit = m.unit
  /\ n.question = m.question /\ n.answer = m.answer
  /\ n.creator = m.creator /\ n.owner = m.owner

\* Nothing acts that has not, but the attempt a running job stands at.
ActsInTurn(k) ==
  \A u \in Acts(k)' :
    u \in Acts(k) \/ (Present(k) /\ man[k].state = "running" /\ u = Standing(man[k]))

---------------------------------------------------------------------------
(* What a step does to one job. *)

\* Nothing that the log or the manifest tells.
Idles(k) ==
  /\ file'[k] = file[k] /\ log'[k] = log[k] /\ Same(man[k], man'[k])
  /\ lock' = k => lock = k /\ todo' = todo /\ (Ahead(k)' <=> Ahead(k))
  /\ ActsInTurn(k)

Begins(k, c) ==
  /\ file[k] = "absent" /\ Present(k)' /\ Acts(k)' = {} /\ log'[k] = <<>>
  /\ man'[k] = NewManifest(c) /\ lock' = k /\ ~Ahead(k)'
  /\ todo' = <<[entry |-> Created(c), man |-> NewManifest(c)]>>

Writes(k) ==
  /\ Present(k) /\ lock = k /\ todo # <<>> /\ ~Ahead(k)
  /\ log'[k] = Append(log[k], todo[1].entry) /\ Ahead(k)'
  /\ lock' = k /\ todo' = todo
  /\ file'[k] = file[k] /\ man'[k] = man[k] /\ Acts(k)' = Acts(k)

Saves(k) ==
  /\ Present(k) /\ lock = k /\ todo # <<>> /\ Ahead(k) /\ ~Ahead(k)'
  /\ Same(todo[1].man, man'[k])
  /\ lock' = k => todo' = Tail(todo)
  /\ file'[k] = file[k] /\ log'[k] = log[k] /\ Acts(k)' = Acts(k)

\* A repair that saves the manifest the last log line calls for.
Refolds(k, out) ==
  /\ Present(k) /\ Folded(k) /\ out \in Key \cup {"ok"} /\ (Last(k).out = "failed" => out # "ok")
  /\ Last(k).kind = "step.lost" => out # "ok"
  /\ Same(Settle(man[k], out), man'[k])
  /\ lock' # k /\ file'[k] = file[k] /\ log'[k] = log[k] /\ Acts(k)' = Acts(k)

Reapplies(k) ==
  /\ Present(k) /\ AnswerLogged(k)
  /\ Same(DecideState(man[k], Last(k).out), man'[k])
  /\ lock' # k /\ file'[k] = file[k] /\ log'[k] = log[k] /\ Acts(k)' = Acts(k)

Leaves(k) ==
  file'[k] \in {"orphan", "gone"} /\ lock' # k /\ log'[k] \in {log[k], <<>>}

\* An operation starts, and means to make the Appends w.
Opens(k, w) ==
  /\ Present(k) /\ ~Ahead(k) /\ w \in Seq(SoundWrite) /\ w # <<>>
  /\ lock = k => todo = <<>>
  /\ log'[k] = Append(log[k], w[1].entry) /\ Ahead(k)'
  /\ lock' = k /\ todo' = w
  /\ file'[k] = file[k] /\ man'[k] = man[k] /\ ActsInTurn(k)

RepairWrites(k, w) ==
  /\ knows => ~Folded(k) /\ ~AnswerLogged(k)
  /\ \E e \in Missing(man[k], log[k]) : w = <<[entry |-> e, man |-> man[k]]>>

TakeWrites(k, w) ==
  /\ LeaseReady(k)
  /\ \E c \in Controller :
       LET m == TakenBy(man[k], c)
       IN  w = <<[entry |-> Intent(c, "lease take"), man |-> m],
                 [entry |-> Taken(c), man |-> m]>>

ReleaseWrites(k, w) ==
  /\ LeaseReady(k)
  /\ \E c \in Controller :
       LET m == ReleasedLease(man[k])
       IN  w = <<[entry |-> Intent(c, "lease release"), man |-> m],
                 [entry |-> Released, man |-> m]>>

AdvanceWrites(k, w) ==
  /\ Restored(k) /\ man[k].state = "waiting"
  /\ \E c \in Controller :
       LET m == Renewed(man[k])
           u == Standing(man[k])
       IN  w = <<[entry |-> [Intent(c, "advance") EXCEPT !.unit = u], man |-> m],
                 [entry |-> Started(u), man |-> Running(m)]>>

DecideWrites(k, w) ==
  /\ Restored(k) /\ man[k].state = "needs-decision"
  /\ \E c \in Controller, opt \in Option :
       LET q  == man[k].question
           m0 == Renewed(man[k])
           m1 == DecideState(m0, opt)
           asked    == [entry |-> [Intent(c, "decide") EXCEPT !.q = q], man |-> m0]
           answered == [entry |-> Answered(q, c, opt), man |-> m1]
           finished == [entry |-> Finished("aborted"), man |-> m1]
       IN  w = IF opt = "abort" THEN <<asked, answered, finished>> ELSE <<asked, answered>>

FoldWrites(k, w) ==
  /\ Restored(k) /\ man[k].state = "running"
  /\ \E out \in Key \cup {"ok"} :
       LET m    == Settle(man[k], out)
           e    == [entry |-> Ended(man[k].unit, out), man |-> m]
           next == Missing(m, Append(log[k], e.entry))
       IN  \/ w = <<e>> /\ next = {}
           \/ \E d \in next : w = <<e, [entry |-> d, man |-> m]>>

AskWrites(k, w) ==
  /\ lock = k /\ todo = <<>>
  /\ LET m == SetQuestion(man[k], "failed")
     IN  w = <<[entry |-> Ended(man[k].unit, "failed"), man |-> m],
               [entry |-> Asked(m.question), man |-> m]>>

AbandonWrites(k, w) ==
  /\ "abandon" \in Fault /\ Loaded(k) /\ ~Terminal(man[k])
  /\ \E m \in SoundManifest :
       /\ m.state = "failed" /\ m.step = man[k].step /\ m.attempt = man[k].attempt
       /\ m.answer = man[k].answer
       /\ w = <<[entry |-> Finished("failed"), man |-> m]>>

Means(k, w) ==
  \/ RepairWrites(k, w) \/ TakeWrites(k, w) \/ ReleaseWrites(k, w)
  \/ AdvanceWrites(k, w) \/ DecideWrites(k, w) \/ FoldWrites(k, w)
  \/ AskWrites(k, w) \/ AbandonWrites(k, w)

Does(k) ==
  \/ Idles(k) \/ Writes(k) \/ Saves(k) \/ Reapplies(k) \/ Leaves(k)
  \/ \E c \in Controller : Begins(k, c)
  \/ \E out \in Key \cup {"ok"} : Refolds(k, out)
  \/ \E w : Opens(k, w) /\ Means(k, w)

---------------------------------------------------------------------------
(* Every step does one of these to each job. *)

\* A manifest differs from itself in nothing.
LEMMA SameSelf == \A m : Same(m, m)
BY DEF Same

\* A step that leaves a job's files and units alone leaves it idle.
LEMMA QuietIdles ==
  ASSUME NEW k \in Job, file'[k] = file[k], man'[k] = man[k], log'[k] = log[k],
         active'[k] \subseteq active[k], begun'[k] = begun[k],
         lock' = k => lock = k /\ todo' = todo
  PROVE  Idles(k)
<1>1. ActsInTurn(k)
  BY DEF ActsInTurn, Acts
<1>2. Ahead(k)' <=> Ahead(k)
  BY DEF Ahead
<1>3. QED BY <1>1, <1>2, SameSelf DEF Idles

\* An operation that starts on another job.
LEMMA RunElsewhere ==
  ASSUME Shape, NEW j \in Job, NEW w, Run(j, w), NEW k \in Job, k # j
  PROVE  log'[k] = log[k] /\ lock' # k
BY DEF Run, Shape

\* An operation that starts on this job.
LEMMA RunHere ==
  ASSUME Inv, Inv', NEW k \in Job, NEW w, w # <<>>, Run(k, w),
         file'[k] = file[k], man'[k] = man[k], ActsInTurn(k), Present(k), ~Ahead(k),
         lock = k => todo = <<>>
  PROVE  Opens(k, w)
<1>1. todo' = w /\ lock' = k /\ w \in Seq(SoundWrite)
  BY DEF Run, Inv, Shape
<1>2. /\ log[k] \in Seq(SoundEntry) /\ man[k].loglen \in Nat
      /\ log \in [Job -> Seq(SoundEntry)]
  BY DEF Inv, Shape, SoundManifest, Manifest
<1>3. Len(log[k]) = man[k].loglen
  BY <1>2 DEF Inv, Order, JobInv, Placed, Ahead
<1>4. Head(w) = w[1] /\ w[1].entry \in SoundEntry
  BY <1>1, HeadWrite
<1>5. log'[k] = Append(log[k], w[1].entry)
  BY <1>2, <1>4 DEF Run
<1>6. Len(log'[k]) = Len(log[k]) + 1
  BY <1>2, <1>4, <1>5, AppendProperties
<1>7. Ahead(k)'
  BY <1>3, <1>6 DEF Ahead
<1>8. QED BY <1>1, <1>5, <1>7 DEF Opens

\* The lease's operations and the log's repair find the job loaded.
LEMMA ReadyLoaded ==
  ASSUME Inv, NEW k \in Job, LeaseReady(k) \/ Restored(k) \/ Loaded(k)
  PROVE  Loaded(k) /\ Present(k) /\ ~Ahead(k)
BY DEF LeaseReady, Restored, Loaded, Present

\* What the reconcile loop does to a job.
LEMMA ReconcileDoes ==
  ASSUME Inv, Inv', NEW j \in Job, Reconcile(j), NEW k \in Job
  PROVE  Does(k)
<1>1. lock = NoJob /\ Shape /\ NoJob \notin Job /\ k # NoJob
  BY ConstantsOK DEF Reconcile, Adopt, Refold, Reapply, AppendTrailing, Fold, Free, Inv
<1>2. man[j] \in SoundManifest /\ man \in [Job -> SoundManifest]
  BY <1>1 DEF Shape
<1>3. CASE Adopt(j)
  <2>1. /\ man'[k] = man[k] \/ (k = j /\ man'[k] = [man[j] EXCEPT !.loglen = Len(log[j])])
        /\ lock' = NoJob
        /\ UNCHANGED <<file, log, active, begun>>
    BY <1>1, <1>2, <1>3 DEF Adopt, units
  <2>2. Same(man[k], man'[k])
    BY <1>2, <2>1 DEF Same, SoundManifest, Manifest
  <2>3. QED BY <1>1, <2>1, <2>2 DEF Does, Idles, ActsInTurn, Acts
<1>4. CASE Refold(j)
  <2>1. /\ lock' = NoJob /\ UNCHANGED <<file, log, active, begun>>
        /\ \A h \in Job \ {j} : man'[h] = man[h]
    BY <1>1, <1>2, <1>4 DEF Refold, units
  <2>2. CASE k # j
    BY <1>1, <2>1, <2>2, QuietIdles DEF Does
  <2>3. CASE k = j
    <3> DEFINE out == IF Last(j).kind = "step.lost" THEN "lost"
                      ELSE IF Last(j).out = "failed" THEN "failed"
                      ELSE results[j][Last(j).unit]
    <3>1. out # "none" /\ man' = [man EXCEPT ![j] = Settle(@, out)] /\ Folded(j) /\ Loaded(j)
      BY <1>4 DEF Refold
    <3>2. out \in Key \cup {"ok"}
      <4>1. man[j].unit \in Unit /\ Last(j).unit = man[j].unit
        BY <1>2, <3>1, RunningUnit DEF Folded
      <4>2. results[j][Last(j).unit] \in Result
        BY <1>1, <4>1 DEF Shape
      <4>3. QED BY <3>1, <4>2 DEF Result, Key
    <3>3. Last(j).out = "failed" \/ Last(j).kind = "step.lost" => out # "ok"
      OBVIOUS
    <3> HIDE DEF out
    <3>4. man'[j] = Settle(man[j], out)
      BY <1>2, <3>1
    <3>5. Refolds(j, out)
      BY <1>1, <2>1, <3>1, <3>2, <3>3, <3>4, SameSelf DEF Refolds, Loaded, Present, Acts
    <3>6. QED BY <2>3, <3>2, <3>5 DEF Does
  <2>4. QED BY <2>2, <2>3
<1>5. CASE Reapply(j)
  <2>1. /\ lock' = NoJob /\ UNCHANGED <<file, log, active, begun>>
        /\ \A h \in Job \ {j} : man'[h] = man[h]
        /\ man'[j] = DecideState(man[j], Last(j).out)
        /\ AnswerLogged(j) /\ Present(j)
    BY <1>1, <1>2, <1>5 DEF Reapply, units, Loaded, Present
  <2>2. CASE k # j
    BY <1>1, <2>1, <2>2, QuietIdles DEF Does
  <2>3. CASE k = j
    BY <1>1, <2>1, <2>3, SameSelf DEF Does, Reapplies, Acts
  <2>4. QED BY <2>2, <2>3
<1>6. CASE AppendTrailing(j)
  <2> DEFINE e == CHOOSE d \in Missing(man[j], log[j]) : TRUE
             w == <<[entry |-> e, man |-> man[j]]>>
  <2>1. e \in Missing(man[j], log[j])
    BY <1>6 DEF AppendTrailing
  <2>2. /\ Run(j, w) /\ UNCHANGED <<file, man, active, begun>>
        /\ (knows => ~Folded(j) /\ ~AnswerLogged(j)) /\ Loaded(j)
    BY <1>6 DEF AppendTrailing, WriteOf, units
  <2>3. w # <<>> /\ RepairWrites(j, w)
    BY <2>1, <2>2 DEF RepairWrites
  <2> HIDE DEF e, w
  <2>4. CASE k # j
    BY <1>1, <2>2, <2>4, RunElsewhere, QuietIdles DEF Does
  <2>5. CASE k = j
    <3>1. Opens(j, w)
      BY <1>1, <2>2, <2>3, RunHere, ReadyLoaded DEF ActsInTurn, Acts
    <3>2. QED BY <2>3, <2>5, <3>1 DEF Does, Means
  <2>6. QED BY <2>4, <2>5
<1>7. CASE Fold(j)
  <2> DEFINE u   == man[j].unit
             out == IF results[j][u] = "none" THEN "lost" ELSE results[j][u]
             m   == Settle(man[j], out)
             e   == [entry |-> Ended(u, out), man |-> m]
             next == Missing(m, Append(log[j], e.entry))
             w   == IF next = {} THEN <<e>> ELSE <<e, WriteOf(m, next)>>
  <2>1. man[j].state = "running" /\ Restored(j)
    BY <1>7 DEF Fold, UnitEnded
  <2>2. out \in Key \cup {"ok"}
    <3>1. results[j][u] \in Result
      BY <1>1, <1>2, <2>1, RunningUnit DEF Shape
    <3>2. QED BY <3>1 DEF Result, Key
  <2>3. Run(j, w) /\ UNCHANGED <<file, man, active, begun>>
    BY <1>7 DEF Fold, units
  <2>4. \/ w = <<e>> /\ next = {}
        \/ \E d \in next : w = <<e, [entry |-> d, man |-> m]>>
    BY DEF WriteOf
  <2>5. w # <<>>
    OBVIOUS
  <2>6. FoldWrites(j, w)
    BY <2>1, <2>2, <2>4 DEF FoldWrites
  <2> HIDE DEF w, e, u, m, out, next
  <2>7. CASE k # j
    BY <1>1, <2>3, <2>7, RunElsewhere, QuietIdles DEF Does
  <2>8. CASE k = j
    <3>1. Opens(j, w)
      BY <1>1, <2>1, <2>3, <2>5, RunHere, ReadyLoaded DEF ActsInTurn, Acts
    <3>2. QED BY <2>6, <2>8, <3>1 DEF Does, Means
  <2>9. QED BY <2>7, <2>8
<1>8. QED BY <1>3, <1>4, <1>5, <1>6, <1>7 DEF Reconcile

\* What a request does to a job.
LEMMA RequestDoes ==
  ASSUME Inv, Inv', NEW j \in Job, Request(j), NEW k \in Job
  PROVE  Does(k)
<1>0. lock = NoJob /\ Shape /\ NoJob \notin Job /\ k # NoJob
  BY ConstantsOK DEF Request, Start, Renew, Take, Release, Advance, Decide, Free, Inv
<1>1. PICK c \in Controller :
        \/ Start(j, c) \/ Renew(j, c) \/ Take(j, c) \/ Release(j, c)
        \/ \E u \in Unit : Advance(j, c, u)
        \/ \E q \in Question, opt \in Option : Decide(j, c, q, opt)
  BY DEF Request
<1>2. man[j] \in SoundManifest /\ man \in [Job -> SoundManifest]
  BY <1>0 DEF Shape
\* An operation that runs w on the job j.
<1>3. ASSUME NEW w, w # <<>>, Run(j, w), UNCHANGED <<file, man, active, begun>>, Loaded(j),
             Means(j, w)
      PROVE  Does(k)
  <2>1. CASE k # j
    BY <1>0, <1>3, <2>1, RunElsewhere, QuietIdles DEF Does
  <2>2. CASE k = j
    <3>1. Opens(j, w)
      BY <1>0, <1>3, RunHere, ReadyLoaded DEF ActsInTurn, Acts
    <3>2. QED BY <1>3, <2>2, <3>1 DEF Does
  <2>3. QED BY <2>1, <2>2
<1>4. CASE Start(j, c)
  <2>1. /\ UNCHANGED <<log, active, begun>> /\ lock' = j
        /\ file' = [file EXCEPT ![j] = "present"] /\ file[j] = "absent"
        /\ man' = [man EXCEPT ![j] = NewManifest(c)]
        /\ todo' = <<[entry |-> Created(c), man |-> NewManifest(c)]>>
    BY <1>4 DEF Start, units
  <2>2. CASE k # j
    <3>1. file'[k] = file[k] /\ man'[k] = man[k] /\ lock' # k
      BY <1>0, <2>1, <2>2 DEF Shape
    <3>2. QED BY <2>1, <3>1, QuietIdles DEF Does
  <2>3. CASE k = j
    <3>1. begun[j] = {} /\ log[j] = <<>> /\ active[j] = {}
      BY <2>1 DEF Inv, Order, JobInv, Unborn, Turn, Present
    <3>2. man'[j] = NewManifest(c) /\ Present(j)' /\ Acts(j)' = {} /\ log'[j] = <<>>
      BY <1>0, <2>1, <3>1 DEF Shape, Present, Acts
    <3>3. ~Ahead(j)'
      BY <3>2 DEF Ahead, NewManifest
    <3>4. Begins(j, c)
      BY <2>1, <3>2, <3>3 DEF Begins
    <3>5. QED BY <2>3, <3>4 DEF Does
  <2>4. QED BY <2>2, <2>3
<1>5. CASE Renew(j, c)
  <2>1. /\ UNCHANGED <<file, log, active, begun, lock, todo>>
        /\ man' = [man EXCEPT ![j] = Renewed(@)]
    BY <1>5 DEF Renew, units
  <2>2. Same(man[k], man'[k]) /\ man'[k].loglen = man[k].loglen
    BY <1>2, <2>1 DEF Same, Renewed, SoundManifest, Manifest
  <2>3. QED BY <2>1, <2>2 DEF Does, Idles, ActsInTurn, Acts, Ahead
<1>6. CASE Take(j, c)
  <2> DEFINE m == TakenBy(man[j], c)
             w == <<[entry |-> Intent(c, "lease take"), man |-> m],
                    [entry |-> Taken(c), man |-> m]>>
  <2>1. /\ Run(j, w) /\ UNCHANGED <<file, man, active, begun>> /\ LeaseReady(j)
    BY <1>6 DEF Take, units
  <2>2. TakeWrites(j, w) /\ w # <<>>
    BY <2>1 DEF TakeWrites
  <2> HIDE DEF w
  <2>3. QED BY <1>3, <2>1, <2>2, ReadyLoaded DEF Means
<1>7. CASE Release(j, c)
  <2> DEFINE m == ReleasedLease(man[j])
             w == <<[entry |-> Intent(c, "lease release"), man |-> m],
                    [entry |-> Released, man |-> m]>>
  <2>1. /\ Run(j, w) /\ UNCHANGED <<file, man, active, begun>> /\ LeaseReady(j)
    BY <1>7 DEF Release, units
  <2>2. ReleaseWrites(j, w) /\ w # <<>>
    BY <2>1 DEF ReleaseWrites
  <2> HIDE DEF w
  <2>3. QED BY <1>3, <2>1, <2>2, ReadyLoaded DEF Means
<1>8. ASSUME NEW u \in Unit, Advance(j, c, u)
      PROVE  Does(k)
  <2> DEFINE m == Renewed(man[j])
             w == <<[entry |-> [Intent(c, "advance") EXCEPT !.unit = u], man |-> m],
                    [entry |-> Started(u), man |-> Running(m)]>>
  <2>1. /\ Run(j, w) /\ UNCHANGED <<file, man, active, begun>> /\ Restored(j)
        /\ man[j].state = "waiting" /\ u = Standing(man[j])
    BY <1>8 DEF Advance, units, Standing
  <2>2. AdvanceWrites(j, w) /\ w # <<>>
    BY <2>1 DEF AdvanceWrites
  <2> HIDE DEF w
  <2>3. QED BY <1>3, <2>1, <2>2, ReadyLoaded DEF Means
<1>9. ASSUME NEW q \in Question, NEW opt \in Option, Decide(j, c, q, opt)
      PROVE  Does(k)
  <2> DEFINE m0 == Renewed(man[j])
             m1 == DecideState(m0, opt)
             asked    == [entry |-> [Intent(c, "decide") EXCEPT !.q = q], man |-> m0]
             answered == [entry |-> Answered(q, c, opt), man |-> m1]
             finished == [entry |-> Finished("aborted"), man |-> m1]
             w == IF opt = "abort" THEN <<asked, answered, finished>> ELSE <<asked, answered>>
  <2>1. /\ Run(j, w) /\ UNCHANGED <<file, man, active, begun>> /\ Restored(j)
        /\ man[j].state = "needs-decision" /\ q = man[j].question
    BY <1>9 DEF Decide, units
  <2>2. w # <<>>
    OBVIOUS
  <2>3. DecideWrites(j, w)
    BY <2>1 DEF DecideWrites
  <2> HIDE DEF w
  <2>4. QED BY <1>3, <2>1, <2>2, <2>3, ReadyLoaded DEF Means
<1>10. QED BY <1>1, <1>4, <1>5, <1>6, <1>7, <1>8, <1>9

\* What a write of the store does to a job.
LEMMA StorageDoes ==
  ASSUME Inv, Inv', NEW j \in Job, Storage(j), NEW k \in Job
  PROVE  Does(k)
<1>1. /\ Shape /\ lock = j /\ todo # <<>> /\ UNCHANGED <<file, active, begun>>
      /\ Head(todo) = todo[1] /\ todo[1] \in SoundWrite
      /\ todo[1].entry \in SoundEntry /\ todo[1].man \in SoundManifest
  BY HeadWrite DEF Storage, WriteEntry, SaveManifest, units, Inv, Shape
<1>2. /\ Present(j) /\ man[j].loglen \in Nat /\ log[j] \in Seq(SoundEntry)
      /\ log \in [Job -> Seq(SoundEntry)] /\ man \in [Job -> SoundManifest]
  BY <1>1 DEF Inv, Order, JobInv, Locked, Shape, SoundManifest, Manifest
<1>3. CASE WriteEntry(j)
  <2>1. /\ ~Ahead(j) /\ UNCHANGED <<man, lock, todo>>
        /\ log' = [log EXCEPT ![j] = Append(@, todo[1].entry)]
    BY <1>1, <1>3 DEF WriteEntry
  <2>2. CASE k # j
    BY <1>1, <1>2, <2>1, <2>2, QuietIdles DEF Does
  <2>3. CASE k = j
    <3>1. log'[j] = Append(log[j], todo[1].entry)
      BY <1>2, <2>1
    <3>2. Len(log'[j]) = Len(log[j]) + 1
      BY <1>1, <1>2, <3>1, AppendProperties
    <3>3. Len(log[j]) = man[j].loglen
      <4>1. Len(log[j]) - man[j].loglen \in {0, 1} /\ Len(log[j]) \in Nat
        BY <1>2 DEF Inv, Order, JobInv, Placed
      <4>2. Len(log[j]) # man[j].loglen + 1
        BY <2>1 DEF Ahead
      <4>3. QED BY <1>2, <4>1, <4>2
    <3>4. Ahead(j)'
      BY <2>1, <3>2, <3>3 DEF Ahead
    <3>5. Writes(j)
      BY <1>1, <1>2, <2>1, <3>1, <3>4 DEF Writes, Acts
    <3>6. QED BY <2>3, <3>5 DEF Does
  <2>4. QED BY <2>2, <2>3
<1>4. CASE SaveManifest(j)
  <2>1. /\ Ahead(j) /\ log' = log /\ todo' = Tail(todo) /\ lock' \in {NoJob, j}
        /\ man' = [man EXCEPT ![j] = [todo[1].man EXCEPT !.loglen = Len(log[j])]]
    BY <1>1, <1>4 DEF SaveManifest
  <2>2. CASE k # j
    BY <1>1, <1>2, <2>1, <2>2, ConstantsOK, QuietIdles DEF Does
  <2>3. CASE k = j
    <3>1. man'[j] = [todo[1].man EXCEPT !.loglen = Len(log[j])]
      BY <1>2, <2>1
    <3>2. Same(todo[1].man, man'[j]) /\ man'[j].loglen = Len(log[j]) /\ Len(log[j]) \in Nat
      BY <1>1, <1>2, <3>1 DEF Same, SoundManifest, Manifest
    <3>3. ~Ahead(j)'
      BY <2>1, <3>2 DEF Ahead
    <3>4. Saves(j)
      BY <1>1, <1>2, <2>1, <3>2, <3>3 DEF Saves, Acts
    <3>5. QED BY <2>3, <3>4 DEF Does
  <2>4. QED BY <2>2, <2>3
<1>5. QED BY <1>3, <1>4 DEF Storage

\* What starting a unit does to a job, or stopping at its question.
LEMMA LaunchDoes ==
  ASSUME Inv, Inv', NEW j \in Job, Launch(j), NEW k \in Job
  PROVE  Does(k)
<1>1. Shape /\ lock = j /\ todo = <<>> /\ UNCHANGED <<file, man>>
  BY DEF Launch, StartUnit, RefuseStart, StartFails, StartUnclear, Starting, disk, Inv
<1>2. Present(j) /\ ~Ahead(j) /\ man[j].state = "running" /\ man[j].unit = Standing(man[j])
  <2>1. man[j] \in SoundManifest
    BY <1>1 DEF Shape
  <2>2. Present(j) /\ ~Ahead(j) /\ man[j].state = "running"
    BY <1>1 DEF Inv, Order, JobInv, Locked, Launchable
  <2>3. QED BY <2>1, <2>2, RunningUnit
<1>21. active \in [Job -> SUBSET Unit] /\ begun \in [Job -> SUBSET Unit]
  BY <1>1 DEF Shape
<1>3. CASE StartUnit(j) \/ StartUnclear(j)
  <2>1. /\ lock' = NoJob /\ UNCHANGED <<log, begun>>
        /\ active' = active \/ active' = [active EXCEPT ![j] = @ \cup {man[j].unit}]
    BY <1>3 DEF StartUnit, StartUnclear, disk, units
  <2>2. ActsInTurn(k)
    BY <1>2, <1>21, <2>1 DEF ActsInTurn, Acts
  <2>3. QED BY <1>1, <2>1, <2>2, SameSelf, ConstantsOK DEF Does, Idles
<1>4. CASE RefuseStart(j) \/ StartFails(j)
  <2> DEFINE m == SetQuestion(man[j], "failed")
             w == <<[entry |-> Ended(man[j].unit, "failed"), man |-> m],
                    [entry |-> Asked(m.question), man |-> m]>>
  <2>1. /\ Run(j, w) /\ UNCHANGED active
        /\ begun' = begun \/ begun' = [begun EXCEPT ![j] = @ \cup {man[j].unit}]
    BY <1>4 DEF RefuseStart, StartFails, AskAfter, units
  <2>2. AskWrites(j, w) /\ w # <<>>
    BY <1>1 DEF AskWrites
  <2> HIDE DEF w
  <2>3. ActsInTurn(k)
    BY <1>2, <1>21, <2>1 DEF ActsInTurn, Acts
  <2>4. CASE k # j
    <3>1. log'[k] = log[k] /\ lock' # k
      BY <1>1, <2>1, <2>4, RunElsewhere
    <3>2. QED BY <1>1, <2>3, <3>1, SameSelf DEF Does, Idles
  <2>5. CASE k = j
    <3>1. Opens(j, w)
      BY <1>1, <1>2, <2>1, <2>2, <2>3, <2>5, RunHere
    <3>2. QED BY <2>2, <2>5, <3>1 DEF Does, Means
  <2>6. QED BY <2>4, <2>5
<1>5. QED BY <1>3, <1>4 DEF Launch

\* What pruning or abandoning a job does to a job.
LEMMA HousekeepingDoes ==
  ASSUME Inv, Inv', NEW j \in Job, Housekeeping(j), NEW k \in Job
  PROVE  Does(k)
<1>1. Shape /\ lock = NoJob /\ UNCHANGED <<active, begun>> /\ k # NoJob /\ NoJob \notin Job
  BY ConstantsOK DEF Housekeeping, Prune, RemoveFiles, Abandon, AbandonAdopt, Free, units, Inv
<1>2. /\ man[j] \in SoundManifest /\ man \in [Job -> SoundManifest]
      /\ log \in [Job -> Seq(SoundEntry)]
      /\ file \in [Job -> {"absent", "present", "orphan", "gone"}]
  BY <1>1 DEF Shape
<1>3. CASE Prune(j)
  <2>1. /\ log' = log /\ lock' = NoJob
        /\ file' = [file EXCEPT ![j] = "orphan"] /\ man' = [man EXCEPT ![j] = NewManifest(NoOne)]
    BY <1>1, <1>3 DEF Prune
  <2>2. CASE k # j
    BY <1>1, <1>2, <2>1, <2>2, QuietIdles DEF Does
  <2>3. CASE k = j
    BY <1>1, <1>2, <2>1, <2>3 DEF Does, Leaves, Present
  <2>4. QED BY <2>2, <2>3
<1>4. CASE RemoveFiles(j)
  <2>1. /\ man' = man /\ lock' = NoJob
        /\ file' = [file EXCEPT ![j] = "gone"] /\ log' = [log EXCEPT ![j] = <<>>]
    BY <1>1, <1>4 DEF RemoveFiles
  <2>2. CASE k # j
    BY <1>1, <1>2, <2>1, <2>2, QuietIdles DEF Does
  <2>3. CASE k = j
    BY <1>1, <1>2, <2>1, <2>3 DEF Does, Leaves, Present
  <2>4. QED BY <2>2, <2>3
<1>5. CASE Abandon(j)
  <2> DEFINE m == [ReleasedLease(man[j]) EXCEPT
                     !.state = "failed", !.question = NoQuestion, !.unit = NoUnit]
             w == <<[entry |-> Finished("failed"), man |-> m]>>
  <2>1. /\ Run(j, w) /\ UNCHANGED <<file, man, active, begun>> /\ Loaded(j) /\ "abandon" \in Fault
        /\ ~Terminal(man[j])
    BY <1>1, <1>5 DEF Abandon, Abandonable
  <2>2. /\ m \in SoundManifest /\ m.state = "failed" /\ m.step = man[j].step
        /\ m.attempt = man[j].attempt /\ m.answer = man[j].answer
    BY <1>2, AbandonedSound DEF ReleasedLease, SoundManifest, Manifest
  <2> HIDE DEF m
  <2>3. AbandonWrites(j, w) /\ w # <<>>
    BY <2>1, <2>2 DEF AbandonWrites
  <2> HIDE DEF w
  <2>4. CASE k # j
    BY <1>1, <2>1, <2>4, RunElsewhere, QuietIdles DEF Does
  <2>5. CASE k = j
    <3>1. Opens(j, w)
      BY <1>1, <2>1, <2>3, RunHere, ReadyLoaded DEF ActsInTurn, Acts
    <3>2. QED BY <2>3, <2>5, <3>1 DEF Does, Means
  <2>6. QED BY <2>4, <2>5
<1>6. CASE AbandonAdopt(j)
  <2>1. /\ man' = [man EXCEPT ![j].loglen = Len(log[j])]
        /\ lock' = NoJob
        /\ UNCHANGED <<file, log>>
    BY <1>1, <1>6 DEF AbandonAdopt
  <2>2. Same(man[k], man'[k])
    BY <1>2, <2>1 DEF Same, SoundManifest, Manifest
  <2>3. QED BY <1>1, <2>1, <2>2 DEF Does, Idles, ActsInTurn, Acts
<1>7. QED BY <1>3, <1>4, <1>5, <1>6 DEF Housekeeping

\* What a step's process, the clock and the faults do to a job.
LEMMA QuietDoes ==
  ASSUME Inv, NEW k \in Job,
         \/ UNCHANGED vars \/ FailWrite \/ Crash \/ PowerCut \/ Boot
         \/ \E j \in Job :
              \/ TearLine(j) \/ ClockMoves(j)
              \/ \E u \in Unit : StepProcess(j, u) \/ KillUnit(j, u) \/ LoseResult(j, u)
  PROVE  Idles(k)
<1>1. Shape /\ k # NoJob
  BY ConstantsOK DEF Inv
<1>2. CASE UNCHANGED vars \/ FailWrite \/ Crash \/ PowerCut \/ Boot
  <2>1. /\ UNCHANGED <<file, man, log, begun>> /\ active'[k] \subseteq active[k]
        /\ lock' = NoJob \/ UNCHANGED <<lock, todo>>
    BY <1>2 DEF vars, FailWrite, Crash, PowerCut, Boot, Drop, disk, units
  <2>2. QED BY <1>1, <2>1, QuietIdles
<1>3. ASSUME NEW j \in Job, TearLine(j)
      PROVE  Idles(k)
  <2>1. UNCHANGED <<file, man, log, active, begun>> /\ lock' = NoJob
    BY <1>3 DEF TearLine, Drop, units
  <2>2. QED BY <1>1, <2>1, QuietIdles
<1>4. ASSUME NEW j \in Job, ClockMoves(j)
      PROVE  Idles(k)
  <2>1. /\ UNCHANGED <<file, log, active, begun, lock, todo>>
        /\ man' = [man EXCEPT ![j].fresh = ~@]
    BY <1>4 DEF ClockMoves, units
  <2>2. Same(man[k], man'[k]) /\ man'[k].loglen = man[k].loglen
    BY <1>1, <2>1 DEF Same, Shape, SoundManifest, Manifest
  <2>3. QED BY <2>1, <2>2 DEF Idles, ActsInTurn, Acts, Ahead
<1>5. ASSUME NEW j \in Job, NEW u \in Unit, StepProcess(j, u) \/ KillUnit(j, u) \/ LoseResult(j, u)
      PROVE  Idles(k)
  <2>1. CASE BeginStep(j, u)
    <3>1. /\ UNCHANGED <<file, man, log, active, lock, todo>>
          /\ begun' = [begun EXCEPT ![j] = @ \cup {u}] /\ u \in active[j]
      BY <2>1 DEF BeginStep, disk
    <3>2. ActsInTurn(k)
      BY <1>1, <3>1 DEF ActsInTurn, Acts, Shape
    <3>3. QED BY <3>1, <3>2, SameSelf DEF Idles, Ahead
  <2>2. CASE RefuseStep(j, u) \/ EndStep(j, u) \/ KillUnit(j, u) \/ LoseResult(j, u)
    <3>1. /\ UNCHANGED <<file, man, log, begun, lock, todo>>
          /\ active' = active \/ active' = [active EXCEPT ![j] = @ \ {u}]
      BY <2>2 DEF RefuseStep, EndStep, KillUnit, LoseResult, disk
    <3>2. active'[k] \subseteq active[k]
      BY <1>1, <3>1 DEF Shape
    <3>3. QED BY <3>1, <3>2, QuietIdles
  <2>3. QED BY <1>5, <2>1, <2>2 DEF StepProcess
<1>6. QED BY <1>2, <1>3, <1>4, <1>5

\* Every step does one of these to each job.
LEMMA JobCases ==
  ASSUME Inv, Inv', [Next]_vars, NEW k \in Job
  PROVE  Does(k)
<1>1. CASE \/ UNCHANGED vars \/ FailWrite \/ Crash \/ PowerCut \/ Boot
           \/ \E j \in Job :
                \/ TearLine(j) \/ ClockMoves(j)
                \/ \E u \in Unit : StepProcess(j, u) \/ KillUnit(j, u) \/ LoseResult(j, u)
  BY <1>1, QuietDoes DEF Does
<1>2. ASSUME NEW j \in Job, Reconcile(j)
      PROVE  Does(k)
  BY <1>2, ReconcileDoes
<1>3. ASSUME NEW j \in Job, Request(j)
      PROVE  Does(k)
  BY <1>3, RequestDoes
<1>4. ASSUME NEW j \in Job, Storage(j)
      PROVE  Does(k)
  BY <1>4, StorageDoes
<1>5. ASSUME NEW j \in Job, Launch(j)
      PROVE  Does(k)
  BY <1>5, LaunchDoes
<1>6. ASSUME NEW j \in Job, Housekeeping(j)
      PROVE  Does(k)
  BY <1>6, HousekeepingDoes
<1>7. QED BY <1>1, <1>2, <1>3, <1>4, <1>5, <1>6 DEF Next, JobFault

---------------------------------------------------------------------------
(* The log as a set of entries, and the entries still to be written. *)

Entries(l) == {l[i] : i \in DOMAIN l}

\* What the log says once the n-th of the Appends w is written.
Owed(l, w, n) == Entries(l) \cup {w[i].entry : i \in {h \in DOMAIN w : h <= n}}

\* The line an operation has written, before it saves the manifest.
Written(k) ==
  lock = k /\ todo # <<>> /\ Ahead(k) => log[k] # <<>> /\ Last(k) = todo[1].entry

\* A log's entries, once one more is appended.
LEMMA EntriesAppend ==
  ASSUME NEW l \in Seq(SoundEntry), NEW e \in SoundEntry
  PROVE  /\ Entries(Append(l, e)) = Entries(l) \cup {e}
         /\ Append(l, e) # <<>> /\ Append(l, e)[Len(Append(l, e))] = e
         /\ Len(Append(l, e)) = Len(l) + 1
<1> DEFINE a == Append(l, e)
<1>1. /\ DOMAIN a = DOMAIN l \cup {Len(l) + 1} /\ Len(a) = Len(l) + 1
      /\ a[Len(l) + 1] = e /\ Len(l) \in Nat /\ a # <<>>
      /\ \A i \in DOMAIN l : a[i] = l[i]
  BY AppendProperties
<1> HIDE DEF a
<1>2. QED BY <1>1 DEF Entries

\* The last entry is one of them.
LEMMA LastEntry ==
  ASSUME NEW l \in Seq(SoundEntry), l # <<>>
  PROVE  l[Len(l)] \in Entries(l) /\ l[Len(l)] \in SoundEntry /\ Len(l) \in DOMAIN l
BY DEF Entries

\* An empty log has none.
LEMMA EntriesEmpty == Entries(<<>>) = {}
BY DEF Entries

\* Writing an entry takes it from those to be written to the log.
LEMMA OwedWritten ==
  ASSUME NEW l \in Seq(SoundEntry), NEW w \in Seq(SoundWrite), w # <<>>, NEW n \in Nat, n > 0
  PROVE  Owed(Append(l, w[1].entry), w, n) = Owed(l, w, n)
<1>1. 1 \in DOMAIN w /\ w[1].entry \in SoundEntry
  BY HeadWrite
<1>2. Entries(Append(l, w[1].entry)) = Entries(l) \cup {w[1].entry}
  BY <1>1, EntriesAppend
<1>3. w[1].entry \in {w[i].entry : i \in {h \in DOMAIN w : h <= n}}
  BY <1>1
<1>4. QED BY <1>2, <1>3 DEF Owed

\* Saving its manifest leaves the others to be written.
LEMMA OwedSaved ==
  ASSUME NEW l, NEW w \in Seq(SoundWrite), w # <<>>, w[1].entry \in Entries(l),
         NEW n \in Nat
  PROVE  Owed(l, Tail(w), n) = Owed(l, w, n + 1)
<1> DEFINE t == Tail(w)
<1>1. /\ \A i \in Nat : i \in DOMAIN t <=> i > 0 /\ i + 1 \in DOMAIN w
      /\ \A i \in DOMAIN t : t[i] = w[i + 1]
      /\ DOMAIN t \subseteq Nat /\ DOMAIN w \subseteq Nat /\ 0 \notin DOMAIN w
  OBVIOUS
<1> HIDE DEF t
<1>2. {t[i].entry : i \in {h \in DOMAIN t : h <= n}}
        \subseteq {w[i].entry : i \in {h \in DOMAIN w : h <= n + 1}}
  <2>1. SUFFICES ASSUME NEW i \in DOMAIN t, i <= n
                 PROVE  \E h \in DOMAIN w : h <= n + 1 /\ t[i].entry = w[h].entry
    OBVIOUS
  <2>2. i + 1 \in DOMAIN w /\ i + 1 <= n + 1 /\ t[i] = w[i + 1]
    BY <1>1, <2>1
  <2>3. QED BY <2>2
<1>3. {w[i].entry : i \in {h \in DOMAIN w : h <= n + 1}}
        \subseteq {t[i].entry : i \in {h \in DOMAIN t : h <= n}} \cup {w[1].entry}
  <2>1. SUFFICES ASSUME NEW i \in DOMAIN w, i <= n + 1, i # 1
                 PROVE  \E h \in DOMAIN t : h <= n /\ t[h].entry = w[i].entry
    OBVIOUS
  <2>2. i \in Nat /\ i > 1
    BY <1>1, <2>1
  <2>3. i - 1 \in Nat /\ i - 1 > 0 /\ (i - 1) + 1 = i
    BY <2>2
  <2>4. i - 1 \in DOMAIN t
    BY <1>1, <2>1, <2>3
  <2>5. t[i - 1] = w[i] /\ i - 1 <= n
    BY <1>1, <2>1, <2>3, <2>4
  <2>6. QED BY <2>4, <2>5
<1>4. Entries(l) \cup {w[1].entry} = Entries(l)
  OBVIOUS
<1>5. QED BY <1>2, <1>3, <1>4 DEF Owed, t

\* What is to be written is written in the order it is to be.
LEMMA OwedLater ==
  ASSUME NEW l, NEW w \in Seq(SoundWrite), NEW m \in Nat, NEW n \in Nat, m <= n
  PROVE  Entries(l) \subseteq Owed(l, w, m) /\ Owed(l, w, m) \subseteq Owed(l, w, n)
BY DEF Owed

\* The Append of an operation that makes one.
LEMMA OwedOne ==
  ASSUME NEW l, NEW a
  PROVE  /\ DOMAIN <<a>> = {1} /\ <<a>>[1] = a
         /\ Owed(l, <<a>>, 1) = Entries(l) \cup {a.entry}
<1>1. DOMAIN <<a>> = {1} /\ <<a>>[1] = a
  OBVIOUS
<1>2. QED BY <1>1 DEF Owed

\* The types of what a job's step is about.
LEMMA JobTypes ==
  ASSUME Inv, NEW k \in Job
  PROVE  /\ log[k] \in Seq(SoundEntry) /\ man[k] \in SoundManifest /\ todo \in Seq(SoundWrite)
         /\ begun[k] \subseteq Unit /\ active[k] \subseteq Unit
         /\ \A e \in Entries(log[k]) : e \in SoundEntry
         /\ \A i \in DOMAIN todo : todo[i].entry \in SoundEntry /\ todo[i].man \in SoundManifest
         /\ log[k] # <<>> => Last(k) \in Entries(log[k])
<1>1. /\ log[k] \in Seq(SoundEntry) /\ man[k] \in SoundManifest /\ todo \in Seq(SoundWrite)
      /\ begun[k] \subseteq Unit /\ active[k] \subseteq Unit
  BY DEF Inv, Shape
<1>2. \A e \in Entries(log[k]) : e \in SoundEntry
  BY <1>1 DEF Entries
<1>3. ASSUME NEW i \in DOMAIN todo
      PROVE  todo[i].entry \in SoundEntry /\ todo[i].man \in SoundManifest
  <2>1. todo[i] \in SoundWrite
    BY <1>1
  <2>2. QED BY <2>1 DEF SoundWrite
<1>4. log[k] # <<>> => Last(k) \in Entries(log[k])
  BY <1>1, LastEntry DEF Last
<1>5. QED BY <1>1, <1>2, <1>3, <1>4

\* A line that is written is the one that was to be.
LEMMA WrittenNext ==
  ASSUME Inv, Inv', NEW k \in Job, Does(k), Written(k)
  PROVE  Written(k)'
<1>1. log[k] \in Seq(SoundEntry) /\ todo \in Seq(SoundWrite)
  BY JobTypes
<1>2. CASE Idles(k)
  BY <1>2 DEF Idles, Written, Last
<1>3. CASE Writes(k)
  <2>1. log'[k] # <<>> /\ log'[k][Len(log'[k])] = todo[1].entry /\ todo' = todo
    BY <1>1, <1>3, HeadWrite, EntriesAppend DEF Writes
  <2>2. QED BY <2>1 DEF Written, Last
<1>4. CASE Saves(k) \/ Reapplies(k) \/ Leaves(k) \/ \E out \in Key \cup {"ok"} : Refolds(k, out)
  BY <1>4 DEF Saves, Reapplies, Leaves, Present, Refolds, Written
<1>5. CASE \E c \in Controller : Begins(k, c)
  BY <1>5 DEF Begins, Written
<1>6. ASSUME NEW w, Opens(k, w)
      PROVE  Written(k)'
  <2>1. w[1].entry \in SoundEntry
    BY <1>6, HeadWrite DEF Opens
  <2>2. log'[k] # <<>> /\ log'[k][Len(log'[k])] = w[1].entry /\ todo' = w
    BY <1>1, <1>6, <2>1, EntriesAppend DEF Opens
  <2>3. QED BY <2>2 DEF Written, Last
<1>7. QED BY <1>2, <1>3, <1>4, <1>5, <1>6 DEF Does

---------------------------------------------------------------------------
(* What acts has been earned. *)

\* An answer is somebody's, and a finished step's entry says how it finished.
Genuine(e) ==
  /\ e.kind = "decision.answered" => \E c \in Controller : e = Answered(e.q, c, e.out)
  /\ e.kind = "step.finished" => e.out \in {"ok", "failed"}

\* The entries E answer for the attempt u and hold the success it builds on.
EarnedUnit(E, u) ==
  /\ u[2] > 0 => \E e \in E : /\ e.kind = "decision.answered" /\ e.out # "abort"
                              /\ e.q.step = u[1] /\ e.q.attempt = u[2] - 1
  /\ u[1] > 0 => \E e \in E : /\ e.kind = "step.finished" /\ e.out = "ok"
                              /\ e.unit[1] = u[1] - 1

\* So they do for where m stands, and m carries the answer they hold.
EarnedPlace(E, m) ==
  /\ EarnedUnit(E, Standing(m))
  /\ m.attempt = 0 => m.answer = NoAnswer
  /\ m.attempt # 0 =>
       /\ m.answer \in Answer
       /\ m.answer.q.step = m.step /\ m.answer.q.attempt = m.attempt - 1
       /\ \E c \in Controller : Answered(m.answer.q, c, m.answer.option) \in E
  /\ m.state = "needs-decision" => m.question.step = m.step

Earned(k) ==
  /\ \A e \in Entries(log[k]) : Genuine(e)
  /\ Present(k) =>
       /\ EarnedPlace(Entries(log[k]), man[k])
       /\ \A u \in Acts(k) : EarnedUnit(Entries(log[k]), u)
  /\ lock = k => \A i \in DOMAIN todo :
       /\ Genuine(todo[i].entry)
       /\ EarnedPlace(Owed(log[k], todo, i), todo[i].man)
  /\ Written(k)

\* What is earned stays earned as the log grows.
LEMMA EarnedMore ==
  ASSUME NEW E, NEW F, E \subseteq F
  PROVE  /\ \A u : EarnedUnit(E, u) => EarnedUnit(F, u)
         /\ \A m : EarnedPlace(E, m) => EarnedPlace(F, m)
<1>1. \A u : EarnedUnit(E, u) => EarnedUnit(F, u)
  BY DEF EarnedUnit
<1>2. QED BY <1>1 DEF EarnedPlace

\* And a manifest that stands at the same place with the same answer, and the
\* same question if it asks one, stands as well.
LEMMA EarnedSame ==
  ASSUME NEW E, NEW m, NEW n, n.step = m.step, n.attempt = m.attempt, n.answer = m.answer,
         n.state = "needs-decision" => m.state = "needs-decision" /\ n.question = m.question,
         EarnedPlace(E, m)
  PROVE  EarnedPlace(E, n)
<1>1. Standing(n) = Standing(m)
  BY DEF Standing
<1>2. QED BY <1>1 DEF EarnedPlace

\* An operation that means to save what is earned.
LEMMA OpensEarned ==
  ASSUME Inv, Inv', NEW k \in Job, NEW w, Opens(k, w), Earned(k), Does(k),
         \A i \in DOMAIN w : Genuine(w[i].entry) /\ EarnedPlace(Owed(log[k], w, i), w[i].man)
  PROVE  Earned(k)'
<1>1. /\ log[k] \in Seq(SoundEntry) /\ w \in Seq(SoundWrite) /\ w # <<>>
      /\ log'[k] = Append(log[k], w[1].entry) /\ todo' = w /\ lock' = k
      /\ man'[k] = man[k] /\ Present(k) /\ ActsInTurn(k)
  BY JobTypes DEF Opens
<1>2. 1 \in DOMAIN w /\ w[1].entry \in SoundEntry /\ DOMAIN w \subseteq Nat \ {0}
  BY <1>1, HeadWrite
<1>3. Entries(log'[k]) = Entries(log[k]) \cup {w[1].entry}
  BY <1>1, <1>2, EntriesAppend
<1>4. \A e \in Entries(log'[k]) : Genuine(e)
  BY <1>2, <1>3 DEF Earned
<1>5. EarnedPlace(Entries(log'[k]), man'[k])
  BY <1>1, <1>3, EarnedMore DEF Earned
<1>6. \A u \in Acts(k)' : EarnedUnit(Entries(log'[k]), u)
  <2>1. ASSUME NEW u \in Acts(k)'
        PROVE  EarnedUnit(Entries(log[k]), u)
    BY <1>1, <2>1 DEF ActsInTurn, Earned, EarnedPlace
  <2>2. QED BY <1>3, <2>1, EarnedMore
<1>7. ASSUME NEW i \in DOMAIN w
      PROVE  EarnedPlace(Owed(log'[k], w, i), w[i].man)
  BY <1>1, <1>2, <1>7, OwedWritten
<1>8. Written(k)'
  BY WrittenNext DEF Earned
<1>9. QED BY <1>1, <1>4, <1>5, <1>6, <1>7, <1>8 DEF Earned

\* The entry of an attempt that succeeded, or asked.
LEMMA EndedOk ==
  ASSUME NEW u
  PROVE  LET e == Ended(u, "ok")
         IN  e.kind = "step.finished" /\ e.out = "ok" /\ e.unit = u
BY DEF Ended, Blank

\* Only an answer and a step's end say more than that they happened.
LEMMA PlainGenuine ==
  /\ \A c, op : Genuine(Intent(c, op))
  /\ \A c, op, u : Genuine([Intent(c, op) EXCEPT !.unit = u])
  /\ \A c, op, q : Genuine([Intent(c, op) EXCEPT !.q = q])
  /\ \A c : Genuine(Created(c)) /\ Genuine(Taken(c))
  /\ Genuine(Released)
  /\ \A u : Genuine(Started(u))
  /\ \A q : Genuine(Asked(q))
  /\ \A st : Genuine(Finished(st))
  /\ \A u, out : Genuine(Ended(u, out))
  /\ \A q, opt : \A c \in Controller : Genuine(Answered(q, c, opt))
<1> USE DEF Genuine, Blank
<1>1. \A c, op : Genuine(Intent(c, op))
  BY DEF Intent
<1>2. \A c, op, u : Genuine([Intent(c, op) EXCEPT !.unit = u])
  BY DEF Intent
<1>3. \A c, op, q : Genuine([Intent(c, op) EXCEPT !.q = q])
  BY DEF Intent
<1>4. \A c : Genuine(Created(c)) /\ Genuine(Taken(c))
  BY DEF Created, Taken
<1>5. Genuine(Released)
  BY DEF Released
<1>6. \A u : Genuine(Started(u))
  BY DEF Started
<1>7. \A q : Genuine(Asked(q))
  BY DEF Asked
<1>8. \A st : Genuine(Finished(st))
  BY DEF Finished
<1>9. \A u, out : Genuine(Ended(u, out))
  BY DEF Ended
<1>10. \A q, opt : \A c \in Controller : Genuine(Answered(q, c, opt))
  BY DEF Answered
<1>11. QED
  BY <1>1, <1>2, <1>3, <1>4, <1>5, <1>6, <1>7, <1>8, <1>9, <1>10

\* What restoreTrailing appends is one of four entries.
LEMMA MissingEntries ==
  ASSUME NEW m, NEW l, NEW e \in Missing(m, l)
  PROVE  /\ e \in {Asked(m.question), Finished(m.state), Taken(m.owner), Released}
         /\ l # <<>> /\ Completes(e, l[Len(l)], m, l)
BY DEF Missing

\* The place a job stands at, once its attempt has ended or its question is
\* answered, is earned by the entry that says so.
LEMMA SettleEarned ==
  ASSUME NEW E, NEW m \in SoundManifest, m.state = "running", EarnedPlace(E, m),
         NEW out \in Key \cup {"ok"},
         out = "ok" => \E e \in E : /\ e.kind = "step.finished" /\ e.out = "ok"
                                    /\ e.unit[1] = m.step
  PROVE  EarnedPlace(E, Settle(m, out))
<1>1. m.step \in Int /\ m.attempt \in Int
  BY DEF SoundManifest, Manifest, Attempt
<1>2. CASE out = "ok"
  <2> DEFINE n == Settle(m, out)
  <2>1. /\ n.step = m.step + 1 /\ n.attempt = 0 /\ n.answer = NoAnswer
        /\ n.state # "needs-decision"
    BY <1>2 DEF Settle, SoundManifest, Manifest
  <2> HIDE DEF n
  <2>2. EarnedUnit(E, Standing(n))
    BY <1>1, <1>2, <2>1 DEF EarnedUnit, Standing
  <2>3. EarnedPlace(E, n)
    BY <2>1, <2>2 DEF EarnedPlace
  <2>4. QED BY <2>3 DEF n
<1>3. CASE out # "ok"
  <2> DEFINE n == Settle(m, out)
  <2>1. /\ n.step = m.step /\ n.attempt = m.attempt /\ n.answer = m.answer
        /\ n.question.step = m.step
    BY <1>3 DEF Settle, SetQuestion, SoundManifest, Manifest
  <2> HIDE DEF n
  <2>2. EarnedPlace(E, n)
    BY <2>1 DEF EarnedPlace, Standing
  <2>3. QED BY <2>2 DEF n
<1>4. QED BY <1>2, <1>3

LEMMA DecideEarned ==
  ASSUME NEW E, NEW m \in SoundManifest, m.state = "needs-decision", EarnedPlace(E, m),
         NEW opt \in Option, NEW c \in Controller,
         opt # "abort" => Answered(m.question, c, opt) \in E
  PROVE  EarnedPlace(E, DecideState(m, opt))
<1>1. /\ m.step \in Int /\ m.attempt \in Nat
      /\ m.question \in Question /\ m.question.attempt = m.attempt
      /\ m.question.step = m.step
  BY ConstantsOK DEF SoundManifest, Manifest, Attempt, EarnedPlace
<1> DEFINE n == DecideState(m, opt)
<1>2. CASE opt = "abort"
  <2>1. /\ n.step = m.step /\ n.attempt = m.attempt /\ n.answer = m.answer
        /\ n.state # "needs-decision"
    BY <1>2 DEF DecideState, SoundManifest, Manifest
  <2> HIDE DEF n
  <2>2. EarnedPlace(E, n)
    BY <2>1 DEF EarnedPlace, Standing
  <2>3. QED BY <2>2 DEF n
<1>3. CASE opt # "abort"
  <2>1. /\ n.step = m.step /\ n.attempt = m.attempt + 1
        /\ n.answer = [q |-> m.question, option |-> opt]
        /\ n.state # "needs-decision"
    BY <1>3 DEF DecideState, SoundManifest, Manifest
  <2> HIDE DEF n
  <2>2. n.answer \in Answer /\ n.answer.q = m.question /\ n.answer.option = opt
    BY <1>1, <2>1 DEF Answer
  <2>3. Answered(n.answer.q, c, n.answer.option) \in E
    BY <1>3, <2>2
  <2>4. LET e == Answered(m.question, c, opt)
        IN  e.kind = "decision.answered" /\ e.out = opt /\ e.q = m.question
    BY DEF Answered, Blank
  <2>5. EarnedUnit(E, Standing(n))
    <3>1. m.step > 0 => \E e \in E : /\ e.kind = "step.finished" /\ e.out = "ok"
                                     /\ e.unit[1] = m.step - 1
      BY DEF EarnedPlace, EarnedUnit, Standing
    <3>2. Standing(n)[1] = m.step /\ Standing(n)[2] = m.attempt + 1
      BY <2>1 DEF Standing
    <3>3. (m.attempt + 1) - 1 = m.attempt
      BY <1>1
    <3>4. QED BY <1>1, <1>3, <2>4, <3>1, <3>2, <3>3 DEF EarnedUnit
  <2>6. n.attempt # 0 /\ n.answer.q.step = n.step /\ n.answer.q.attempt = n.attempt - 1
    BY <1>1, <2>1, <2>2
  <2>7. EarnedPlace(E, n)
    BY <2>1, <2>2, <2>3, <2>5, <2>6 DEF EarnedPlace
  <2>8. QED BY <2>7 DEF n
<1>4. QED BY <1>2, <1>3

\* What the Appends of an operation have to be, to be earned.
LEMMA FewEarned ==
  ASSUME NEW l, NEW a, NEW b, NEW c, NEW w,
         Genuine(a.entry), EarnedPlace(Entries(l) \cup {a.entry}, a.man),
         \/ w = <<a>>
         \/ /\ w = <<a, b>>
            /\ Genuine(b.entry) /\ EarnedPlace(Entries(l) \cup {a.entry, b.entry}, b.man)
         \/ /\ w = <<a, b, c>>
            /\ Genuine(b.entry) /\ EarnedPlace(Entries(l) \cup {a.entry, b.entry}, b.man)
            /\ Genuine(c.entry)
            /\ EarnedPlace(Entries(l) \cup {a.entry, b.entry, c.entry}, c.man)
  PROVE  \A i \in DOMAIN w : Genuine(w[i].entry) /\ EarnedPlace(Owed(l, w, i), w[i].man)
<1>1. CASE w = <<a>>
  <2>1. DOMAIN w = {1} /\ w[1] = a /\ Owed(l, w, 1) = Entries(l) \cup {a.entry}
    BY <1>1, OwedOne
  <2>2. QED BY <2>1
<1>2. CASE /\ w = <<a, b>>
           /\ Genuine(b.entry) /\ EarnedPlace(Entries(l) \cup {a.entry, b.entry}, b.man)
  <2>1. DOMAIN w = {1, 2} /\ w[1] = a /\ w[2] = b
    BY <1>2
  <2>2. /\ Owed(l, w, 1) = Entries(l) \cup {a.entry}
        /\ Owed(l, w, 2) = Entries(l) \cup {a.entry, b.entry}
    BY ONLY <2>1 DEF Owed
  <2>3. QED BY <1>2, <2>1, <2>2
<1>3. CASE /\ w = <<a, b, c>>
           /\ Genuine(b.entry) /\ EarnedPlace(Entries(l) \cup {a.entry, b.entry}, b.man)
           /\ Genuine(c.entry)
           /\ EarnedPlace(Entries(l) \cup {a.entry, b.entry, c.entry}, c.man)
  <2>1. DOMAIN w = {1, 2, 3} /\ w[1] = a /\ w[2] = b /\ w[3] = c
    BY <1>3
  <2>2. /\ Owed(l, w, 1) = Entries(l) \cup {a.entry}
        /\ Owed(l, w, 2) = Entries(l) \cup {a.entry, b.entry}
        /\ Owed(l, w, 3) = Entries(l) \cup {a.entry, b.entry, c.entry}
    BY ONLY <2>1 DEF Owed
  <2>3. QED BY <1>3, <2>1, <2>2
<1>4. QED BY <1>1, <1>2, <1>3

\* What an operation means to save is earned by what it means to log.
LEMMA MeansEarned ==
  ASSUME Inv, NEW k \in Job, Present(k), Earned(k), NEW w, Means(k, w),
         lock = k => todo = <<>> /\ man[k].state = "running"
  PROVE  \A i \in DOMAIN w :
           Genuine(w[i].entry) /\ EarnedPlace(Owed(log[k], w, i), w[i].man)
<1> DEFINE E == Entries(log[k])
<1>1. man[k] \in SoundManifest /\ EarnedPlace(E, man[k])
  BY JobTypes DEF Earned
<1>2. \A n : EarnedPlace(E, n) =>
        \A x, y, z : /\ EarnedPlace(E \cup {x}, n)
                     /\ EarnedPlace(E \cup {x, y}, n)
                     /\ EarnedPlace(E \cup {x, y, z}, n)
  <2>1. \A x, y, z : E \subseteq E \cup {x} /\ E \subseteq E \cup {x, y} /\ E \subseteq E \cup {x, y, z}
    OBVIOUS
  <2>2. QED BY <2>1, EarnedMore
<1> HIDE DEF E
<1>3. CASE RepairWrites(k, w)
  <2>1. PICK e \in Missing(man[k], log[k]) : w = <<[entry |-> e, man |-> man[k]]>>
    BY <1>3 DEF RepairWrites
  <2>2. Genuine(e)
    BY MissingEntries, PlainGenuine
  <2> DEFINE a == [entry |-> e, man |-> man[k]]
  <2>3. a.entry = e /\ a.man = man[k] /\ w = <<a>>
    BY <2>1
  <2> HIDE DEF a
  <2>4. QED BY <1>1, <1>2, <2>2, <2>3, FewEarned DEF E
<1>4. CASE TakeWrites(k, w) \/ ReleaseWrites(k, w)
  <2>1. ASSUME NEW a, NEW b, w = <<a, b>>, Genuine(a.entry), Genuine(b.entry), b.man = a.man,
               \/ \E c \in Controller : a.man = TakenBy(man[k], c)
               \/ a.man = ReleasedLease(man[k])
        PROVE  \A i \in DOMAIN w :
                 Genuine(w[i].entry) /\ EarnedPlace(Owed(log[k], w, i), w[i].man)
    <3>1. /\ a.man.state = man[k].state /\ a.man.step = man[k].step
          /\ a.man.attempt = man[k].attempt /\ a.man.answer = man[k].answer
          /\ a.man.question = man[k].question
      BY <1>1, <2>1 DEF TakenBy, ReleasedLease, SoundManifest, Manifest
    <3>2. EarnedPlace(E, a.man)
      BY <1>1, <3>1, EarnedSame
    <3>3. EarnedPlace(E \cup {a.entry}, a.man) /\ EarnedPlace(E \cup {a.entry, b.entry}, b.man)
      BY <1>2, <2>1, <3>2
    <3>4. QED BY <2>1, <3>3, FewEarned DEF E
  <2>2. ASSUME NEW c \in Controller, NEW op, NEW d, Genuine(d), NEW n,
               n = TakenBy(man[k], c) \/ n = ReleasedLease(man[k]),
               w = <<[entry |-> Intent(c, op), man |-> n], [entry |-> d, man |-> n]>>
        PROVE  \A i \in DOMAIN w :
                 Genuine(w[i].entry) /\ EarnedPlace(Owed(log[k], w, i), w[i].man)
    <3> DEFINE a == [entry |-> Intent(c, op), man |-> n]
               b == [entry |-> d, man |-> n]
    <3>1. a.entry = Intent(c, op) /\ b.entry = d /\ a.man = n /\ b.man = n /\ w = <<a, b>>
      BY <2>2
    <3>2. Genuine(Intent(c, op))
      BY PlainGenuine
    <3> HIDE DEF a, b
    <3>3. QED BY <2>1, <2>2, <3>1, <3>2
  <2>3. (\A c : Genuine(Taken(c))) /\ Genuine(Released)
    BY PlainGenuine
  <2>4. QED BY <1>4, <2>2, <2>3 DEF TakeWrites, ReleaseWrites
<1>5. CASE AdvanceWrites(k, w)
  <2>1. PICK a, b : /\ w = <<a, b>> /\ Genuine(a.entry) /\ Genuine(b.entry)
                    /\ a.man = Renewed(man[k]) /\ b.man = Running(Renewed(man[k]))
    BY <1>5, PlainGenuine DEF AdvanceWrites
  <2>2. EarnedPlace(E, a.man)
    <3>1. /\ a.man.state = man[k].state /\ a.man.step = man[k].step
          /\ a.man.attempt = man[k].attempt /\ a.man.answer = man[k].answer
          /\ a.man.question = man[k].question
      BY <1>1, <2>1 DEF Renewed, SoundManifest, Manifest
    <3>2. QED BY <1>1, <3>1, EarnedSame
  <2>3. EarnedPlace(E, b.man)
    <3>1. /\ b.man.state = "running" /\ b.man.step = man[k].step
          /\ b.man.attempt = man[k].attempt /\ b.man.answer = man[k].answer
      BY <1>1, <2>1 DEF Running, Renewed, SoundManifest, Manifest
    <3>2. QED BY <1>1, <3>1, EarnedSame
  <2>4. EarnedPlace(E \cup {a.entry}, a.man) /\ EarnedPlace(E \cup {a.entry, b.entry}, b.man)
    BY <1>2, <2>2, <2>3
  <2>5. QED BY <2>1, <2>4, FewEarned DEF E
<1>6. CASE DecideWrites(k, w)
  <2> DEFINE m0 == Renewed(man[k])
  <2>1. PICK c \in Controller, opt \in Option :
               LET q  == man[k].question
                   m1 == DecideState(m0, opt)
                   asked    == [entry |-> [Intent(c, "decide") EXCEPT !.q = q], man |-> m0]
                   answered == [entry |-> Answered(q, c, opt), man |-> m1]
                   finished == [entry |-> Finished("aborted"), man |-> m1]
               IN  w = IF opt = "abort" THEN <<asked, answered, finished>>
                                        ELSE <<asked, answered>>
    BY <1>6 DEF DecideWrites
  <2> DEFINE q  == man[k].question
             m1 == DecideState(m0, opt)
             asked    == [entry |-> [Intent(c, "decide") EXCEPT !.q = q], man |-> m0]
             answered == [entry |-> Answered(q, c, opt), man |-> m1]
             finished == [entry |-> Finished("aborted"), man |-> m1]
  <2>2. /\ m0 \in SoundManifest /\ m0.state = "needs-decision" /\ m0.question = q
        /\ EarnedPlace(E, m0)
    <3>1. /\ m0.state = man[k].state /\ m0.step = man[k].step
          /\ m0.attempt = man[k].attempt /\ m0.answer = man[k].answer
          /\ m0.question = man[k].question
      BY <1>1 DEF Renewed, SoundManifest, Manifest
    <3>2. m0 \in SoundManifest /\ EarnedPlace(E, m0)
      <4>1. m0 \in SoundManifest
        BY <1>1, <2>1, LeaseSound
      <4>2. EarnedPlace(E, m0)
        BY <1>1, <3>1, EarnedSame
      <4>3. QED BY <4>1, <4>2
    <3>3. QED BY <1>6, <3>1, <3>2 DEF DecideWrites
  <2>3. Genuine(asked.entry) /\ Genuine(answered.entry) /\ Genuine(finished.entry)
    BY PlainGenuine
  <2>4. ASSUME NEW F, E \subseteq F, answered.entry \in F
        PROVE  EarnedPlace(F, m1)
    <3>1. EarnedPlace(F, m0)
      BY <2>2, <2>4, EarnedMore
    <3>2. QED BY <2>2, <2>4, <3>1, DecideEarned
  <2>5. /\ asked.man = m0 /\ answered.man = m1 /\ finished.man = m1
        /\ w = <<asked, answered, finished>> \/ w = <<asked, answered>>
    BY <2>1
  <2> HIDE DEF m0, m1, asked, answered, finished
  <2>6. /\ EarnedPlace(E \cup {asked.entry}, asked.man)
        /\ EarnedPlace(E \cup {asked.entry, answered.entry}, answered.man)
        /\ EarnedPlace(E \cup {asked.entry, answered.entry, finished.entry}, finished.man)
    BY <1>2, <2>2, <2>4, <2>5
  <2>7. QED BY <2>3, <2>5, <2>6, FewEarned DEF E
<1>7. CASE FoldWrites(k, w) \/ AskWrites(k, w)
  <2>1. PICK out, d :
          LET m == Settle(man[k], out)
              e == [entry |-> Ended(man[k].unit, out), man |-> m]
          IN  /\ out \in Key \cup {"ok"}
              /\ w = <<e>> \/ (w = <<e, [entry |-> d, man |-> m]>> /\ Genuine(d))
              /\ man[k].state = "running"
    <3>1. CASE FoldWrites(k, w)
      BY <3>1, MissingEntries, PlainGenuine DEF FoldWrites
    <3>2. CASE AskWrites(k, w)
      <4>1. "failed" \in Key /\ Settle(man[k], "failed") = SetQuestion(man[k], "failed")
        BY DEF Key, Settle
      <4>2. QED BY <3>2, <4>1, PlainGenuine DEF AskWrites
    <3>3. QED BY <1>7, <3>1, <3>2
  <2> DEFINE m == Settle(man[k], out)
             e == [entry |-> Ended(man[k].unit, out), man |-> m]
             f == [entry |-> d, man |-> m]
  <2>2. Genuine(e.entry) /\ e.man = m /\ f.man = m /\ f.entry = d
    BY PlainGenuine
  <2>3. ASSUME NEW F, E \subseteq F, e.entry \in F
        PROVE  EarnedPlace(F, m)
    <3>1. EarnedPlace(F, man[k])
      BY <1>1, <2>3, EarnedMore
    <3>2. man[k].unit = Standing(man[k]) /\ man[k].state = "running"
      BY <1>1, <2>1, RunningUnit
    <3>3. out = "ok" => /\ e.entry.kind = "step.finished" /\ e.entry.out = "ok"
                        /\ e.entry.unit[1] = man[k].step
      BY <3>2, EndedOk DEF Standing
    <3> HIDE DEF m, e, f
    <3>4. EarnedPlace(F, Settle(man[k], out))
      BY <1>1, <2>1, <2>3, <3>1, <3>2, <3>3, SettleEarned
    <3>5. QED BY <3>4 DEF m
  <2>4. w = <<e>> \/ (w = <<e, f>> /\ Genuine(d))
    BY <2>1
  <2> HIDE DEF m, e, f
  <2>5. EarnedPlace(E \cup {e.entry}, e.man) /\ EarnedPlace(E \cup {e.entry, f.entry}, f.man)
    BY <2>2, <2>3
  <2>6. QED BY <2>2, <2>4, <2>5, FewEarned DEF E
<1>8. CASE AbandonWrites(k, w)
  <2>1. PICK m \in SoundManifest :
               /\ m.state = "failed" /\ m.step = man[k].step /\ m.attempt = man[k].attempt
               /\ m.answer = man[k].answer
               /\ w = <<[entry |-> Finished("failed"), man |-> m]>>
    BY <1>8 DEF AbandonWrites
  <2>2. EarnedPlace(E, m)
    BY <1>1, <2>1 DEF EarnedPlace, Standing
  <2> DEFINE a == [entry |-> Finished("failed"), man |-> m]
  <2>3. a.man = m /\ Genuine(a.entry) /\ w = <<a>>
    BY <2>1, PlainGenuine
  <2> HIDE DEF a
  <2>4. QED BY <1>2, <2>2, <2>3, FewEarned DEF E
<1>9. QED BY <1>3, <1>4, <1>5, <1>6, <1>7, <1>8 DEF Means

\* What acts stays earned.
LEMMA EarnedNext ==
  ASSUME Inv, Inv', NEW k \in Job, Does(k), Earned(k)
  PROVE  Earned(k)'
<1> DEFINE E == Entries(log[k])
<1>1. /\ log[k] \in Seq(SoundEntry) /\ man[k] \in SoundManifest /\ todo \in Seq(SoundWrite)
      /\ log[k] # <<>> => Last(k) \in E /\ Last(k) \in SoundEntry
  BY JobTypes
<1>2. Written(k)'
  BY WrittenNext DEF Earned
<1>3. CASE Idles(k)
  <2>1. Present(k)' = Present(k) /\ log'[k] = log[k]
    BY <1>3 DEF Idles, Present
  <2>2. Present(k) => EarnedPlace(E, man'[k])
    BY <1>3, EarnedSame DEF Idles, Same, Earned
  <2>3. Present(k) => \A u \in Acts(k)' : EarnedUnit(E, u)
    BY <1>3 DEF Idles, ActsInTurn, Earned, EarnedPlace
  <2>4. QED BY <1>2, <1>3, <2>1, <2>2, <2>3 DEF Earned, Idles
<1>4. CASE Writes(k)
  <2>1. /\ 1 \in DOMAIN todo /\ todo[1].entry \in SoundEntry /\ DOMAIN todo \subseteq Nat \ {0}
    BY <1>1, <1>4, HeadWrite DEF Writes
  <2>2. Entries(log'[k]) = E \cup {todo[1].entry} /\ Genuine(todo[1].entry)
    BY <1>1, <1>4, <2>1, EntriesAppend DEF Writes, Earned
  <2>3. \A u : EarnedUnit(E, u) => EarnedUnit(Entries(log'[k]), u)
    BY <2>2, EarnedMore
  <2>4. \A m : EarnedPlace(E, m) => EarnedPlace(Entries(log'[k]), m)
    BY <2>2, EarnedMore
  <2>5. ASSUME NEW i \in DOMAIN todo
        PROVE  Genuine(todo[i].entry) /\ EarnedPlace(Owed(log'[k], todo, i), todo[i].man)
    <3>1. Owed(log'[k], todo, i) = Owed(log[k], todo, i)
      BY <1>1, <1>4, <2>1, <2>5, OwedWritten DEF Writes
    <3>2. QED BY <1>4, <2>5, <3>1 DEF Earned, Writes
  <2>6. QED BY <1>2, <1>4, <2>2, <2>3, <2>4, <2>5 DEF Earned, Writes
<1>5. CASE Saves(k)
  <2>1. /\ 1 \in DOMAIN todo /\ todo[1].entry \in E /\ DOMAIN todo \subseteq Nat \ {0}
        /\ Owed(log[k], todo, 1) = E
    <3>1. 1 \in DOMAIN todo /\ DOMAIN todo \subseteq Nat \ {0}
      BY <1>1, <1>5, HeadWrite DEF Saves
    <3>2. todo[1].entry \in E
      BY <1>1, <1>5 DEF Saves, Earned, Written
    <3>3. {h \in DOMAIN todo : h <= 1} = {1}
      BY <3>1
    <3>4. QED BY <3>1, <3>2, <3>3 DEF Owed
  <2>2. EarnedPlace(E, man'[k])
    <3>1. EarnedPlace(E, todo[1].man)
      BY <1>5, <2>1 DEF Earned, Saves
    <3>2. QED BY <1>5, <3>1, EarnedSame DEF Saves, Same
  <2>3. ASSUME lock' = k, NEW i \in DOMAIN todo'
        PROVE  Genuine(todo'[i].entry) /\ EarnedPlace(Owed(log[k], todo', i), todo'[i].man)
    <3>1. todo' = Tail(todo) /\ lock = k /\ todo # <<>>
      BY <1>5, <2>3 DEF Saves
    <3>2. i \in Nat /\ i + 1 \in DOMAIN todo /\ todo'[i] = todo[i + 1]
      BY <1>1, <2>3, <3>1
    <3>3. Owed(log[k], todo', i) = Owed(log[k], todo, i + 1)
      BY <1>1, <2>1, <3>1, <3>2, OwedSaved
    <3>4. QED BY <3>1, <3>2, <3>3 DEF Earned
  <2>4. QED BY <1>2, <1>5, <2>2, <2>3 DEF Earned, Saves, Present
<1>6. ASSUME NEW out \in Key \cup {"ok"}, Refolds(k, out)
      PROVE  Earned(k)'
  <2>1. /\ man[k].state = "running" /\ log[k] # <<>> /\ Last(k).kind \in OutcomeKind
        /\ Last(k).unit = man[k].unit /\ EarnedPlace(E, man[k])
    BY <1>6 DEF Refolds, Folded, Earned
  <2>2. man[k].unit = Standing(man[k])
    BY <1>1, <2>1, RunningUnit
  <2>3. out = "ok" => /\ Last(k).kind = "step.finished" /\ Last(k).out = "ok"
                      /\ Last(k).unit[1] = man[k].step
    BY <1>1, <1>6, <2>1, <2>2 DEF Refolds, OutcomeKind, Earned, Genuine, Standing
  <2>4. EarnedPlace(E, Settle(man[k], out))
    BY <1>1, <2>1, <2>3, SettleEarned
  <2>5. EarnedPlace(E, man'[k])
    BY <1>6, <2>4, EarnedSame DEF Refolds, Same
  <2>6. QED BY <1>2, <1>6, <2>5 DEF Refolds, Earned, Present
<1>7. CASE Reapplies(k)
  <2>1. /\ man[k].state = "needs-decision" /\ log[k] # <<>> /\ Last(k).kind = "decision.answered"
        /\ Last(k).q = man[k].question /\ EarnedPlace(E, man[k])
    BY <1>7 DEF Reapplies, AnswerLogged, Earned
  <2>2. PICK c \in Controller : Last(k) = Answered(Last(k).q, c, Last(k).out)
    BY <1>1, <2>1 DEF Earned, Genuine
  <2>3. Last(k).out \in Option
    BY <1>1, <2>1 DEF SoundEntry
  <2>4. EarnedPlace(E, DecideState(man[k], Last(k).out))
    <3>1. Answered(man[k].question, c, Last(k).out) \in E
      BY <1>1, <2>1, <2>2
    <3>2. QED BY <1>1, <2>1, <2>3, <3>1, DecideEarned
  <2>5. EarnedPlace(E, man'[k])
    BY <1>7, <2>4, EarnedSame DEF Reapplies, Same
  <2>6. QED BY <1>2, <1>7, <2>5 DEF Reapplies, Earned, Present
<1>8. CASE Leaves(k)
  <2>1. \A e \in Entries(log'[k]) : Genuine(e)
    BY <1>8, EntriesEmpty DEF Leaves, Present, Earned
  <2>2. QED BY <1>2, <1>8, <2>1 DEF Leaves, Present, Earned
<1>9. ASSUME NEW c \in Controller, Begins(k, c)
      PROVE  Earned(k)'
  <2> DEFINE n == NewManifest(c)
             b == [entry |-> Created(c), man |-> n]
  <2>1. n.step = 0 /\ n.attempt = 0 /\ n.answer = NoAnswer /\ n.state = "waiting"
    BY DEF NewManifest
  <2>2. Genuine(b.entry) /\ b.man = n
    BY PlainGenuine
  <2>3. todo' = <<b>> /\ man'[k] = n /\ log'[k] = <<>> /\ Acts(k)' = {}
    BY <1>9 DEF Begins
  <2> HIDE DEF n, b
  <2>4. \A F : EarnedPlace(F, n)
    BY <2>1 DEF EarnedPlace, EarnedUnit, Standing
  <2>5. QED BY <1>2, <2>2, <2>3, <2>4, EntriesEmpty, OwedOne DEF Earned
<1>10. ASSUME NEW w, Opens(k, w), Means(k, w)
       PROVE  Earned(k)'
  <2>1. lock = k => todo = <<>> /\ man[k].state = "running"
    BY <1>10 DEF Opens, Inv, Order, JobInv, Locked, Launchable
  <2>2. Present(k)
    BY <1>10 DEF Opens
  <2>3. QED BY <1>10, <2>1, <2>2, MeansEarned, OpensEarned
<1>11. QED
  BY <1>3, <1>4, <1>5, <1>6, <1>7, <1>8, <1>9, <1>10 DEF Does

\* Nothing is earned to begin with, and nothing acts.
LEMMA EarnedInit ==
  ASSUME Init
  PROVE  \A k \in Job : Earned(k)
<1>1. SUFFICES ASSUME NEW k \in Job
               PROVE  Earned(k)
  OBVIOUS
<1>2. log[k] = <<>> /\ lock # k /\ ~Present(k)
  BY ConstantsOK DEF Init, Present
<1>3. QED BY <1>2, EntriesEmpty DEF Earned, Written

\* What acts is earned, throughout.
LEMMA EarnedInvariance == Spec => [](\A k \in Job : Earned(k))
<1> DEFINE AllEarned == \A k \in Job : Earned(k)
<1>1. Init => AllEarned
  BY EarnedInit
<1>2. ASSUME Inv, Inv', [Next]_vars, AllEarned
      PROVE  AllEarned'
  BY <1>2, JobCases, EarnedNext
<1> HIDE DEF AllEarned
<1>3. Spec => []AllEarned
  BY <1>1, <1>2, Invariance, PTL DEF Spec
<1>4. QED BY <1>3 DEF AllEarned

\* Q9, and the plan's order: no step's process has ever run as a retry unless
\* the log holds the answer to the question its previous attempt stopped at,
\* nor at a later step unless the log holds the success of the step before;
\* with every kind of fault, and abandonment by hand.
THEOREM AttemptsAreEarned == Spec => []AttemptsEarned
<1>1. ASSUME Inv, \A k \in Job : Earned(k)
      PROVE  AttemptsEarned
  <2>1. ASSUME NEW j \in Job, Present(j), NEW u \in active[j] \cup begun[j]
        PROVE  EarnedUnit(Entries(log[j]), u)
    BY <1>1, <2>1 DEF Earned, Acts
  <2>2. RetriesAnswered
    BY <2>1 DEF RetriesAnswered, EarnedUnit, Entries
  <2>3. StepsInOrder
    BY <2>1 DEF StepsInOrder, EarnedUnit, Entries
  <2>4. QED BY <2>2, <2>3 DEF AttemptsEarned
<1>2. QED BY <1>1, Invariance, EarnedInvariance, PTL

\* A running retry has in its manifest the answer that was logged to the
\* question its previous attempt stopped at, and a first attempt has none;
\* a crash between the answer's line and its manifest is repaired with it.
THEOREM AnswersAreDelivered == Spec => []AnswerDelivered
<1>1. ASSUME Inv, \A k \in Job : Earned(k)
      PROVE  AnswerDelivered
  <2>1. SUFFICES ASSUME NEW j \in Job, Present(j), man[j].state = "running"
                 PROVE  LET a == man[j].answer
                        IN  IF man[j].attempt = 0 THEN a = NoAnswer
                            ELSE /\ a # NoAnswer
                                 /\ a.q.step = man[j].step
                                 /\ a.q.attempt = man[j].attempt - 1
                                 /\ \E i \in DOMAIN log[j], c \in Controller :
                                      log[j][i] = Answered(a.q, c, a.option)
    BY DEF AnswerDelivered
  <2>2. EarnedPlace(Entries(log[j]), man[j])
    BY <1>1, <2>1 DEF Earned
  <2>3. QED BY <2>2, AbsentOK DEF EarnedPlace, Entries
<1>2. QED BY <1>1, Invariance, EarnedInvariance, PTL

---------------------------------------------------------------------------
(* What an operation's Appends say, field by field.  From here on nobody    *)
(* abandons a job by hand: job-abandon, stopped between its entry and its   *)
(* manifest, leaves a job that its log calls finished and its manifest does *)
(* not, and TLC finds the steps that follow breaking each property below.   *)

\* The manifest n stands where m stands.
Keeps(m, n) ==
  /\ n.state = m.state /\ n.step = m.step /\ n.attempt = m.attempt
  /\ n.unit = m.unit /\ n.question = m.question

\* And its lease is whose it was.
Holds(m, n) == n.owner = m.owner /\ n.creator = m.creator

Repairing(k, w) ==
  /\ ~Folded(k) /\ (knows => ~AnswerLogged(k))
  /\ DOMAIN w = {1} /\ w[1].entry \in Missing(man[k], log[k]) /\ w[1].man = man[k]

Leasing(k, w) ==
  /\ LeaseReady(k) /\ DOMAIN w = {1, 2}
  /\ \E c \in Controller :
       \/ /\ w[1].entry = Intent(c, "lease take") /\ w[2].entry = Taken(c)
          /\ w[1].man.owner = c /\ w[2].man.owner = c
       \/ /\ w[1].entry = Intent(c, "lease release") /\ w[2].entry = Released
          /\ w[1].man.owner = NoOne /\ w[2].man.owner = NoOne
  /\ \A i \in {1, 2} : Keeps(man[k], w[i].man) /\ w[i].man.creator = man[k].creator

Advancing(k, w) ==
  /\ Restored(k) /\ man[k].state = "waiting" /\ DOMAIN w = {1, 2}
  /\ w[1].entry.kind = "intent" /\ w[1].entry.out = "advance" /\ Keeps(man[k], w[1].man)
  /\ w[2].entry = Started(Standing(man[k]))
  /\ w[2].man.state = "running" /\ Standing(w[2].man) = Standing(man[k])
  /\ \A i \in {1, 2} : Holds(man[k], w[i].man)

Deciding(k, w) ==
  /\ Restored(k) /\ man[k].state = "needs-decision"
  /\ w[1].entry.kind = "intent" /\ w[1].entry.out = "decide" /\ Keeps(man[k], w[1].man)
  /\ Holds(man[k], w[1].man) /\ Holds(man[k], w[2].man)
  /\ \E c \in Controller, opt \in Option :
       /\ w[2].entry = Answered(man[k].question, c, opt)
       /\ \/ /\ DOMAIN w = {1, 2} /\ w[2].man.state = "waiting"
          \/ /\ DOMAIN w = {1, 2, 3} /\ w[2].man.state = "aborted"
             /\ w[3].entry = Finished("aborted") /\ w[3].man = w[2].man

Folding(k, w) ==
  /\ Restored(k) \/ (lock = k /\ todo = <<>>)
  /\ man[k].state = "running" /\ man[k].unit = Standing(man[k])
  /\ w[1].entry.kind \in OutcomeKind /\ w[1].entry.unit = Standing(man[k])
  /\ Holds(man[k], w[1].man)
  /\ \/ DOMAIN w = {1} /\ w[1].man.state = "waiting"
     \/ /\ DOMAIN w = {1, 2} /\ w[2].man = w[1].man
        /\ w[1].man.state = "succeeded" /\ w[2].entry = Finished("succeeded")
     \/ /\ DOMAIN w = {1, 2} /\ w[2].man = w[1].man
        /\ w[1].man.state = "needs-decision" /\ w[2].entry = Asked(w[1].man.question)
        /\ <<w[1].man.question.step, w[1].man.question.attempt>> = Standing(man[k])

Forms(k, w) ==
  Repairing(k, w) \/ Leasing(k, w) \/ Advancing(k, w) \/ Deciding(k, w) \/ Folding(k, w)

\* Nothing is missing from a log that ends with an outcome still to be folded.
LEMMA FoldedComplete ==
  ASSUME NEW k \in Job, Folded(k)
  PROVE  Missing(man[k], log[k]) = {}
<1>1. /\ man[k].state = "running" /\ log[k][Len(log[k])].kind \in OutcomeKind
  BY DEF Folded, Last
<1>2. SUFFICES ASSUME NEW e \in Missing(man[k], log[k])
               PROVE  FALSE
  OBVIOUS
<1>3. Completes(e, log[k][Len(log[k])], man[k], log[k])
  BY DEF Missing
<1>4. QED
  BY <1>1, <1>3 DEF Completes, AskUnlogged, EndUnlogged, TakeUnlogged, ReleaseUnlogged, OutcomeKind

\* How settling a running attempt leaves the job.
LEMMA SettleFields ==
  ASSUME NEW m \in SoundManifest, m.state = "running", NEW out \in Key \cup {"ok"}
  PROVE  LET n == Settle(m, out)
         IN  /\ Holds(m, n)
             /\ \/ n.state \in {"waiting", "succeeded"}
                \/ /\ n.state = "needs-decision"
                   /\ n.question.step = m.step /\ n.question.attempt = m.attempt
<1>1. CASE out = "ok"
  BY <1>1 DEF Settle, Holds, SoundManifest, Manifest
<1>2. CASE out # "ok"
  BY <1>2 DEF Settle, SetQuestion, Holds, SoundManifest, Manifest
<1>3. QED BY <1>1, <1>2

\* What is missing from a log that ends with the outcome just settled.
LEMMA SettledMissing ==
  ASSUME NEW l \in Seq(SoundEntry), NEW e \in SoundEntry, e.kind \in OutcomeKind, NEW n
  PROVE  /\ n.state = "waiting" => Missing(n, Append(l, e)) = {}
         /\ n.state = "succeeded" => Missing(n, Append(l, e)) = {Finished("succeeded")}
         /\ n.state = "needs-decision" /\ n.question.step = e.unit[1] =>
              Missing(n, Append(l, e)) = {Asked(n.question)}
<1> DEFINE a == Append(l, e)
<1>1. a # <<>> /\ a[Len(a)] = e
  BY EntriesAppend
<1> HIDE DEF a
<1>2. \A d : Completes(d, e, n, a) <=>
               \/ d = Asked(n.question) /\ AskUnlogged(n, e)
               \/ d = Finished(n.state) /\ n.state = "succeeded"
  BY DEF Completes, EndUnlogged, TakeUnlogged, ReleaseUnlogged, OutcomeKind
<1>3. Missing(n, a) = {d \in {Asked(n.question), Finished(n.state), Taken(n.owner), Released} :
                         \/ d = Asked(n.question) /\ AskUnlogged(n, e)
                         \/ d = Finished(n.state) /\ n.state = "succeeded"}
  BY <1>1, <1>2 DEF Missing
<1>4. QED BY <1>3 DEF AskUnlogged, a

\* Each operation's Appends have the fields named above.
LEMMA MeansForms ==
  ASSUME Inv, NEW k \in Job, NEW w, Opens(k, w), Means(k, w), "abandon" \notin Fault
  PROVE  Forms(k, w)
<1>1. man[k] \in SoundManifest /\ log[k] \in Seq(SoundEntry)
  BY JobTypes
<1>2. CASE RepairWrites(k, w)
  <2>1. PICK e \in Missing(man[k], log[k]) : w = <<[entry |-> e, man |-> man[k]]>>
    BY <1>2 DEF RepairWrites
  <2>2. DOMAIN w = {1} /\ w[1].entry = e /\ w[1].man = man[k]
    BY <2>1
  <2>3. ~Folded(k)
    BY <2>1, FoldedComplete
  <2>4. QED BY <1>2, <2>2, <2>3 DEF RepairWrites, Repairing, Forms
<1>3. CASE TakeWrites(k, w)
  <2>1. PICK c \in Controller :
           LET m == TakenBy(man[k], c)
           IN  w = <<[entry |-> Intent(c, "lease take"), man |-> m],
                     [entry |-> Taken(c), man |-> m]>>
    BY <1>3 DEF TakeWrites
  <2> DEFINE m == TakenBy(man[k], c)
  <2>2. w = <<[entry |-> Intent(c, "lease take"), man |-> m], [entry |-> Taken(c), man |-> m]>>
    BY <2>1
  <2>3. m.owner = c /\ m.creator = man[k].creator /\ Keeps(man[k], m)
    BY <1>1 DEF TakenBy, Keeps, SoundManifest, Manifest
  <2>4. LeaseReady(k)
    BY <1>3 DEF TakeWrites
  <2> HIDE DEF m
  <2>5. /\ DOMAIN w = {1, 2} /\ w[1].man = m /\ w[2].man = m
        /\ w[1].entry = Intent(c, "lease take") /\ w[2].entry = Taken(c)
    <3>1. ASSUME NEW a, NEW b, NEW n,
                 w = <<[entry |-> a, man |-> n], [entry |-> b, man |-> n]>>
          PROVE  /\ DOMAIN w = {1, 2} /\ w[1].man = n /\ w[2].man = n
                 /\ w[1].entry = a /\ w[2].entry = b
      BY ONLY <3>1
    <3>2. QED BY ONLY <2>2, <3>1, Zenon
  <2>6. QED BY <2>5, <2>3, <2>4 DEF Leasing, Forms
<1>4. CASE ReleaseWrites(k, w)
  <2>1. PICK c \in Controller :
           LET m == ReleasedLease(man[k])
           IN  w = <<[entry |-> Intent(c, "lease release"), man |-> m],
                     [entry |-> Released, man |-> m]>>
    BY <1>4 DEF ReleaseWrites
  <2> DEFINE m == ReleasedLease(man[k])
  <2>2. w = <<[entry |-> Intent(c, "lease release"), man |-> m], [entry |-> Released, man |-> m]>>
    BY <2>1
  <2>3. m.owner = NoOne /\ m.creator = man[k].creator /\ Keeps(man[k], m)
    BY <1>1 DEF ReleasedLease, Keeps, SoundManifest, Manifest
  <2>4. LeaseReady(k)
    BY <1>4 DEF ReleaseWrites
  <2> HIDE DEF m
  <2>5. /\ DOMAIN w = {1, 2} /\ w[1].man = m /\ w[2].man = m
        /\ w[1].entry = Intent(c, "lease release") /\ w[2].entry = Released
    <3>1. ASSUME NEW a, NEW b, NEW n,
                 w = <<[entry |-> a, man |-> n], [entry |-> b, man |-> n]>>
          PROVE  /\ DOMAIN w = {1, 2} /\ w[1].man = n /\ w[2].man = n
                 /\ w[1].entry = a /\ w[2].entry = b
      BY ONLY <3>1
    <3>2. QED BY ONLY <2>2, <3>1, Zenon
  <2>6. QED BY <2>5, <2>3, <2>4 DEF Leasing, Forms
<1>5. CASE AdvanceWrites(k, w)
  <2> DEFINE m == Renewed(man[k])
             u == Standing(man[k])
             n == Running(m)
  <2>1. PICK c \in Controller :
           w = <<[entry |-> [Intent(c, "advance") EXCEPT !.unit = u], man |-> m],
                 [entry |-> Started(u), man |-> n]>>
    BY <1>5 DEF AdvanceWrites
  <2>2. LET e == [Intent(c, "advance") EXCEPT !.unit = u]
        IN  e.kind = "intent" /\ e.out = "advance"
    BY DEF Intent, Blank
  <2>3. /\ DOMAIN w = {1, 2} /\ w[1].man = m /\ w[2].man = n
        /\ w[1].entry = [Intent(c, "advance") EXCEPT !.unit = u] /\ w[2].entry = Started(u)
    BY <2>1
  <2>4. Keeps(man[k], m) /\ Holds(man[k], m)
    BY <1>1 DEF Renewed, Keeps, Holds, SoundManifest, Manifest
  <2>5. n.state = "running" /\ Standing(n) = u /\ Holds(man[k], n)
    BY <1>1 DEF Renewed, Running, Standing, Holds, SoundManifest, Manifest
  <2>6. Restored(k) /\ man[k].state = "waiting"
    BY <1>5 DEF AdvanceWrites
  <2> HIDE DEF m, n
  <2>7. QED BY <2>2, <2>3, <2>4, <2>5, <2>6 DEF Advancing, Forms
<1>6. CASE DecideWrites(k, w)
  <2> DEFINE m0 == Renewed(man[k])
             q  == man[k].question
  <2>1. PICK c \in Controller, opt \in Option :
               LET m1 == DecideState(m0, opt)
                   asked    == [entry |-> [Intent(c, "decide") EXCEPT !.q = q], man |-> m0]
                   answered == [entry |-> Answered(q, c, opt), man |-> m1]
                   finished == [entry |-> Finished("aborted"), man |-> m1]
               IN  w = IF opt = "abort" THEN <<asked, answered, finished>>
                                        ELSE <<asked, answered>>
    BY <1>6 DEF DecideWrites
  <2> DEFINE m1 == DecideState(m0, opt)
             e  == [Intent(c, "decide") EXCEPT !.q = q]
             f  == Answered(q, c, opt)
  <2>2. e.kind = "intent" /\ e.out = "decide"
    BY DEF Intent, Blank
  <2>3. Keeps(man[k], m0) /\ Holds(man[k], m0)
    BY <1>1 DEF Renewed, Keeps, Holds, SoundManifest, Manifest
  <2>4. Holds(man[k], m1) /\ m1.state = IF opt = "abort" THEN "aborted" ELSE "waiting"
    <3>1. CASE opt = "abort"
      BY <1>1, <3>1 DEF Renewed, DecideState, Holds, SoundManifest, Manifest
    <3>2. CASE opt # "abort"
      BY <1>1, <3>2 DEF Renewed, DecideState, Holds, SoundManifest, Manifest
    <3>3. QED BY <3>1, <3>2
  <2>5. Restored(k) /\ man[k].state = "needs-decision"
    BY <1>6 DEF DecideWrites
  <2>6. w = IF opt = "abort"
            THEN <<[entry |-> e, man |-> m0], [entry |-> f, man |-> m1],
                   [entry |-> Finished("aborted"), man |-> m1]>>
            ELSE <<[entry |-> e, man |-> m0], [entry |-> f, man |-> m1]>>
    BY <2>1
  <2> HIDE DEF m0, m1, e, f
  <2>7. CASE opt = "abort"
    <3>1. /\ DOMAIN w = {1, 2, 3} /\ w[1].entry = e /\ w[1].man = m0
          /\ w[2].entry = f /\ w[2].man = m1
          /\ w[3].entry = Finished("aborted") /\ w[3].man = m1
      BY <2>6, <2>7
    <3>2. QED BY <2>2, <2>3, <2>4, <2>5, <2>7, <3>1 DEF Deciding, Forms, f
  <2>8. CASE opt # "abort"
    <3>1. /\ DOMAIN w = {1, 2} /\ w[1].entry = e /\ w[1].man = m0
          /\ w[2].entry = f /\ w[2].man = m1
      BY <2>6, <2>8
    <3>2. QED BY <2>2, <2>3, <2>4, <2>5, <2>8, <3>1 DEF Deciding, Forms, f
  <2>9. QED BY <2>7, <2>8
\* An attempt's outcome, and the manifest n it leaves.
<1>7. ASSUME NEW out \in Key \cup {"ok"}, NEW n, n = Settle(man[k], out),
             NEW e, e = Ended(man[k].unit, out),
             man[k].state = "running", Restored(k) \/ (lock = k /\ todo = <<>>),
             \/ w = <<[entry |-> e, man |-> n]>> /\ Missing(n, Append(log[k], e)) = {}
             \/ \E d \in Missing(n, Append(log[k], e)) :
                  w = <<[entry |-> e, man |-> n], [entry |-> d, man |-> n]>>
      PROVE  Forms(k, w)
  <2>1. man[k].unit = Standing(man[k]) /\ man[k].unit \in Unit
    BY <1>1, <1>7, RunningUnit
  <2>2. e \in SoundEntry /\ e.kind \in OutcomeKind /\ e.unit = Standing(man[k])
    BY <1>7, <2>1, EndedSound
  <2>3. /\ Holds(man[k], n)
        /\ \/ n.state \in {"waiting", "succeeded"}
           \/ /\ n.state = "needs-decision"
              /\ n.question.step = man[k].step /\ n.question.attempt = man[k].attempt
    BY <1>1, <1>7, SettleFields
  <2>4. e.unit[1] = man[k].step
    BY <2>2 DEF Standing
  <2>5. CASE n.state = "waiting"
    <3>1. Missing(n, Append(log[k], e)) = {}
      BY <1>1, <2>2, <2>5, SettledMissing
    <3>2. w = <<[entry |-> e, man |-> n]>>
      BY <1>7, <3>1
    <3>3. DOMAIN w = {1} /\ w[1].entry = e /\ w[1].man = n
      BY <3>2
    <3>4. QED BY <1>7, <2>1, <2>2, <2>3, <2>5, <3>3 DEF Folding, Forms
  <2>6. CASE n.state = "succeeded"
    <3>1. Missing(n, Append(log[k], e)) = {Finished("succeeded")}
      BY <1>1, <2>2, <2>6, SettledMissing
    <3>2. w = <<[entry |-> e, man |-> n], [entry |-> Finished("succeeded"), man |-> n]>>
      BY <1>7, <3>1
    <3>3. /\ DOMAIN w = {1, 2} /\ w[1].entry = e /\ w[1].man = n /\ w[2].man = n
          /\ w[2].entry = Finished("succeeded")
      BY <3>2
    <3>4. QED BY <1>7, <2>1, <2>2, <2>3, <2>6, <3>3 DEF Folding, Forms
  <2>7. CASE /\ n.state = "needs-decision"
             /\ n.question.step = man[k].step /\ n.question.attempt = man[k].attempt
    <3>1. Missing(n, Append(log[k], e)) = {Asked(n.question)}
      BY <1>1, <2>2, <2>4, <2>7, SettledMissing
    <3>2. w = <<[entry |-> e, man |-> n], [entry |-> Asked(n.question), man |-> n]>>
      BY <1>7, <3>1
    <3>3. /\ DOMAIN w = {1, 2} /\ w[1].entry = e /\ w[1].man = n /\ w[2].man = n
          /\ w[2].entry = Asked(n.question)
      BY <3>2
    <3>4. <<n.question.step, n.question.attempt>> = Standing(man[k])
      BY <2>7 DEF Standing
    <3>5. QED BY <1>7, <2>1, <2>2, <2>3, <2>7, <3>3, <3>4 DEF Folding, Forms
  <2>8. QED BY <2>3, <2>5, <2>6, <2>7
<1>8. CASE FoldWrites(k, w)
  BY <1>7, <1>8 DEF FoldWrites
<1>9. CASE AskWrites(k, w)
  <2> DEFINE n == Settle(man[k], "failed")
             e == Ended(man[k].unit, "failed")
  <2>1. "failed" \in Key \cup {"ok"} /\ n = SetQuestion(man[k], "failed")
    BY DEF Key, Settle
  <2>2. /\ lock = k /\ todo = <<>>
        /\ w = <<[entry |-> e, man |-> n], [entry |-> Asked(n.question), man |-> n]>>
    BY <1>9, <2>1 DEF AskWrites
  <2>3. man[k].state = "running"
    BY <2>2 DEF Inv, Order, JobInv, Locked, Launchable
  <2>4. /\ man[k].unit \in Unit /\ man[k].unit = Standing(man[k])
        /\ e \in SoundEntry /\ e.kind \in OutcomeKind /\ e.unit = man[k].unit
    BY <1>1, <2>3, RunningUnit, EndedSound
  <2>5. e.unit[1] = man[k].step
    BY <2>4 DEF Standing
  <2> HIDE DEF n, e
  <2>6. n.state = "needs-decision" /\ n.question.step = man[k].step
    BY <1>1, <2>1 DEF SetQuestion, SoundManifest, Manifest
  <2>7. Missing(n, Append(log[k], e)) = {Asked(n.question)}
    BY <1>1, <2>4, <2>6, <2>5, SettledMissing
  <2>8. n = Settle(man[k], "failed") /\ e = Ended(man[k].unit, "failed")
    BY DEF n, e
  <2>9. QED BY <1>7, <2>1, <2>2, <2>3, <2>7, <2>8
<1>10. CASE AbandonWrites(k, w)
  BY <1>10 DEF AbandonWrites
<1>11. QED
  BY <1>2, <1>3, <1>4, <1>5, <1>6, <1>8, <1>9, <1>10 DEF Means

---------------------------------------------------------------------------
(* Each attempt's outcome is logged once. *)

OnceIn(l) ==
  \A i, h \in DOMAIN l :
    l[i].kind \in OutcomeKind /\ l[h].kind \in OutcomeKind /\ l[i].unit = l[h].unit => i = h

\* The manifest m does not run an attempt whose outcome the log l holds.
Unlogged(m, l) == m.state = "running" => Standing(m) \notin Logged(l)

Once(k) ==
  /\ OnceIn(log[k])
  /\ Present(k) => Unlogged(man[k], log[k]) \/ Folded(k)
  /\ lock = k =>
       /\ \A i \in DOMAIN todo : Unlogged(todo[i].man, log[k])
       /\ ~Ahead(k) => Unlogged(man[k], log[k])

\* An entry that is no outcome, or a new attempt's, keeps a log's outcomes apart.
LEMMA OnceAppend ==
  ASSUME NEW l \in Seq(SoundEntry), NEW e \in SoundEntry, OnceIn(l),
         e.kind \in OutcomeKind => e.unit \notin Logged(l)
  PROVE  OnceIn(Append(l, e))
<1> DEFINE a == Append(l, e)
<1>1. /\ DOMAIN a = DOMAIN l \cup {Len(l) + 1} /\ a[Len(l) + 1] = e
      /\ \A i \in DOMAIN l : a[i] = l[i]
  BY AppendProperties
<1> HIDE DEF a
<1>2. SUFFICES ASSUME NEW i \in DOMAIN a, NEW h \in DOMAIN a,
                      a[i].kind \in OutcomeKind, a[h].kind \in OutcomeKind, a[i].unit = a[h].unit
               PROVE  i = h
  BY DEF OnceIn, a
<1>3. \A n \in DOMAIN l : l[n].kind \in OutcomeKind => l[n].unit \in Logged(l)
  BY DEF Logged
<1>4. QED BY <1>1, <1>2, <1>3 DEF OnceIn

\* The entry of the Append about to be written is no outcome.
LEMMA NextIsNoOutcome ==
  ASSUME Inv, NEW k \in Job, Writes(k)
  PROVE  /\ 1 \in DOMAIN todo /\ todo[1].entry \in SoundEntry
         /\ todo[1].entry.kind \notin OutcomeKind
<1>1. 1 \in DOMAIN todo /\ todo[1].entry \in SoundEntry
  BY JobTypes, HeadWrite DEF Writes
<1>2. PendingWrite(k, 1)
  BY <1>1 DEF Inv, Order, JobInv, Pending, Writes
<1>3. QED BY <1>1, <1>2 DEF PendingWrite, Writes

\* A manifest that stands where another stands, and runs only if it runs.
LEMMA KeepsUnlogged ==
  ASSUME NEW l, NEW m, NEW n, n.state = m.state, n.step = m.step, n.attempt = m.attempt,
         Unlogged(m, l)
  PROVE  Unlogged(n, l)
BY DEF Unlogged, Standing

\* Attempts that log no outcome leave the outcomes logged as they were.
LEMMA OpensOnce ==
  ASSUME Inv, Inv', NEW k \in Job, NEW w, Opens(k, w), Forms(k, w), Once(k)
  PROVE  Once(k)'
<1>1. /\ log[k] \in Seq(SoundEntry) /\ man[k] \in SoundManifest /\ w \in Seq(SoundWrite)
      /\ w[1].entry \in SoundEntry /\ 1 \in DOMAIN w
      /\ log'[k] = Append(log[k], w[1].entry) /\ todo' = w /\ man'[k] = man[k]
      /\ Present(k) /\ ~Ahead(k) /\ Ahead(k)' /\ lock' = k
  BY JobTypes, HeadWrite DEF Opens
<1>2. Logged(log'[k]) = Logged(log[k]) \cup
        (IF w[1].entry.kind \in OutcomeKind THEN {w[1].entry.unit} ELSE {})
  BY <1>1, LoggedAppend
<1>3. CASE Folding(k, w)
  <2>1. /\ man[k].state = "running" /\ man[k].unit = Standing(man[k])
        /\ w[1].entry.kind \in OutcomeKind /\ w[1].entry.unit = Standing(man[k])
        /\ Restored(k) \/ lock = k
    BY <1>3 DEF Folding
  <2>2. Standing(man[k]) \notin Logged(log[k])
    BY <1>1, <2>1 DEF Restored, Once, Unlogged
  <2>3. OnceIn(log'[k])
    BY <1>1, <2>1, <2>2, OnceAppend DEF Once
  <2>4. Folded(k)'
    <3>1. log'[k] # <<>> /\ log'[k][Len(log'[k])] = w[1].entry
      BY <1>1, EntriesAppend
    <3>2. QED BY <1>1, <2>1, <3>1 DEF Folded, Last
  <2>5. \A i \in DOMAIN w : w[i].man.state # "running"
    BY <1>3 DEF Folding
  <2>6. QED BY <1>1, <2>3, <2>4, <2>5 DEF Once, Unlogged
<1>4. CASE ~Folding(k, w)
  <2>1. w[1].entry.kind \notin OutcomeKind
    <3>1. CASE Repairing(k, w)
      BY <3>1, MissingEntries DEF Repairing, Asked, Finished, Taken, Released, Blank, OutcomeKind
    <3>2. CASE Leasing(k, w)
      BY <3>2 DEF Leasing, Intent, Blank, OutcomeKind
    <3>3. CASE Advancing(k, w) \/ Deciding(k, w)
      BY <3>3 DEF Advancing, Deciding, OutcomeKind
    <3>4. QED BY <1>4, <3>1, <3>2, <3>3 DEF Forms
  <2>2. Logged(log'[k]) = Logged(log[k]) /\ OnceIn(log'[k])
    BY <1>1, <1>2, <2>1, OnceAppend DEF Once
  <2>3. Unlogged(man[k], log[k])
    <3>1. ~Folded(k)
      <4>1. CASE Repairing(k, w)
        BY <4>1 DEF Repairing
      <4>2. CASE Leasing(k, w)
        BY <4>2 DEF Leasing, LeaseReady, Restored
      <4>3. CASE Advancing(k, w) \/ Deciding(k, w)
        BY <4>3 DEF Advancing, Deciding, Folded
      <4>4. QED BY <1>4, <4>1, <4>2, <4>3 DEF Forms
    <3>2. QED BY <1>1, <3>1 DEF Once
  <2>4. ASSUME NEW i \in DOMAIN w
        PROVE  Unlogged(w[i].man, log[k])
    <3>1. CASE Repairing(k, w)
      BY <2>3, <2>4, <3>1 DEF Repairing
    <3>2. CASE Leasing(k, w)
      BY <2>3, <2>4, <3>2, KeepsUnlogged DEF Leasing, Keeps
    <3>3. CASE Deciding(k, w)
      BY <2>4, <3>3 DEF Deciding, Keeps, Unlogged
    <3>4. CASE Advancing(k, w)
      <4>1. i = 1 => w[i].man.state = "waiting"
        BY <3>4 DEF Advancing, Keeps
      <4>2. i # 1 => Standing(w[i].man) = Standing(man[k])
        BY <2>4, <3>4 DEF Advancing
      <4>3. Standing(man[k]) \notin Logged(log[k])
        <5>1. man[k].state = "waiting" /\ Reached(Spent(k), man[k])
          BY <1>1, <3>4 DEF Advancing, Inv, Order, JobInv, Placed
        <5>2. ~Earlier(Standing(man[k]), man[k])
          BY <1>1 DEF Earlier, Standing, SoundManifest, Manifest, Attempt
        <5>3. QED BY <5>1, <5>2 DEF Reached, Spent
      <4>4. QED BY <4>1, <4>2, <4>3 DEF Unlogged
    <3>5. QED BY <1>4, <3>1, <3>2, <3>3, <3>4 DEF Forms
  <2>5. QED BY <1>1, <2>2, <2>3, <2>4 DEF Once, Unlogged
<1>5. QED BY <1>3, <1>4

\* An outcome logged stays the only one of its attempt.
LEMMA OnceNext ==
  ASSUME Inv, Inv', NEW k \in Job, Does(k), Once(k), "abandon" \notin Fault
  PROVE  Once(k)'
<1>1. log[k] \in Seq(SoundEntry) /\ man[k] \in SoundManifest /\ todo \in Seq(SoundWrite)
  BY JobTypes
<1>2. CASE Idles(k)
  BY <1>2, KeepsUnlogged DEF Idles, Same, Once, Present, Folded, Last
<1>3. CASE Writes(k)
  <2>1. OnceIn(log'[k]) /\ Logged(log'[k]) = Logged(log[k])
    BY <1>1, <1>3, NextIsNoOutcome, OnceAppend, LoggedAppend DEF Writes, Once
  <2>2. QED BY <1>3, <2>1 DEF Writes, Once, Unlogged
<1>4. CASE Saves(k)
  <2>1. 1 \in DOMAIN todo /\ Unlogged(todo[1].man, log[k])
    BY <1>1, <1>4, HeadWrite DEF Saves, Once
  <2>2. Unlogged(man'[k], log[k])
    BY <1>4, <2>1, KeepsUnlogged DEF Saves, Same
  <2>3. ASSUME lock' = k, NEW i \in DOMAIN todo'
        PROVE  Unlogged(todo'[i].man, log[k])
    <3>1. todo' = Tail(todo) /\ lock = k /\ todo # <<>>
      BY <1>4, <2>3 DEF Saves
    <3>2. i + 1 \in DOMAIN todo /\ todo'[i] = todo[i + 1]
      BY <1>1, <2>3, <3>1
    <3>3. QED BY <3>1, <3>2 DEF Once
  <2>4. QED BY <1>4, <2>2, <2>3 DEF Saves, Once
<1>5. ASSUME NEW out \in Key \cup {"ok"}, Refolds(k, out)
      PROVE  Once(k)'
  <2>1. man'[k].state # "running"
    BY <1>1, <1>5, SettleFields DEF Refolds, Same, Folded
  <2>2. QED BY <1>5, <2>1 DEF Refolds, Once, Unlogged
<1>6. CASE Reapplies(k)
  <2>1. man'[k].state # "running"
    BY <1>1, <1>6 DEF Reapplies, Same, DecideState, SoundManifest, Manifest
  <2>2. QED BY <1>6, <2>1 DEF Reapplies, Once, Unlogged
<1>7. CASE Leaves(k)
  BY <1>7 DEF Leaves, Present, Once, OnceIn
<1>8. ASSUME NEW c \in Controller, Begins(k, c)
      PROVE  Once(k)'
  <2> DEFINE n == NewManifest(c)
             b == [entry |-> Created(c), man |-> n]
  <2>1. n.state = "waiting" /\ b.man = n
    BY DEF NewManifest
  <2>2. todo' = <<b>> /\ man'[k] = n /\ log'[k] = <<>>
    BY <1>8 DEF Begins
  <2> HIDE DEF n, b
  <2>3. QED BY <2>1, <2>2 DEF Once, OnceIn, Unlogged
<1>9. ASSUME NEW w, Opens(k, w), Means(k, w)
      PROVE  Once(k)'
  BY <1>9, MeansForms, OpensOnce
<1>10. QED
  BY <1>2, <1>3, <1>4, <1>5, <1>6, <1>7, <1>8, <1>9 DEF Does

\* The outcomes in every job's log are apart.
LEMMA OnceInvariance ==
  ASSUME "abandon" \notin Fault
  PROVE  Spec => [](\A k \in Job : Once(k))
<1> DEFINE All == \A k \in Job : Once(k)
<1>1. Init => All
  <2>1. ASSUME Init, NEW k \in Job
        PROVE  Once(k)
    <3>1. log[k] = <<>> /\ lock # k /\ ~Present(k)
      BY <2>1, ConstantsOK DEF Init, Present
    <3>2. QED BY <3>1 DEF Once, OnceIn
  <2>2. QED BY <2>1
<1>2. ASSUME Inv, Inv', [Next]_vars, All
      PROVE  All'
  BY <1>2, JobCases, OnceNext
<1> HIDE DEF All
<1>3. Spec => []All
  BY <1>1, <1>2, Invariance, PTL DEF Spec
<1>4. QED BY <1>3 DEF All

\* Each attempt folds once: however often a crash, a failed write or a lost
\* result makes the agent fold again, no log holds two outcomes of an attempt.
THEOREM OutcomesAreOnce ==
  ASSUME "abandon" \notin Fault
  PROVE  Spec => []OutcomeOnce
<1>1. ASSUME \A k \in Job : Once(k)
      PROVE  OutcomeOnce
  BY <1>1 DEF OutcomeOnce, Once, OnceIn
<1>2. QED BY <1>1, OnceInvariance, PTL

---------------------------------------------------------------------------
(* A finished log says nothing more of the job. *)

\* What each entry says.
LEMMA EntryFields ==
  /\ \A c : Created(c).kind = "job.created"
  /\ \A c, op : Intent(c, op).kind = "intent" /\ Intent(c, op).out = op
  /\ \A c : Taken(c).kind = "lease.taken" /\ Taken(c).who = c
  /\ Released.kind = "lease.released"
  /\ \A u : Started(u).kind = "step.started" /\ Started(u).unit = u
  /\ \A q : Asked(q).kind = "decision.asked" /\ Asked(q).q = q
  /\ \A q, c, opt : /\ Answered(q, c, opt).kind = "decision.answered"
                    /\ Answered(q, c, opt).q = q /\ Answered(q, c, opt).out = opt
  /\ \A st : Finished(st).kind = "job.finished" /\ Finished(st).out = st
<1> USE DEF Blank
<1>1. \A c : Created(c).kind = "job.created"
  BY DEF Created
<1>2. \A c, op : Intent(c, op).kind = "intent" /\ Intent(c, op).out = op
  BY DEF Intent
<1>3. \A c : Taken(c).kind = "lease.taken" /\ Taken(c).who = c
  BY DEF Taken
<1>4. Released.kind = "lease.released"
  BY DEF Released
<1>5. \A u : Started(u).kind = "step.started" /\ Started(u).unit = u
  BY DEF Started
<1>6. \A q : Asked(q).kind = "decision.asked" /\ Asked(q).q = q
  BY DEF Asked
<1>7. \A q, c, opt : /\ Answered(q, c, opt).kind = "decision.answered"
                     /\ Answered(q, c, opt).q = q /\ Answered(q, c, opt).out = opt
  BY DEF Answered
<1>8. \A st : Finished(st).kind = "job.finished" /\ Finished(st).out = st
  BY DEF Finished
<1>9. QED BY <1>1, <1>2, <1>3, <1>4, <1>5, <1>6, <1>7, <1>8

LeaseTalk(e) ==
  e.kind \in LeaseKind \/ (e.kind = "intent" /\ e.out \in {"lease take", "lease release"})

\* The lease's own entries.
LEMMA LeaseEntries ==
  /\ \A c : LeaseTalk(Intent(c, "lease take")) /\ LeaseTalk(Intent(c, "lease release"))
  /\ \A c : LeaseTalk(Taken(c))
  /\ LeaseTalk(Released)
<1>0. \A c, op : Intent(c, op).kind = "intent" /\ Intent(c, op).out = op
  BY EntryFields
<1>1. \A c : LeaseTalk(Intent(c, "lease take")) /\ LeaseTalk(Intent(c, "lease release"))
  <2>1. ASSUME NEW c, NEW op \in {"lease take", "lease release"}
        PROVE  LeaseTalk(Intent(c, op))
    BY <1>0, Zenon DEF LeaseTalk
  <2>2. QED BY <2>1, Zenon
<1>2. (\A c : LeaseTalk(Taken(c))) /\ LeaseTalk(Released)
  BY EntryFields, Zenon DEF LeaseTalk, LeaseKind
<1>3. QED BY <1>1, <1>2

Ends(e) == e.kind = "job.finished"
Over(l) == \E i \in DOMAIN l : Ends(l[i])

\* After its end a log talks of the lease alone.
EndIn(l) ==
  \A i \in DOMAIN l : Ends(l[i]) =>
    /\ l[i].out \in {"succeeded", "aborted"}
    /\ \A h \in DOMAIN l : h > i => LeaseTalk(l[h])

\* It ended in the state st.
EndsIn(l, st) == \A i \in DOMAIN l : Ends(l[i]) => l[i].out = st

\* A job's end is the last Append of an operation, and of a job that the
\* manifest saved just before has ended.
EndingWrite(w, i, st) ==
  Ends(w[i].entry) =>
    /\ i = Len(w) /\ w[i].entry.out = w[i].man.state
    /\ w[i].entry.out \in {"succeeded", "aborted"}
    /\ i = 1 => w[i].entry.out = st
    /\ i > 1 => w[i].entry.out = w[i - 1].man.state

Ending(k) ==
  /\ EndIn(log[k])
  /\ Present(k) => EndsIn(log[k], man[k].state)
  /\ lock = k => \A i \in DOMAIN todo :
       /\ Over(log[k]) => /\ todo[i].man.state = man[k].state
                          /\ i > 1 \/ ~Ahead(k) => LeaseTalk(todo[i].entry)
       /\ EndingWrite(todo, i, man[k].state)

\* A log that may be written on.
LEMMA EndAppend ==
  ASSUME NEW l \in Seq(SoundEntry), NEW e \in SoundEntry, EndIn(l), NEW st, EndsIn(l, st),
         Over(l) => LeaseTalk(e), Ends(e) => e.out \in {"succeeded", "aborted"} /\ e.out = st
  PROVE  /\ EndIn(Append(l, e)) /\ EndsIn(Append(l, e), st)
         /\ Over(Append(l, e)) => Over(l) \/ Ends(e)
<1> DEFINE a == Append(l, e)
<1>1. /\ DOMAIN a = DOMAIN l \cup {Len(l) + 1} /\ a[Len(l) + 1] = e
      /\ \A i \in DOMAIN l : a[i] = l[i]
      /\ \A i \in DOMAIN l : ~(i > Len(l) + 1) /\ ~(Len(l) + 1 > Len(l) + 1)
      /\ ~(Len(l) + 1 > Len(l) + 1)
  <2>1. DOMAIN a = DOMAIN l \cup {Len(l) + 1} /\ a[Len(l) + 1] = e /\ \A i \in DOMAIN l : a[i] = l[i]
    BY AppendProperties
  <2>2. Len(l) \in Nat /\ DOMAIN l = 1 .. Len(l)
    OBVIOUS
  <2>3. QED BY <2>1, <2>2
<1> HIDE DEF a
<1>2. EndIn(a)
  BY <1>1 DEF EndIn, Over
<1>3. EndsIn(a, st) /\ (Over(a) => Over(l) \/ Ends(e))
  BY <1>1 DEF EndsIn, Over
<1>4. QED BY <1>2, <1>3 DEF a

\* What a log that is over ends with, and how its job stands.
LEMMA OverState ==
  ASSUME NEW l \in Seq(SoundEntry), EndIn(l), NEW st, EndsIn(l, st), Over(l)
  PROVE  /\ st \in {"succeeded", "aborted"}
         /\ Ends(l[Len(l)]) \/ LeaseTalk(l[Len(l)])
<1>1. PICK i \in DOMAIN l : Ends(l[i])
  BY DEF Over
<1>2. st \in {"succeeded", "aborted"}
  BY <1>1 DEF EndIn, EndsIn
<1>3. i = Len(l) \/ (Len(l) > i /\ Len(l) \in DOMAIN l)
  OBVIOUS
<1>4. QED BY <1>1, <1>2, <1>3 DEF EndIn

\* Nothing is folded into, asked of or decided on a job whose log is over.
LEMMA OpensEnding ==
  ASSUME Inv, Inv', NEW k \in Job, NEW w, Opens(k, w), Forms(k, w), Ending(k)
  PROVE  Ending(k)'
<1> DEFINE e == w[1].entry
<1>1. /\ log[k] \in Seq(SoundEntry) /\ man[k] \in SoundManifest /\ w \in Seq(SoundWrite)
      /\ e \in SoundEntry /\ 1 \in DOMAIN w /\ todo' = w
      /\ log'[k] = Append(log[k], e) /\ man'[k] = man[k]
      /\ Present(k) /\ Ahead(k)'
  BY JobTypes, HeadWrite DEF Opens
<1>2. EndIn(log[k]) /\ EndsIn(log[k], man[k].state)
  BY <1>1 DEF Ending
<1>3. /\ Len(w) \in DOMAIN w
      /\ \A i \in DOMAIN w : i \in Nat /\ 1 <= i /\ i <= Len(w)
  BY <1>1
<1> HIDE DEF e
\* It is enough that the Appends fit the log there was.
<1>4. ASSUME Over(log[k]) => /\ \A i \in DOMAIN w : w[i].man.state = man[k].state
                             /\ \A i \in DOMAIN w : LeaseTalk(w[i].entry),
             \A i \in DOMAIN w : EndingWrite(w, i, man[k].state)
      PROVE  Ending(k)'
  <2>1. Over(log[k]) => LeaseTalk(e)
    BY <1>1, <1>4 DEF e
  <2>2. Ends(e) => /\ Len(w) = 1 /\ e.out = w[1].man.state
                   /\ e.out = man[k].state /\ e.out \in {"succeeded", "aborted"}
    BY <1>1, <1>4 DEF EndingWrite, e
  <2>3. /\ EndIn(log'[k]) /\ EndsIn(log'[k], man'[k].state)
        /\ Over(log'[k]) => Over(log[k]) \/ Ends(e)
    BY <1>1, <1>2, <2>1, <2>2, EndAppend
  <2>4. ASSUME NEW i \in DOMAIN w, Over(log'[k])
        PROVE  w[i].man.state = man[k].state /\ (i > 1 => LeaseTalk(w[i].entry))
    <3>1. CASE Over(log[k])
      BY <1>4, <2>4, <3>1
    <3>2. CASE Ends(e)
      <4>1. i = 1
        BY <1>3, <2>2, <2>4, <3>2
      <4>2. QED BY <2>2, <3>2, <4>1
    <3>3. QED BY <2>3, <2>4, <3>1, <3>2
  <2>5. QED BY <1>1, <1>4, <2>3, <2>4 DEF Ending
<1>5. man[k].state \notin {"succeeded", "aborted"} => ~Over(log[k])
  BY <1>1, <1>2, OverState
<1>6. CASE Repairing(k, w)
  <2>1. /\ e \in Missing(man[k], log[k]) /\ w[1].man = man[k] /\ DOMAIN w = {1} /\ w[1].entry = e
    BY <1>6 DEF Repairing, e
  <2>2. /\ log[k] # <<>> /\ Completes(e, log[k][Len(log[k])], man[k], log[k])
    BY <2>1, MissingEntries
  <2>3. CASE e = Asked(man[k].question) /\ AskUnlogged(man[k], log[k][Len(log[k])])
    <3>1. ~Over(log[k]) /\ ~Ends(e)
      BY <1>5, <2>3, EntryFields DEF AskUnlogged, Ends
    <3>2. QED BY <1>4, <2>1, <3>1 DEF EndingWrite
  <2>4. CASE e = Finished(man[k].state) /\ EndUnlogged(man[k], log[k][Len(log[k])])
    <3>1. ~Over(log[k])
      BY <1>1, <1>2, <2>4, OverState DEF EndUnlogged, OutcomeKind, Ends, LeaseTalk, LeaseKind
    <3>2. e.out = man[k].state /\ man[k].state \in {"succeeded", "aborted"}
      BY <2>4, EntryFields DEF EndUnlogged
    <3>3. Len(w) = 1
      BY <1>3, <2>1
    <3>4. QED BY <1>4, <2>1, <3>1, <3>2, <3>3 DEF EndingWrite
  <2>5. CASE e = Taken(man[k].owner) \/ e = Released
    <3>1. LeaseTalk(e) /\ ~Ends(e)
      BY <2>5, LeaseEntries, EntryFields DEF Ends
    <3>2. QED BY <1>4, <2>1, <3>1 DEF EndingWrite
  <2>6. QED BY <2>2, <2>3, <2>4, <2>5 DEF Completes
<1>7. CASE Leasing(k, w)
  <2>1. ASSUME NEW i \in DOMAIN w
        PROVE  LeaseTalk(w[i].entry) /\ ~Ends(w[i].entry) /\ w[i].man.state = man[k].state
    <3>1. i = 1 \/ i = 2
      BY <1>7, <2>1 DEF Leasing
    <3>2. w[i].man.state = man[k].state
      BY <1>7, <3>1 DEF Leasing, Keeps
    <3>3. \E c \in Controller :
             w[i].entry \in {Intent(c, "lease take"), Intent(c, "lease release"), Taken(c), Released}
      BY <1>7, <3>1, Zenon DEF Leasing
    <3>4. LeaseTalk(w[i].entry)
      BY <3>3, LeaseEntries, Zenon
    <3>5. ~Ends(w[i].entry)
      BY <3>4, Zenon DEF LeaseTalk, LeaseKind, Ends
    <3>6. QED BY <3>2, <3>4, <3>5
  <2>2. QED BY <1>4, <2>1 DEF EndingWrite
<1>8. CASE Advancing(k, w)
  <2>1. ~Over(log[k])
    BY <1>5, <1>8 DEF Advancing
  <2>2. \A i \in DOMAIN w : ~Ends(w[i].entry)
    BY <1>8, EntryFields DEF Advancing, Ends
  <2>3. QED BY <1>4, <2>1, <2>2 DEF EndingWrite
<1>9. CASE Deciding(k, w)
  <2>1. ~Over(log[k])
    BY <1>5, <1>9 DEF Deciding
  <2>2. ~Ends(w[1].entry) /\ ~Ends(w[2].entry)
    BY <1>9, EntryFields DEF Deciding, Ends
  <2>3. ASSUME NEW i \in DOMAIN w, Ends(w[i].entry)
        PROVE  EndingWrite(w, i, man[k].state)
    <3>1. /\ i = 3 /\ DOMAIN w = {1, 2, 3} /\ w[2].man.state = "aborted"
          /\ w[3].entry = Finished("aborted") /\ w[3].man = w[2].man
      BY <1>9, <2>2, <2>3 DEF Deciding
    <3>2. Len(w) = 3 /\ 3 - 1 = 2
      BY <1>3, <3>1
    <3>3. QED BY <3>1, <3>2, EntryFields DEF EndingWrite
  <2>4. QED BY <1>4, <2>1, <2>3 DEF EndingWrite
<1>10. CASE Folding(k, w)
  <2>1. ~Over(log[k])
    BY <1>5, <1>10 DEF Folding
  <2>2. ~Ends(w[1].entry)
    BY <1>10 DEF Folding, Ends, OutcomeKind
  <2>3. ASSUME NEW i \in DOMAIN w, Ends(w[i].entry)
        PROVE  EndingWrite(w, i, man[k].state)
    <3>1. /\ i = 2 /\ DOMAIN w = {1, 2} /\ w[1].man.state = "succeeded"
          /\ w[2].entry = Finished("succeeded") /\ w[2].man = w[1].man
      BY <1>10, <2>2, <2>3, EntryFields DEF Folding, Ends
    <3>2. Len(w) = 2 /\ 2 - 1 = 1
      BY <1>3, <3>1
    <3>3. QED BY <3>1, <3>2, EntryFields DEF EndingWrite
  <2>4. QED BY <1>4, <2>1, <2>3 DEF EndingWrite
<1>11. QED BY <1>6, <1>7, <1>8, <1>9, <1>10 DEF Forms

\* A log that is over stays so.
LEMMA EndingNext ==
  ASSUME Inv, Inv', NEW k \in Job, Does(k), Ending(k), "abandon" \notin Fault
  PROVE  Ending(k)'
<1>1. log[k] \in Seq(SoundEntry) /\ man[k] \in SoundManifest /\ todo \in Seq(SoundWrite)
  BY JobTypes
<1>2. CASE Idles(k)
  BY <1>2 DEF Idles, Same, Ending, Present
<1>3. CASE Writes(k)
  <2> DEFINE e == todo[1].entry
  <2>1. 1 \in DOMAIN todo /\ e \in SoundEntry /\ lock = k /\ ~Ahead(k) /\ Present(k)
    BY <1>1, <1>3, HeadWrite DEF Writes
  <2>2. /\ Over(log[k]) => LeaseTalk(e)
        /\ EndingWrite(todo, 1, man[k].state)
    BY <2>1 DEF Ending
  <2>3. Ends(e) => /\ Len(todo) = 1 /\ e.out = todo[1].man.state
                   /\ e.out = man[k].state /\ e.out \in {"succeeded", "aborted"}
    BY <2>2 DEF EndingWrite
  <2>4. log'[k] = Append(log[k], e) /\ man'[k] = man[k] /\ todo' = todo /\ Ahead(k)'
    BY <1>3 DEF Writes
  <2>5. DOMAIN todo = 1 .. Len(todo)
    BY <1>1
  <2> HIDE DEF e
  <2>6. /\ EndIn(log'[k]) /\ EndsIn(log'[k], man'[k].state)
        /\ Over(log'[k]) => Over(log[k]) \/ Ends(e)
    BY <1>1, <2>1, <2>2, <2>3, <2>4, EndAppend DEF Ending
  <2>7. ASSUME NEW i \in DOMAIN todo, Over(log'[k])
        PROVE  todo[i].man.state = man[k].state /\ (i > 1 => LeaseTalk(todo[i].entry))
    <3>1. CASE Over(log[k])
      BY <2>1, <2>7, <3>1 DEF Ending
    <3>2. CASE Ends(e)
      <4>1. i = 1
        BY <2>3, <2>5, <2>7, <3>2
      <4>2. QED BY <2>3, <3>2, <4>1
    <3>3. QED BY <2>6, <2>7, <3>1, <3>2
  <2>8. QED BY <2>1, <2>4, <2>6, <2>7 DEF Ending
<1>4. CASE Saves(k)
  <2>1. 1 \in DOMAIN todo /\ Present(k) /\ lock = k /\ todo # <<>> /\ log'[k] = log[k]
    BY <1>1, <1>4, HeadWrite DEF Saves
  <2>2. man'[k].state = todo[1].man.state
    BY <1>4 DEF Saves, Same
  <2>3. Over(log[k]) => man'[k].state = man[k].state
    BY <2>1, <2>2 DEF Ending
  <2>4. EndsIn(log[k], man'[k].state)
    BY <2>1, <2>3 DEF Ending, EndsIn, Over
  <2>5. ASSUME lock' = k, NEW i \in DOMAIN todo'
        PROVE  /\ Over(log[k]) => /\ todo'[i].man.state = man'[k].state
                                  /\ LeaseTalk(todo'[i].entry)
               /\ EndingWrite(todo', i, man'[k].state)
    <3>1. todo' = Tail(todo) /\ Len(todo) \in Nat
      BY <1>1, <1>4, <2>5 DEF Saves
    <3>2. /\ i \in Nat /\ i + 1 \in DOMAIN todo /\ todo'[i] = todo[i + 1] /\ i > 0
          /\ i + 1 = Len(todo) => i = Len(todo') /\ i + 1 > 1 /\ (i + 1) - 1 = i
          /\ i > 1 => todo'[i - 1] = todo[i]
      BY <1>1, <2>1, <2>5, <3>1
    <3>3. i + 1 > 1 /\ (i = 1 \/ i > 1) /\ (i + 1) - 1 = i
      BY <3>2
    <3>4. /\ Over(log[k]) => /\ todo[i + 1].man.state = man[k].state
                             /\ LeaseTalk(todo[i + 1].entry)
          /\ EndingWrite(todo, i + 1, man[k].state)
      BY <2>1, <3>2, <3>3 DEF Ending
    <3>5. EndingWrite(todo', i, man'[k].state)
      BY <2>2, <3>2, <3>3, <3>4 DEF EndingWrite
    <3>6. QED BY <2>3, <3>2, <3>4, <3>5
  <2>6. QED BY <1>4, <2>1, <2>4, <2>5 DEF Saves, Ending
<1>5. CASE Reapplies(k) \/ \E out \in Key \cup {"ok"} : Refolds(k, out)
  <2>1. /\ Present(k) /\ man[k].state \in {"running", "needs-decision"}
        /\ lock' # k /\ log'[k] = log[k]
    BY <1>5 DEF Reapplies, Refolds, AnswerLogged, Folded
  <2>2. ~Over(log[k])
    BY <1>1, <2>1, OverState DEF Ending
  <2>3. QED BY <2>1, <2>2 DEF Ending, Over, EndsIn
<1>6. CASE Leaves(k)
  BY <1>6 DEF Leaves, Present, Ending, EndIn
<1>7. ASSUME NEW c \in Controller, Begins(k, c)
      PROVE  Ending(k)'
  <2> DEFINE n == NewManifest(c)
             b == [entry |-> Created(c), man |-> n]
  <2>1. ~Ends(b.entry)
    BY EntryFields DEF Ends
  <2>2. todo' = <<b>> /\ log'[k] = <<>>
    BY <1>7 DEF Begins
  <2> HIDE DEF n, b
  <2>3. QED BY <2>1, <2>2 DEF Ending, EndIn, EndsIn, Over, EndingWrite
<1>8. ASSUME NEW w, Opens(k, w), Means(k, w)
      PROVE  Ending(k)'
  BY <1>8, MeansForms, OpensEnding
<1>9. QED
  BY <1>2, <1>3, <1>4, <1>5, <1>6, <1>7, <1>8 DEF Does

\* After job.finished a log holds only lease changes, and the manifest is
\* finished in the state that entry says.
THEOREM FinishedIsLast ==
  ASSUME "abandon" \notin Fault
  PROVE  Spec => []NothingAfterFinished
<1> DEFINE All == \A k \in Job : Ending(k)
<1>1. Init => All
  <2>1. ASSUME Init, NEW k \in Job
        PROVE  Ending(k)
    <3>1. log[k] = <<>> /\ lock # k /\ ~Present(k)
      BY <2>1, ConstantsOK DEF Init, Present
    <3>2. QED BY <3>1 DEF Ending, EndIn
  <2>2. QED BY <2>1
<1>2. ASSUME Inv, Inv', [Next]_vars, All
      PROVE  All'
  BY <1>2, JobCases, EndingNext
<1>3. ASSUME Inv, All
      PROVE  NothingAfterFinished
  <2>1. SUFFICES ASSUME NEW j \in Job, NEW i \in DOMAIN log[j], log[j][i].kind = "job.finished"
                 PROVE  /\ Present(j) => man[j].state = log[j][i].out
                        /\ \A h \in i + 1 .. Len(log[j]) : LeaseTalk(log[j][h])
    BY DEF NothingAfterFinished, LeaseTalk
  <2>2. EndIn(log[j]) /\ (Present(j) => EndsIn(log[j], man[j].state))
    BY <1>3 DEF Ending
  <2>3. ASSUME NEW h \in i + 1 .. Len(log[j])
        PROVE  LeaseTalk(log[j][h])
    <3>1. log[j] \in Seq(SoundEntry)
      BY <1>3, JobTypes
    <3>2. h \in DOMAIN log[j] /\ h > i
      BY <2>1, <2>3, <3>1
    <3>3. QED BY <2>1, <2>2, <3>2 DEF EndIn, Ends
  <2>4. QED BY <2>1, <2>2, <2>3 DEF EndsIn, Ends
<1> HIDE DEF All
<1>4. Spec => []All
  BY <1>1, <1>2, Invariance, PTL DEF Spec
<1>5. QED BY <1>3, <1>4, Invariance, PTL

---------------------------------------------------------------------------
(* The lease the manifest grants is the logged one. *)

Recorded(m, l) == m.owner = LoggedOwner(m, l)

\* The log lacks the second half of a lease change that the manifest made.
Unrecorded(m, l) ==
  l # <<>> /\ (TakeUnlogged(m, l[Len(l)], l) \/ ReleaseUnlogged(m, l[Len(l)], l))

Leases(l) == {i \in DOMAIN l : l[i].kind \in LeaseKind}

\* One of the log's lease entries is the latest.
HasLatest(l) == Leases(l) # {} => \E i \in Leases(l) : \A h \in Leases(l) : h <= i

\* The Append that logs who holds the lease.
LeaseWrite(v) ==
  \/ \E c \in Controller : v.entry = Taken(c) /\ v.man.owner = c
  \/ v.entry = Released /\ v.man.owner = NoOne

\* The Append of the intent before it.
IntentWrite(v) ==
  \/ \E c \in Controller : v.entry = Intent(c, "lease take") /\ v.man.owner = c
  \/ \E c \in Controller : v.entry = Intent(c, "lease release") /\ v.man.owner = NoOne

\* Nothing that an operation still writes is about the lease.
OtherWrites(m, w) == \A i \in DOMAIN w : ~LeaseTalk(w[i].entry) /\ Holds(m, w[i].man)

\* It has logged its intent to change the lease, or changed it.
LeaseWrites(m, w) ==
  /\ Len(w) = 2 /\ IntentWrite(w[1]) /\ LeaseWrite(w[2])
  /\ w[2].man.owner = w[1].man.owner
  /\ w[1].man.creator = m.creator /\ w[2].man.creator = m.creator

LastLeaseWrite(m, w) == Len(w) = 1 /\ LeaseWrite(w[1]) /\ Holds(m, w[1].man)

Custody(k) ==
  /\ HasLatest(log[k])
  /\ Present(k) => Recorded(man[k], log[k]) \/ Unrecorded(man[k], log[k])
  /\ lock = k =>
       \/ Recorded(man[k], log[k]) /\ OtherWrites(man[k], todo)
       \/ Ahead(k) /\ Recorded(man[k], log[k]) /\ LeaseWrites(man[k], todo)
       \/ LastLeaseWrite(man[k], todo)
  /\ Written(k)

\* Who holds the lease, once one more entry is logged.
LEMMA OwnerAppend ==
  ASSUME NEW l \in Seq(SoundEntry), NEW e \in SoundEntry, HasLatest(l), NEW m
  PROVE  /\ HasLatest(Append(l, e))
         /\ e.kind \notin LeaseKind => LoggedOwner(m, Append(l, e)) = LoggedOwner(m, l)
         /\ e.kind = "lease.taken" => LoggedOwner(m, Append(l, e)) = e.who
         /\ e.kind = "lease.released" => LoggedOwner(m, Append(l, e)) = NoOne
<1> DEFINE a == Append(l, e)
           n == Len(l) + 1
<1>1. /\ DOMAIN a = DOMAIN l \cup {n} /\ a[n] = e
      /\ \A i \in DOMAIN l : a[i] = l[i] /\ i < n /\ i \in Nat
      /\ n \in Nat
  <2>1. DOMAIN a = DOMAIN l \cup {n} /\ a[n] = e /\ \A i \in DOMAIN l : a[i] = l[i]
    BY AppendProperties
  <2>2. Len(l) \in Nat /\ DOMAIN l = 1 .. Len(l)
    OBVIOUS
  <2>3. QED BY <2>1, <2>2
<1> DEFINE Latest(b) == CHOOSE i \in Leases(b) : \A h \in Leases(b) : h <= i
<1>2. \A b : LoggedOwner(m, b) =
               IF Leases(b) = {} THEN m.creator
               ELSE IF b[Latest(b)].kind = "lease.taken" THEN b[Latest(b)].who ELSE NoOne
  BY DEF LoggedOwner, Leases
<1> HIDE DEF a, n
<1>3. CASE e.kind \notin LeaseKind
  <2>1. Leases(a) = Leases(l)
    BY <1>1, <1>3 DEF Leases
  <2>2. Leases(l) # {} => Latest(l) \in Leases(l)
    BY DEF HasLatest
  <2>3. Leases(l) # {} => a[Latest(l)] = l[Latest(l)]
    BY <1>1, <2>2 DEF Leases
  <2>4. LoggedOwner(m, a) = LoggedOwner(m, l)
    BY <1>2, <2>1, <2>3
  <2>5. HasLatest(a)
    BY <2>1 DEF HasLatest
  <2>6. QED BY <1>3, <2>4, <2>5 DEF a, LeaseKind
<1>4. CASE e.kind \in LeaseKind
  <2>1. n \in Leases(a) /\ \A h \in Leases(a) : h <= n /\ h \in Nat
    BY <1>1, <1>4 DEF Leases
  <2>2. \A i \in Leases(a) : (\A h \in Leases(a) : h <= i) => i = n
    BY <1>1, <2>1
  <2>3. Latest(a) = n
    BY <2>1, <2>2
  <2>4. LoggedOwner(m, a) = IF e.kind = "lease.taken" THEN e.who ELSE NoOne
    BY <1>1, <1>2, <2>1, <2>3
  <2>5. HasLatest(a)
    BY <2>1 DEF HasLatest
  <2>6. QED BY <1>4, <2>4, <2>5 DEF a, LeaseKind
<1>5. QED BY <1>3, <1>4

\* The log is read with the manifest's creator alone.
LEMMA SameOwner ==
  ASSUME NEW m, NEW n, NEW l, Holds(m, n)
  PROVE  Recorded(m, l) <=> Recorded(n, l)
BY DEF Holds, Recorded, LoggedOwner

\* What is no intent to change the lease is not about it.
LEMMA OtherTalk ==
  /\ \A e : e.kind \notin LeaseKind \cup {"intent"} => ~LeaseTalk(e)
  /\ \A e : e.out \in {"advance", "decide"} /\ e.kind = "intent" => ~LeaseTalk(e)
  /\ \A e : ~LeaseTalk(e) => e.kind \notin LeaseKind
<1>1. \A e : e.kind \notin LeaseKind \cup {"intent"} => ~LeaseTalk(e)
  BY Zenon DEF LeaseTalk
<1>2. \A e : e.out \in {"advance", "decide"} /\ e.kind = "intent" => ~LeaseTalk(e)
  BY Zenon DEF LeaseTalk, LeaseKind
<1>3. \A e : ~LeaseTalk(e) => e.kind \notin LeaseKind
  BY Zenon DEF LeaseTalk
<1>4. QED BY <1>1, <1>2, <1>3

\* Only a log that ends with an intent lacks the change of the lease.
LEMMA OnlyIntents ==
  ASSUME NEW m, NEW l, Unrecorded(m, l)
  PROVE  l[Len(l)].kind = "intent"
BY DEF Unrecorded, TakeUnlogged, ReleaseUnlogged

\* A manifest saved with the change that the log's last entry means to make.
LEMMA IntentLast ==
  ASSUME NEW v, IntentWrite(v), NEW l, l # <<>>, l[Len(l)] = v.entry, NEW m,
         m.owner = v.man.owner
  PROVE  Recorded(m, l) \/ Unrecorded(m, l)
<1>0. ASSUME NEW c, NEW op, v.entry = Intent(c, op)
      PROVE  l[Len(l)].kind = "intent" /\ l[Len(l)].out = op
  BY <1>0, EntryFields
<1>1. CASE \E c \in Controller : v.entry = Intent(c, "lease take") /\ v.man.owner = c
  <2>1. l[Len(l)].kind = "intent" /\ l[Len(l)].out = "lease take"
    BY <1>0, <1>1, Zenon
  <2>2. m.owner # NoOne
    BY <1>1, AbsentOK
  <2>3. QED BY <2>1, <2>2, Zenon DEF Recorded, Unrecorded, TakeUnlogged
<1>2. CASE \E c \in Controller : v.entry = Intent(c, "lease release") /\ v.man.owner = NoOne
  <2>1. l[Len(l)].kind = "intent" /\ l[Len(l)].out = "lease release"
    BY <1>0, <1>2, Zenon
  <2>2. m.owner = NoOne
    BY <1>2
  <2>3. QED BY <2>1, <2>2, Zenon DEF Recorded, Unrecorded, ReleaseUnlogged
<1>3. QED BY <1>1, <1>2 DEF IntentWrite

\* The entry of a lease change says who the manifest says.
LEMMA LeaseLogged ==
  ASSUME NEW l \in Seq(SoundEntry), HasLatest(l), NEW v, v.entry \in SoundEntry, LeaseWrite(v),
         NEW m, m.owner = v.man.owner
  PROVE  Recorded(m, Append(l, v.entry))
<1>1. \/ v.entry.kind = "lease.taken" /\ v.entry.who = m.owner
      \/ v.entry.kind = "lease.released" /\ m.owner = NoOne
  BY EntryFields DEF LeaseWrite
<1>2. QED BY <1>1, OwnerAppend DEF Recorded

\* A job with nothing to repair has its lease recorded.
LEMMA ReadyRecorded ==
  ASSUME NEW k \in Job, Present(k), Custody(k), Missing(man[k], log[k]) = {}
  PROVE  Recorded(man[k], log[k])
<1>1. SUFFICES ASSUME Unrecorded(man[k], log[k])
               PROVE  FALSE
  BY DEF Custody
<1> DEFINE last == log[k][Len(log[k])]
<1>2. log[k] # <<>>
  BY <1>1 DEF Unrecorded
<1>3. CASE TakeUnlogged(man[k], last, log[k])
  <2>1. Taken(man[k].owner) \in Missing(man[k], log[k])
    BY <1>2, <1>3 DEF Missing, Completes
  <2>2. QED BY <2>1
<1>4. CASE ReleaseUnlogged(man[k], last, log[k])
  <2>1. Released \in Missing(man[k], log[k])
    BY <1>2, <1>4 DEF Missing, Completes
  <2>2. QED BY <2>1
<1>5. QED BY <1>1, <1>3, <1>4 DEF Unrecorded

\* An operation that opens on the job knows whose lease the log records.
LEMMA OpensCustody ==
  ASSUME Inv, Inv', NEW k \in Job, NEW w, Opens(k, w), Forms(k, w), Does(k), Custody(k)
  PROVE  Custody(k)'
<1> DEFINE e == w[1].entry
<1>1. /\ log[k] \in Seq(SoundEntry) /\ man[k] \in SoundManifest /\ w \in Seq(SoundWrite)
      /\ e \in SoundEntry /\ 1 \in DOMAIN w /\ todo' = w
      /\ log'[k] = Append(log[k], e) /\ man'[k] = man[k]
      /\ Present(k) /\ Ahead(k)'
  BY JobTypes, HeadWrite DEF Opens
<1>2. HasLatest(log[k]) /\ HasLatest(log'[k])
  BY <1>1, OwnerAppend DEF Custody
<1>3. /\ Len(w) \in DOMAIN w
      /\ \A i \in DOMAIN w : i \in Nat /\ 1 <= i /\ i <= Len(w)
  BY <1>1
<1>4. Written(k)'
  BY WrittenNext DEF Custody
<1>5. Holds(man[k], man[k])
  BY DEF Holds
<1> HIDE DEF e
\* An operation that is not about the lease.
<1>6. ASSUME Recorded(man[k], log[k]), OtherWrites(man[k], w)
      PROVE  Custody(k)'
  <2>1. e.kind \notin LeaseKind
    BY <1>1, <1>6, OtherTalk DEF OtherWrites, e
  <2>2. Recorded(man[k], log'[k])
    BY <1>1, <1>2, <1>6, <2>1, OwnerAppend DEF Recorded
  <2>3. QED BY <1>1, <1>2, <1>4, <1>6, <2>2 DEF Custody
<1>7. CASE Repairing(k, w)
  <2>1. /\ e \in Missing(man[k], log[k]) /\ w[1].man = man[k] /\ DOMAIN w = {1} /\ w[1].entry = e
    BY <1>7 DEF Repairing, e
  <2>2. /\ log[k] # <<>> /\ Completes(e, log[k][Len(log[k])], man[k], log[k])
    BY <2>1, MissingEntries
  <2>3. CASE \/ e = Asked(man[k].question) /\ AskUnlogged(man[k], log[k][Len(log[k])])
             \/ e = Finished(man[k].state) /\ EndUnlogged(man[k], log[k][Len(log[k])])
    <3>1. e.kind \in {"decision.asked", "job.finished"}
      BY <2>3, EntryFields
    <3>2. ~LeaseTalk(e)
      BY <3>1, OtherTalk DEF LeaseKind
    <3>3. log[k][Len(log[k])].kind # "intent"
      BY <2>3 DEF AskUnlogged, EndUnlogged, OutcomeKind
    <3>4. Recorded(man[k], log[k])
      BY <1>1, <3>3, OnlyIntents DEF Custody
    <3>5. QED BY <1>5, <1>6, <2>1, <3>2, <3>4 DEF OtherWrites
  <2>4. CASE \/ e = Taken(man[k].owner) /\ TakeUnlogged(man[k], log[k][Len(log[k])], log[k])
             \/ e = Released /\ ReleaseUnlogged(man[k], log[k][Len(log[k])], log[k])
    <3>1. man[k].owner \in Controller \cup {NoOne}
      BY <1>1 DEF SoundManifest, Manifest
    <3>2. LeaseWrite(w[1])
      BY <2>1, <2>4, <3>1 DEF LeaseWrite, TakeUnlogged, ReleaseUnlogged
    <3>3. Recorded(man[k], log'[k])
      BY <1>1, <1>2, <2>1, <3>2, LeaseLogged
    <3>4. LastLeaseWrite(man[k], w)
      BY <1>3, <1>5, <2>1, <3>2 DEF LastLeaseWrite
    <3>5. QED BY <1>1, <1>2, <1>4, <3>3, <3>4 DEF Custody
  <2>5. QED BY <2>2, <2>3, <2>4 DEF Completes
<1>8. CASE Leasing(k, w)
  <2>1. DOMAIN w = {1, 2} /\ LeaseReady(k) /\ Len(w) = 2
    <3>1. DOMAIN w = {1, 2} /\ LeaseReady(k)
      BY <1>8, Zenon DEF Leasing
    <3>2. QED BY <1>3, <3>1
  <2>2. Recorded(man[k], log[k])
    BY <1>1, <2>1, ReadyRecorded DEF LeaseReady, Restored
  <2>3. /\ w[1].man.creator = man[k].creator /\ w[2].man.creator = man[k].creator
    BY <1>8 DEF Leasing
  <2>4. IntentWrite(w[1]) /\ LeaseWrite(w[2]) /\ w[2].man.owner = w[1].man.owner
    BY <1>8, Zenon DEF Leasing, IntentWrite, LeaseWrite
  <2>5. e.kind = "intent"
    <3>1. \A c, op : Intent(c, op).kind = "intent"
      BY EntryFields
    <3>2. QED BY <2>4, <3>1, Zenon DEF IntentWrite, e
  <2>6. Recorded(man[k], log'[k])
    BY <1>1, <1>2, <2>2, <2>5, OwnerAppend DEF Recorded, LeaseKind
  <2>7. LeaseWrites(man[k], w)
    BY <2>1, <2>3, <2>4 DEF LeaseWrites
  <2>8. QED BY <1>1, <1>2, <1>4, <2>6, <2>7 DEF Custody
<1>9. CASE Advancing(k, w)
  <2>1. Recorded(man[k], log[k])
    BY <1>1, <1>9, ReadyRecorded DEF Advancing, Restored
  <2>2. \A i \in DOMAIN w : ~LeaseTalk(w[i].entry) /\ Holds(man[k], w[i].man)
    BY <1>9, EntryFields, OtherTalk DEF Advancing, LeaseKind
  <2>3. QED BY <1>6, <2>1, <2>2 DEF OtherWrites
<1>10. CASE Deciding(k, w)
  <2>1. Recorded(man[k], log[k])
    BY <1>1, <1>10, ReadyRecorded DEF Deciding, Restored
  <2>2. \A i \in DOMAIN w : ~LeaseTalk(w[i].entry) /\ Holds(man[k], w[i].man)
    BY <1>10, EntryFields, OtherTalk DEF Deciding, LeaseKind
  <2>3. QED BY <1>6, <2>1, <2>2 DEF OtherWrites
<1>11. CASE Folding(k, w)
  <2>1. Recorded(man[k], log[k])
    <3>1. CASE Restored(k)
      BY <1>1, <3>1, ReadyRecorded DEF Restored
    <3>2. CASE lock = k /\ todo = <<>>
      BY <3>2 DEF Custody, LeaseWrites, LastLeaseWrite
    <3>3. QED BY <1>11, <3>1, <3>2 DEF Folding
  <2>2. \A i \in DOMAIN w : ~LeaseTalk(w[i].entry) /\ Holds(man[k], w[i].man)
    BY <1>11, EntryFields, OtherTalk DEF Folding, OutcomeKind, LeaseKind
  <2>3. QED BY <1>6, <2>1, <2>2 DEF OtherWrites
<1>12. QED BY <1>7, <1>8, <1>9, <1>10, <1>11 DEF Forms

\* The lease is recorded, or about to be, after every step.
LEMMA CustodyNext ==
  ASSUME Inv, Inv', NEW k \in Job, Does(k), Custody(k), "abandon" \notin Fault
  PROVE  Custody(k)'
<1>1. log[k] \in Seq(SoundEntry) /\ man[k] \in SoundManifest /\ todo \in Seq(SoundWrite)
  BY JobTypes
<1>2. Written(k)'
  BY WrittenNext DEF Custody
\* A manifest whose lease is the same.
<1>3. ASSUME NEW m, NEW n, Holds(m, n)
      PROVE  /\ \A l : Recorded(m, l) => Recorded(n, l)
             /\ \A l : Unrecorded(m, l) => Unrecorded(n, l)
             /\ \A w : OtherWrites(m, w) => OtherWrites(n, w)
             /\ \A w : LeaseWrites(m, w) => LeaseWrites(n, w)
             /\ \A w : LastLeaseWrite(m, w) => LastLeaseWrite(n, w)
  <2>1. \A l : Recorded(m, l) => Recorded(n, l)
    BY <1>3, SameOwner
  <2>2. \A l : LoggedOwner(m, l) = LoggedOwner(n, l)
    BY <1>3 DEF Holds, LoggedOwner
  <2>3. \A l : Unrecorded(m, l) => Unrecorded(n, l)
    BY <1>3, <2>2, Zenon DEF Holds, Unrecorded, TakeUnlogged, ReleaseUnlogged
  <2>4. \A w : OtherWrites(m, w) => OtherWrites(n, w)
    BY <1>3 DEF Holds, OtherWrites
  <2>5. \A w : LeaseWrites(m, w) => LeaseWrites(n, w)
    BY <1>3 DEF Holds, LeaseWrites
  <2>6. \A w : LastLeaseWrite(m, w) => LastLeaseWrite(n, w)
    BY <1>3 DEF Holds, LastLeaseWrite
  <2>7. QED BY <2>1, <2>3, <2>4, <2>5, <2>6
<1>4. CASE Idles(k)
  <2>1. Holds(man[k], man'[k])
    BY <1>4 DEF Idles, Same, Holds
  <2>2. /\ log'[k] = log[k] /\ Present(k)' = Present(k)
        /\ lock' = k => lock = k /\ todo' = todo /\ (Ahead(k)' <=> Ahead(k))
    BY <1>4 DEF Idles, Present
  <2>3. HasLatest(log'[k])
    BY <2>2 DEF Custody
  <2>4. Present(k)' => Recorded(man'[k], log'[k]) \/ Unrecorded(man'[k], log'[k])
    BY <1>3, <2>1, <2>2 DEF Custody
  <2>5. lock' = k =>
          \/ Recorded(man'[k], log'[k]) /\ OtherWrites(man'[k], todo')
          \/ Ahead(k)' /\ Recorded(man'[k], log'[k]) /\ LeaseWrites(man'[k], todo')
          \/ LastLeaseWrite(man'[k], todo')
    BY <1>3, <2>1, <2>2 DEF Custody
  <2>6. QED BY <1>2, <2>3, <2>4, <2>5 DEF Custody
<1>5. CASE Writes(k)
  <2> DEFINE e == todo[1].entry
  <2>1. 1 \in DOMAIN todo /\ e \in SoundEntry /\ lock = k /\ ~Ahead(k) /\ Present(k)
    BY <1>1, <1>5, HeadWrite DEF Writes
  <2>2. log'[k] = Append(log[k], e) /\ man'[k] = man[k] /\ todo' = todo
    BY <1>5 DEF Writes
  <2> HIDE DEF e
  <2>3. HasLatest(log[k]) /\ HasLatest(log'[k])
    BY <1>1, <2>1, <2>2, OwnerAppend DEF Custody
  <2>4. CASE Recorded(man[k], log[k]) /\ OtherWrites(man[k], todo)
    <3>1. e.kind \notin LeaseKind
      BY <2>1, <2>4, OtherTalk DEF OtherWrites, e
    <3>2. Recorded(man[k], log'[k])
      BY <1>1, <2>1, <2>2, <2>3, <2>4, <3>1, OwnerAppend DEF Recorded
    <3>3. QED BY <1>2, <2>2, <2>3, <2>4, <3>2 DEF Custody
  <2>5. CASE LastLeaseWrite(man[k], todo)
    <3>1. LeaseWrite(todo[1]) /\ man[k].owner = todo[1].man.owner
      BY <2>5 DEF LastLeaseWrite, Holds
    <3>2. Recorded(man[k], log'[k])
      BY <1>1, <2>1, <2>2, <2>3, <3>1, LeaseLogged DEF e
    <3>3. QED BY <1>2, <2>2, <2>3, <2>5, <3>2 DEF Custody
  <2>6. QED BY <2>1, <2>4, <2>5 DEF Custody
<1>6. CASE Saves(k)
  <2>1. /\ 1 \in DOMAIN todo /\ Present(k) /\ lock = k /\ Ahead(k) /\ log'[k] = log[k]
        /\ log[k] # <<>> /\ log[k][Len(log[k])] = todo[1].entry
        /\ lock' = k => todo' = Tail(todo)
    BY <1>1, <1>6, HeadWrite DEF Saves, Custody, Written, Last
  <2>2. Holds(todo[1].man, man'[k])
    BY <1>6 DEF Saves, Same, Holds
  <2>3. /\ Len(todo) \in Nat
        /\ \A i \in DOMAIN Tail(todo) : i + 1 \in DOMAIN todo /\ Tail(todo)[i] = todo[i + 1]
        /\ Len(todo) = 2 => Len(Tail(todo)) = 1 /\ Tail(todo)[1] = todo[2]
        /\ Len(todo) = 1 => DOMAIN Tail(todo) = {}
    BY <1>1, <2>1
  <2>4. CASE Recorded(man[k], log[k]) /\ OtherWrites(man[k], todo)
    <3>1. Holds(man[k], man'[k])
      BY <2>1, <2>2, <2>4 DEF OtherWrites, Holds
    <3>2. OtherWrites(man[k], Tail(todo))
      BY <2>3, <2>4 DEF OtherWrites
    <3>3. Recorded(man'[k], log[k]) /\ OtherWrites(man'[k], Tail(todo))
      BY <1>3, <2>4, <3>1, <3>2
    <3>4. QED BY <1>2, <2>1, <3>3 DEF Custody
  <2>5. CASE LeaseWrites(man[k], todo)
    <3>1. Recorded(man'[k], log[k]) \/ Unrecorded(man'[k], log[k])
      BY <2>1, <2>2, <2>5, IntentLast DEF LeaseWrites, Holds
    <3>2. LastLeaseWrite(man'[k], Tail(todo))
      BY <2>2, <2>3, <2>5 DEF LeaseWrites, LastLeaseWrite, Holds
    <3>3. QED BY <1>2, <2>1, <3>1, <3>2 DEF Custody
  <2>6. CASE LastLeaseWrite(man[k], todo)
    <3>1. Holds(man[k], man'[k])
      BY <2>2, <2>6 DEF LastLeaseWrite, Holds
    <3>2. log[k][Len(log[k])].kind # "intent"
      BY <2>1, <2>6, EntryFields DEF LastLeaseWrite, LeaseWrite
    <3>3. Recorded(man[k], log[k])
      BY <2>1, <3>2, OnlyIntents DEF Custody
    <3>4. Recorded(man'[k], log[k])
      BY <1>3, <3>1, <3>3
    <3>5. OtherWrites(man'[k], Tail(todo))
      BY <2>3, <2>6 DEF OtherWrites, LastLeaseWrite
    <3>6. QED BY <1>2, <2>1, <3>4, <3>5 DEF Custody
  <2>7. QED BY <2>1, <2>4, <2>5, <2>6 DEF Custody
<1>7. CASE Reapplies(k) \/ \E out \in Key \cup {"ok"} : Refolds(k, out)
  <2>1. /\ Present(k) /\ lock' # k /\ log'[k] = log[k] /\ log[k] # <<>>
        /\ log[k][Len(log[k])].kind # "intent"
    BY <1>7 DEF Reapplies, Refolds, AnswerLogged, Folded, Last, OutcomeKind
  <2>2. Holds(man[k], man'[k])
    <3>1. CASE Reapplies(k)
      BY <1>1, <3>1 DEF Reapplies, Same, Holds, DecideState, SoundManifest, Manifest
    <3>2. ASSUME NEW out \in Key \cup {"ok"}, Refolds(k, out)
          PROVE  Holds(man[k], man'[k])
      BY <1>1, <3>2, SettleFields DEF Refolds, Folded, Same, Holds
    <3>3. QED BY <1>7, <3>1, <3>2
  <2>3. Recorded(man'[k], log'[k])
    BY <1>3, <2>1, <2>2, OnlyIntents DEF Custody
  <2>4. QED BY <1>2, <2>1, <2>3 DEF Custody
<1>8. CASE Leaves(k)
  <2>1. HasLatest(log'[k])
    BY <1>8 DEF Leaves, Present, Custody, HasLatest, Leases
  <2>2. QED BY <1>2, <1>8, <2>1 DEF Leaves, Present, Custody
<1>9. ASSUME NEW c \in Controller, Begins(k, c)
      PROVE  Custody(k)'
  <2> DEFINE n == NewManifest(c)
             b == [entry |-> Created(c), man |-> n]
  <2>1. b.entry = Created(c) /\ b.man = n /\ n.owner = n.creator
    BY DEF NewManifest
  <2>2. todo' = <<b>> /\ log'[k] = <<>> /\ man'[k] = n
    BY <1>9 DEF Begins
  <2> HIDE DEF n, b
  <2>3. ~LeaseTalk(b.entry)
    BY <2>1, EntryFields, OtherTalk DEF LeaseKind
  <2>4. OtherWrites(n, todo')
    BY <2>1, <2>2, <2>3 DEF OtherWrites, Holds
  <2>5. HasLatest(log'[k]) /\ Recorded(n, log'[k])
    BY <2>1, <2>2 DEF HasLatest, Leases, Recorded, LoggedOwner
  <2>6. QED BY <1>2, <2>2, <2>4, <2>5 DEF Custody
<1>10. ASSUME NEW w, Opens(k, w), Means(k, w)
       PROVE  Custody(k)'
  BY <1>10, MeansForms, OpensCustody
<1>11. QED
  BY <1>4, <1>5, <1>6, <1>7, <1>8, <1>9, <1>10 DEF Does

\* Once repaired, the lease the manifest grants is the one the log records: a
\* crash between an intent, its manifest and its entry loses no change of hands.
THEOREM LeasesAreLogged ==
  ASSUME "abandon" \notin Fault
  PROVE  Spec => []CustodyLogged
<1> DEFINE All == \A k \in Job : Custody(k)
<1>1. Init => All
  <2>1. ASSUME Init, NEW k \in Job
        PROVE  Custody(k)
    <3>1. log[k] = <<>> /\ lock # k /\ ~Present(k)
      BY <2>1, ConstantsOK DEF Init, Present
    <3>2. QED BY <3>1 DEF Custody, HasLatest, Leases, Written
  <2>2. QED BY <2>1
<1>2. ASSUME Inv, Inv', [Next]_vars, All
      PROVE  All'
  BY <1>2, JobCases, CustodyNext
<1>3. ASSUME All
      PROVE  CustodyLogged
  <2>1. SUFFICES ASSUME NEW j \in Job, Restored(j)
                 PROVE  Recorded(man[j], log[j])
    BY DEF CustodyLogged, Recorded
  <2>2. QED BY <1>3, <2>1, ReadyRecorded DEF Restored, Loaded, Present
<1> HIDE DEF All
<1>4. Spec => []All
  BY <1>1, <1>2, Invariance, PTL DEF Spec
<1>5. QED BY <1>3, <1>4, PTL

---------------------------------------------------------------------------
(* The log tells the job in order. *)

\* The entries E hold the outcome of the attempt that the question q is about.
Ran(E, q) == \E e \in E : e.kind \in OutcomeKind /\ e.unit = <<q.step, q.attempt>>

\* The entry e may come after the entries E.
Follows(E, e) ==
  /\ e.kind \in OutcomeKind => Started(e.unit) \in E
  /\ e.kind = "decision.asked" => Ran(E, e.q)
  /\ e.kind = "decision.answered" => Asked(e.q) \in E

Before(l, i) == {l[h] : h \in {g \in DOMAIN l : g < i}}

OrderIn(l) == \A i \in DOMAIN l : Follows(Before(l, i), l[i])

\* The entries E, of which e is the last, tell the attempt that m runs or asks
\* about; whether they hold the question too is for the next entry, if e is
\* the outcome it is about.
Told(E, m, e) ==
  /\ m.state = "running" => Started(Standing(m)) \in E
  /\ m.state = "needs-decision" =>
       /\ Ran(E, m.question)
       /\ \/ Asked(m.question) \in E
          \/ e.kind \in OutcomeKind /\ e.unit = <<m.question.step, m.question.attempt>>

Asking(m, E) == m.state = "needs-decision" => Asked(m.question) \in E

Ordered(k) ==
  /\ OrderIn(log[k])
  /\ Present(k) => Told(Entries(log[k]), man[k], Last(k))
  /\ lock = k =>
       /\ ~Ahead(k) /\ todo # <<>> => Asking(man[k], Owed(log[k], todo, 1))
       /\ \A i \in DOMAIN todo :
            /\ i > 1 \/ ~Ahead(k) => Follows(Owed(log[k], todo, i - 1), todo[i].entry)
            /\ Told(Owed(log[k], todo, i), todo[i].man, todo[i].entry)
            /\ i + 1 \in DOMAIN todo => Asking(todo[i].man, Owed(log[k], todo, i + 1))
  /\ Written(k)

\* What may follow some entries may follow more.
LEMMA FollowsMore ==
  ASSUME NEW E, NEW F, E \subseteq F
  PROVE  \A e : Follows(E, e) => Follows(F, e)
BY DEF Follows, Ran

\* And what they tell of a manifest, more of them tell of one that stands there,
\* once its question is among them.
LEMMA ToldMore ==
  ASSUME NEW E, NEW F, E \subseteq F, NEW m, NEW n, Keeps(m, n), NEW d, Told(E, m, d),
         NEW e, Asking(m, F)
  PROVE  Told(F, n, e) /\ Asking(n, F)
BY DEF Told, Ran, Asking, Keeps, Standing

\* The same entries tell the same of a manifest that stands at the same place.
LEMMA ToldSame ==
  ASSUME NEW E, NEW m, NEW n, Keeps(m, n), NEW e
  PROVE  /\ Told(E, m, e) => Told(E, n, e)
         /\ \A F : Asking(m, F) => Asking(n, F)
BY DEF Told, Asking, Keeps, Standing

\* A log in order, and an entry that may follow it.
LEMMA OrderAppend ==
  ASSUME NEW l \in Seq(SoundEntry), NEW e \in SoundEntry, OrderIn(l), Follows(Entries(l), e)
  PROVE  OrderIn(Append(l, e))
<1> DEFINE a == Append(l, e)
           n == Len(l) + 1
<1>1. /\ DOMAIN a = DOMAIN l \cup {n} /\ a[n] = e
      /\ \A i \in DOMAIN l : a[i] = l[i] /\ i < n /\ ~(n < i)
      /\ ~(n < n)
  <2>1. DOMAIN a = DOMAIN l \cup {n} /\ a[n] = e /\ \A i \in DOMAIN l : a[i] = l[i]
    BY AppendProperties
  <2>2. Len(l) \in Nat /\ DOMAIN l = 1 .. Len(l)
    OBVIOUS
  <2>3. QED BY <2>1, <2>2
<1> HIDE DEF a, n
<1>2. Before(a, n) = Entries(l)
  BY <1>1 DEF Before, Entries
<1>3. \A i \in DOMAIN l : Before(a, i) = Before(l, i)
  BY <1>1 DEF Before
<1>4. QED BY <1>1, <1>2, <1>3 DEF OrderIn, a

\* What is still to be written holds what the log does, and what comes first.
LEMMA OwedHas ==
  ASSUME NEW l, NEW w, NEW i
  PROVE  /\ Entries(l) \subseteq Owed(l, w, i)
         /\ \A h \in DOMAIN w : h <= i => w[h].entry \in Owed(l, w, i)
BY DEF Owed

\* Only the outcome just logged leaves its question to be asked.
LEMMA AskedLogged ==
  ASSUME Inv, NEW k \in Job, Present(k), Ordered(k),
         Asked(man[k].question) \notin Missing(man[k], log[k])
  PROVE  Asking(man[k], Entries(log[k]))
<1>1. SUFFICES ASSUME man[k].state = "needs-decision",
                      Asked(man[k].question) \notin Entries(log[k])
               PROVE  FALSE
  BY DEF Asking
<1>2. /\ Last(k).kind \in OutcomeKind
      /\ Last(k).unit = <<man[k].question.step, man[k].question.attempt>>
      /\ Ran(Entries(log[k]), man[k].question)
  BY <1>1 DEF Ordered, Told
<1>3. log[k] # <<>>
  BY <1>2, EntriesEmpty DEF Ran
<1>4. AskUnlogged(man[k], log[k][Len(log[k])])
  BY <1>1, <1>2 DEF AskUnlogged, Last
<1>5. Asked(man[k].question) \in Missing(man[k], log[k])
  BY <1>3, <1>4 DEF Missing, Completes
<1>6. QED BY <1>5

\* An operation that opens on the job logs what follows.
LEMMA OpensOrdered ==
  ASSUME Inv, Inv', NEW k \in Job, NEW w, Opens(k, w), Forms(k, w), Does(k), Ordered(k)
  PROVE  Ordered(k)'
<1> DEFINE e == w[1].entry
           E == Entries(log[k])
           O(i) == Owed(log'[k], w, i)
<1>1. /\ log[k] \in Seq(SoundEntry) /\ man[k] \in SoundManifest /\ w \in Seq(SoundWrite)
      /\ e \in SoundEntry /\ 1 \in DOMAIN w /\ todo' = w
      /\ log'[k] = Append(log[k], e) /\ man'[k] = man[k]
      /\ Present(k) /\ Ahead(k)'
  BY JobTypes, HeadWrite DEF Opens
<1>2. OrderIn(log[k]) /\ Told(E, man[k], Last(k))
  BY <1>1 DEF Ordered
<1>3. /\ Entries(log'[k]) = E \cup {e} /\ log'[k] # <<>> /\ log'[k][Len(log'[k])] = e
      /\ \A i : E \subseteq O(i) /\ e \in O(i)
      /\ \A i : \A h \in DOMAIN w : h <= i => w[h].entry \in O(i)
  <2>1. Entries(log'[k]) = E \cup {e} /\ log'[k] # <<>> /\ log'[k][Len(log'[k])] = e
    BY <1>1, EntriesAppend
  <2>2. \A i : Entries(log'[k]) \subseteq O(i)
    BY OwedHas
  <2>3. \A i : \A h \in DOMAIN w : h <= i => w[h].entry \in O(i)
    BY OwedHas
  <2>4. QED BY <2>1, <2>2, <2>3
<1>4. Written(k)'
  BY WrittenNext DEF Ordered
<1>5. 1 <= 1 /\ 1 <= 2 /\ 2 <= 2 /\ 2 - 1 = 1 /\ 3 - 1 = 2 /\ 1 + 1 = 2 /\ 2 + 1 = 3 /\ 3 + 1 = 4
      /\ ~(1 > 1)
  OBVIOUS
<1> HIDE DEF e, O, E
\* It is enough that each entry follows those there were and those before it.
<1>6. ASSUME Follows(E, e), Told(E \cup {e}, man[k], e),
             \A i \in DOMAIN w :
               /\ i > 1 => Follows(O(i - 1), w[i].entry)
               /\ Told(O(i), w[i].man, w[i].entry)
               /\ i + 1 \in DOMAIN w => Asking(w[i].man, O(i + 1))
      PROVE  Ordered(k)'
  <2>1. OrderIn(log'[k])
    BY <1>1, <1>2, <1>6, OrderAppend DEF E
  <2>2. Told(Entries(log'[k]), man'[k], log'[k][Len(log'[k])])
    BY <1>1, <1>3, <1>6
  <2>3. ASSUME NEW i \in DOMAIN w
        PROVE  /\ i > 1 => Follows(Owed(log'[k], w, i - 1), w[i].entry)
               /\ Told(Owed(log'[k], w, i), w[i].man, w[i].entry)
               /\ i + 1 \in DOMAIN w => Asking(w[i].man, Owed(log'[k], w, i + 1))
    BY <1>6 DEF O
  <2>4. QED BY <1>1, <1>4, <2>1, <2>2, <2>3 DEF Ordered, Last
\* An operation that finds the question logged, and changes nothing it is about.
<1>7. Asked(man[k].question) \notin Missing(man[k], log[k]) => Asking(man[k], E)
  BY <1>1, AskedLogged DEF E
<1>8. ASSUME Asking(man[k], E), NEW F, E \subseteq F, NEW n, Keeps(man[k], n), NEW d
      PROVE  Told(F, n, d) /\ Asking(n, F)
  <2>1. Asking(man[k], F)
    BY <1>8 DEF Asking
  <2>2. QED BY <1>2, <1>8, <2>1, ToldMore
<1>9. Keeps(man[k], man[k])
  BY DEF Keeps
<1>10. CASE Repairing(k, w)
  <2>1. /\ e \in Missing(man[k], log[k]) /\ w[1].man = man[k] /\ DOMAIN w = {1} /\ w[1].entry = e
    BY <1>10 DEF Repairing, e
  <2>2. /\ log[k] # <<>> /\ Completes(e, log[k][Len(log[k])], man[k], log[k])
    BY <2>1, MissingEntries
  <2>3. CASE e = Asked(man[k].question) /\ AskUnlogged(man[k], log[k][Len(log[k])])
    <3>1. man[k].state = "needs-decision" /\ Ran(E, man[k].question)
      BY <1>2, <2>3 DEF AskUnlogged, Told
    <3>2. Follows(E, e)
      BY <2>3, <3>1, EntryFields DEF Follows, OutcomeKind
    <3>3. \A F : E \subseteq F /\ e \in F => Told(F, man[k], e)
      BY <2>3, <3>1 DEF Told, Ran
    <3>4. Told(E \cup {e}, man[k], e) /\ Told(O(1), man[k], e)
      BY <1>3, <3>3
    <3>5. QED BY <1>5, <1>6, <2>1, <3>2, <3>4
  <2>4. CASE ~(e = Asked(man[k].question) /\ AskUnlogged(man[k], log[k][Len(log[k])]))
    <3>1. e.kind \in {"job.finished", "lease.taken", "lease.released"}
      BY <2>2, <2>4, EntryFields DEF Completes
    <3>2. Follows(E, e)
      BY <3>1 DEF Follows, OutcomeKind
    <3>3. Asking(man[k], E)
      <4>1. ASSUME man[k].state = "needs-decision", Asked(man[k].question) \notin E
            PROVE  FALSE
        <5>1. Last(k).kind \in OutcomeKind
          BY <1>2, <4>1 DEF Told
        <5>2. QED
          BY <2>2, <2>4, <4>1, <5>1
             DEF Completes, EndUnlogged, TakeUnlogged, ReleaseUnlogged, OutcomeKind, Last
      <4>2. QED BY <4>1 DEF Asking
    <3>4. Told(E \cup {e}, man[k], e) /\ Told(O(1), man[k], e)
      BY <1>3, <1>8, <1>9, <3>3
    <3>5. QED BY <1>5, <1>6, <2>1, <3>2, <3>4
  <2>5. QED BY <2>3, <2>4
<1>11. CASE Leasing(k, w)
  <2>1. DOMAIN w = {1, 2} /\ LeaseReady(k) /\ \A i \in {1, 2} : Keeps(man[k], w[i].man)
    BY <1>11, Zenon DEF Leasing
  <2>2. e.kind \notin OutcomeKind \cup {"decision.asked", "decision.answered"}
        /\ w[2].entry.kind \notin OutcomeKind \cup {"decision.asked", "decision.answered"}
    <3>1. /\ \A c, op : Intent(c, op).kind = "intent"
          /\ \A c : Taken(c).kind = "lease.taken"
          /\ Released.kind = "lease.released"
      BY EntryFields
    <3>2. /\ e.kind = "intent"
          /\ w[2].entry.kind = "lease.taken" \/ w[2].entry.kind = "lease.released"
      BY <1>11, <3>1, Zenon DEF Leasing, e
    <3>3. QED BY <3>2 DEF OutcomeKind
  <2>3. Asking(man[k], E)
    BY <1>7, <2>1 DEF LeaseReady, Restored
  <2>4. Follows(E, e) /\ Follows(O(1), w[2].entry)
    BY <2>2 DEF Follows
  <2>5. /\ Told(E \cup {e}, man[k], e)
        /\ Told(O(1), w[1].man, w[1].entry) /\ Asking(w[1].man, O(2))
        /\ Told(O(2), w[2].man, w[2].entry)
    BY <1>3, <1>8, <1>9, <2>1, <2>3
  <2>6. QED BY <1>5, <1>6, <2>1, <2>4, <2>5
<1>12. CASE Advancing(k, w)
  <2>1. /\ DOMAIN w = {1, 2} /\ man[k].state = "waiting" /\ e.kind = "intent"
        /\ w[1].man.state = "waiting"
        /\ w[2].entry = Started(Standing(man[k])) /\ w[2].man.state = "running"
        /\ Standing(w[2].man) = Standing(man[k])
    BY <1>12 DEF Advancing, Keeps, e
  <2>2. w[2].entry.kind = "step.started"
    BY <2>1, EntryFields
  <2>3. Follows(E, e) /\ Follows(O(1), w[2].entry)
    BY <2>1, <2>2 DEF Follows, OutcomeKind
  <2>4. w[2].entry \in O(2)
    BY <1>3, <1>5, <2>1
  <2>5. /\ Told(E \cup {e}, man[k], e)
        /\ Told(O(1), w[1].man, w[1].entry) /\ Asking(w[1].man, O(2))
        /\ Told(O(2), w[2].man, w[2].entry)
    BY <2>1, <2>4 DEF Told, Asking
  <2>6. QED BY <1>5, <1>6, <2>1, <2>3, <2>5
<1>13. CASE Deciding(k, w)
  <2>1. /\ man[k].state = "needs-decision" /\ e.kind = "intent" /\ Keeps(man[k], w[1].man)
        /\ DOMAIN w = {1, 2} \/ DOMAIN w = {1, 2, 3}
        /\ w[2].man.state \in {"waiting", "aborted"}
        /\ 3 \in DOMAIN w => w[3].entry = Finished("aborted") /\ w[3].man = w[2].man
    BY <1>13 DEF Deciding, e
  <2>2. w[2].entry.kind = "decision.answered" /\ w[2].entry.q = man[k].question
    BY <1>13, EntryFields DEF Deciding
  <2>3. Asking(man[k], E) /\ Asked(man[k].question) \in E
    <3>1. Asking(man[k], E)
      BY <1>7, <1>13 DEF Deciding, Restored
    <3>2. QED BY <2>1, <3>1 DEF Asking
  <2>4. Follows(E, e) /\ Follows(O(1), w[2].entry)
    BY <1>3, <2>1, <2>2, <2>3 DEF Follows, OutcomeKind
  <2>5. 3 \in DOMAIN w => Follows(O(2), w[3].entry)
    BY <2>1, EntryFields DEF Follows, OutcomeKind
  <2>6. /\ Told(E \cup {e}, man[k], e)
        /\ Told(O(1), w[1].man, w[1].entry) /\ Asking(w[1].man, O(2))
    BY <1>3, <1>8, <1>9, <2>1, <2>3
  <2>7. /\ \A F : Told(F, w[2].man, w[2].entry) /\ Asking(w[2].man, F)
        /\ 3 \in DOMAIN w => \A F : Told(F, w[3].man, w[3].entry)
    BY <2>1 DEF Told, Asking
  <2>8. ASSUME NEW i \in DOMAIN w
        PROVE  /\ i > 1 => Follows(O(i - 1), w[i].entry)
               /\ Told(O(i), w[i].man, w[i].entry)
               /\ i + 1 \in DOMAIN w => Asking(w[i].man, O(i + 1))
    <3>1. CASE i = 1
      BY <1>5, <2>6, <3>1
    <3>2. CASE i = 2
      BY <1>5, <2>4, <2>7, <3>2
    <3>3. CASE i = 3
      <4>1. 4 \notin DOMAIN w
        BY <2>1
      <4>2. QED BY <1>5, <2>5, <2>7, <2>8, <3>3, <4>1
    <3>4. QED BY <2>1, <2>8, <3>1, <3>2, <3>3
  <2>9. QED BY <1>6, <2>4, <2>6, <2>8
<1>14. CASE Folding(k, w)
  <2>1. /\ man[k].state = "running" /\ e.kind \in OutcomeKind /\ e.unit = Standing(man[k])
        /\ DOMAIN w = {1} \/ (DOMAIN w = {1, 2} /\ w[2].man = w[1].man)
    BY <1>14 DEF Folding, e
  <2>2. \/ w[1].man.state \in {"waiting", "succeeded"}
        \/ /\ w[1].man.state = "needs-decision"
           /\ <<w[1].man.question.step, w[1].man.question.attempt>> = Standing(man[k])
    BY <1>14 DEF Folding
  <2>3. 2 \in DOMAIN w =>
          \/ w[1].man.state = "succeeded" /\ w[2].entry = Finished("succeeded")
          \/ w[1].man.state = "needs-decision" /\ w[2].entry = Asked(w[1].man.question)
    BY <1>14 DEF Folding
  <2>4. Started(Standing(man[k])) \in E
    BY <1>2, <2>1 DEF Told
  <2>5. Follows(E, e)
    BY <2>1, <2>4 DEF Follows, OutcomeKind
  <2>6. Told(E \cup {e}, man[k], e)
    BY <2>1, <2>4 DEF Told
  <2>7. w[1].man.state = "needs-decision" => \A F : e \in F => Ran(F, w[1].man.question)
    BY <2>1, <2>2 DEF Ran
  <2>8. Told(O(1), w[1].man, w[1].entry)
    BY <1>3, <2>1, <2>2, <2>7 DEF Told, e
  <2>9. 2 \in DOMAIN w => Asking(w[1].man, O(2)) /\ Told(O(2), w[2].man, w[2].entry)
    <3>1. 2 \in DOMAIN w => w[2].entry \in O(2)
      BY <1>3, <1>5
    <3>2. 2 \in DOMAIN w => w[2].man = w[1].man
      BY <2>1
    <3>3. QED BY <1>3, <2>2, <2>3, <2>7, <3>1, <3>2 DEF Asking, Told
  <2>10. 2 \in DOMAIN w => Follows(O(1), w[2].entry)
    BY <1>3, <2>3, <2>7, EntryFields DEF Follows, OutcomeKind
  <2>11. ASSUME NEW i \in DOMAIN w
         PROVE  /\ i > 1 => Follows(O(i - 1), w[i].entry)
                /\ Told(O(i), w[i].man, w[i].entry)
                /\ i + 1 \in DOMAIN w => Asking(w[i].man, O(i + 1))
    <3>1. CASE i = 1
      BY <1>5, <2>8, <2>9, <3>1
    <3>2. CASE i = 2
      <4>1. 3 \notin DOMAIN w
        BY <2>1
      <4>2. QED BY <1>5, <2>9, <2>10, <2>11, <3>2, <4>1
    <3>3. QED BY <2>1, <2>11, <3>1, <3>2
  <2>12. QED BY <1>6, <2>5, <2>6, <2>11
<1>15. QED BY <1>10, <1>11, <1>12, <1>13, <1>14 DEF Forms

\* The log stays in order.
LEMMA OrderedNext ==
  ASSUME Inv, Inv', NEW k \in Job, Does(k), Ordered(k), "abandon" \notin Fault
  PROVE  Ordered(k)'
<1> DEFINE E == Entries(log[k])
<1>1. /\ log[k] \in Seq(SoundEntry) /\ man[k] \in SoundManifest /\ todo \in Seq(SoundWrite)
      /\ log[k] # <<>> => Last(k) \in E
  BY JobTypes
<1>2. Written(k)'
  BY WrittenNext DEF Ordered
<1>3. CASE Idles(k)
  <2>1. Keeps(man[k], man'[k])
    BY <1>3 DEF Idles, Same, Keeps
  <2>2. /\ log'[k] = log[k] /\ Present(k)' = Present(k) /\ Last(k)' = Last(k)
        /\ lock' = k => lock = k /\ todo' = todo /\ (Ahead(k)' <=> Ahead(k))
    BY <1>3 DEF Idles, Present, Last
  <2>3. Present(k)' => Told(E, man'[k], Last(k))
    BY <2>1, <2>2, ToldSame DEF Ordered
  <2>4. lock' = k /\ ~Ahead(k)' /\ todo' # <<>> => Asking(man'[k], Owed(log[k], todo', 1))
    BY <2>1, <2>2, ToldSame DEF Ordered
  <2>5. QED BY <1>2, <2>2, <2>3, <2>4 DEF Ordered
<1>4. CASE Writes(k)
  <2> DEFINE e == todo[1].entry
  <2>1. /\ 1 \in DOMAIN todo /\ e \in SoundEntry /\ lock = k /\ ~Ahead(k) /\ Present(k)
        /\ todo # <<>> /\ DOMAIN todo \subseteq Nat \ {0}
    BY <1>1, <1>4, HeadWrite DEF Writes
  <2>2. log'[k] = Append(log[k], e) /\ man'[k] = man[k] /\ todo' = todo /\ Ahead(k)'
    BY <1>4 DEF Writes
  <2> HIDE DEF e
  <2>3. Entries(log'[k]) = E \cup {e}
    BY <1>1, <2>1, <2>2, EntriesAppend
  <2>4. Owed(log[k], todo, 0) = E /\ Owed(log[k], todo, 1) = E \cup {e}
    <3>1. {h \in DOMAIN todo : h <= 0} = {} /\ {h \in DOMAIN todo : h <= 1} = {1}
      BY <2>1
    <3>2. QED BY <3>1 DEF Owed, e
  <2>5. OrderIn(log'[k])
    <3>1. Follows(E, e)
      BY <2>1, <2>4 DEF Ordered, e
    <3>2. QED BY <1>1, <2>1, <2>2, <3>1, OrderAppend DEF Ordered
  <2>6. Told(E \cup {e}, man[k], Last(k)')
    <3>1. Asking(man[k], E \cup {e}) /\ Told(E, man[k], Last(k))
      BY <2>1, <2>4 DEF Ordered
    <3>2. Keeps(man[k], man[k])
      BY DEF Keeps
    <3>3. QED BY <3>1, <3>2, ToldMore
  <2>7. ASSUME NEW i \in DOMAIN todo
        PROVE  /\ i > 1 => Follows(Owed(log'[k], todo, i - 1), todo[i].entry)
               /\ Told(Owed(log'[k], todo, i), todo[i].man, todo[i].entry)
               /\ i + 1 \in DOMAIN todo => Asking(todo[i].man, Owed(log'[k], todo, i + 1))
    <3>1. i \in Nat /\ i > 0 /\ i + 1 \in Nat /\ i + 1 > 0 /\ (i > 1 => i - 1 \in Nat /\ i - 1 > 0)
      BY <2>1, <2>7
    <3>2. \A n \in Nat : n > 0 => Owed(log'[k], todo, n) = Owed(log[k], todo, n)
      BY <1>1, <2>1, <2>2, OwedWritten DEF e
    <3>3. QED BY <2>1, <3>1, <3>2 DEF Ordered
  <2>8. QED BY <1>2, <2>1, <2>2, <2>3, <2>5, <2>6, <2>7 DEF Ordered
<1>5. CASE Saves(k)
  <2>1. /\ 1 \in DOMAIN todo /\ Present(k) /\ lock = k /\ Ahead(k) /\ log'[k] = log[k]
        /\ todo # <<>> /\ log[k] # <<>> /\ Last(k) = todo[1].entry /\ Last(k)' = Last(k)
        /\ lock' = k => todo' = Tail(todo)
        /\ DOMAIN todo \subseteq Nat \ {0}
    BY <1>1, <1>5, HeadWrite DEF Saves, Ordered, Written, Last
  <2>2. Keeps(todo[1].man, man'[k])
    BY <1>5 DEF Saves, Same, Keeps
  <2>3. Owed(log[k], todo, 1) = E
    <3>1. {h \in DOMAIN todo : h <= 1} = {1}
      BY <2>1
    <3>2. QED BY <1>1, <2>1, <3>1 DEF Owed
  <2>4. Told(E, man'[k], Last(k))
    <3>1. Told(E, todo[1].man, todo[1].entry)
      <4>1. Told(Owed(log[k], todo, 1), todo[1].man, todo[1].entry)
        BY <2>1 DEF Ordered
      <4>2. QED BY <2>3, <4>1
    <3> HIDE DEF E
    <3>2. QED BY <2>1, <2>2, <3>1, ToldSame
  <2>5. \A n \in Nat : Owed(log[k], Tail(todo), n) = Owed(log[k], todo, n + 1)
    BY <1>1, <2>1, OwedSaved
  <2>6. ASSUME Tail(todo) # <<>>
        PROVE  Asking(man'[k], Owed(log[k], Tail(todo), 1))
    <3>1. 2 \in DOMAIN todo
      BY <1>1, <2>1, <2>6
    <3>2. Asking(todo[1].man, Owed(log[k], todo, 2))
      <4>1. 1 + 1 = 2
        OBVIOUS
      <4>2. QED BY <2>1, <3>1, <4>1 DEF Ordered
    <3>3. Asking(man'[k], Owed(log[k], todo, 2))
      BY <2>2, <3>2, ToldSame
    <3>4. Owed(log[k], Tail(todo), 1) = Owed(log[k], todo, 2)
      BY <2>5
    <3>5. QED BY <3>3, <3>4
  <2>7. ASSUME NEW i \in DOMAIN Tail(todo)
        PROVE  /\ Follows(Owed(log[k], Tail(todo), i - 1), Tail(todo)[i].entry)
               /\ Told(Owed(log[k], Tail(todo), i), Tail(todo)[i].man, Tail(todo)[i].entry)
               /\ i + 1 \in DOMAIN Tail(todo) =>
                    Asking(Tail(todo)[i].man, Owed(log[k], Tail(todo), i + 1))
    <3>1. /\ i \in Nat /\ i > 0 /\ i - 1 \in Nat /\ (i - 1) + 1 = i /\ i + 1 > 1
          /\ (i + 1) - 1 = i /\ i + 1 \in DOMAIN todo /\ Tail(todo)[i] = todo[i + 1]
          /\ i + 1 \in DOMAIN Tail(todo) => (i + 1) + 1 \in DOMAIN todo
      BY <1>1, <2>1, <2>7
    <3> DEFINE h == i + 1
    <3>2. h \in DOMAIN todo /\ h > 1 /\ h - 1 = i /\ Tail(todo)[i] = todo[h]
          /\ (h \in DOMAIN Tail(todo) => h + 1 \in DOMAIN todo)
      BY <3>1
    <3>3. /\ Owed(log[k], Tail(todo), i - 1) = Owed(log[k], todo, i)
          /\ Owed(log[k], Tail(todo), i) = Owed(log[k], todo, h)
          /\ Owed(log[k], Tail(todo), h) = Owed(log[k], todo, h + 1)
      <4>1. h \in Nat
        BY <3>1
      <4> HIDE DEF h
      <4>2. Owed(log[k], Tail(todo), h) = Owed(log[k], todo, h + 1)
        BY <2>5, <4>1
      <4>3. Owed(log[k], Tail(todo), i) = Owed(log[k], todo, h)
        BY <2>5, <3>1 DEF h
      <4>4. Owed(log[k], Tail(todo), i - 1) = Owed(log[k], todo, i)
        BY <2>5, <3>1
      <4>5. QED BY <4>2, <4>3, <4>4
    <3>4. Follows(Owed(log[k], todo, i), todo[h].entry)
          /\ Told(Owed(log[k], todo, h), todo[h].man, todo[h].entry)
          /\ (h + 1 \in DOMAIN todo => Asking(todo[h].man, Owed(log[k], todo, h + 1)))
      <4> HIDE DEF h
      <4>1. QED BY <2>1, <3>2 DEF Ordered
    <3>5. QED
      <4> HIDE DEF h
      <4>1. /\ Follows(Owed(log[k], Tail(todo), i - 1), Tail(todo)[i].entry)
            /\ Told(Owed(log[k], Tail(todo), i), Tail(todo)[i].man, Tail(todo)[i].entry)
            /\ h \in DOMAIN Tail(todo) =>
                 Asking(Tail(todo)[i].man, Owed(log[k], Tail(todo), h))
        BY <3>2, <3>3, <3>4
      <4>2. QED BY <4>1 DEF h
  <2>8. OrderIn(log'[k])
    BY <2>1 DEF Ordered
  <2>9. QED
    <3>1. lock' = k =>
            /\ ~Ahead(k)' /\ todo' # <<>> => Asking(man'[k], Owed(log'[k], todo', 1))
            /\ \A i \in DOMAIN todo' :
                 /\ i > 1 \/ ~Ahead(k)' => Follows(Owed(log'[k], todo', i - 1), todo'[i].entry)
                 /\ Told(Owed(log'[k], todo', i), todo'[i].man, todo'[i].entry)
                 /\ i + 1 \in DOMAIN todo' => Asking(todo'[i].man, Owed(log'[k], todo', i + 1))
      BY <2>1, <2>6, <2>7
    <3>2. QED BY <1>2, <2>1, <2>4, <2>8, <3>1 DEF Ordered
<1>6. ASSUME NEW out \in Key \cup {"ok"}, Refolds(k, out)
      PROVE  Ordered(k)'
  <2>1. /\ man[k].state = "running" /\ log[k] # <<>> /\ Last(k).kind \in OutcomeKind
        /\ Last(k).unit = man[k].unit /\ lock' # k /\ log'[k] = log[k] /\ Present(k)
    BY <1>6 DEF Refolds, Folded
  <2>2. Last(k) \in E /\ Last(k).unit = <<man[k].step, man[k].attempt>> /\ Last(k)' = Last(k)
    BY <1>1, <2>1, RunningUnit DEF Standing, Last
  <2>3. \/ man'[k].state \in {"waiting", "succeeded"}
        \/ /\ man'[k].state = "needs-decision"
           /\ man'[k].question.step = man[k].step /\ man'[k].question.attempt = man[k].attempt
    BY <1>1, <1>6, <2>1, SettleFields DEF Refolds, Same
  <2>4. Told(E, man'[k], Last(k))
    BY <2>1, <2>2, <2>3 DEF Told, Ran
  <2>5. QED BY <1>2, <2>1, <2>2, <2>4 DEF Ordered
<1>7. CASE Reapplies(k)
  <2>1. man'[k].state \in {"waiting", "aborted"}
    BY <1>1, <1>7 DEF Reapplies, Same, DecideState, SoundManifest, Manifest
  <2>2. \A F, e : Told(F, man'[k], e)
    BY <2>1 DEF Told
  <2>3. QED BY <1>2, <1>7, <2>2 DEF Reapplies, Ordered
<1>8. CASE Leaves(k)
  BY <1>2, <1>8 DEF Leaves, Present, Ordered, OrderIn
<1>9. ASSUME NEW c \in Controller, Begins(k, c)
      PROVE  Ordered(k)'
  <2> DEFINE n == NewManifest(c)
             b == [entry |-> Created(c), man |-> n]
  <2>1. b.entry = Created(c) /\ b.man = n /\ n.state = "waiting"
    BY DEF NewManifest
  <2>2. todo' = <<b>> /\ log'[k] = <<>> /\ man'[k] = n
    BY <1>9 DEF Begins
  <2> HIDE DEF n, b
  <2>3. \A F : Follows(F, b.entry)
    BY <2>1, EntryFields DEF Follows, OutcomeKind
  <2>4. \A F, e : Told(F, n, e) /\ Asking(n, F)
    BY <2>1 DEF Told, Asking
  <2>5. DOMAIN todo' = {1} /\ todo'[1] = b /\ OrderIn(log'[k])
    BY <2>2 DEF OrderIn
  <2>6. 1 + 1 \notin {1}
    OBVIOUS
  <2>7. QED BY <1>2, <2>1, <2>2, <2>3, <2>4, <2>5, <2>6 DEF Ordered
<1>10. ASSUME NEW w, Opens(k, w), Means(k, w)
       PROVE  Ordered(k)'
  BY <1>10, MeansForms, OpensOrdered
<1>11. QED
  BY <1>3, <1>4, <1>5, <1>6, <1>7, <1>8, <1>9, <1>10 DEF Does

\* The log of every job is in order, and tells what its manifest runs or asks.
LEMMA OrderedInvariance ==
  ASSUME "abandon" \notin Fault
  PROVE  Spec => [](\A k \in Job : Ordered(k))
<1> DEFINE All == \A k \in Job : Ordered(k)
<1>1. Init => All
  <2>1. ASSUME Init, NEW k \in Job
        PROVE  Ordered(k)
    <3>1. log[k] = <<>> /\ lock # k /\ ~Present(k)
      BY <2>1, ConstantsOK DEF Init, Present
    <3>2. QED BY <3>1 DEF Ordered, OrderIn, Written
  <2>2. QED BY <2>1
<1>2. ASSUME Inv, Inv', [Next]_vars, All
      PROVE  All'
  BY <1>2, JobCases, OrderedNext
<1> HIDE DEF All
<1>3. Spec => []All
  BY <1>1, <1>2, Invariance, PTL DEF Spec
<1>4. QED BY <1>3 DEF All

\* The log tells the job in order: an outcome after its step.started, a
\* question after the outcome it is about, an answer after its question.
THEOREM LogsAreInOrder ==
  ASSUME "abandon" \notin Fault
  PROVE  Spec => []LogInOrder
<1>1. ASSUME Inv, \A k \in Job : Ordered(k)
      PROVE  LogInOrder
  <2>1. SUFFICES ASSUME NEW j \in Job, NEW i \in DOMAIN log[j]
                 PROVE  LET e == log[j][i]
                        IN  /\ e.kind \in OutcomeKind =>
                                 \E h \in 1 .. i - 1 : log[j][h] = Started(e.unit)
                            /\ e.kind = "decision.asked" =>
                                 \E h \in 1 .. i - 1 :
                                   /\ log[j][h].kind \in OutcomeKind
                                   /\ log[j][h].unit = <<e.q.step, e.q.attempt>>
                            /\ e.kind = "decision.answered" =>
                                 \E h \in 1 .. i - 1 : log[j][h] = Asked(e.q)
    BY DEF LogInOrder
  <2>2. log[j] \in Seq(SoundEntry) /\ Follows(Before(log[j], i), log[j][i])
    BY <1>1, <2>1, JobTypes DEF Ordered, OrderIn
  <2>3. \A d \in Before(log[j], i) : \E h \in 1 .. i - 1 : log[j][h] = d
    BY <2>1, <2>2 DEF Before
  <2>4. QED BY <2>2, <2>3 DEF Follows, Ran
<1>2. QED BY <1>1, Invariance, OrderedInvariance, PTL

---------------------------------------------------------------------------
(* Each question is answered once.  Here every build of the agent knows the *)
(* plan: one that does not may log a lease change over an answer not yet    *)
(* applied, which is then asked for again (AnswerLogged looks at the last   *)
(* entry alone).                                                            *)

\* No build that does not know the plan is installed.
LEMMA KnowsNext ==
  ASSUME [Next]_vars, knows, "replan" \notin Fault
  PROVE  knows'
<1>1. CASE UNCHANGED vars \/ FailWrite \/ Crash \/ PowerCut \/ Boot
  BY <1>1 DEF vars, FailWrite, Crash, PowerCut, Boot
<1>2. ASSUME NEW j \in Job, Reconcile(j)
      PROVE  knows'
  BY <1>2 DEF Reconcile, Adopt, Refold, Reapply, AppendTrailing, Fold
<1>3. ASSUME NEW j \in Job, Request(j)
      PROVE  knows'
  BY <1>3 DEF Request, Start, Renew, Take, Release, Advance, Decide
<1>4. ASSUME NEW j \in Job, Storage(j) \/ Launch(j) \/ ClockMoves(j)
      PROVE  knows'
  BY <1>4 DEF Storage, WriteEntry, SaveManifest, Launch, StartUnit, RefuseStart, StartFails,
              StartUnclear, ClockMoves
<1>5. ASSUME NEW j \in Job, Housekeeping(j) \/ TearLine(j)
      PROVE  knows'
  BY <1>5 DEF Housekeeping, Prune, RemoveFiles, Abandon, AbandonAdopt, TearLine
<1>6. ASSUME NEW j \in Job, NEW u \in Unit, StepProcess(j, u) \/ KillUnit(j, u) \/ LoseResult(j, u)
      PROVE  knows'
  BY <1>6 DEF StepProcess, BeginStep, RefuseStep, EndStep, KillUnit, LoseResult
<1>7. QED BY <1>1, <1>2, <1>3, <1>4, <1>5, <1>6 DEF Next, JobFault

LEMMA KnowsInvariance ==
  ASSUME "replan" \notin Fault
  PROVE  Spec => []knows
<1>1. Init => knows
  BY DEF Init
<1>2. QED BY <1>1, KnowsNext, PTL DEF Spec

Answers(e) == e.kind = "decision.answered"

\* The questions that a log holds the answer to.
Closed(l) == {l[i].q : i \in {h \in DOMAIN l : Answers(l[h])}}

AnsweredOnce(l) ==
  \A i, h \in DOMAIN l : Answers(l[i]) /\ Answers(l[h]) /\ l[i].q = l[h].q => i = h

\* The question that m asks is not answered in the log l.
Open(m, l) == m.state = "needs-decision" => m.question \notin Closed(l)

\* An answer still to be logged closes an open question for the Appends after it.
AnswerWrite(w, i) ==
  /\ \A h \in DOMAIN w : Answers(w[h].entry) => h = i
  /\ \A h \in DOMAIN w : h >= i => w[h].man.state # "needs-decision"

Heard(k) ==
  /\ AnsweredOnce(log[k])
  /\ Present(k) => Open(man[k], log[k]) \/ AnswerLogged(k)
  /\ lock = k =>
       /\ ~Ahead(k) => Open(man[k], log[k])
       /\ \A i \in DOMAIN todo :
            /\ Open(todo[i].man, log[k])
            /\ Answers(todo[i].entry) /\ (i > 1 \/ ~Ahead(k)) =>
                 todo[i].entry.q \notin Closed(log[k]) /\ AnswerWrite(todo, i)

\* The answers in a log, once one more entry is appended.
LEMMA ClosedAppend ==
  ASSUME NEW l \in Seq(SoundEntry), NEW e \in SoundEntry, AnsweredOnce(l),
         Answers(e) => e.q \notin Closed(l)
  PROVE  /\ AnsweredOnce(Append(l, e))
         /\ Closed(Append(l, e)) = Closed(l) \cup (IF Answers(e) THEN {e.q} ELSE {})
<1> DEFINE a == Append(l, e)
           n == Len(l) + 1
<1>1. /\ DOMAIN a = DOMAIN l \cup {n} /\ a[n] = e
      /\ \A i \in DOMAIN l : a[i] = l[i]
  BY AppendProperties
<1> HIDE DEF a, n
<1>2. \A i \in DOMAIN l : Answers(l[i]) => l[i].q \in Closed(l)
  BY DEF Closed
<1>3. AnsweredOnce(a)
  BY <1>1, <1>2 DEF AnsweredOnce
<1>4. Closed(a) = Closed(l) \cup (IF Answers(e) THEN {e.q} ELSE {})
  BY <1>1 DEF Closed
<1>5. QED BY <1>3, <1>4 DEF a

\* A question that is answered is about an attempt whose outcome was logged,
\* and logged before the log's last entry.
LEMMA ClosedRan ==
  ASSUME NEW l \in Seq(SoundEntry), OrderIn(l), NEW q \in Closed(l)
  PROVE  /\ <<q.step, q.attempt>> \in Logged(l)
         /\ \E g \in DOMAIN l : /\ g < Len(l) /\ l[g].kind \in OutcomeKind
                                /\ l[g].unit = <<q.step, q.attempt>>
<1>1. PICK i \in DOMAIN l : Answers(l[i]) /\ l[i].q = q
  BY DEF Closed
<1>2. Asked(q) \in Before(l, i)
  BY <1>1 DEF OrderIn, Follows, Answers
<1>3. PICK h \in DOMAIN l : h < i /\ l[h] = Asked(q)
  BY <1>2 DEF Before
<1>4. Ran(Before(l, h), q)
  BY <1>3, EntryFields DEF OrderIn, Follows
<1>5. PICK g \in DOMAIN l : g < h /\ l[g].kind \in OutcomeKind /\ l[g].unit = <<q.step, q.attempt>>
  BY <1>4 DEF Ran, Before
<1>6. g < Len(l)
  BY <1>1, <1>3, <1>5
<1>7. QED BY <1>5, <1>6 DEF Logged

\* The same question is as open.
LEMMA OpenSame ==
  ASSUME NEW l, NEW m, NEW n, n.state = m.state, n.question = m.question, Open(m, l)
  PROVE  Open(n, l)
BY DEF Open

\* An operation that answers a question finds it open, one that asks asks a new one.
LEMMA OpensHeard ==
  ASSUME Inv, Inv', NEW k \in Job, NEW w, Opens(k, w), Forms(k, w), Once(k), Ordered(k),
         Heard(k), knows
  PROVE  Heard(k)'
<1> DEFINE e == w[1].entry
<1>1. /\ log[k] \in Seq(SoundEntry) /\ man[k] \in SoundManifest /\ w \in Seq(SoundWrite)
      /\ e \in SoundEntry /\ 1 \in DOMAIN w /\ todo' = w
      /\ log'[k] = Append(log[k], e) /\ man'[k] = man[k]
      /\ Present(k) /\ Ahead(k)' /\ ~Ahead(k)
  BY JobTypes, HeadWrite DEF Opens
<1>2. AnsweredOnce(log[k]) /\ (~AnswerLogged(k) => Open(man[k], log[k]))
  BY <1>1 DEF Heard
<1>3. ~(1 > 1) /\ 2 > 1 /\ 3 > 1
  OBVIOUS
<1> HIDE DEF e
\* It is enough that no question of the log's is asked, or answered, again.
<1>4. ASSUME ~Answers(e), Open(man[k], log[k]),
             \A i \in DOMAIN w :
               /\ Open(w[i].man, log[k])
               /\ Answers(w[i].entry) => w[i].entry.q \notin Closed(log[k]) /\ AnswerWrite(w, i)
      PROVE  Heard(k)'
  <2>1. AnsweredOnce(log'[k]) /\ Closed(log'[k]) = Closed(log[k])
    BY <1>1, <1>2, <1>4, ClosedAppend
  <2>2. \A m : Open(m, log[k]) => Open(m, log'[k])
    BY <2>1 DEF Open
  <2>3. QED BY <1>1, <1>4, <2>1, <2>2 DEF Heard
<1>5. CASE Repairing(k, w)
  <2>1. /\ e \in Missing(man[k], log[k]) /\ w[1].man = man[k] /\ DOMAIN w = {1} /\ w[1].entry = e
        /\ ~AnswerLogged(k)
    BY <1>5 DEF Repairing, e
  <2>2. ~Answers(e)
    BY <2>1, MissingEntries, EntryFields DEF Answers
  <2>3. QED BY <1>2, <1>4, <2>1, <2>2
<1>6. CASE Leasing(k, w)
  <2>1. DOMAIN w = {1, 2} /\ LeaseReady(k) /\ \A i \in {1, 2} : Keeps(man[k], w[i].man)
    BY <1>6, Zenon DEF Leasing
  <2>2. ~Answers(e) /\ ~Answers(w[2].entry)
    <3>1. /\ \A c, op : Intent(c, op).kind = "intent"
          /\ \A c : Taken(c).kind = "lease.taken"
          /\ Released.kind = "lease.released"
      BY EntryFields
    <3>2. /\ e.kind = "intent"
          /\ w[2].entry.kind = "lease.taken" \/ w[2].entry.kind = "lease.released"
      BY <1>6, <3>1, Zenon DEF Leasing, e
    <3>3. QED BY <3>2 DEF Answers
  <2>3. Open(man[k], log[k])
    BY <1>2, <2>1 DEF LeaseReady, Restored
  <2>4. ASSUME NEW i \in DOMAIN w
        PROVE  Open(w[i].man, log[k]) /\ ~Answers(w[i].entry)
    <3>1. i = 1 \/ i = 2
      BY <2>1, <2>4
    <3>2. Open(w[i].man, log[k])
      BY <2>1, <2>3, <3>1, OpenSame DEF Keeps
    <3>3. QED BY <2>2, <3>1, <3>2 DEF e
  <2>5. QED BY <1>4, <2>2, <2>3, <2>4
<1>7. CASE Advancing(k, w)
  <2>1. /\ DOMAIN w = {1, 2} /\ man[k].state = "waiting" /\ e.kind = "intent"
        /\ w[1].man.state = "waiting" /\ w[2].man.state = "running"
        /\ w[2].entry.kind = "step.started" /\ w[1].entry = e
    BY <1>7, EntryFields DEF Advancing, Keeps, e
  <2>2. QED BY <1>4, <2>1 DEF Open, Answers
<1>8. CASE Deciding(k, w)
  <2>1. /\ e.kind = "intent" /\ Keeps(man[k], w[1].man) /\ w[1].entry = e
        /\ DOMAIN w = {1, 2} \/ DOMAIN w = {1, 2, 3}
        /\ w[2].man.state \in {"waiting", "aborted"}
        /\ 3 \in DOMAIN w => w[3].entry = Finished("aborted") /\ w[3].man = w[2].man
        /\ man[k].state = "needs-decision"
    BY <1>8 DEF Deciding, e
  <2>2. w[2].entry.q = man[k].question
    BY <1>8, EntryFields DEF Deciding
  <2>3. Open(man[k], log[k])
    BY <1>2, <1>8 DEF Deciding, Restored
  <2>4. ~Answers(e) /\ (3 \in DOMAIN w => ~Answers(w[3].entry))
    BY <2>1, EntryFields DEF Answers
  <2>5. AnswerWrite(w, 2)
    <3>1. \A h \in DOMAIN w : Answers(w[h].entry) => h = 2
      BY <2>1, <2>4
    <3>2. \A h \in DOMAIN w : h >= 2 => w[h].man.state # "needs-decision"
      BY <2>1
    <3>3. QED BY <3>1, <3>2 DEF AnswerWrite
  <2>6. \A i \in DOMAIN w : Open(w[i].man, log[k])
    BY <2>1, <2>3 DEF Open, Keeps
  <2>7. \A i \in DOMAIN w :
          Answers(w[i].entry) => w[i].entry.q \notin Closed(log[k]) /\ AnswerWrite(w, i)
    <3>1. man[k].question \notin Closed(log[k])
      BY <2>1, <2>3 DEF Open
    <3>2. QED BY <2>1, <2>2, <2>4, <2>5, <3>1
  <2>8. QED BY <1>4, <2>3, <2>4, <2>6, <2>7
<1>9. CASE Folding(k, w)
  <2>1. /\ man[k].state = "running" /\ e.kind \in OutcomeKind /\ w[1].entry = e
        /\ DOMAIN w = {1} \/ (DOMAIN w = {1, 2} /\ w[2].man = w[1].man)
        /\ \/ w[1].man.state \in {"waiting", "succeeded"}
           \/ /\ w[1].man.state = "needs-decision"
              /\ <<w[1].man.question.step, w[1].man.question.attempt>> = Standing(man[k])
        /\ 2 \in DOMAIN w => \/ w[2].entry = Finished("succeeded")
                             \/ w[2].entry = Asked(w[1].man.question)
        /\ Restored(k) \/ lock = k
    BY <1>9 DEF Folding, e
  <2>2. ~Answers(e) /\ (2 \in DOMAIN w => ~Answers(w[2].entry))
    BY <2>1, EntryFields DEF Answers, OutcomeKind
  <2>3. Standing(man[k]) \notin Logged(log[k])
    BY <1>1, <2>1 DEF Restored, Once, Unlogged
  <2>4. Open(w[1].man, log[k])
    BY <1>1, <2>1, <2>3, ClosedRan DEF Open, Ordered
  <2>5. Open(man[k], log[k])
    BY <2>1 DEF Open
  <2>6. \A i \in DOMAIN w : Open(w[i].man, log[k]) /\ ~Answers(w[i].entry)
    BY <2>1, <2>2, <2>4
  <2>7. QED BY <1>4, <2>2, <2>5, <2>6
<1>10. QED BY <1>5, <1>6, <1>7, <1>8, <1>9 DEF Forms

\* An answer logged stays the only one of its question.
LEMMA HeardNext ==
  ASSUME Inv, Inv', NEW k \in Job, Does(k), Once(k), Ordered(k), Heard(k), knows,
         "abandon" \notin Fault
  PROVE  Heard(k)'
<1>1. log[k] \in Seq(SoundEntry) /\ man[k] \in SoundManifest /\ todo \in Seq(SoundWrite)
  BY JobTypes
<1>2. CASE Idles(k)
  <2>1. Open(man[k], log[k]) => Open(man'[k], log[k])
    BY <1>2, OpenSame DEF Idles, Same
  <2>2. AnswerLogged(k)' <=> AnswerLogged(k)
    BY <1>2 DEF Idles, Same, AnswerLogged, Last
  <2>3. QED BY <1>2, <2>1, <2>2 DEF Idles, Heard, Present
<1>3. CASE Writes(k)
  <2> DEFINE e == todo[1].entry
  <2>1. 1 \in DOMAIN todo /\ e \in SoundEntry /\ lock = k /\ ~Ahead(k) /\ Present(k)
    BY <1>1, <1>3, HeadWrite DEF Writes
  <2>2. log'[k] = Append(log[k], e) /\ man'[k] = man[k] /\ todo' = todo /\ Ahead(k)'
    BY <1>3 DEF Writes
  <2>3. Answers(e) => e.q \notin Closed(log[k]) /\ AnswerWrite(todo, 1)
    BY <2>1 DEF Heard
  <2>4. Open(man[k], log[k]) /\ \A i \in DOMAIN todo : Open(todo[i].man, log[k])
    BY <2>1 DEF Heard
  <2>5. \A i \in DOMAIN todo : i >= 1
    BY <1>1
  <2> HIDE DEF e
  <2>6. /\ AnsweredOnce(log'[k])
        /\ Closed(log'[k]) = Closed(log[k]) \cup (IF Answers(e) THEN {e.q} ELSE {})
    BY <1>1, <2>1, <2>2, <2>3, ClosedAppend DEF Heard
  <2>7. Open(man[k], log'[k]) \/ AnswerLogged(k)'
    <3>1. log'[k] # <<>> /\ Last(k)' = e
      BY <1>1, <2>1, <2>2, EntriesAppend DEF Last
    <3>2. QED BY <2>2, <2>4, <2>6, <3>1 DEF Open, AnswerLogged, Answers
  <2>8. ASSUME NEW i \in DOMAIN todo
        PROVE  /\ Open(todo[i].man, log'[k])
               /\ Answers(todo[i].entry) /\ i > 1 =>
                    todo[i].entry.q \notin Closed(log'[k]) /\ AnswerWrite(todo, i)
    <3>1. Open(todo[i].man, log'[k])
      <4>1. CASE Answers(e)
        BY <2>3, <2>5, <2>8, <4>1 DEF AnswerWrite, Open
      <4>2. CASE ~Answers(e)
        BY <2>4, <2>6, <2>8, <4>2 DEF Open
      <4>3. QED BY <4>1, <4>2
    <3>2. ASSUME Answers(todo[i].entry), i > 1
          PROVE  todo[i].entry.q \notin Closed(log'[k]) /\ AnswerWrite(todo, i)
      <4>1. todo[i].entry.q \notin Closed(log[k]) /\ AnswerWrite(todo, i)
        BY <2>1, <2>8, <3>2 DEF Heard
      <4>2. ~Answers(e)
        BY <2>1, <3>2, <4>1 DEF AnswerWrite, e
      <4>3. QED BY <2>6, <4>1, <4>2
    <3>3. QED BY <3>1, <3>2
  <2>9. QED BY <2>1, <2>2, <2>6, <2>7, <2>8 DEF Heard
<1>4. CASE Saves(k)
  <2>1. /\ 1 \in DOMAIN todo /\ Present(k) /\ lock = k /\ log'[k] = log[k] /\ todo # <<>>
        /\ lock' = k => todo' = Tail(todo)
    BY <1>1, <1>4, HeadWrite DEF Saves
  <2>2. Open(man'[k], log[k])
    BY <1>4, <2>1, OpenSame DEF Heard, Saves, Same
  <2>3. ASSUME NEW i \in DOMAIN Tail(todo)
        PROVE  /\ Open(Tail(todo)[i].man, log[k])
               /\ Answers(Tail(todo)[i].entry) =>
                    /\ Tail(todo)[i].entry.q \notin Closed(log[k])
                    /\ AnswerWrite(Tail(todo), i)
    <3> DEFINE t == Tail(todo)
    <3>1. /\ \A h \in DOMAIN t : /\ h \in Nat /\ h > 0 /\ h + 1 \in DOMAIN todo
                                 /\ t[h] = todo[h + 1] /\ h + 1 > 1
                                 /\ (h + 1 = i + 1 => h = i) /\ (h >= i => h + 1 >= i + 1)
    BY <1>1, <2>1, <2>3
    <3> HIDE DEF t
    <3> DEFINE n == i + 1
    <3>2. n \in DOMAIN todo /\ t[i] = todo[n] /\ n > 1
      BY <2>3, <3>1 DEF t
    <3>3. /\ Open(todo[n].man, log[k])
          /\ Answers(todo[n].entry) =>
               todo[n].entry.q \notin Closed(log[k]) /\ AnswerWrite(todo, n)
      <4> HIDE DEF n
      <4>1. QED BY <2>1, <3>2 DEF Heard
    <3>4. AnswerWrite(todo, n) => AnswerWrite(t, i)
      BY <3>1 DEF AnswerWrite
    <3>5. QED BY <3>2, <3>3, <3>4 DEF t
  <2>4. QED BY <1>4, <2>1, <2>2, <2>3 DEF Saves, Heard
<1>5. ASSUME NEW out \in Key \cup {"ok"}, Refolds(k, out)
      PROVE  Heard(k)'
  <2>1. /\ man[k].state = "running" /\ log[k] # <<>> /\ Last(k).kind \in OutcomeKind
        /\ Last(k).unit = man[k].unit /\ lock' # k /\ log'[k] = log[k] /\ Present(k)
    BY <1>5 DEF Refolds, Folded
  <2>2. Last(k).unit = <<man[k].step, man[k].attempt>> /\ Len(log[k]) \in DOMAIN log[k]
    BY <1>1, <2>1, RunningUnit DEF Standing
  <2>3. \/ man'[k].state \in {"waiting", "succeeded"}
        \/ /\ man'[k].state = "needs-decision"
           /\ man'[k].question.step = man[k].step /\ man'[k].question.attempt = man[k].attempt
    BY <1>1, <1>5, <2>1, SettleFields DEF Refolds, Same
  <2>4. Open(man'[k], log[k])
    <3>1. SUFFICES ASSUME man'[k].state = "needs-decision", man'[k].question \in Closed(log[k])
                   PROVE  FALSE
      BY DEF Open
    <3>2. PICK g \in DOMAIN log[k] :
             /\ g < Len(log[k]) /\ log[k][g].kind \in OutcomeKind
             /\ log[k][g].unit = <<man'[k].question.step, man'[k].question.attempt>>
      BY <1>1, <3>1, ClosedRan DEF Ordered
    <3>3. log[k][g].unit = log[k][Len(log[k])].unit
      BY <2>2, <2>3, <3>1, <3>2 DEF Last
    <3>4. g = Len(log[k])
      BY <2>1, <2>2, <3>2, <3>3 DEF Once, OnceIn, Last
    <3>5. QED BY <1>1, <3>2, <3>4
  <2>5. QED BY <2>1, <2>4 DEF Heard
<1>6. CASE Reapplies(k)
  <2>1. man'[k].state \in {"waiting", "aborted"}
    BY <1>1, <1>6 DEF Reapplies, Same, DecideState, SoundManifest, Manifest
  <2>2. QED BY <1>6, <2>1 DEF Reapplies, Heard, Open
<1>7. CASE Leaves(k)
  BY <1>7 DEF Leaves, Present, Heard, AnsweredOnce
<1>8. ASSUME NEW c \in Controller, Begins(k, c)
      PROVE  Heard(k)'
  <2> DEFINE n == NewManifest(c)
             b == [entry |-> Created(c), man |-> n]
  <2>1. b.man = n /\ n.state = "waiting" /\ ~Answers(b.entry)
    BY EntryFields DEF NewManifest, Answers
  <2>2. todo' = <<b>> /\ log'[k] = <<>> /\ man'[k] = n
    BY <1>8 DEF Begins
  <2> HIDE DEF n, b
  <2>3. \A l : Open(n, l)
    BY <2>1 DEF Open
  <2>4. DOMAIN todo' = {1} /\ todo'[1] = b /\ AnsweredOnce(log'[k])
    BY <2>2 DEF AnsweredOnce
  <2>5. QED BY <2>1, <2>2, <2>3, <2>4 DEF Heard
<1>9. ASSUME NEW w, Opens(k, w), Means(k, w)
      PROVE  Heard(k)'
  BY <1>9, MeansForms, OpensHeard
<1>10. QED
  BY <1>2, <1>3, <1>4, <1>5, <1>6, <1>7, <1>8, <1>9 DEF Does

\* The log is the job's history, as whoever verifies it reads it: in order, and
\* no later answer contradicts a logged one.
THEOREM LogsAreTrue ==
  ASSUME "abandon" \notin Fault, "replan" \notin Fault
  PROVE  Spec => []LogTrue
<1> DEFINE AllOnce == \A k \in Job : Once(k)
           AllOrdered == \A k \in Job : Ordered(k)
           AllHeard == \A k \in Job : Heard(k)
<1>1. Init => AllHeard
  <2>1. ASSUME Init, NEW k \in Job
        PROVE  Heard(k)
    <3>1. log[k] = <<>> /\ lock # k /\ ~Present(k)
      BY <2>1, ConstantsOK DEF Init, Present
    <3>2. QED BY <3>1 DEF Heard, AnsweredOnce
  <2>2. QED BY <2>1
<1>2. ASSUME Inv, Inv', [Next]_vars, AllOnce, AllOrdered, knows, AllHeard
      PROVE  AllHeard'
  BY <1>2, JobCases, HeardNext
<1>3. AllHeard => AnswerOnce
  BY DEF AnswerOnce, Heard, AnsweredOnce, Answers
<1>4. Spec => []AllOrdered
  BY OrderedInvariance
<1>5. Spec => []AllOnce
  BY OnceInvariance
<1> HIDE DEF AllOnce, AllOrdered, AllHeard
<1>6. Spec => []AllHeard
  BY <1>1, <1>2, <1>4, <1>5, KnowsInvariance, Invariance, PTL DEF Spec
<1>7. ASSUME AnswerOnce, LogInOrder
      PROVE  LogTrue
  BY <1>7 DEF LogTrue
<1>8. QED BY <1>3, <1>6, <1>7, LogsAreInOrder, PTL

---------------------------------------------------------------------------
(* The lifecycle.  A save moves the manifest on disk by one step of        *)
(* JobLifecycle or by none, because the manifests an operation means to    *)
(* save follow one another so; the line written before a save moves        *)
(* nothing.  That holds with every kind of fault.                          *)

\* The manifest n stands where m does.
Stays(m, n) == n.state = m.state /\ n.step = m.step /\ n.attempt = m.attempt

\* Or n is what m becomes in one step of its job's life.
Moves(m, n) ==
  \/ Stays(m, n)
  \/ /\ n.step = m.step /\ n.attempt = m.attempt
     /\ \/ m.state = "waiting" /\ n.state = "running"
        \/ m.state = "running" /\ n.state = "needs-decision"
        \/ m.state = "needs-decision" /\ n.state = "aborted"
        \/ m.state \in {"waiting", "running", "needs-decision"} /\ n.state = "failed"
  \/ /\ m.state = "needs-decision" /\ n.state = "waiting"
     /\ n.step = m.step /\ n.attempt = m.attempt + 1
  \/ /\ m.state = "running" /\ n.step = m.step + 1 /\ n.attempt = 0
     /\ n.state = IF m.step + 1 = NSteps THEN "succeeded" ELSE "waiting"

\* Each of the manifests w would save is a move from the one before.
Chained(m, w) ==
  \A i \in DOMAIN w : Moves(IF i = 1 THEN m ELSE w[i - 1].man, w[i].man)

\* A job that was never started stands at its beginning.
FromZero(k) == file[k] = "absent" => man[k].step = 0 /\ man[k].attempt = 0

Living(k) == FromZero(k) /\ (lock = k => Chained(man[k], todo))

\* What a manifest may become depends on where it stands, and on no more.
LEMMA MovesSame ==
  ASSUME NEW m, NEW n, NEW p, NEW q, Stays(m, p), Stays(n, q), Moves(m, n)
  PROVE  Moves(p, q)
BY DEF Stays, Moves

\* One, two or three Appends that follow one another.
LEMMA FewChained ==
  ASSUME NEW m, NEW a, NEW b, NEW c, Moves(m, a.man)
  PROVE  /\ Chained(m, <<a>>)
         /\ Moves(a.man, b.man) => Chained(m, <<a, b>>)
         /\ Moves(a.man, b.man) /\ Moves(b.man, c.man) => Chained(m, <<a, b, c>>)
<1>1. ASSUME NEW w, DOMAIN w = {1}, w[1] = a
      PROVE  Chained(m, w)
  BY <1>1 DEF Chained
<1>2. ASSUME NEW w, DOMAIN w = {1, 2}, w[1] = a, w[2] = b, Moves(a.man, b.man)
      PROVE  Chained(m, w)
  BY <1>2 DEF Chained
<1>3. ASSUME NEW w, DOMAIN w = {1, 2, 3}, w[1] = a, w[2] = b, w[3] = c,
             Moves(a.man, b.man), Moves(b.man, c.man)
      PROVE  Chained(m, w)
  BY <1>3 DEF Chained
<1>4. /\ DOMAIN <<a>> = {1} /\ <<a>>[1] = a
      /\ DOMAIN <<a, b>> = {1, 2} /\ <<a, b>>[1] = a /\ <<a, b>>[2] = b
      /\ DOMAIN <<a, b, c>> = {1, 2, 3}
      /\ <<a, b, c>>[1] = a /\ <<a, b, c>>[2] = b /\ <<a, b, c>>[3] = c
  OBVIOUS
<1>5. QED BY <1>1, <1>2, <1>3, <1>4

\* What a running attempt's outcome makes of the job.
LEMMA SettleMoves ==
  ASSUME NEW m \in SoundManifest, m.state = "running", NEW out
  PROVE  Moves(m, Settle(m, out)) /\ Settle(m, out).state # "running"
BY DEF Settle, SetQuestion, Moves, SoundManifest, Manifest

\* What an answer makes of it.
LEMMA DecideMoves ==
  ASSUME NEW m \in SoundManifest, m.state = "needs-decision", NEW opt
  PROVE  Moves(m, DecideState(m, opt))
BY DEF DecideState, Moves, SoundManifest, Manifest

\* The Appends of an operation that starts follow one another.
LEMMA MeansChained ==
  ASSUME Inv, NEW k \in Job, NEW w, Means(k, w)
  PROVE  Chained(man[k], w)
<1>1. man[k] \in SoundManifest
  BY JobTypes
<1>2. CASE RepairWrites(k, w)
  <2>1. PICK e : w = <<[entry |-> e, man |-> man[k]]>>
    BY <1>2 DEF RepairWrites
  <2> DEFINE a == [entry |-> e, man |-> man[k]]
  <2>2. a.man = man[k]
    OBVIOUS
  <2>3. Moves(man[k], a.man)
    BY <2>2 DEF Moves, Stays
  <2> HIDE DEF a
  <2>4. QED BY <2>1, <2>3, FewChained DEF a
<1>3. CASE TakeWrites(k, w) \/ ReleaseWrites(k, w)
  <2>1. PICK c, d, e :
          LET m == IF TakeWrites(k, w) THEN TakenBy(man[k], c) ELSE ReleasedLease(man[k])
          IN  w = <<[entry |-> d, man |-> m], [entry |-> e, man |-> m]>>
    BY <1>3 DEF TakeWrites, ReleaseWrites
  <2> DEFINE m == IF TakeWrites(k, w) THEN TakenBy(man[k], c) ELSE ReleasedLease(man[k])
             a == [entry |-> d, man |-> m]
             b == [entry |-> e, man |-> m]
  <2>2. Stays(man[k], m)
    BY <1>1 DEF Stays, TakenBy, ReleasedLease, SoundManifest, Manifest
  <2> HIDE DEF m
  <2>3. a.man = m /\ b.man = m
    OBVIOUS
  <2>4. Moves(man[k], a.man) /\ Moves(a.man, b.man)
    BY <2>2, <2>3 DEF Moves, Stays
  <2> HIDE DEF a, b
  <2>5. w = <<a, b>>
    BY <2>1 DEF a, b, m
  <2>6. QED BY <2>4, <2>5, FewChained
<1>4. CASE AdvanceWrites(k, w)
  <2> DEFINE m == Renewed(man[k])
             n == Running(m)
  <2>1. PICK d, e : w = <<[entry |-> d, man |-> m], [entry |-> e, man |-> n]>>
    BY <1>4 DEF AdvanceWrites
  <2> DEFINE a == [entry |-> d, man |-> m]
             b == [entry |-> e, man |-> n]
  <2>2. Stays(man[k], m) /\ man[k].state = "waiting"
    BY <1>1, <1>4 DEF AdvanceWrites, Stays, Renewed, SoundManifest, Manifest
  <2>3. n.state = "running" /\ n.step = m.step /\ n.attempt = m.attempt
    BY <1>1 DEF Running, Renewed, SoundManifest, Manifest
  <2> HIDE DEF m, n
  <2>4. a.man = m /\ b.man = n
    OBVIOUS
  <2>5. Moves(man[k], a.man) /\ Moves(a.man, b.man)
    BY <2>2, <2>3, <2>4 DEF Moves, Stays
  <2> HIDE DEF a, b
  <2>6. w = <<a, b>>
    BY <2>1 DEF a, b
  <2>7. QED BY <2>5, <2>6, FewChained
<1>5. CASE DecideWrites(k, w)
  <2> DEFINE m0 == Renewed(man[k])
  <2>1. PICK opt, d, e, f :
          LET m1 == DecideState(m0, opt)
              a  == [entry |-> d, man |-> m0]
              b  == [entry |-> e, man |-> m1]
              c  == [entry |-> f, man |-> m1]
          IN  w = <<a, b, c>> \/ w = <<a, b>>
    BY <1>5 DEF DecideWrites
  <2> DEFINE m1 == DecideState(m0, opt)
             a  == [entry |-> d, man |-> m0]
             b  == [entry |-> e, man |-> m1]
             c  == [entry |-> f, man |-> m1]
  <2>2. Stays(man[k], m0) /\ man[k].state = "needs-decision"
    BY <1>1, <1>5 DEF DecideWrites, Stays, Renewed, SoundManifest, Manifest
  <2>3. m0 \in SoundManifest /\ m0.state = "needs-decision"
    BY <1>1, <2>2 DEF Renewed, SoundManifest, Manifest, Standing
  <2> HIDE DEF m0
  <2>4. Moves(m0, m1)
    BY <2>3, DecideMoves
  <2> HIDE DEF m1
  <2>5. a.man = m0 /\ b.man = m1 /\ c.man = m1
    OBVIOUS
  <2>6. Moves(man[k], a.man) /\ Moves(a.man, b.man) /\ Moves(b.man, c.man)
    BY <2>2, <2>4, <2>5 DEF Moves, Stays
  <2> HIDE DEF a, b, c
  <2>7. w = <<a, b, c>> \/ w = <<a, b>>
    BY <2>1 DEF a, b, c, m1
  <2>8. QED BY <2>6, <2>7, FewChained
<1>6. CASE FoldWrites(k, w) \/ AskWrites(k, w)
  <2>1. man[k].state = "running"
    BY <1>6 DEF FoldWrites, AskWrites, Inv, Order, JobInv, Locked, Launchable
  <2>2. PICK m, d, e :
          /\ \/ \E out : m = Settle(man[k], out)
             \/ m = SetQuestion(man[k], "failed")
          /\ \/ w = <<[entry |-> d, man |-> m]>>
             \/ w = <<[entry |-> d, man |-> m], [entry |-> e, man |-> m]>>
    BY <1>6 DEF FoldWrites, AskWrites
  <2>3. Moves(man[k], m)
    <3>1. SetQuestion(man[k], "failed") = Settle(man[k], "failed")
      BY DEF Settle
    <3>2. QED BY <1>1, <2>1, <2>2, <3>1, SettleMoves
  <2> DEFINE a == [entry |-> d, man |-> m]
             b == [entry |-> e, man |-> m]
  <2>4. a.man = m /\ b.man = m
    OBVIOUS
  <2>5. Moves(man[k], a.man) /\ Moves(a.man, b.man)
    BY <2>3, <2>4 DEF Moves, Stays
  <2> HIDE DEF a, b
  <2>6. w = <<a>> \/ w = <<a, b>>
    BY <2>2 DEF a, b
  <2>7. QED BY <2>5, <2>6, FewChained
<1>7. CASE AbandonWrites(k, w)
  <2>1. PICK m, d :
          /\ m.state = "failed" /\ m.step = man[k].step /\ m.attempt = man[k].attempt
          /\ w = <<[entry |-> d, man |-> m]>>
    BY <1>7 DEF AbandonWrites
  <2> DEFINE a == [entry |-> d, man |-> m]
  <2>2. man[k].state \in {"waiting", "running", "needs-decision"}
    BY <1>1, <1>7 DEF AbandonWrites, Terminal, SoundManifest, Manifest, State
  <2>3. a.man = m
    OBVIOUS
  <2>4. Moves(man[k], a.man)
    BY <2>1, <2>2, <2>3 DEF Moves
  <2> HIDE DEF a
  <2>5. QED BY <2>1, <2>4, FewChained DEF a
<1>8. QED BY <1>2, <1>3, <1>4, <1>5, <1>6, <1>7 DEF Means

\* Whatever a step does to a job, what is still to be saved goes on from there.
LEMMA LivingNext ==
  ASSUME Inv, Inv', NEW k \in Job, Does(k), Living(k)
  PROVE  Living(k)'
<1>1. man[k] \in SoundManifest /\ todo \in Seq(SoundWrite) /\ man'[k] \in SoundManifest
  BY JobTypes DEF Inv, Shape
<1>2. CASE Idles(k)
  <2>1. FromZero(k)'
    BY <1>2 DEF Idles, Same, Living, FromZero
  <2>2. ASSUME lock' = k
        PROVE  Chained(man'[k], todo')
    <3>1. Chained(man[k], todo) /\ todo' = todo /\ Stays(man[k], man'[k])
      BY <1>2, <2>2 DEF Idles, Living, Same, Stays
    <3>2. \A m : Stays(m, m)
      BY DEF Stays
    <3>3. \A i \in DOMAIN todo :
            Moves(IF i = 1 THEN man[k] ELSE todo[i - 1].man, todo[i].man)
      BY <3>1 DEF Chained
    <3>4. \A i \in DOMAIN todo :
            Moves(IF i = 1 THEN man'[k] ELSE todo[i - 1].man, todo[i].man)
      BY <3>1, <3>2, <3>3, MovesSame
    <3>5. QED BY <3>1, <3>4 DEF Chained
  <2>3. QED BY <2>1, <2>2 DEF Living
<1>3. CASE Writes(k)
  BY <1>3 DEF Writes, Living, FromZero, Present
<1>4. CASE Saves(k)
  <2>1. FromZero(k)'
    BY <1>4 DEF Saves, FromZero, Present
  <2>2. ASSUME lock' = k, NEW i \in DOMAIN todo'
        PROVE  Moves(IF i = 1 THEN man'[k] ELSE todo'[i - 1].man, todo'[i].man)
    <3>1. todo' = Tail(todo) /\ lock = k /\ todo # <<>> /\ Stays(todo[1].man, man'[k])
      BY <1>4, <2>2 DEF Saves, Same, Stays
    <3> DEFINE n == i + 1
    <3>2. /\ n \in DOMAIN todo /\ todo'[i] = todo[n] /\ n # 1 /\ n - 1 = i /\ i \in Nat \ {0}
          /\ i # 1 => todo'[i - 1] = todo[i]
      BY <1>1, <2>2, <3>1
    <3> HIDE DEF n
    <3>3. Moves(todo[i].man, todo[n].man)
      BY <3>1, <3>2 DEF Living, Chained
    <3>4. Stays(todo[i].man, IF i = 1 THEN man'[k] ELSE todo'[i - 1].man)
      BY <3>1, <3>2 DEF Stays
    <3>5. Stays(todo[n].man, todo'[i].man)
      BY <3>2 DEF Stays
    <3>6. QED BY <3>3, <3>4, <3>5, MovesSame
  <2>3. QED BY <2>1, <2>2 DEF Living, Chained
<1>5. CASE Reapplies(k) \/ \E out \in Key \cup {"ok"} : Refolds(k, out)
  BY <1>5 DEF Reapplies, Refolds, Living, FromZero, Present
<1>6. CASE Leaves(k)
  BY <1>6 DEF Leaves, Living, FromZero
<1>7. ASSUME NEW c \in Controller, Begins(k, c)
      PROVE  Living(k)'
  <2> DEFINE n == NewManifest(c)
             b == [entry |-> Created(c), man |-> n]
  <2>1. b.man = n
    OBVIOUS
  <2>2. todo' = <<b>> /\ man'[k] = n /\ Present(k)'
    BY <1>7 DEF Begins
  <2> HIDE DEF n, b
  <2>3. Chained(n, <<b>>)
    BY <2>1, FewChained DEF Moves, Stays
  <2>4. QED BY <2>2, <2>3 DEF Living, FromZero, Present
<1>8. ASSUME NEW w, Opens(k, w), Means(k, w)
      PROVE  Living(k)'
  BY <1>8, MeansChained DEF Opens, Living, FromZero, Present
<1>9. QED
  BY <1>2, <1>3, <1>4, <1>5, <1>6, <1>7, <1>8 DEF Does

\* So it does in every state.
LEMMA LivingInvariance == Spec => [](\A k \in Job : Living(k))
<1> DEFINE All == \A k \in Job : Living(k)
<1>1. Init => All
  <2>1. ASSUME Init, NEW k \in Job
        PROVE  Living(k)
    BY <2>1, ConstantsOK DEF Init, Living, FromZero, NewManifest
  <2>2. QED BY <2>1
<1>2. ASSUME Inv, Inv', [Next]_vars, All
      PROVE  All'
  BY <1>2, JobCases, LivingNext
<1> HIDE DEF All
<1>3. Spec => []All
  BY <1>1, <1>2, Invariance, PTL DEF Spec
<1>4. QED BY <1>3 DEF All

\* What JobLifecycle calls the phase of a job.
Stage(k) ==
  IF file[k] = "absent" THEN "none"
  ELSE IF file[k] # "present" THEN "pruned"
  ELSE IF torn[k] THEN "damaged" ELSE man[k].state

\* Nothing that the lifecycle tells happens to a job.
Still(k) == Stage(k)' = Stage(k) /\ man'[k].step = man[k].step /\ man'[k].attempt = man[k].attempt

\* A step that nothing of the lifecycle shows is a stutter.
LEMMA StillStutters ==
  ASSUME \A k \in Job : Still(k), active' = active
  PROVE  UNCHANGED Lifecycle!lifecycle
BY DEF Still, Stage, Lifecycle!lifecycle

\* The lifecycle of a job that moves, and of the others.
Turns(j, from, to, step, attempt) ==
  /\ Stage(j) = from /\ Stage(j)' = to /\ man'[j].step = step /\ man'[j].attempt = attempt
  /\ active' = active
  /\ \A k \in Job : k # j => Still(k)

\* The three functions a lifecycle is told in, beside what acts.
Stages   == [k \in Job |-> Stage(k)]
Steps    == [k \in Job |-> man[k].step]
Attempts == [k \in Job |-> man[k].attempt]

\* They are the abstract variables.
LEMMA LifecycleVars ==
  /\ Lifecycle!lifecycle = <<Stages, Steps, Attempts, active>>
  /\ \A j, from, to :
       Lifecycle!Move(j, from, to) <=> Stages[j] = from /\ Stages' = [Stages EXCEPT ![j] = to]
<1>1. Lifecycle!lifecycle = <<Stages, Steps, Attempts, active>>
  BY DEF Lifecycle!lifecycle, Stages, Steps, Attempts, Stage
<1>2. ASSUME NEW j, NEW from, NEW to
      PROVE  Lifecycle!Move(j, from, to) <=> Stages[j] = from /\ Stages' = [Stages EXCEPT ![j] = to]
  BY DEF Lifecycle!Move, Stages, Stage
<1>3. QED BY <1>1, <1>2

\* Each of them after one job has moved.
LEMMA TurnsForm ==
  ASSUME NEW j \in Job, NEW from, NEW to, NEW step, NEW attempt,
         Turns(j, from, to, step, attempt)
  PROVE  /\ Stages[j] = from /\ Stages' = [Stages EXCEPT ![j] = to]
         /\ Steps' = [Steps EXCEPT ![j] = step] /\ (step = man[j].step => Steps' = Steps)
         /\ Attempts' = [Attempts EXCEPT ![j] = attempt]
         /\ attempt = man[j].attempt => Attempts' = Attempts
BY DEF Turns, Still, Stages, Steps, Attempts

\* The steps of a lifecycle that a save of a manifest may be, in these terms.
LEMMA LifecycleSaves ==
  ASSUME NEW j
  PROVE  /\ /\ active[j] = {} /\ Lifecycle!Move(j, "waiting", "running")
            /\ UNCHANGED <<Steps, Attempts, active>>
            => Lifecycle!Begin(j)
         /\ /\ active[j] = {} /\ Lifecycle!Move(j, "running", "needs-decision")
            /\ UNCHANGED <<Steps, Attempts, active>>
            => Lifecycle!Ask(j)
         /\ /\ Lifecycle!Move(j, "needs-decision", "aborted")
            /\ UNCHANGED <<Steps, Attempts, active>>
            => Lifecycle!Abort(j)
         /\ /\ Lifecycle!Move(j, "needs-decision", "waiting")
            /\ Attempts' = [Attempts EXCEPT ![j] = @ + 1] /\ UNCHANGED <<Steps, active>>
            => Lifecycle!Retry(j)
BY DEF Steps, Attempts, Lifecycle!Begin, Lifecycle!Ask, Lifecycle!Abort, Lifecycle!Retry

\* A success moves the job on, the last one ends it.
LEMMA LifecycleSucceeds ==
  ASSUME NEW j \in Job, active[j] = {}, NEW to,
         to = IF man[j].step + 1 = NSteps THEN "succeeded" ELSE "waiting",
         Lifecycle!Move(j, "running", to), UNCHANGED active,
         Steps' = [Steps EXCEPT ![j] = @ + 1], Attempts' = [Attempts EXCEPT ![j] = 0]
  PROVE  Lifecycle!Succeed(j)
<1>1. Steps[j] = man[j].step
  BY DEF Steps
<1>2. /\ Stages[j] = "running"
      /\ Stages' = [Stages EXCEPT ![j] =
                      IF Steps[j] + 1 = NSteps THEN "succeeded" ELSE "waiting"]
  BY <1>1, LifecycleVars
<1>3. QED BY <1>2 DEF Stages, Stage, Steps, Attempts, Lifecycle!Move, Lifecycle!Succeed

\* A job that waits, runs or asks may be abandoned.
LEMMA LifecycleAbandons ==
  ASSUME NEW j, NEW from \in {"waiting", "running", "needs-decision"},
         active[j] = {}, Lifecycle!Move(j, from, "failed"), UNCHANGED <<Steps, Attempts, active>>
  PROVE  Lifecycle!Abandon(j)
BY DEF Steps, Attempts, Lifecycle!Move, Lifecycle!Abandon

\* A save that moves a job, none of whose steps acts, is a step of its life.
LEMMA SavedMoves ==
  ASSUME NEW j \in Job, Present(j), ~torn[j], UNCHANGED <<file, torn, active>>,
         Moves(man[j], man'[j]), Stays(man[j], man'[j]) \/ active[j] = {},
         \A k \in Job : k # j => Stays(man[k], man'[k])
  PROVE  Lifecycle!Next \/ UNCHANGED Lifecycle!lifecycle
<1>1. /\ Stage(j) = man[j].state /\ Stage(j)' = man'[j].state
      /\ \A k \in Job : k # j => Still(k)
  BY DEF Stage, Present, Still, Stays
<1>2. CASE Stays(man[j], man'[j])
  <2>1. \A k \in Job : Still(k)
    BY <1>1, <1>2 DEF Still, Stays
  <2>2. QED BY <2>1, StillStutters
<1>3. CASE /\ active[j] = {}
           /\ man'[j].step = man[j].step /\ man'[j].attempt = man[j].attempt
           /\ \/ man[j].state = "waiting" /\ man'[j].state = "running"
              \/ man[j].state = "running" /\ man'[j].state = "needs-decision"
              \/ man[j].state = "needs-decision" /\ man'[j].state = "aborted"
              \/ /\ man[j].state \in {"waiting", "running", "needs-decision"}
                 /\ man'[j].state = "failed"
  <2>0. PICK from, to : from = man[j].state /\ to = man'[j].state
    OBVIOUS
  <2>1. Turns(j, from, to, man[j].step, man[j].attempt)
    BY <1>1, <1>3, <2>0 DEF Turns
  <2>2. /\ Lifecycle!Move(j, from, to)
        /\ UNCHANGED <<Steps, Attempts, active>>
    BY <2>1, TurnsForm, LifecycleVars DEF Turns
  <2>3. \/ Lifecycle!Begin(j) \/ Lifecycle!Ask(j) \/ Lifecycle!Abort(j) \/ Lifecycle!Abandon(j)
    BY <1>3, <2>0, <2>2, LifecycleSaves, LifecycleAbandons
  <2>4. QED BY <2>3 DEF Lifecycle!Next
<1>4. CASE /\ man[j].state = "needs-decision" /\ man'[j].state = "waiting"
           /\ man'[j].step = man[j].step /\ man'[j].attempt = man[j].attempt + 1
  <2>1. Turns(j, "needs-decision", "waiting", man[j].step, man[j].attempt + 1)
    BY <1>1, <1>4 DEF Turns
  <2>2. Attempts[j] = man[j].attempt
    BY DEF Attempts
  <2>3. /\ Lifecycle!Move(j, "needs-decision", "waiting") /\ UNCHANGED <<Steps, active>>
        /\ Attempts' = [Attempts EXCEPT ![j] = @ + 1]
    BY <2>1, <2>2, TurnsForm, LifecycleVars DEF Turns
  <2>4. Lifecycle!Retry(j)
    BY <2>3, LifecycleSaves
  <2>5. QED BY <2>4 DEF Lifecycle!Next
<1>5. CASE /\ active[j] = {}
           /\ man[j].state = "running" /\ man'[j].step = man[j].step + 1 /\ man'[j].attempt = 0
           /\ man'[j].state = IF man[j].step + 1 = NSteps THEN "succeeded" ELSE "waiting"
  <2>0. PICK to : to = IF man[j].step + 1 = NSteps THEN "succeeded" ELSE "waiting"
    OBVIOUS
  <2>1. Turns(j, "running", to, man[j].step + 1, 0)
    BY <1>1, <1>5, <2>0 DEF Turns
  <2>2. Steps[j] = man[j].step
    BY DEF Steps
  <2>3. /\ Lifecycle!Move(j, "running", to) /\ UNCHANGED active
        /\ Steps' = [Steps EXCEPT ![j] = @ + 1] /\ Attempts' = [Attempts EXCEPT ![j] = 0]
    BY <2>1, <2>2, TurnsForm, LifecycleVars DEF Turns
  <2>4. Lifecycle!Succeed(j)
    BY <1>5, <2>0, <2>3, LifecycleSucceeds
  <2>5. QED BY <2>4 DEF Lifecycle!Next
<1>6. QED
  BY <1>2, <1>3, <1>4, <1>5 DEF Moves, Stays

\* What leaves the files, the torn lines, the units and the places of the jobs alone.
LEMMA QuietLife ==
  ASSUME UNCHANGED <<file, torn, active>>, \A k \in Job : Stays(man[k], man'[k])
  PROVE  UNCHANGED Lifecycle!lifecycle
<1>1. \A k \in Job : Still(k)
  BY DEF Still, Stage, Stays
<1>2. QED BY <1>1, StillStutters

\* An operation's start, its lines, the clock, most faults.
LEMMA QuietActions ==
  ASSUME Inv, NEW j \in Job,
         \/ UNCHANGED vars
         \/ Adopt(j) \/ AppendTrailing(j) \/ Fold(j) \/ WriteEntry(j)
         \/ \E c \in Controller :
              \/ Renew(j, c) \/ Take(j, c) \/ Release(j, c)
              \/ \E u \in Unit : Advance(j, c, u)
              \/ \E q \in Question, opt \in Option : Decide(j, c, q, opt)
         \/ RefuseStart(j) \/ StartFails(j) \/ StartUnclear(j)
         \/ \E u \in Unit : BeginStep(j, u) \/ LoseResult(j, u)
         \/ Abandon(j) \/ AbandonAdopt(j) \/ ClockMoves(j)
         \/ FailWrite \/ Crash \/ Boot
  PROVE  UNCHANGED Lifecycle!lifecycle
<1>1. man \in [Job -> SoundManifest]
  BY DEF Inv, Shape
<1>2. CASE Adopt(j) \/ AbandonAdopt(j) \/ ClockMoves(j) \/ \E c \in Controller : Renew(j, c)
  <2>1. /\ UNCHANGED <<file, torn, active>>
        /\ \/ man' = [man EXCEPT ![j].loglen = Len(log[j])]
           \/ man' = [man EXCEPT ![j].fresh = ~@]
           \/ man' = [man EXCEPT ![j] = Renewed(@)]
    BY <1>2 DEF Adopt, AbandonAdopt, ClockMoves, Renew, units
  <2>2. \A k \in Job : Stays(man[k], man'[k])
    <3>1. CASE man' = [man EXCEPT ![j].loglen = Len(log[j])]
      BY <1>1, <3>1 DEF Stays, SoundManifest, Manifest
    <3>2. CASE man' = [man EXCEPT ![j].fresh = ~@]
      BY <1>1, <3>2 DEF Stays, SoundManifest, Manifest
    <3>3. CASE man' = [man EXCEPT ![j] = Renewed(@)]
      BY <1>1, <3>3 DEF Stays, Renewed, SoundManifest, Manifest
    <3>4. QED BY <2>1, <3>1, <3>2, <3>3
  <2>3. QED BY <2>1, <2>2, QuietLife
<1>3. CASE UNCHANGED <<file, man, torn, active>>
  BY <1>3, QuietLife DEF Stays
<1>4. CASE \/ UNCHANGED vars \/ AppendTrailing(j) \/ Fold(j) \/ WriteEntry(j)
           \/ \E c \in Controller :
                \/ Take(j, c) \/ Release(j, c)
                \/ \E u \in Unit : Advance(j, c, u)
                \/ \E q \in Question, opt \in Option : Decide(j, c, q, opt)
           \/ Abandon(j) \/ FailWrite \/ Crash \/ Boot
  BY <1>3, <1>4 DEF vars, AppendTrailing, Fold, WriteEntry, Take, Release, Advance, Decide,
                    Abandon, FailWrite, Crash, Boot, disk, units
<1>5. CASE \/ RefuseStart(j) \/ StartFails(j) \/ StartUnclear(j)
           \/ \E u \in Unit : BeginStep(j, u) \/ LoseResult(j, u)
  BY <1>3, <1>5 DEF RefuseStart, StartFails, StartUnclear, BeginStep, LoseResult, disk, units
<1>6. QED BY <1>2, <1>4, <1>5

\* The saves of a manifest that may move its job.
LEMMA SaveLives ==
  ASSUME Inv, NEW j \in Job, Living(j), SaveManifest(j) \/ Refold(j) \/ Reapply(j)
  PROVE  Lifecycle!Next \/ UNCHANGED Lifecycle!lifecycle
<1>1. /\ man \in [Job -> SoundManifest] /\ log[j] \in Seq(SoundEntry) /\ todo \in Seq(SoundWrite)
      /\ JobInv(j)
  BY DEF Inv, Shape, Order
<1>2. CASE SaveManifest(j)
  <2>1. /\ lock = j /\ todo # <<>> /\ UNCHANGED <<file, torn, active>>
        /\ man' = [man EXCEPT ![j] = [Head(todo).man EXCEPT !.loglen = Len(log[j])]]
    BY <1>2 DEF SaveManifest, units
  <2>2. Head(todo) = todo[1] /\ 1 \in DOMAIN todo /\ todo[1].man \in SoundManifest
    BY <1>1, <2>1, HeadWrite
  <2>3. Stays(todo[1].man, man'[j])
    BY <1>1, <2>1, <2>2 DEF Stays, SoundManifest, Manifest
  <2>4. Moves(man[j], todo[1].man)
    BY <2>1, <2>2 DEF Living, Chained
  <2>5. Moves(man[j], man'[j])
    BY <2>3, <2>4, MovesSame DEF Stays
  <2>6. active[j] = {} \/ man'[j].state = man[j].state
    BY <1>1, <2>1, <2>2, <2>3 DEF JobInv, Pending, PendingWrite, Stays
  <2>7. Stays(man[j], man'[j]) \/ active[j] = {}
    BY <2>5, <2>6 DEF Moves, Stays
  <2>8. \A k \in Job : k # j => Stays(man[k], man'[k])
    BY <1>1, <2>1 DEF Stays
  <2>9. QED BY <1>1, <2>1, <2>5, <2>7, <2>8, SavedMoves DEF JobInv, Locked
<1>3. CASE Refold(j)
  <2>1. PICK out : man' = [man EXCEPT ![j] = Settle(@, out)]
    BY <1>3 DEF Refold
  <2>2. UNCHANGED <<file, torn, active>> /\ Present(j) /\ ~torn[j] /\ Folded(j)
    BY <1>3 DEF Refold, units, Loaded, Present
  <2>3. Moves(man[j], man'[j])
    BY <1>1, <2>1, <2>2, SettleMoves DEF Folded
  <2>4. active[j] = {}
    <3>1. Last(j).unit \in Logged(log[j])
      BY <1>1, <2>2, EntriesAppend DEF Folded, Last, Logged
    <3>2. QED BY <1>1, <2>2, <3>1 DEF Folded, JobInv, Turn
  <2>5. \A k \in Job : k # j => Stays(man[k], man'[k])
    BY <1>1, <2>1 DEF Stays
  <2>6. QED BY <2>2, <2>3, <2>4, <2>5, SavedMoves
<1>4. CASE Reapply(j)
  <2>1. PICK opt : man' = [man EXCEPT ![j] = DecideState(@, opt)]
    BY <1>4 DEF Reapply
  <2>2. UNCHANGED <<file, torn, active>> /\ Present(j) /\ ~torn[j] /\ AnswerLogged(j)
    BY <1>4 DEF Reapply, units, Loaded, Present
  <2>3. Moves(man[j], man'[j])
    BY <1>1, <2>1, <2>2, DecideMoves DEF AnswerLogged
  <2>4. active[j] = {}
    BY <1>1, <2>2 DEF AnswerLogged, JobInv, Turn
  <2>5. \A k \in Job : k # j => Stays(man[k], man'[k])
    BY <1>1, <2>1 DEF Stays
  <2>6. QED BY <2>2, <2>3, <2>4, <2>5, SavedMoves
<1>5. QED BY <1>2, <1>3, <1>4

\* A new job, where every other is over.
LEMMA StartLives ==
  ASSUME Inv, NEW j \in Job, Living(j), NEW c \in Controller, Start(j, c)
  PROVE  Lifecycle!Create(j)
<1>1. /\ man \in [Job -> SoundManifest] /\ file \in [Job -> {"absent", "present", "orphan", "gone"}]
      /\ torn[j] = FALSE /\ torn' = torn
  BY DEF Inv, Shape, Order, JobInv, Unborn, Start
<1>2. /\ file[j] = "absent" /\ file' = [file EXCEPT ![j] = "present"]
      /\ man' = [man EXCEPT ![j] = NewManifest(c)]
      /\ active' = active
  BY DEF Start, units
<1>3. man[j].step = 0 /\ man[j].attempt = 0
  BY <1>2 DEF Living, FromZero
<1>4. /\ NewManifest(c).state = "waiting" /\ NewManifest(c).step = 0 /\ NewManifest(c).attempt = 0
  BY DEF NewManifest
<1>5. /\ file'[j] = "present" /\ man'[j] = NewManifest(c)
      /\ \A k \in Job : k # j => file'[k] = file[k] /\ man'[k] = man[k]
  BY <1>1, <1>2
<1>6. Stage(j) = "none" /\ Stage(j)' = "waiting"
  BY <1>1, <1>2, <1>4, <1>5 DEF Stage
<1>7. \A k \in Job : k # j => Still(k)
  BY <1>1, <1>5 DEF Still, Stage
<1>8. Turns(j, "none", "waiting", man[j].step, man[j].attempt)
  BY <1>2, <1>3, <1>4, <1>5, <1>6, <1>7 DEF Turns
<1>9. Lifecycle!Move(j, "none", "waiting") /\ UNCHANGED <<Steps, Attempts, active>>
  BY <1>8, TurnsForm, LifecycleVars DEF Turns
<1>10. \A k \in Job : Stage(k) \in Lifecycle!Over
  BY DEF Start, BoxFree, Stage, Terminal, Lifecycle!Over
<1>11. QED
  BY <1>9, <1>10 DEF Stages, Stage, Steps, Attempts, Lifecycle!Create

\* A finished job is forgotten, step by step.
LEMMA PruneLives ==
  ASSUME Inv, NEW j \in Job, Prune(j)
  PROVE  Lifecycle!Forget(j)
<1>1. /\ man \in [Job -> SoundManifest] /\ file \in [Job -> {"absent", "present", "orphan", "gone"}]
  BY DEF Inv, Shape
<1>2. /\ file[j] = "present" /\ ~torn[j] /\ Terminal(man[j]) /\ torn' = torn /\ active' = active
      /\ file' = [file EXCEPT ![j] = "orphan"] /\ man' = [man EXCEPT ![j] = NewManifest(NoOne)]
  BY DEF Prune, Loaded, units
<1>3. NewManifest(NoOne).step = 0 /\ NewManifest(NoOne).attempt = 0
  BY DEF NewManifest
<1>4. /\ file'[j] = "orphan" /\ man'[j].step = 0 /\ man'[j].attempt = 0
      /\ \A k \in Job : k # j => file'[k] = file[k] /\ man'[k] = man[k]
  BY <1>1, <1>2, <1>3
<1>5. PICK from \in {"succeeded", "failed", "aborted"} : Stage(j) = from
  BY <1>2 DEF Stage, Terminal
<1>6. Turns(j, from, "pruned", 0, 0)
  BY <1>2, <1>4, <1>5 DEF Turns, Still, Stage
<1>7. /\ Stages[j] = from /\ Stages' = [Stages EXCEPT ![j] = "pruned"]
      /\ Steps' = [Steps EXCEPT ![j] = 0] /\ Attempts' = [Attempts EXCEPT ![j] = 0]
      /\ UNCHANGED active
  BY <1>6, TurnsForm DEF Turns
<1>8. QED
  BY <1>5, <1>7 DEF Stages, Stage, Steps, Attempts, Lifecycle!Forget

\* What is left of its files goes unseen.
LEMMA RemoveLives ==
  ASSUME Inv, NEW j \in Job, RemoveFiles(j)
  PROVE  UNCHANGED Lifecycle!lifecycle
<1>1. /\ file[j] = "orphan" /\ file' = [file EXCEPT ![j] = "gone"]
      /\ UNCHANGED <<man, torn, active>> /\ file \in [Job -> {"absent", "present", "orphan", "gone"}]
  BY DEF RemoveFiles, Inv, Shape
<1>2. \A k \in Job : Still(k)
  BY <1>1 DEF Still, Stage
<1>3. QED BY <1>1, <1>2, StillStutters

\* The one thing that starts to act is the attempt its running job stands at.
LEMMA LaunchLives ==
  ASSUME Inv, NEW j \in Job, StartUnit(j)
  PROVE  Lifecycle!Act(j)
<1>1. /\ man[j] \in SoundManifest /\ active \in [Job -> SUBSET Unit] /\ JobInv(j)
      /\ lock = j /\ todo = <<>> /\ UNCHANGED <<file, man, torn>>
      /\ active' = [active EXCEPT ![j] = @ \cup {man[j].unit}]
  BY DEF Inv, Shape, Order, StartUnit, Starting, disk
<1>2. Present(j) /\ ~torn[j] /\ man[j].state = "running" /\ active[j] = {}
  BY <1>1 DEF JobInv, Locked, Launchable
<1>3. man[j].unit = <<man[j].step, man[j].attempt>>
  BY <1>1, <1>2, RunningUnit DEF Standing
<1>4. Stages[j] = "running" /\ Steps[j] = man[j].step /\ Attempts[j] = man[j].attempt
  BY <1>2 DEF Stages, Stage, Steps, Attempts, Present
<1>5. UNCHANGED <<Stages, Steps, Attempts>>
  BY <1>1 DEF Stages, Stage, Steps, Attempts
<1>6. active' = [active EXCEPT ![j] = {<<Steps[j], Attempts[j]>>}]
  BY <1>1, <1>2, <1>3, <1>4
<1>7. QED
  BY <1>2, <1>4, <1>5, <1>6 DEF Stages, Stage, Steps, Attempts, Lifecycle!Act

\* A step that ends, is refused or is killed was all its job had acting.
LEMMA EndLives ==
  ASSUME Inv, NEW j \in Job, NEW u \in Unit, RefuseStep(j, u) \/ EndStep(j, u) \/ KillUnit(j, u)
  PROVE  Lifecycle!Stop(j)
<1>1. /\ active \in [Job -> SUBSET Unit] /\ JobInv(j)
      /\ u \in active[j] /\ UNCHANGED <<file, man, torn>>
      /\ active' = [active EXCEPT ![j] = @ \ {u}]
  BY DEF Inv, Shape, Order, RefuseStep, EndStep, KillUnit, disk
<1>2. active[j] = {u}
  BY <1>1 DEF JobInv, Turn
<1>3. active' = [active EXCEPT ![j] = {}] /\ active[j] # {}
  BY <1>1, <1>2
<1>4. UNCHANGED <<Stages, Steps, Attempts>>
  BY <1>1 DEF Stages, Stage, Steps, Attempts
<1>5. QED
  BY <1>3, <1>4 DEF Stages, Stage, Steps, Attempts, Lifecycle!Stop

\* A torn line damages its job.
LEMMA TearLives ==
  ASSUME Inv, NEW j \in Job, TearLine(j)
  PROVE  Lifecycle!Damage(j)
<1>1. /\ torn \in [Job -> BOOLEAN] /\ JobInv(j) /\ lock = j /\ UNCHANGED <<file, man, active>>
      /\ torn' = [torn EXCEPT ![j] = TRUE] /\ man[j].state \in State
  BY DEF Inv, Shape, Order, TearLine, units, SoundManifest, Manifest
<1>2. Present(j) /\ ~torn[j]
  BY <1>1 DEF JobInv, Locked
<1>3. PICK from : from = man[j].state
  OBVIOUS
<1>4. Turns(j, from, "damaged", man[j].step, man[j].attempt)
  BY <1>1, <1>2, <1>3 DEF Turns, Still, Stage, Present
<1>5. /\ Stages[j] = from /\ Stages' = [Stages EXCEPT ![j] = "damaged"]
      /\ UNCHANGED <<Steps, Attempts, active>>
  BY <1>4, TurnsForm DEF Turns
<1>6. Stages[j] \notin {"none", "pruned", "damaged"}
  BY <1>1, <1>3, <1>5 DEF State
<1>7. QED
  BY <1>5, <1>6 DEF Stages, Stage, Steps, Attempts, Lifecycle!Damage

\* A reboot stops all that acts.
LEMMA CutLives ==
  ASSUME Inv, PowerCut
  PROVE  Lifecycle!Reboot
<1>1. /\ torn \in [Job -> BOOLEAN] /\ UNCHANGED <<file, man>> /\ active' = [j \in Job |-> {}]
  BY DEF Inv, Shape, PowerCut
<1>2. UNCHANGED <<Steps, Attempts>>
  BY <1>1 DEF Steps, Attempts
<1>3. CASE UNCHANGED torn
  <2>1. UNCHANGED Stages
    BY <1>1, <1>3 DEF Stages, Stage
  <2>2. QED
    BY <1>1, <1>2, <2>1 DEF Stages, Stage, Steps, Attempts, Lifecycle!Reboot
<1>4. ASSUME NEW j \in Job, file[j] = "present", torn' = [torn EXCEPT ![j] = TRUE]
      PROVE  Lifecycle!Reboot
  <2>1. Stages' = [Stages EXCEPT ![j] = "damaged"]
    BY <1>1, <1>4 DEF Stages, Stage
  <2>2. Stages[j] \notin {"none", "pruned"}
    <3>1. man[j].state \in State
      BY DEF Inv, Shape, SoundManifest, Manifest
    <3>2. QED BY <1>4, <3>1 DEF Stages, Stage, State
  <2>3. QED
    BY <1>1, <1>2, <2>1, <2>2 DEF Stages, Stage, Steps, Attempts, Lifecycle!Reboot
<1>5. QED BY <1>3, <1>4 DEF PowerCut

\* Every step is one of the lifecycle, or a stutter.
LEMMA LifecycleNext ==
  ASSUME Inv, \A k \in Job : Living(k), [Next]_vars
  PROVE  [Lifecycle!Next]_(Lifecycle!lifecycle)
<1>1. CASE UNCHANGED vars \/ FailWrite \/ Crash \/ Boot
  <2>1. CASE Job = {}
    BY <1>1, <2>1, QuietLife DEF vars, FailWrite, Crash, Boot, disk, units
  <2>2. QED BY <1>1, <2>1, QuietActions
<1>2. ASSUME NEW j \in Job, Reconcile(j) \/ Storage(j)
      PROVE  [Lifecycle!Next]_(Lifecycle!lifecycle)
  BY <1>2, QuietActions, SaveLives DEF Reconcile, Storage
<1>3. ASSUME NEW j \in Job, Request(j)
      PROVE  [Lifecycle!Next]_(Lifecycle!lifecycle)
  <2>1. ASSUME NEW c \in Controller, Start(j, c)
        PROVE  Lifecycle!Next
    BY <2>1, StartLives DEF Lifecycle!Next
  <2>2. QED BY <1>3, <2>1, QuietActions DEF Request
<1>4. ASSUME NEW j \in Job, Launch(j)
      PROVE  [Lifecycle!Next]_(Lifecycle!lifecycle)
  <2>1. CASE StartUnit(j)
    BY <2>1, LaunchLives DEF Lifecycle!Next
  <2>2. QED BY <1>4, <2>1, QuietActions DEF Launch
<1>5. ASSUME NEW j \in Job, NEW u \in Unit,
             StepProcess(j, u) \/ KillUnit(j, u) \/ LoseResult(j, u)
      PROVE  [Lifecycle!Next]_(Lifecycle!lifecycle)
  <2>1. CASE RefuseStep(j, u) \/ EndStep(j, u) \/ KillUnit(j, u)
    BY <2>1, EndLives DEF Lifecycle!Next
  <2>2. QED BY <1>5, <2>1, QuietActions DEF StepProcess
<1>6. ASSUME NEW j \in Job, Housekeeping(j) \/ ClockMoves(j) \/ TearLine(j)
      PROVE  [Lifecycle!Next]_(Lifecycle!lifecycle)
  <2>1. CASE Prune(j) \/ TearLine(j)
    BY <2>1, PruneLives, TearLives DEF Lifecycle!Next
  <2>2. QED BY <1>6, <2>1, QuietActions, RemoveLives DEF Housekeeping
<1>7. CASE PowerCut
  BY <1>7, CutLives DEF Lifecycle!Next
<1>8. QED
  BY <1>1, <1>2, <1>3, <1>4, <1>5, <1>6, <1>7 DEF Next, JobFault

\* The engine keeps the promise a reader of the controller relies on: a job
\* waits, runs, asks and ends, only the standing attempt of a running job
\* acts, and only an answer attempts a step again.  The storage, its repairs
\* and every fault between two writes only delay these steps.
THEOREM LifecycleKept == Spec => LifecycleSpec
<1> DEFINE All == \A k \in Job : Living(k)
<1>1. Init => Lifecycle!Init
  BY DEF Init, NewManifest, Lifecycle!Init
<1>2. Inv /\ All /\ [Next]_vars => [Lifecycle!Next]_(Lifecycle!lifecycle)
  BY LifecycleNext
<1>3. Spec => []Inv /\ []All
  BY Invariance, LivingInvariance, PTL
<1> HIDE DEF All
<1>4. QED
  BY <1>1, <1>2, <1>3, PTL DEF Spec, LifecycleSpec, Lifecycle!Spec
=============================================================================
