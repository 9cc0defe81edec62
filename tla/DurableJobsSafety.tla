------------------------- MODULE DurableJobsSafety -------------------------
(***************************************************************************)
(* The inductive invariant of DurableJobs and the safety theorems that     *)
(* follow from it: a step's process only ever runs in its job's turn, no   *)
(* attempt is launched twice, a manifest never claims what its log lacks,  *)
(* and the box has one unfinished job.                                     *)
(*                                                                         *)
(* None of these is inductive alone.  What they rest on is how far a job   *)
(* has come: the attempts that have acted, or whose outcome is logged, lie *)
(* behind the place its manifest stands at, and behind the place of every  *)
(* manifest the operation under way has still to save.                     *)
(***************************************************************************)
EXTENDS DurableJobs, SequenceTheorems, TLAPS

(***************************************************************************)
(* The shape of the state.  The types alone are not inductive: a manifest  *)
(* that may still move stands at a step of the plan, a running one names   *)
(* the unit of the attempt it stands at, and an answer that calls for      *)
(* another attempt was logged while there was one to make.                 *)
(***************************************************************************)

Standing(m) == <<m.step, m.attempt>>

SoundManifest ==
  {m \in Manifest :
     /\ m.state \in {"waiting", "running", "needs-decision"} => m.step \in Step
     /\ m.state = "running" => m.unit = Standing(m)
     /\ m.state = "needs-decision" =>
          m.question \in Question /\ m.question.attempt = m.attempt}

SoundEntry ==
  {e \in Entry :
     /\ e.kind \in OutcomeKind => e.unit \in Unit
     /\ e.kind = "decision.answered" =>
          /\ e.out \in Option
          /\ e.out # "abort" => e.q \in Question /\ e.q.attempt < AttemptBound}

SoundWrite == [entry : SoundEntry, man : SoundManifest]

Shape ==
  /\ file \in [Job -> {"absent", "present", "orphan", "gone"}]
  /\ man \in [Job -> SoundManifest]
  /\ log \in [Job -> Seq(SoundEntry)]
  /\ torn \in [Job -> BOOLEAN]
  /\ active \in [Job -> SUBSET Unit]
  /\ begun \in [Job -> SUBSET Unit]
  /\ results \in [Job -> [Unit -> Result]]
  /\ lock \in Job \cup {NoJob}
  /\ todo \in Seq(SoundWrite)
  /\ up \in BOOLEAN /\ knows \in BOOLEAN /\ faults \in Nat

---------------------------------------------------------------------------
(* The manifests the operations make are sound. *)

\* A new manifest, whoever creates it, is sound.
LEMMA NewManifestSound ==
  ASSUME NEW c \in Controller \cup {NoOne}
  PROVE  NewManifest(c) \in SoundManifest
BY ConstantsOK DEF NewManifest, SoundManifest, Manifest, Standing, State, Step, Attempt

\* Renewing, taking and releasing a lease keeps a manifest sound.
LEMMA LeaseSound ==
  ASSUME NEW m \in SoundManifest, NEW c \in Controller
  PROVE  /\ Renewed(m) \in SoundManifest
         /\ TakenBy(m, c) \in SoundManifest
         /\ ReleasedLease(m) \in SoundManifest
<1>1. Renewed(m) \in SoundManifest
  BY DEF Renewed, SoundManifest, Manifest, Standing
<1>2. TakenBy(m, c) \in SoundManifest
  BY DEF TakenBy, SoundManifest, Manifest, Standing
<1>3. ReleasedLease(m) \in SoundManifest
  BY DEF ReleasedLease, SoundManifest, Manifest, Standing
<1>4. QED BY <1>1, <1>2, <1>3

\* So does counting its log, and the clock.
LEMMA LoglenSound ==
  ASSUME NEW m \in SoundManifest, NEW n \in Nat
  PROVE  [m EXCEPT !.loglen = n] \in SoundManifest
BY DEF SoundManifest, Manifest, Standing

\* The controllers' clocks may make the lease look fresh or stale.
LEMMA FreshSound ==
  ASSUME NEW m \in SoundManifest
  PROVE  [m EXCEPT !.fresh = ~@] \in SoundManifest
<1>1. m \in Manifest /\ (~m.fresh) \in BOOLEAN
  BY DEF SoundManifest
<1>2. [m EXCEPT !.fresh = ~@] \in Manifest
  BY <1>1 DEF Manifest
<1>3. QED BY <1>2 DEF SoundManifest, Manifest, Standing

\* A waiting job may be saved running.
LEMMA RunningSound ==
  ASSUME NEW m \in SoundManifest, m.state = "waiting"
  PROVE  Running(m) \in SoundManifest
BY DEF Running, SoundManifest, Manifest, Standing, State, Unit

\* A running job's unit is the one of the step and attempt it stands at.
LEMMA RunningUnit ==
  ASSUME NEW m \in SoundManifest, m.state = "running"
  PROVE  m.step \in Step /\ m.attempt \in Attempt /\ m.unit = Standing(m) /\ m.unit \in Unit
BY DEF SoundManifest, Manifest, Standing, Unit

\* A job may be abandoned wherever it stands.
LEMMA AbandonedSound ==
  ASSUME NEW m \in SoundManifest
  PROVE  [ReleasedLease(m) EXCEPT
            !.state = "failed", !.question = NoQuestion, !.unit = NoUnit] \in SoundManifest
<1> DEFINE n == [ReleasedLease(m) EXCEPT
                   !.state = "failed", !.question = NoQuestion, !.unit = NoUnit]
<1>1. n.state = "failed"
  BY DEF ReleasedLease, SoundManifest, Manifest
<1>2. n \in Manifest
  BY DEF ReleasedLease, SoundManifest, Manifest, State
<1> HIDE DEF n
<1>3. n \in SoundManifest
  BY <1>1, <1>2 DEF SoundManifest
<1>4. QED BY <1>3 DEF n

\* A running job may stop at any question.
LEMMA SetQuestionSound ==
  ASSUME NEW m \in SoundManifest, m.step \in Step, NEW key \in Key
  PROVE  SetQuestion(m, key) \in SoundManifest
BY DEF SetQuestion, SoundManifest, Manifest, Standing, State, Question

\* Whatever the outcome of its step, a running job settles soundly.
LEMMA SettleSound ==
  ASSUME NEW m \in SoundManifest, m.state = "running",
         NEW out \in Key \cup {"ok"}
  PROVE  Settle(m, out) \in SoundManifest
<1>1. CASE out = "ok"
  <2>1. m.step + 1 \in 0 .. NSteps /\ (m.step + 1 # NSteps => m.step + 1 \in Step)
    BY ConstantsOK DEF SoundManifest, Step
  <2>2. 0 \in Attempt
    BY ConstantsOK DEF Attempt
  <2> DEFINE n == Settle(m, out)
  <2>3. /\ n.step = m.step + 1
        /\ n.state = IF m.step + 1 = NSteps THEN "succeeded" ELSE "waiting"
    BY <1>1 DEF Settle, SoundManifest, Manifest
  <2>4. n \in Manifest
    <3> DEFINE st == IF m.step + 1 = NSteps THEN "succeeded" ELSE "waiting"
               m1 == [m EXCEPT !.step = m.step + 1]
               m2 == [m1 EXCEPT !.attempt = 0]
               m3 == [m2 EXCEPT !.answer = NoAnswer]
               m4 == [m3 EXCEPT !.unit = NoUnit]
               m5 == [m4 EXCEPT !.state = st]
    <3>1. n = m5
      BY <1>1 DEF Settle
    <3>2. m \in Manifest /\ st \in State
      BY DEF SoundManifest, State
    <3> HIDE DEF n, st, m1, m2, m3, m4, m5
    <3>3. m1 \in Manifest
      BY <2>1, <3>2 DEF m1, Manifest
    <3>4. m2 \in Manifest
      BY <2>2, <3>3 DEF m2, Manifest
    <3>5. m3 \in Manifest
      BY <3>4 DEF m3, Manifest
    <3>6. m4 \in Manifest
      BY <3>5 DEF m4, Manifest
    <3>7. m5 \in Manifest
      BY <3>2, <3>6 DEF m5, Manifest
    <3>8. QED BY <3>1, <3>7
  <2> HIDE DEF n
  <2>5. n \in SoundManifest
    BY <2>1, <2>3, <2>4 DEF SoundManifest
  <2>6. QED BY <2>5 DEF n
<1>2. CASE out # "ok"
  BY <1>2, SetQuestionSound DEF Settle, SoundManifest
<1>3. QED BY <1>1, <1>2

\* An answer to an open question settles it soundly, when there is an attempt
\* left for an answer that needs one.
LEMMA DecideStateSound ==
  ASSUME NEW m \in SoundManifest, m.state = "needs-decision", NEW opt \in Option,
         opt = "abort" \/ m.attempt < AttemptBound
  PROVE  DecideState(m, opt) \in SoundManifest
<1>1. CASE opt = "abort"
  BY <1>1 DEF DecideState, SoundManifest, Manifest, Standing, State
<1>2. CASE opt # "abort"
  <2>1. m.attempt + 1 \in Attempt
    BY <1>2, ConstantsOK DEF SoundManifest, Manifest, Attempt
  <2>2. [q |-> m.question, option |-> opt] \in Answer
    BY DEF SoundManifest, Answer
  <2>3. QED
    BY <1>2, <2>1, <2>2 DEF DecideState, SoundManifest, Manifest, Standing, State
<1>3. QED BY <1>1, <1>2
---------------------------------------------------------------------------
(* The entries the operations log are sound. *)

\* Entries that name a controller, a unit, a question or a state at most.
LEMMA EntriesSound ==
  ASSUME NEW c \in Controller \cup {NoOne}, NEW op \in IntentOutcome,
         NEW u \in Unit, NEW q \in Question \cup {NoQuestion}, NEW st \in State
  PROVE  /\ Created(c) \in SoundEntry
         /\ Intent(c, op) \in SoundEntry
         /\ [Intent(c, op) EXCEPT !.unit = u] \in SoundEntry
         /\ [Intent(c, op) EXCEPT !.q = q] \in SoundEntry
         /\ Taken(c) \in SoundEntry
         /\ Released \in SoundEntry
         /\ Started(u) \in SoundEntry
         /\ Asked(q) \in SoundEntry
         /\ Finished(st) \in SoundEntry
<1> USE DEF SoundEntry, Entry, EntryKind, OutcomeKind, LeaseKind, IntentOutcome, Blank
<1>1. Created(c) \in SoundEntry BY DEF Created
<1>2. Intent(c, op) \in SoundEntry BY DEF Intent
<1>3. [Intent(c, op) EXCEPT !.unit = u] \in SoundEntry BY DEF Intent
<1>4. [Intent(c, op) EXCEPT !.q = q] \in SoundEntry BY DEF Intent
<1>5. Taken(c) \in SoundEntry BY DEF Taken
<1>6. Released \in SoundEntry BY DEF Released
<1>7. Started(u) \in SoundEntry BY DEF Started
<1>8. Asked(q) \in SoundEntry BY DEF Asked
<1>9. Finished(st) \in SoundEntry BY DEF Finished
<1>10. QED BY <1>1, <1>2, <1>3, <1>4, <1>5, <1>6, <1>7, <1>8, <1>9

\* An answer is sound when an attempt is left for it, or it needs none.
LEMMA AnsweredSound ==
  ASSUME NEW q \in Question, NEW c \in Controller, NEW opt \in Option,
         opt = "abort" \/ q.attempt < AttemptBound
  PROVE  Answered(q, c, opt) \in SoundEntry
BY DEF Answered, SoundEntry, Entry, EntryKind, OutcomeKind, LeaseKind, Blank

\* The outcome of a unit is sound.
LEMMA EndedSound ==
  ASSUME NEW u \in Unit, NEW out
  PROVE  /\ Ended(u, out) \in SoundEntry
         /\ Ended(u, out).kind \in OutcomeKind
         /\ Ended(u, out).unit = u
BY DEF Ended, SoundEntry, Entry, EntryKind, OutcomeKind, LeaseKind, Blank

\* What restoreTrailing appends to a sound job is sound.
LEMMA MissingSound ==
  ASSUME NEW m \in SoundManifest, NEW l, Missing(m, l) # {}
  PROVE  WriteOf(m, Missing(m, l)) \in SoundWrite
<1>1. m.question \in Question \cup {NoQuestion} /\ m.state \in State
        /\ m.owner \in Controller \cup {NoOne}
  BY DEF SoundManifest, Manifest
<1>2. Missing(m, l) \subseteq SoundEntry
  <2>0. 0 \in Step /\ 0 \in Attempt
    BY ConstantsOK DEF Step, Attempt
  <2>1. <<0, 0>> \in Unit
    BY <2>0 DEF Unit
  <2>2. "advance" \in IntentOutcome
    BY DEF IntentOutcome
  <2>3. {Asked(m.question), Finished(m.state), Taken(m.owner), Released}
          \subseteq SoundEntry
    BY <1>1, <2>1, <2>2, EntriesSound
  <2>4. QED BY <2>3 DEF Missing
<1>3. (CHOOSE e \in Missing(m, l) : TRUE) \in Missing(m, l)
  OBVIOUS
<1>4. QED BY <1>2, <1>3 DEF WriteOf, SoundWrite
---------------------------------------------------------------------------
(* Every step keeps the shape. *)

\* What an operation does to the log and to the Appends it still has to make.
LEMMA RunShape ==
  ASSUME Shape, NEW j \in Job, NEW writes \in Seq(SoundWrite), writes # <<>>,
         Run(j, writes)
  PROVE  /\ lock' \in Job \cup {NoJob}
         /\ todo' \in Seq(SoundWrite)
         /\ log' \in [Job -> Seq(SoundEntry)]
<1>1. Head(writes) \in SoundWrite
  OBVIOUS
<1>2. Append(log[j], Head(writes).entry) \in Seq(SoundEntry)
  BY <1>1, AppendProperties DEF Shape, SoundWrite
<1>3. QED BY <1>2 DEF Run, Shape

\* A sequence of one, two or three sound writes is one an operation may run.
LEMMA WritesShape ==
  ASSUME NEW a \in SoundWrite, NEW b \in SoundWrite, NEW c \in SoundWrite
  PROVE  /\ <<a>> \in Seq(SoundWrite) /\ <<a>> # <<>>
         /\ DOMAIN <<a>> = {1} /\ <<a>>[1] = a
         /\ <<a, b>> \in Seq(SoundWrite) /\ <<a, b>> # <<>>
         /\ DOMAIN <<a, b>> = {1, 2} /\ <<a, b>>[1] = a /\ <<a, b>>[2] = b
         /\ <<a, b, c>> \in Seq(SoundWrite) /\ <<a, b, c>> # <<>>
         /\ DOMAIN <<a, b, c>> = {1, 2, 3}
         /\ <<a, b, c>>[1] = a /\ <<a, b, c>>[2] = b /\ <<a, b, c>>[3] = c
OBVIOUS

(* A storage call (one entry of the pending list reaching the disk) keeps the shape. *)
LEMMA StorageShape ==
  ASSUME Shape, NEW j \in Job, Storage(j)
  PROVE  Shape'
<1>1. CASE WriteEntry(j)
  <2>1. Head(todo) \in SoundWrite
    BY <1>1 DEF WriteEntry, Shape
  <2>2. Append(log[j], Head(todo).entry) \in Seq(SoundEntry)
    BY <2>1, AppendProperties DEF Shape, SoundWrite
  <2>3. QED BY <1>1, <2>2 DEF WriteEntry, Shape, units
<1>2. CASE SaveManifest(j)
  <2>1. Head(todo) \in SoundWrite /\ Tail(todo) \in Seq(SoundWrite)
    BY <1>2 DEF SaveManifest, Shape
  <2>2. Len(log[j]) \in Nat
    BY DEF Shape
  <2>4. [Head(todo).man EXCEPT !.loglen = Len(log[j])] \in SoundManifest
    BY <2>1, <2>2, LoglenSound DEF SoundWrite
  <2>5. QED BY <1>2, <2>1, <2>4 DEF SaveManifest, Shape, units
<1>3. QED BY <1>1, <1>2 DEF Storage

(* So does the read-repair a manager makes when it opens a job. *)
LEMMA RepairShape ==
  ASSUME Shape, NEW j \in Job,
         Adopt(j) \/ Refold(j) \/ Reapply(j) \/ AppendTrailing(j) \/ AbandonAdopt(j)
  PROVE  Shape'
<1>1. CASE Adopt(j) \/ AbandonAdopt(j)
  <2>1. Len(log[j]) \in Nat
    BY DEF Shape
  <2>2. [man[j] EXCEPT !.loglen = Len(log[j])] \in SoundManifest
    BY <2>1, LoglenSound DEF Shape
  <2>3. QED BY <1>1, <2>2 DEF Adopt, AbandonAdopt, Shape, units
<1>2. CASE Refold(j)
  <2>1. man[j] \in SoundManifest /\ man[j].state = "running"
    BY <1>2 DEF Refold, Folded, Shape
  <2>2. man[j].unit \in Unit
    BY <2>1, RunningUnit
  <2>3. PICK out \in Key \cup {"ok"} : man' = [man EXCEPT ![j] = Settle(@, out)]
    <3> DEFINE out == IF Last(j).kind = "step.lost" THEN "lost"
                      ELSE IF Last(j).out = "failed" THEN "failed"
                      ELSE results[j][Last(j).unit]
    <3>1. results[j][man[j].unit] \in Result /\ Last(j).unit = man[j].unit
      BY <1>2, <2>2 DEF Refold, Folded, Shape
    <3>2. out # "none" /\ man' = [man EXCEPT ![j] = Settle(@, out)]
      BY <1>2 DEF Refold
    <3>3. out \in Key \cup {"ok"}
      BY <3>1, <3>2 DEF Result, Key
    <3>4. QED BY <3>2, <3>3
  <2>4. Settle(man[j], out) \in SoundManifest
    BY <2>1, <2>3, SettleSound
  <2>5. QED BY <1>2, <2>3, <2>4 DEF Refold, Shape, units
<1>3. CASE Reapply(j)
  <2>1. man[j] \in SoundManifest /\ man[j].state = "needs-decision"
          /\ log[j] # <<>> /\ Last(j).kind = "decision.answered"
          /\ Last(j).q = man[j].question
    BY <1>3 DEF Reapply, AnswerLogged, Shape
  <2>2. Last(j) \in SoundEntry
    BY <2>1 DEF Last, Shape
  <2>3. Last(j).out \in Option
          /\ (Last(j).out = "abort" \/ man[j].attempt < AttemptBound)
    BY <2>1, <2>2 DEF SoundEntry, SoundManifest
  <2>4. DecideState(man[j], Last(j).out) \in SoundManifest
    BY <2>1, <2>3, DecideStateSound
  <2>5. QED BY <1>3, <2>4 DEF Reapply, Shape, units
<1>4. CASE AppendTrailing(j)
  <2>1. WriteOf(man[j], Missing(man[j], log[j])) \in SoundWrite
    BY <1>4, MissingSound DEF AppendTrailing, Shape
  <2>2. QED BY <1>4, <2>1, RunShape, WritesShape DEF AppendTrailing, Shape, units
<1>5. QED BY <1>1, <1>2, <1>3, <1>4

(* Every request of a controller (create, resume, retry, acknowledge, abandon). *)
LEMMA RequestShape ==
  ASSUME Shape, NEW j \in Job, Request(j)
  PROVE  Shape'
<1>1. PICK c \in Controller :
        \/ Start(j, c) \/ Renew(j, c) \/ Take(j, c) \/ Release(j, c)
        \/ \E u \in Unit : Advance(j, c, u)
        \/ \E q \in Question, opt \in Option : Decide(j, c, q, opt)
  BY DEF Request
<1>2. man[j] \in SoundManifest
  BY DEF Shape
<1>3. CASE Start(j, c)
  <2>1. NewManifest(c) \in SoundManifest
    BY NewManifestSound
  <2>2. [entry |-> Created(c), man |-> NewManifest(c)] \in SoundWrite
    BY <2>1 DEF SoundWrite, Created, SoundEntry, Entry, EntryKind, OutcomeKind, LeaseKind, Blank
  <2>3. QED BY <1>3, <2>1, <2>2, WritesShape DEF Start, Shape, units
<1>4. CASE Renew(j, c)
  BY <1>2, <1>4, LeaseSound DEF Renew, Shape, units
<1>5. CASE Take(j, c)
  <2> DEFINE m == TakenBy(man[j], c)
             a == [entry |-> Intent(c, "lease take"), man |-> m]
             b == [entry |-> Taken(c), man |-> m]
  <2>1. m \in SoundManifest
    BY <1>2, LeaseSound
  <2>2. a \in SoundWrite /\ b \in SoundWrite
    BY <2>1 DEF SoundWrite, Intent, Taken, SoundEntry, Entry, EntryKind, OutcomeKind,
                LeaseKind, IntentOutcome, Blank
  <2>3. Run(j, <<a, b>>)
    BY <1>5 DEF Take
  <2> HIDE DEF m, a, b
  <2>4. QED BY <1>5, <2>2, <2>3, RunShape, WritesShape DEF Take, Shape, units
<1>6. CASE Release(j, c)
  <2> DEFINE m == ReleasedLease(man[j])
             a == [entry |-> Intent(c, "lease release"), man |-> m]
             b == [entry |-> Released, man |-> m]
  <2>1. m \in SoundManifest
    BY <1>2, LeaseSound
  <2>2. a \in SoundWrite /\ b \in SoundWrite
    BY <2>1 DEF SoundWrite, Intent, Released, SoundEntry, Entry, EntryKind, OutcomeKind,
                LeaseKind, IntentOutcome, Blank
  <2>3. Run(j, <<a, b>>)
    BY <1>6 DEF Release
  <2> HIDE DEF m, a, b
  <2>4. QED BY <1>6, <2>2, <2>3, RunShape, WritesShape DEF Release, Shape, units
<1>7. ASSUME NEW u \in Unit, Advance(j, c, u)
      PROVE  Shape'
  <2> DEFINE m == Renewed(man[j])
             a == [entry |-> [Intent(c, "advance") EXCEPT !.unit = u], man |-> m]
             b == [entry |-> Started(u), man |-> Running(m)]
  <2>1. m \in SoundManifest /\ m.state = "waiting"
    BY <1>2, <1>7, LeaseSound DEF Advance, Renewed, SoundManifest, Manifest
  <2>2. Running(m) \in SoundManifest
    BY <2>1, RunningSound
  <2>3. a \in SoundWrite /\ b \in SoundWrite
    BY <2>1, <2>2 DEF SoundWrite, Intent, Started, SoundEntry, Entry, EntryKind, OutcomeKind,
                LeaseKind, IntentOutcome, Blank
  <2>4. Run(j, <<a, b>>)
    BY <1>7 DEF Advance
  <2> HIDE DEF m, a, b
  <2>5. QED BY <1>7, <2>3, <2>4, RunShape, WritesShape DEF Advance, Shape, units
<1>8. ASSUME NEW q \in Question, NEW opt \in Option, Decide(j, c, q, opt)
      PROVE  Shape'
  <2> DEFINE m0 == Renewed(man[j])
             m1 == DecideState(m0, opt)
             a == [entry |-> [Intent(c, "decide") EXCEPT !.q = q], man |-> m0]
             b == [entry |-> Answered(q, c, opt), man |-> m1]
             d == [entry |-> Finished("aborted"), man |-> m1]
  <2>1. m0 \in SoundManifest /\ m0.state = "needs-decision" /\ m0.question = q
          /\ m0.attempt = man[j].attempt /\ q.attempt = m0.attempt
          /\ (opt = "abort" \/ m0.attempt < AttemptBound)
    BY <1>2, <1>8, LeaseSound DEF Decide, Renewed, SoundManifest, Manifest
  <2>2. m1 \in SoundManifest
    BY <2>1, DecideStateSound
  <2>3. a \in SoundWrite
    BY <2>1 DEF SoundWrite, Intent, SoundEntry, Entry, EntryKind, OutcomeKind,
                LeaseKind, IntentOutcome, Blank
  <2>4. b \in SoundWrite
    BY <2>1, <2>2, AnsweredSound DEF SoundWrite
  <2>5. d \in SoundWrite
    BY <2>2 DEF SoundWrite, Finished, SoundEntry, Entry, EntryKind, OutcomeKind,
                LeaseKind, Blank, State
  <2>6. Run(j, <<a, b, d>>) \/ Run(j, <<a, b>>)
    BY <1>8 DEF Decide
  <2> HIDE DEF m0, m1, a, b, d
  <2>7. QED BY <1>8, <2>3, <2>4, <2>5, <2>6, RunShape, WritesShape DEF Decide, Shape, units
<1>9. QED BY <1>1, <1>3, <1>4, <1>5, <1>6, <1>7, <1>8

(* Folding a step's durable result into the record. *)
LEMMA FoldShape ==
  ASSUME Shape, NEW j \in Job, Fold(j)
  PROVE  Shape'
<1> DEFINE u   == man[j].unit
           out == IF results[j][u] = "none" THEN "lost" ELSE results[j][u]
           m   == Settle(man[j], out)
           e   == [entry |-> Ended(u, out), man |-> m]
           next == Missing(m, Append(log[j], e.entry))
           w   == WriteOf(m, next)
<1>1. man[j] \in SoundManifest /\ man[j].state = "running"
  BY DEF Fold, UnitEnded, Shape
<1>2. u \in Unit
  BY <1>1, RunningUnit
<1>3. out \in Key \cup {"ok"}
  <2>1. results[j][u] \in Result
    BY <1>2 DEF Shape
  <2>2. QED BY <2>1 DEF Result, Key
<1>4. m \in SoundManifest
  BY <1>1, <1>3, SettleSound
<1>5. e \in SoundWrite
  BY <1>2, <1>4, EndedSound DEF SoundWrite
<1>6. next # {} => w \in SoundWrite
  BY <1>4, MissingSound
<1>7. \/ Run(j, <<e>>)
      \/ next # {} /\ Run(j, <<e, w>>)
  BY DEF Fold
<1> HIDE DEF u, out, m, e, next, w
<1>8. QED BY <1>5, <1>6, <1>7, RunShape, WritesShape DEF Fold, Shape, units

(* Renewing, expiring and forgetting. *)
LEMMA HousekeepingShape ==
  ASSUME Shape, NEW j \in Job, Housekeeping(j)
  PROVE  Shape'
<1>1. CASE Prune(j)
  BY <1>1, NewManifestSound DEF Prune, Shape, units
<1>2. CASE RemoveFiles(j)
  <2>1. <<>> \in Seq(SoundEntry) /\ [u \in Unit |-> "none"] \in [Unit -> Result]
    BY DEF Result
  <2>2. QED BY <1>2, <2>1 DEF RemoveFiles, Shape
<1>3. CASE Abandon(j)
  <2> DEFINE m == [ReleasedLease(man[j]) EXCEPT
                     !.state = "failed", !.question = NoQuestion, !.unit = NoUnit]
             w == [entry |-> Finished("failed"), man |-> m]
  <2>1. m \in SoundManifest
    BY AbandonedSound DEF Shape
  <2>2. w \in SoundWrite
    BY <2>1 DEF SoundWrite, Finished, SoundEntry, Entry, EntryKind, OutcomeKind,
                LeaseKind, Blank, State
  <2>3. Run(j, <<w>>)
    BY <1>3 DEF Abandon
  <2> HIDE DEF m, w
  <2>4. QED BY <1>3, <2>2, <2>3, RunShape, WritesShape DEF Abandon, Shape, units
<1>4. CASE AbandonAdopt(j)
  BY <1>4, RepairShape
<1>5. QED BY <1>1, <1>2, <1>3, <1>4 DEF Housekeeping

\* A job whose unit is about to start is running, at a unit of the plan.
StartingRunning == \A j \in Job : lock = j /\ todo = <<>> => man[j].state = "running"

(* Launching a unit; the record it starts from is a running one. *)
LEMMA LaunchShape ==
  ASSUME Shape, StartingRunning, NEW j \in Job, Launch(j)
  PROVE  Shape'
<1>1. man[j] \in SoundManifest /\ man[j].state = "running"
  BY DEF Launch, StartUnit, RefuseStart, StartFails, StartUnclear, Starting,
         Shape, StartingRunning
<1>2. man[j].unit \in Unit
  BY <1>1, RunningUnit
<1>3. CASE StartUnit(j)
  BY <1>2, <1>3 DEF StartUnit, Shape, disk
<1>4. AskAfter(j) => /\ lock' \in Job \cup {NoJob}
                     /\ todo' \in Seq(SoundWrite)
                     /\ log' \in [Job -> Seq(SoundEntry)]
  <2> DEFINE m == SetQuestion(man[j], "failed")
             a == [entry |-> Ended(man[j].unit, "failed"), man |-> m]
             b == [entry |-> Asked(m.question), man |-> m]
  <2>1. m \in SoundManifest
    BY <1>1, SetQuestionSound DEF SoundManifest, Key
  <2>2. a \in SoundWrite
    BY <1>2, <2>1, EndedSound DEF SoundWrite
  <2>3. m.question \in Question \cup {NoQuestion}
    BY <2>1 DEF SoundManifest, Manifest
  <2>4. b \in SoundWrite
    BY <2>1, <2>3 DEF SoundWrite, Asked, SoundEntry, Entry, EntryKind, OutcomeKind,
                LeaseKind, Blank
  <2>5. AskAfter(j) => Run(j, <<a, b>>)
    BY DEF AskAfter
  <2> HIDE DEF m, a, b
  <2>6. QED BY <2>2, <2>4, <2>5, RunShape, WritesShape
<1>5. CASE RefuseStart(j)
  BY <1>4, <1>5 DEF RefuseStart, Shape, units
<1>6. CASE StartFails(j)
  <2>1. CASE UNCHANGED <<begun, results>>
    BY <1>4, <1>6, <2>1 DEF StartFails, Happens, Shape
  <2>2. ASSUME begun' = [begun EXCEPT ![j] = @ \cup {man[j].unit}],
               NEW r \in Result, results' = [results EXCEPT ![j][man[j].unit] = r]
        PROVE  Shape'
    <3>1. begun' \in [Job -> SUBSET Unit]
      BY <1>2, <2>2 DEF Shape
    <3>2. results' \in [Job -> [Unit -> Result]]
      BY <2>2 DEF Shape
    <3>3. QED BY <1>4, <1>6, <3>1, <3>2 DEF StartFails, Happens, Shape
  <2>3. QED BY <1>6, <2>1, <2>2 DEF StartFails
<1>7. CASE StartUnclear(j)
  BY <1>7 DEF StartUnclear, Happens, Shape, disk, units
<1>8. QED BY <1>3, <1>5, <1>6, <1>7 DEF Launch

(* The steps of the launched unit itself. *)
LEMMA StepShape ==
  ASSUME Shape, NEW j \in Job, NEW u \in Unit,
         StepProcess(j, u) \/ KillUnit(j, u) \/ LoseResult(j, u)
  PROVE  Shape'
<1>1. CASE BeginStep(j, u)
  BY <1>1 DEF BeginStep, Shape, disk
<1>2. CASE RefuseStep(j, u)
  BY <1>2 DEF RefuseStep, Shape, disk
<1>3. CASE EndStep(j, u)
  <2>1. PICK r \in Result : results' = [results EXCEPT ![j][u] = r]
    BY <1>3 DEF EndStep
  <2>2. results' \in [Job -> [Unit -> Result]]
    BY <2>1 DEF Shape
  <2>3. QED BY <1>3, <2>2 DEF EndStep, Shape, disk
<1>4. CASE KillUnit(j, u)
  BY <1>4 DEF KillUnit, Happens, Shape, disk
<1>5. CASE LoseResult(j, u)
  <2>1. results' \in [Job -> [Unit -> Result]]
    BY <1>5 DEF LoseResult, Shape, Result
  <2>2. QED BY <1>5, <2>1 DEF LoseResult, Happens, Shape, disk
<1>6. QED BY <1>1, <1>2, <1>3, <1>4, <1>5 DEF StepProcess

(* Crashes, torn writes, and the other faults. *)
LEMMA FaultShape ==
  ASSUME Shape, FailWrite \/ Crash \/ PowerCut \/ Boot
                \/ \E j \in Job : TearLine(j) \/ ClockMoves(j)
  PROVE  Shape'
<1>1. <<>> \in Seq(SoundWrite)
  OBVIOUS
<1>2. CASE FailWrite
  BY <1>1, <1>2 DEF FailWrite, Happens, Drop, Shape, disk, units
<1>3. CASE Crash
  <2>1. up' = FALSE /\ lock' = NoJob /\ todo' = <<>> /\ faults' = faults + 1
          /\ UNCHANGED <<disk, units, knows>>
    BY <1>3 DEF Crash, Happens, Drop
  <2>2. up' \in BOOLEAN
    BY <2>1
  <2>3. QED BY <1>1, <2>1, <2>2 DEF Shape, disk, units
<1>4. CASE PowerCut
  <2>1. torn' \in [Job -> BOOLEAN] /\ active' \in [Job -> SUBSET Unit]
    BY <1>4 DEF PowerCut, Shape
  <2>2. up' = FALSE /\ lock' = NoJob /\ todo' = <<>> /\ faults' = faults + 1
          /\ UNCHANGED <<file, man, log, begun, results, knows>>
    BY <1>4 DEF PowerCut, Happens, Drop
  <2>3. up' \in BOOLEAN
    BY <2>2
  <2>4. QED BY <1>1, <2>1, <2>2, <2>3 DEF Shape
<1>5. CASE Boot
  BY <1>5 DEF Boot, Shape, disk, units
<1>6. ASSUME NEW j \in Job, TearLine(j)
      PROVE  Shape'
  BY <1>1, <1>6 DEF TearLine, Happens, Drop, Shape, units
<1>7. ASSUME NEW j \in Job, ClockMoves(j)
      PROVE  Shape'
  <2>1. [man[j] EXCEPT !.fresh = ~@] \in SoundManifest
    BY FreshSound DEF Shape
  <2>2. QED BY <1>7, <2>1 DEF ClockMoves, Shape, units
<1>8. QED BY <1>2, <1>3, <1>4, <1>5, <1>6, <1>7

---------------------------------------------------------------------------

\* The attempt u lies behind the place the manifest m stands at.
Earlier(u, m) == u[1] < m.step \/ (u[1] = m.step /\ u[2] < m.attempt)

\* The attempts whose outcome a log holds.
Logged(l) == {l[i].unit : i \in {k \in DOMAIN l : l[k].kind \in OutcomeKind}}

\* The attempts of a job that have acted, or whose outcome is logged.
Spent(j) == begun[j] \cup Logged(log[j])

Past(U, m)    == \A u \in U : Earlier(u, m)
Reached(U, m) == \A u \in U : Earlier(u, m) \/ (u = Standing(m) /\ m.state # "waiting")

\* With the manifest m, the job may launch the attempt it stands at.
Launchable(j, m) == m.state = "running" /\ active[j] = {} /\ Past(Spent(j), m)

\* A job that was never started has no past.
Unborn(j) == file[j] = "absent" => begun[j] = {} /\ log[j] = <<>> /\ ~torn[j]

\* A step's process runs in its turn, and its outcome is not logged.
Turn(j) ==
  /\ \A u \in active[j] : Present(j) /\ man[j].state = "running" /\ man[j].unit = u
  /\ active[j] \cap Logged(log[j]) = {}

\* The manifest is at or past all that happened, and lags its log by one at most.
Placed(j) ==
  Present(j) =>
    /\ Reached(Spent(j), man[j])
    /\ Len(log[j]) - man[j].loglen \in {0, 1}

\* Only a job that can be loaded has an operation; one that is about to
\* launch an attempt is saved, and launchable.
Locked(j) ==
  lock = j =>
    /\ Present(j) /\ ~torn[j]
    /\ todo = <<>> => ~Ahead(j) /\ Launchable(j, man[j])

\* What an Append still to be made may save.
PendingWrite(j, i) ==
  LET w == todo[i]
  IN  /\ Reached(Spent(j), w.man)
      /\ active[j] = {} \/ (w.man.state = man[j].state /\ w.man.unit = man[j].unit)
      /\ w.entry.kind = "step.started" => Launchable(j, w.man)
      /\ w.entry.kind \in OutcomeKind => i = 1 /\ Ahead(j)
      /\ Terminal(man[j]) => Terminal(w.man)
      /\ \A k \in DOMAIN todo : k < i /\ Terminal(todo[k].man) => Terminal(w.man)

Pending(j) == lock = j => \A i \in DOMAIN todo : PendingWrite(j, i)

JobInv(j) == Unborn(j) /\ Turn(j) /\ Placed(j) /\ Locked(j) /\ Pending(j)

\* A running step's job has its log whole, if no write tears one.
WholeWhileActive == "tear" \notin Fault => \A j \in Job : active[j] # {} => ~torn[j]

Order == (\A j \in Job : JobInv(j)) /\ OneUnfinished /\ WholeWhileActive

Inv == Shape /\ Order
---------------------------------------------------------------------------
(* How far a job has come. *)

\* A log's outcomes, once one more entry is appended.
LEMMA LoggedAppend ==
  ASSUME NEW l \in Seq(SoundEntry), NEW e \in SoundEntry
  PROVE  Logged(Append(l, e)) = Logged(l) \cup (IF e.kind \in OutcomeKind THEN {e.unit} ELSE {})
<1> DEFINE a == Append(l, e)
<1>1. /\ DOMAIN a = DOMAIN l \cup {Len(l) + 1}
      /\ a[Len(l) + 1] = e
      /\ \A i \in DOMAIN l : a[i] = l[i]
  BY AppendProperties
<1> HIDE DEF a
<1>2. QED BY <1>1 DEF Logged

(* An empty log says nothing of any unit. *)
LEMMA LoggedEmpty == Logged(<<>>) = {}
BY DEF Logged

\* The attempts of a job are units of the plan.
LEMMA SpentUnits ==
  ASSUME Shape, NEW j \in Job
  PROVE  Spent(j) \subseteq Unit
<1>1. begun[j] \subseteq Unit /\ log[j] \in Seq(SoundEntry)
  BY DEF Shape
<1>2. \A i \in DOMAIN log[j] : log[j][i] \in SoundEntry
  BY <1>1
<1>3. QED BY <1>1, <1>2 DEF Spent, Logged, SoundEntry

\* A manifest at the same place, waiting only where the other waits, is as far.
LEMMA SamePlaceReached ==
  ASSUME NEW U, NEW m, NEW n, Reached(U, m), n.step = m.step, n.attempt = m.attempt,
         n.state = "waiting" => m.state = "waiting"
  PROVE  Reached(U, n)
BY DEF Reached, Earlier, Standing

\* Settling a running job's attempt leaves it, and all before it, behind.
LEMMA SettleReached ==
  ASSUME NEW U \in SUBSET Unit, NEW m \in SoundManifest, m.state = "running",
         NEW out \in Key \cup {"ok"}, Reached(U, m)
  PROVE  Reached(U, Settle(m, out))
<1>1. m.step \in Int /\ m.attempt \in Int
  BY DEF SoundManifest, Manifest, Attempt
<1>2. \A u \in U : u[1] \in Int /\ u[2] \in Int
  BY DEF Unit, Step, Attempt
<1>3. CASE out = "ok"
  <2>1. Settle(m, out).step = m.step + 1
    BY <1>3 DEF Settle, SoundManifest, Manifest
  <2>2. ASSUME NEW u \in U
        PROVE  Earlier(u, Settle(m, out))
    BY <1>1, <1>2, <2>1 DEF Reached, Earlier, Standing
  <2>3. QED BY <2>2 DEF Reached
<1>4. CASE out # "ok"
  <2>1. /\ Settle(m, out).step = m.step /\ Settle(m, out).attempt = m.attempt
        /\ Settle(m, out).state = "needs-decision"
    BY <1>4 DEF Settle, SetQuestion, SoundManifest, Manifest
  <2>2. QED BY <2>1, SamePlaceReached
<1>5. QED BY <1>3, <1>4

\* So does answering the question it stopped at.
LEMMA DecideReached ==
  ASSUME NEW U \in SUBSET Unit, NEW m \in SoundManifest, NEW opt \in Option, Reached(U, m)
  PROVE  Reached(U, DecideState(m, opt))
<1>1. m.step \in Int /\ m.attempt \in Int
  BY DEF SoundManifest, Manifest, Attempt
<1>2. \A u \in U : u[1] \in Int /\ u[2] \in Int
  BY DEF Unit, Step, Attempt
<1>3. CASE opt = "abort"
  <2>1. /\ DecideState(m, opt).step = m.step /\ DecideState(m, opt).attempt = m.attempt
        /\ DecideState(m, opt).state = "aborted"
    BY <1>3 DEF DecideState, SoundManifest, Manifest
  <2>2. QED BY <2>1, SamePlaceReached
<1>4. CASE opt # "abort"
  <2>1. DecideState(m, opt).step = m.step /\ DecideState(m, opt).attempt = m.attempt + 1
    BY <1>4 DEF DecideState, SoundManifest, Manifest
  <2>2. ASSUME NEW u \in U
        PROVE  Earlier(u, DecideState(m, opt))
    BY <1>1, <1>2, <2>1 DEF Reached, Earlier, Standing
  <2>3. QED BY <2>2 DEF Reached
<1>5. QED BY <1>3, <1>4
---------------------------------------------------------------------------
(* The patterns of the actions. *)

\* A job that a step does not touch keeps its invariant.
LEMMA JobFrame ==
  ASSUME NEW k \in Job, JobInv(k),
         file'[k] = file[k], man'[k] = man[k], log'[k] = log[k], torn'[k] = torn[k],
         active'[k] = active[k], begun'[k] = begun[k],
         lock' = k => lock = k /\ todo' = todo
  PROVE  JobInv(k)'
<1>1. Spent(k)' = Spent(k)
  BY DEF Spent
<1>2. Present(k)' = Present(k) /\ (Ahead(k)' <=> Ahead(k))
  BY DEF Present, Ahead
<1>3. \A m : Launchable(k, m)' <=> Launchable(k, m)
  BY <1>1 DEF Launchable
<1>4. Unborn(k)' /\ Turn(k)' /\ Placed(k)'
  BY <1>1, <1>2 DEF JobInv, Unborn, Turn, Placed
<1>5. Locked(k)'
  BY <1>2, <1>3 DEF JobInv, Locked
<1>6. Pending(k)'
  BY <1>1, <1>2, <1>3 DEF JobInv, Pending, PendingWrite
<1>7. QED BY <1>4, <1>5, <1>6 DEF JobInv
\* Nothing that is not about files, manifests and torn logs makes a second
\* job unfinished.
LEMMA QuietBox ==
  ASSUME OneUnfinished, WholeWhileActive,
         UNCHANGED <<file, man, torn>>,
         \A k \in Job : active'[k] # {} => active[k] # {} \/ ~torn[k]
  PROVE  OneUnfinished' /\ WholeWhileActive'
<1>1. OneUnfinished'
  BY DEF OneUnfinished, Unfinished, Present
<1>2. WholeWhileActive'
  BY DEF WholeWhileActive
<1>3. QED BY <1>1, <1>2

\* The first of the Appends an operation makes.
LEMMA HeadWrite ==
  ASSUME NEW writes \in Seq(SoundWrite), writes # <<>>
  PROVE  /\ Head(writes) = writes[1] /\ 1 \in DOMAIN writes
         /\ writes[1].entry \in SoundEntry /\ writes[1].man \in SoundManifest
<1>1. 1 \in DOMAIN writes /\ Head(writes) = writes[1] /\ writes[1] \in SoundWrite
  OBVIOUS
<1>2. writes[1].entry \in SoundEntry /\ writes[1].man \in SoundManifest
  BY <1>1 DEF SoundWrite
<1>3. QED BY <1>1, <1>2

\* What an operation that starts may mean to save, once U is spent.
Startable(j, U, writes, i) ==
  LET w == writes[i]
  IN  /\ Reached(U, w.man)
      /\ active[j] = {} \/ (w.man.state = man[j].state /\ w.man.unit = man[j].unit)
      /\ w.entry.kind = "step.started" =>
           w.man.state = "running" /\ active[j] = {} /\ Past(U, w.man)
      /\ w.entry.kind \in OutcomeKind => i = 1 /\ active[j] = {}
      /\ Terminal(man[j]) => Terminal(w.man)
      /\ \A k \in DOMAIN writes : k < i /\ Terminal(writes[k].man) => Terminal(w.man)

\* An operation that starts: its first line is written, and it may save what
\* it means to save.
LEMMA RunInv ==
  ASSUME Inv, NEW j \in Job, NEW writes \in Seq(SoundWrite), writes # <<>>,
         Run(j, writes),
         UNCHANGED <<file, man, torn, active>>,
         \A k \in Job \ {j} : begun'[k] = begun[k],
         Present(j), ~torn[j], ~Ahead(j),
         \A u \in Spent(j)' \ Spent(j) : u = Standing(man[j]) /\ man[j].state = "running",
         \A i \in DOMAIN writes : Startable(j, Spent(j)', writes, i)
  PROVE  Order'
<1>1. JobInv(j) /\ Shape
  BY DEF Inv, Order
<1>2. /\ lock' = j /\ todo' = writes
      /\ log' = [log EXCEPT ![j] = Append(@, Head(writes).entry)]
  BY DEF Run
<1>3. Head(writes) = writes[1] /\ 1 \in DOMAIN writes /\ writes[1].entry \in SoundEntry
  BY HeadWrite
<1>4. log[j] \in Seq(SoundEntry) /\ log'[j] = Append(log[j], writes[1].entry)
  BY <1>1, <1>2, <1>3 DEF Shape
<1>5. Logged(log'[j]) = Logged(log[j]) \cup
        (IF writes[1].entry.kind \in OutcomeKind THEN {writes[1].entry.unit} ELSE {})
  BY <1>3, <1>4, LoggedAppend
<1>6. Len(log'[j]) = Len(log[j]) + 1 /\ man[j].loglen \in Nat /\ Len(log[j]) \in Nat
  BY <1>1, <1>4 DEF Shape, SoundManifest, Manifest
<1>7. Len(log[j]) = man[j].loglen
  BY <1>1, <1>6 DEF JobInv, Placed, Ahead
<1>8. Ahead(j)' /\ Present(j)'
  BY <1>6, <1>7 DEF Ahead, Present
<1>9. JobInv(j)'
  <2>1. Unborn(j)'
    BY <1>8 DEF Unborn, Present
  <2>2. Turn(j)'
    <3>1. \A u \in active'[j] : Present(j)' /\ man'[j].state = "running" /\ man'[j].unit = u
      BY <1>1, <1>8 DEF JobInv, Turn
    <3>2. active'[j] \cap Logged(log'[j]) = {}
      BY <1>1, <1>3, <1>5 DEF JobInv, Turn, Startable
    <3>3. QED BY <3>1, <3>2 DEF Turn
  <2>3. Placed(j)'
    <3>1. Reached(Spent(j)', man[j])
      BY <1>1 DEF JobInv, Placed, Reached
    <3>2. QED BY <1>6, <1>7, <3>1 DEF Placed
  <2>4. Locked(j)'
    BY <1>2, <1>8 DEF Locked
  <2>5. Pending(j)'
    BY <1>2, <1>8 DEF Pending, PendingWrite, Launchable, Startable
  <2>6. QED BY <2>1, <2>2, <2>3, <2>4, <2>5 DEF JobInv
<1>10. ASSUME NEW k \in Job, k # j
       PROVE  JobInv(k)'
  BY <1>1, <1>2, <1>10, JobFrame DEF Inv, Order, Shape
<1>11. QED BY <1>9, <1>10, QuietBox DEF Inv, Order

\* With no outcome to log and no step begun, nothing more is spent.
LEMMA RunSpent ==
  ASSUME Shape, NEW j \in Job, NEW writes \in Seq(SoundWrite), writes # <<>>,
         Run(j, writes), UNCHANGED begun, writes[1].entry.kind \notin OutcomeKind
  PROVE  Spent(j)' = Spent(j)
<1>1. Head(writes) = writes[1] /\ writes[1].entry \in SoundEntry
  BY HeadWrite
<1>2. log[j] \in Seq(SoundEntry) /\ log'[j] = Append(log[j], writes[1].entry)
  BY <1>1 DEF Shape, Run
<1>3. Logged(log'[j]) = Logged(log[j])
  BY <1>1, <1>2, LoggedAppend
<1>4. QED BY <1>3 DEF Spent

\* One save, outside any operation, of a manifest that stands no less far.
LEMMA ManInv ==
  ASSUME Inv, NEW j \in Job, NEW m \in SoundManifest,
         man' = [man EXCEPT ![j] = m],
         UNCHANGED <<file, log, torn, active, begun, lock, todo>>, lock = NoJob,
         Present(j), Reached(Spent(j), m),
         active[j] = {} \/ (m.state = man[j].state /\ m.unit = man[j].unit),
         Len(log[j]) - m.loglen \in {0, 1},
         Terminal(man[j]) => Terminal(m)
  PROVE  Order'
<1>1. JobInv(j) /\ Shape
  BY DEF Inv, Order
<1>2. man'[j] = m /\ \A k \in Job \ {j} : man'[k] = man[k]
  BY <1>1 DEF Shape
<1>3. lock # j
  BY ConstantsOK
<1>4. JobInv(j)'
  <2>1. Spent(j)' = Spent(j) /\ Present(j)' = Present(j)
    BY DEF Spent, Present
  <2>2. Unborn(j)' /\ Placed(j)'
    BY <1>1, <1>2, <2>1 DEF JobInv, Unborn, Placed
  <2>3. Turn(j)'
    BY <1>1, <1>2, <2>1 DEF JobInv, Turn
  <2>4. Locked(j)' /\ Pending(j)'
    BY <1>3 DEF Locked, Pending
  <2>5. QED BY <2>2, <2>3, <2>4 DEF JobInv
<1>5. ASSUME NEW k \in Job, k # j
      PROVE  JobInv(k)'
  BY <1>2, <1>5, JobFrame DEF Inv, Order
<1>6. OneUnfinished'
  BY <1>2 DEF Inv, Order, OneUnfinished, Unfinished, Present
<1>7. WholeWhileActive'
  BY DEF Inv, Order, WholeWhileActive
<1>8. QED BY <1>4, <1>5, <1>6, <1>7 DEF Order
\* An operation that saves the job at the place it stands at, and launches
\* and folds nothing: a lease change, or a repair of the log.
LEMMA KeepPlaceRun ==
  ASSUME Inv, NEW j \in Job, NEW writes \in Seq(SoundWrite), writes # <<>>,
         Run(j, writes), UNCHANGED <<file, man, torn, active, begun>>, Loaded(j),
         \A i \in DOMAIN writes :
           /\ writes[i].man.step = man[j].step /\ writes[i].man.attempt = man[j].attempt
           /\ writes[i].man.state = man[j].state /\ writes[i].man.unit = man[j].unit
           /\ writes[i].entry.kind \notin OutcomeKind \cup {"step.started"}
  PROVE  Order'
<1>1. Present(j) /\ ~torn[j] /\ ~Ahead(j)
  BY DEF Loaded, Present
<1>2. Spent(j)' = Spent(j)
  BY RunSpent, HeadWrite DEF Inv
<1>3. Reached(Spent(j), man[j])
  BY <1>1 DEF Inv, Order, JobInv, Placed
<1>4. \A i \in DOMAIN writes : Reached(Spent(j)', writes[i].man)
  BY <1>2, <1>3, SamePlaceReached
<1>5. ASSUME NEW i \in DOMAIN writes
      PROVE  Terminal(writes[i].man) <=> Terminal(man[j])
  BY DEF Terminal
<1>6. ASSUME NEW i \in DOMAIN writes
      PROVE  Startable(j, Spent(j)', writes, i)
  <2> DEFINE w == writes[i]
  <2>1. /\ w.man.state = man[j].state /\ w.man.unit = man[j].unit
        /\ w.entry.kind # "step.started" /\ w.entry.kind \notin OutcomeKind
    OBVIOUS
  <2>2. Reached(Spent(j)', w.man)
    BY <1>4
  <2>3. Terminal(man[j]) => Terminal(w.man)
    BY <1>5
  <2>4. ASSUME NEW k \in DOMAIN writes
        PROVE  Terminal(writes[k].man) => Terminal(w.man)
    BY <1>5
  <2>5. QED BY <2>1, <2>2, <2>3, <2>4 DEF Startable
<1>7. QED BY <1>1, <1>2, <1>6, RunInv
---------------------------------------------------------------------------
(* Every step keeps the order. *)

(* Nothing exists at the start, so every conjunct is vacuous. *)
LEMMA InitInv ==
  ASSUME Init
  PROVE  Inv
<1>1. Shape
  <2>1. NewManifest(NoOne) \in SoundManifest
    BY NewManifestSound
  <2>2. <<>> \in Seq(SoundEntry) /\ <<>> \in Seq(SoundWrite)
    OBVIOUS
  <2>3. up \in BOOLEAN /\ knows \in BOOLEAN
    BY DEF Init
  <2>4. torn \in [Job -> BOOLEAN]
    BY DEF Init
  <2>5. QED BY <2>1, <2>2, <2>3, <2>4 DEF Init, Shape, Result
<1>2. ASSUME NEW j \in Job
      PROVE  JobInv(j)
  <2>1. file[j] = "absent" /\ active[j] = {} /\ begun[j] = {} /\ log[j] = <<>> /\ lock # j
          /\ ~torn[j]
    BY ConstantsOK DEF Init
  <2>2. QED BY <2>1 DEF JobInv, Unborn, Turn, Placed, Locked, Pending, Present
<1>3. OneUnfinished /\ WholeWhileActive
  BY DEF Init, OneUnfinished, Unfinished, Present, WholeWhileActive
<1>4. QED BY <1>1, <1>2, <1>3 DEF Inv, Order

\* The log line of an Append.
LEMMA WriteEntryInv ==
  ASSUME Inv, NEW j \in Job, WriteEntry(j)
  PROVE  Order'
<1>1. JobInv(j) /\ Shape /\ lock = j /\ todo # <<>> /\ ~Ahead(j)
  BY DEF Inv, Order, WriteEntry
<1>2. /\ UNCHANGED <<file, man, torn, active, begun, lock, todo>>
      /\ log' = [log EXCEPT ![j] = Append(@, Head(todo).entry)]
  BY DEF WriteEntry, units
<1>3. todo \in Seq(SoundWrite) /\ log[j] \in Seq(SoundEntry) /\ man[j].loglen \in Nat
  BY <1>1 DEF Shape, SoundManifest, Manifest
<1>4. Head(todo) = todo[1] /\ 1 \in DOMAIN todo /\ todo[1].entry \in SoundEntry
  BY <1>1, <1>3, HeadWrite
<1>5. log'[j] = Append(log[j], todo[1].entry)
  BY <1>1, <1>2, <1>4 DEF Shape
<1>6. todo[1].entry.kind \notin OutcomeKind
  BY <1>1, <1>4 DEF JobInv, Pending, PendingWrite
<1>7. Logged(log'[j]) = Logged(log[j])
  BY <1>3, <1>4, <1>5, <1>6, LoggedAppend
<1>8. Spent(j)' = Spent(j)
  BY <1>2, <1>7 DEF Spent
<1>9. Present(j) /\ ~torn[j] /\ Len(log[j]) = man[j].loglen
  BY <1>1, <1>3 DEF JobInv, Locked, Placed, Ahead
<1>10. Present(j)' /\ Ahead(j)' /\ Len(log'[j]) - man[j].loglen = 1
  BY <1>2, <1>3, <1>5, <1>9 DEF Present, Ahead
<1>11. JobInv(j)'
  <2>1. Unborn(j)'
    BY <1>10 DEF Unborn, Present
  <2>2. Turn(j)'
    BY <1>1, <1>2, <1>7, <1>10 DEF JobInv, Turn
  <2>3. Placed(j)'
    BY <1>1, <1>2, <1>8, <1>9, <1>10 DEF JobInv, Placed
  <2>4. Locked(j)'
    BY <1>1, <1>2, <1>9, <1>10 DEF Locked
  <2>5. Pending(j)'
    BY <1>1, <1>2, <1>8, <1>10 DEF JobInv, Pending, PendingWrite, Launchable
  <2>6. QED BY <2>1, <2>2, <2>3, <2>4, <2>5 DEF JobInv
<1>12. ASSUME NEW k \in Job, k # j
       PROVE  JobInv(k)'
  BY <1>1, <1>2, <1>12, JobFrame DEF Inv, Order, Shape
<1>13. QED BY <1>2, <1>11, <1>12, QuietBox DEF Inv, Order

\* The manifest save of an Append.
LEMMA SaveManifestInv ==
  ASSUME Inv, NEW j \in Job, SaveManifest(j)
  PROVE  Order'
<1> DEFINE m == [todo[1].man EXCEPT !.loglen = Len(log[j])]
<1>1. JobInv(j) /\ Shape /\ lock = j /\ todo # <<>> /\ Ahead(j)
  BY DEF Inv, Order, SaveManifest
<1>2. todo \in Seq(SoundWrite) /\ log[j] \in Seq(SoundEntry) /\ Len(log[j]) \in Nat
  BY <1>1 DEF Shape
<1>3. Head(todo) = todo[1] /\ 1 \in DOMAIN todo /\ todo[1].man \in SoundManifest
  BY <1>1, <1>2, HeadWrite
<1>4. /\ UNCHANGED <<file, log, torn, active, begun>>
      /\ man'[j] = m
      /\ \A k \in Job \ {j} : man'[k] = man[k]
      /\ todo' = Tail(todo)
  BY <1>1, <1>3 DEF SaveManifest, units, Shape
<1>5. /\ m.step = todo[1].man.step /\ m.attempt = todo[1].man.attempt
      /\ m.state = todo[1].man.state /\ m.unit = todo[1].man.unit
      /\ m.loglen = Len(log[j])
  BY <1>3 DEF SoundManifest, Manifest
<1>6. /\ \A i \in DOMAIN Tail(todo) : i + 1 \in DOMAIN todo /\ Tail(todo)[i] = todo[i + 1]
      /\ DOMAIN Tail(todo) = 1 .. Len(todo) - 1
      /\ DOMAIN todo = 1 .. Len(todo) /\ Len(todo) \in Nat
  BY <1>1, <1>2
<1>7. PendingWrite(j, 1) /\ \A i \in DOMAIN todo : PendingWrite(j, i)
  BY <1>1, <1>3 DEF JobInv, Pending
<1>8. Spent(j)' = Spent(j) /\ Present(j) /\ Present(j)' /\ ~torn[j] /\ ~Ahead(j)'
  BY <1>1, <1>2, <1>4, <1>5 DEF Spent, Present, JobInv, Locked, Ahead
<1> HIDE DEF m
<1>9. Terminal(m) <=> Terminal(todo[1].man)
  BY <1>5 DEF Terminal
<1>10. JobInv(j)'
  <2>1. Unborn(j)'
    BY <1>8 DEF Unborn, Present
  <2>2. Turn(j)'
    BY <1>1, <1>4, <1>5, <1>7, <1>8 DEF JobInv, Turn, PendingWrite
  <2>3. Placed(j)'
    <3>1. Reached(Spent(j), m)
      BY <1>5, <1>7, SamePlaceReached DEF PendingWrite
    <3>2. QED BY <1>2, <1>4, <1>5, <1>8, <3>1 DEF Placed
  <2>4. Locked(j)'
    <3>1. SUFFICES ASSUME lock' = j, todo' = <<>>
                   PROVE  Launchable(j, man[j])'
      BY <1>4, <1>8 DEF Locked
    <3>2. todo[1].entry.kind = "step.started"
      BY <1>3, <1>4, <3>1, ConstantsOK DEF SaveManifest
    <3>3. Launchable(j, todo[1].man)
      BY <1>7, <3>2 DEF PendingWrite
    <3>4. QED BY <1>4, <1>5, <1>8, <3>3 DEF Launchable, Past, Earlier
  <2>5. ASSUME NEW i \in DOMAIN Tail(todo)
        PROVE  PendingWrite(j, i)'
    <3> DEFINE w == todo[i + 1]
    <3>1. todo'[i] = w /\ i \in DOMAIN todo' /\ i + 1 \in DOMAIN todo /\ i + 1 # 1 /\ 1 < i + 1
      BY <1>4, <1>6
    <3>2. PendingWrite(j, i + 1)
      BY <1>7, <3>1
    <3>3. Reached(Spent(j)', w.man)
      BY <1>8, <3>2 DEF PendingWrite
    <3>4. active'[j] = {} \/ (w.man.state = m.state /\ w.man.unit = m.unit)
      BY <1>4, <1>5, <1>7, <3>2 DEF PendingWrite
    <3>5. w.entry.kind = "step.started" =>
            w.man.state = "running" /\ active'[j] = {} /\ Past(Spent(j)', w.man)
      BY <1>4, <1>8, <3>2 DEF PendingWrite, Launchable
    <3>6. w.entry.kind \notin OutcomeKind
      BY <3>1, <3>2 DEF PendingWrite
    <3>7. Terminal(m) => Terminal(w.man)
      BY <1>3, <1>9, <3>1, <3>2 DEF PendingWrite
    <3>8. \A k \in DOMAIN todo' : k < i /\ Terminal(todo'[k].man) => Terminal(w.man)
      BY <1>4, <1>6, <3>1, <3>2 DEF PendingWrite
    <3> HIDE DEF w
    <3>9. QED BY <1>4, <3>1, <3>3, <3>4, <3>5, <3>6, <3>7, <3>8 DEF PendingWrite, Launchable
  <2>6. Pending(j)'
    BY <1>4, <2>5 DEF Pending
  <2>7. QED BY <2>1, <2>2, <2>3, <2>4, <2>6 DEF JobInv
<1>11. ASSUME NEW k \in Job, k # j
       PROVE  JobInv(k)'
  <2>1. lock' # k
    BY <1>11, ConstantsOK DEF SaveManifest
  <2>2. QED BY <1>4, <1>11, <2>1, JobFrame DEF Inv, Order
<1>12. OneUnfinished'
  <2>1. Terminal(man[j]) => Terminal(m)
    BY <1>7, <1>9 DEF PendingWrite
  <2>2. QED BY <1>4, <2>1 DEF Inv, Order, OneUnfinished, Unfinished, Present
<1>13. WholeWhileActive'
  BY <1>4 DEF Inv, Order, WholeWhileActive
<1>14. QED BY <1>10, <1>11, <1>12, <1>13 DEF Order
\* Where a job may be repaired.
LEMMA PlacedFacts ==
  ASSUME Inv, NEW j \in Job, Present(j)
  PROVE  /\ man[j] \in SoundManifest /\ Spent(j) \subseteq Unit
         /\ Reached(Spent(j), man[j])
         /\ log[j] \in Seq(SoundEntry) /\ Len(log[j]) \in Nat /\ man[j].loglen \in Nat
         /\ Len(log[j]) - man[j].loglen \in {0, 1}
         /\ man[j].state # "running" => active[j] = {}
         /\ \A u \in active[j] : u = man[j].unit
<1>1. JobInv(j) /\ Shape
  BY DEF Inv, Order
<1>2. Spent(j) \subseteq Unit
  BY <1>1, SpentUnits
<1>3. Reached(Spent(j), man[j]) /\ Len(log[j]) - man[j].loglen \in {0, 1}
  BY <1>1 DEF JobInv, Placed
<1>4. man[j] \in SoundManifest /\ log[j] \in Seq(SoundEntry)
  BY <1>1 DEF Shape
<1>5. man[j].loglen \in Nat
  BY <1>4 DEF SoundManifest, Manifest
<1>6. /\ man[j].state # "running" => active[j] = {}
      /\ \A u \in active[j] : u = man[j].unit
  BY <1>1 DEF JobInv, Turn
<1>7. QED BY <1>2, <1>3, <1>4, <1>5, <1>6

\* Load and restoreTrailing: each repair keeps the order.
LEMMA RepairInv ==
  ASSUME Inv, NEW j \in Job,
         Adopt(j) \/ Refold(j) \/ Reapply(j) \/ AppendTrailing(j) \/ AbandonAdopt(j)
  PROVE  Order'
<1>1. Present(j) /\ lock = NoJob
  BY DEF Adopt, Refold, Reapply, AppendTrailing, AbandonAdopt, Free, Loaded, Present
<1>2. /\ man[j] \in SoundManifest /\ Spent(j) \subseteq Unit
      /\ Reached(Spent(j), man[j])
      /\ log[j] \in Seq(SoundEntry) /\ Len(log[j]) \in Nat /\ man[j].loglen \in Nat
      /\ Len(log[j]) - man[j].loglen \in {0, 1}
      /\ man[j].state # "running" => active[j] = {}
      /\ \A u \in active[j] : u = man[j].unit
  BY <1>1, PlacedFacts
<1>3. CASE Adopt(j) \/ AbandonAdopt(j)
  <2> DEFINE m == [man[j] EXCEPT !.loglen = Len(log[j])]
  <2>1. /\ man' = [man EXCEPT ![j] = m]
        /\ UNCHANGED <<file, log, torn, active, begun, lock, todo>>
    BY <1>3 DEF Adopt, AbandonAdopt, units
  <2>2. m \in SoundManifest
    BY <1>2, LoglenSound
  <2>3. /\ m.step = man[j].step /\ m.attempt = man[j].attempt
        /\ m.state = man[j].state /\ m.unit = man[j].unit /\ m.loglen = Len(log[j])
    BY <1>2 DEF SoundManifest, Manifest
  <2> HIDE DEF m
  <2>4. Reached(Spent(j), m)
    BY <1>2, <2>3, SamePlaceReached
  <2>5. Terminal(man[j]) => Terminal(m)
    BY <2>3 DEF Terminal
  <2>6. Len(log[j]) - m.loglen \in {0, 1}
    BY <1>2, <2>3
  <2>7. QED BY <1>1, <2>1, <2>2, <2>3, <2>4, <2>5, <2>6, ManInv
<1>4. CASE Refold(j)
  <2>1. /\ man[j].state = "running" /\ log[j] # <<>>
        /\ Last(j).kind \in OutcomeKind /\ Last(j).unit = man[j].unit
        /\ UNCHANGED <<file, log, torn, active, begun, lock, todo>>
    BY <1>4 DEF Refold, Folded, units
  <2>2. PICK out \in Key \cup {"ok"} : man' = [man EXCEPT ![j] = Settle(@, out)]
    <3> DEFINE out == IF Last(j).kind = "step.lost" THEN "lost"
                      ELSE IF Last(j).out = "failed" THEN "failed"
                      ELSE results[j][Last(j).unit]
    <3>1. man[j].unit \in Unit
      BY <1>2, <2>1, RunningUnit
    <3>2. results[j][Last(j).unit] \in Result
      BY <2>1, <3>1 DEF Inv, Shape
    <3>3. out # "none" /\ man' = [man EXCEPT ![j] = Settle(@, out)]
      BY <1>4 DEF Refold
    <3>4. out \in Key \cup {"ok"}
      BY <3>2, <3>3 DEF Result, Key
    <3>5. QED BY <3>3, <3>4
  <2> DEFINE m == Settle(man[j], out)
  <2>3. man[j].unit \in Logged(log[j])
    BY <1>2, <2>1 DEF Logged, Last
  <2>4. active[j] = {}
    BY <1>2, <2>3 DEF Inv, Order, JobInv, Turn
  <2>5. m \in SoundManifest
    BY <1>2, <2>1, <2>2, SettleSound
  <2>6. Reached(Spent(j), m)
    BY <1>2, <2>1, <2>2, SettleReached
  <2>7. m.loglen = man[j].loglen
    BY <1>2 DEF Settle, SetQuestion, SoundManifest, Manifest
  <2>8. ~Terminal(man[j])
    BY <2>1 DEF Terminal
  <2>9. man' = [man EXCEPT ![j] = m]
    BY <2>2
  <2> HIDE DEF m
  <2>10. QED BY <1>1, <1>2, <2>1, <2>4, <2>5, <2>6, <2>7, <2>8, <2>9, ManInv
<1>5. CASE Reapply(j)
  <2>1. /\ man[j].state = "needs-decision" /\ log[j] # <<>>
        /\ Last(j).kind = "decision.answered" /\ Last(j).q = man[j].question
        /\ UNCHANGED <<file, log, torn, active, begun, lock, todo>>
    BY <1>5 DEF Reapply, AnswerLogged, units
  <2> DEFINE m == DecideState(man[j], Last(j).out)
  <2>2. man' = [man EXCEPT ![j] = m]
    BY <1>5 DEF Reapply
  <2>3. Last(j) \in SoundEntry
    BY <1>2, <2>1 DEF Last
  <2>4. Last(j).out \in Option /\ (Last(j).out = "abort" \/ man[j].attempt < AttemptBound)
    BY <1>2, <2>1, <2>3 DEF SoundEntry, SoundManifest
  <2>5. m \in SoundManifest
    BY <1>2, <2>1, <2>4, DecideStateSound
  <2>6. Reached(Spent(j), m)
    BY <1>2, <2>4, DecideReached
  <2>7. m.loglen = man[j].loglen
    BY <1>2 DEF DecideState, SoundManifest, Manifest
  <2>8. ~Terminal(man[j]) /\ active[j] = {}
    BY <1>2, <2>1 DEF Terminal
  <2> HIDE DEF m
  <2>9. QED BY <1>1, <1>2, <2>1, <2>2, <2>5, <2>6, <2>7, <2>8, ManInv
<1>6. CASE AppendTrailing(j)
  <2> DEFINE w == WriteOf(man[j], Missing(man[j], log[j]))
  <2>1. Missing(man[j], log[j]) # {} /\ Loaded(j)
        /\ UNCHANGED <<file, man, torn, active, begun>>
    BY <1>6 DEF AppendTrailing, units
  <2>2. w \in SoundWrite /\ w.man = man[j]
    BY <1>2, <2>1, MissingSound DEF WriteOf
  <2>3. w.entry.kind \in {"decision.asked", "job.finished"} \cup LeaseKind
    BY <2>1 DEF WriteOf, Missing, Asked, Finished, Taken, Released, Blank, LeaseKind
  <2>4. Run(j, <<w>>)
    BY <1>6 DEF AppendTrailing
  <2>5. w.entry.kind \notin OutcomeKind \cup {"step.started"}
    BY <2>3 DEF OutcomeKind, LeaseKind
  <2> HIDE DEF w
  <2> DEFINE ws == <<w>>
  <2>6. ws \in Seq(SoundWrite) /\ ws # <<>> /\ \A i \in DOMAIN ws : ws[i] = w
    BY <2>2
  <2>7. Run(j, ws)
    BY <2>4
  <2> HIDE DEF ws
  <2>8. QED BY <2>1, <2>2, <2>5, <2>6, <2>7, KeepPlaceRun
<1>7. QED BY <1>3, <1>4, <1>5, <1>6
\* Start: the box has no other unfinished job, and the new one no past.
LEMMA StartInv ==
  ASSUME Inv, NEW j \in Job, NEW c \in Controller, Start(j, c)
  PROVE  Order'
<1> DEFINE w == [entry |-> Created(c), man |-> NewManifest(c)]
<1>1. /\ lock = NoJob /\ file[j] = "absent" /\ BoxFree
      /\ file' = [file EXCEPT ![j] = "present"]
      /\ man' = [man EXCEPT ![j] = NewManifest(c)]
      /\ lock' = j /\ todo' = <<w>>
      /\ UNCHANGED <<log, torn, active, begun>>
  BY DEF Start, Free, units
<1>2. Shape /\ JobInv(j)
  BY DEF Inv, Order
<1>3. /\ file'[j] = "present" /\ man'[j] = NewManifest(c)
      /\ \A k \in Job \ {j} : file'[k] = file[k] /\ man'[k] = man[k]
  BY <1>1, <1>2 DEF Shape
<1>4. active[j] = {} /\ begun[j] = {} /\ log[j] = <<>> /\ ~torn[j]
  BY <1>1, <1>2 DEF JobInv, Unborn, Turn, Present
<1>5. Spent(j)' = {}
  BY <1>1, <1>4, LoggedEmpty DEF Spent
<1>6. NewManifest(c).state = "waiting" /\ NewManifest(c).loglen = 0
  BY DEF NewManifest
<1>7. JobInv(j)'
  <2>1. Present(j)' /\ Unborn(j)' /\ Turn(j)'
    BY <1>1, <1>3, <1>4 DEF Present, Unborn, Turn
  <2>2. Placed(j)'
    BY <1>1, <1>3, <1>4, <1>5, <1>6 DEF Placed, Reached
  <2>3. Locked(j)'
    BY <1>1, <1>4, <2>1 DEF Locked
  <2>4. Pending(j)'
    <3>1. /\ DOMAIN todo' = {1} /\ todo'[1] = w
          /\ w.entry.kind = "job.created" /\ w.man = NewManifest(c)
      BY <1>1 DEF Created, Blank
    <3> HIDE DEF w
    <3>2. PendingWrite(j, 1)'
      BY <1>1, <1>3, <1>4, <1>5, <1>6, <3>1
         DEF PendingWrite, Reached, Terminal, OutcomeKind
    <3>3. QED BY <3>1, <3>2 DEF Pending
  <2>5. QED BY <2>1, <2>2, <2>3, <2>4 DEF JobInv
<1>8. ASSUME NEW k \in Job, k # j
      PROVE  JobInv(k)'
  BY <1>1, <1>3, <1>8, JobFrame DEF Inv, Order
<1>9. OneUnfinished'
  <2>1. ASSUME NEW k \in Job, k # j
        PROVE  ~Unfinished(k)'
    <3>1. file[k] = "present" => torn[k] \/ Terminal(man[k])
      BY <1>1 DEF BoxFree
    <3>2. QED BY <1>1, <1>3, <2>1, <3>1 DEF Unfinished, Present
  <2>2. QED BY <2>1 DEF OneUnfinished
<1>10. WholeWhileActive'
  BY <1>1 DEF Inv, Order, WholeWhileActive
<1>11. QED BY <1>7, <1>8, <1>9, <1>10 DEF Order

\* Advance: the attempt the waiting job stands at has not acted.
LEMMA AdvanceInv ==
  ASSUME Inv, NEW j \in Job, NEW c \in Controller, NEW u \in Unit, Advance(j, c, u)
  PROVE  Order'
<1> DEFINE m == Renewed(man[j])
           a == [entry |-> [Intent(c, "advance") EXCEPT !.unit = u], man |-> m]
           b == [entry |-> Started(u), man |-> Running(m)]
           ws == <<a, b>>
<1>1. /\ man[j].state = "waiting" /\ active[j] = {} /\ Loaded(j)
      /\ UNCHANGED <<file, man, torn, active, begun>>
      /\ Run(j, ws)
  BY DEF Advance, Restored, units
<1>2. Present(j) /\ ~torn[j] /\ ~Ahead(j)
  BY <1>1 DEF Loaded, Present
<1>3. man[j] \in SoundManifest /\ Reached(Spent(j), man[j])
  BY <1>2, PlacedFacts
<1>4. /\ m \in SoundManifest /\ m.state = "waiting"
      /\ m.step = man[j].step /\ m.attempt = man[j].attempt /\ m.unit = man[j].unit
  BY <1>1, <1>3, LeaseSound DEF Renewed, SoundManifest, Manifest
<1>5. /\ Running(m) \in SoundManifest /\ Running(m).state = "running"
      /\ Running(m).step = man[j].step /\ Running(m).attempt = man[j].attempt
  BY <1>4, RunningSound DEF Running, SoundManifest, Manifest
<1>6. a \in SoundWrite /\ b \in SoundWrite
  BY <1>4, <1>5 DEF SoundWrite, Intent, Started, SoundEntry, Entry, EntryKind, OutcomeKind,
              LeaseKind, IntentOutcome, Blank
<1>7. a.entry.kind = "intent" /\ b.entry.kind = "step.started"
        /\ a.man = m /\ b.man = Running(m)
  BY DEF Intent, Started, Blank
<1>8. Past(Spent(j), Running(m))
  BY <1>1, <1>3, <1>5 DEF Past, Reached, Earlier
<1>9. Reached(Spent(j), m) /\ Reached(Spent(j), Running(m))
  BY <1>1, <1>3, <1>4, <1>5, SamePlaceReached
<1> HIDE DEF m, a, b
<1>10. ws \in Seq(SoundWrite) /\ ws # <<>> /\ DOMAIN ws = {1, 2} /\ ws[1] = a /\ ws[2] = b
  BY <1>6, WritesShape
<1> HIDE DEF ws
<1>11. Spent(j)' = Spent(j)
  BY <1>1, <1>7, <1>10, RunSpent DEF Inv, OutcomeKind
<1>12. ~Terminal(man[j]) /\ ~Terminal(m)
  BY <1>1, <1>4 DEF Terminal
<1>13. Startable(j, Spent(j)', ws, 1)
  BY <1>1, <1>7, <1>9, <1>10, <1>11, <1>12 DEF Startable, OutcomeKind
<1>14. Startable(j, Spent(j)', ws, 2)
  BY <1>1, <1>5, <1>7, <1>8, <1>9, <1>10, <1>11, <1>12 DEF Startable, OutcomeKind
<1>15. QED BY <1>1, <1>2, <1>10, <1>11, <1>13, <1>14, RunInv
\* Renew, Take and Release move only the lease.
LEMMA LeaseInv ==
  ASSUME Inv, NEW j \in Job, NEW c \in Controller, Renew(j, c) \/ Take(j, c) \/ Release(j, c)
  PROVE  Order'
<1>1. Loaded(j) /\ lock = NoJob
  BY DEF Renew, Take, Release, Free, LeaseReady, Restored
<1>2. Present(j) /\ ~Ahead(j)
  BY <1>1 DEF Loaded, Present
<1>3. /\ man[j] \in SoundManifest /\ Reached(Spent(j), man[j])
      /\ Len(log[j]) - man[j].loglen \in {0, 1}
  BY <1>2, PlacedFacts
<1>4. CASE Renew(j, c)
  <2> DEFINE m == Renewed(man[j])
  <2>1. man' = [man EXCEPT ![j] = m] /\ UNCHANGED <<file, log, torn, active, begun, lock, todo>>
    BY <1>4 DEF Renew, units
  <2>2. m \in SoundManifest
    BY <1>3, LeaseSound DEF Renewed
  <2>3. /\ m.step = man[j].step /\ m.attempt = man[j].attempt
        /\ m.state = man[j].state /\ m.unit = man[j].unit /\ m.loglen = man[j].loglen
    BY <1>3 DEF Renewed, SoundManifest, Manifest
  <2> HIDE DEF m
  <2>4. Reached(Spent(j), m) /\ (Terminal(man[j]) => Terminal(m))
    <3>1. Reached(Spent(j), m)
      BY <1>3, <2>3, SamePlaceReached
    <3>2. Terminal(man[j]) => Terminal(m)
      BY <2>3 DEF Terminal
    <3>3. QED BY <3>1, <3>2
  <2>5. QED BY <1>1, <1>2, <1>3, <2>1, <2>2, <2>3, <2>4, ManInv
<1>5. CASE Take(j, c)
  <2> DEFINE m == TakenBy(man[j], c)
             a == [entry |-> Intent(c, "lease take"), man |-> m]
             b == [entry |-> Taken(c), man |-> m]
             ws == <<a, b>>
  <2>1. Run(j, ws) /\ UNCHANGED <<file, man, torn, active, begun>>
    BY <1>5 DEF Take, units
  <2>2. /\ m \in SoundManifest
        /\ m.step = man[j].step /\ m.attempt = man[j].attempt
        /\ m.state = man[j].state /\ m.unit = man[j].unit
    BY <1>3, LeaseSound DEF TakenBy, SoundManifest, Manifest
  <2>3. a \in SoundWrite /\ b \in SoundWrite
    BY <2>2 DEF SoundWrite, Intent, Taken, SoundEntry, Entry, EntryKind, OutcomeKind,
                LeaseKind, IntentOutcome, Blank
  <2>4. /\ a.man = m /\ b.man = m
        /\ a.entry.kind \notin OutcomeKind \cup {"step.started"}
        /\ b.entry.kind \notin OutcomeKind \cup {"step.started"}
    BY DEF Intent, Taken, Blank, OutcomeKind
  <2> HIDE DEF m, a, b
  <2>5. ws \in Seq(SoundWrite) /\ ws # <<>> /\ DOMAIN ws = {1, 2} /\ ws[1] = a /\ ws[2] = b
    BY <2>3, WritesShape
  <2> HIDE DEF ws
  <2>6. QED BY <1>1, <2>1, <2>2, <2>4, <2>5, KeepPlaceRun
<1>6. CASE Release(j, c)
  <2> DEFINE m == ReleasedLease(man[j])
             a == [entry |-> Intent(c, "lease release"), man |-> m]
             b == [entry |-> Released, man |-> m]
             ws == <<a, b>>
  <2>1. Run(j, ws) /\ UNCHANGED <<file, man, torn, active, begun>>
    BY <1>6 DEF Release, units
  <2>2. /\ m \in SoundManifest
        /\ m.step = man[j].step /\ m.attempt = man[j].attempt
        /\ m.state = man[j].state /\ m.unit = man[j].unit
    BY <1>3, LeaseSound DEF ReleasedLease, SoundManifest, Manifest
  <2>3. a \in SoundWrite /\ b \in SoundWrite
    BY <2>2 DEF SoundWrite, Intent, Released, SoundEntry, Entry, EntryKind, OutcomeKind,
                LeaseKind, IntentOutcome, Blank
  <2>4. /\ a.man = m /\ b.man = m
        /\ a.entry.kind \notin OutcomeKind \cup {"step.started"}
        /\ b.entry.kind \notin OutcomeKind \cup {"step.started"}
    BY DEF Intent, Released, Blank, OutcomeKind
  <2> HIDE DEF m, a, b
  <2>5. ws \in Seq(SoundWrite) /\ ws # <<>> /\ DOMAIN ws = {1, 2} /\ ws[1] = a /\ ws[2] = b
    BY <2>3, WritesShape
  <2> HIDE DEF ws
  <2>6. QED BY <1>1, <2>1, <2>2, <2>4, <2>5, KeepPlaceRun
<1>7. QED BY <1>4, <1>5, <1>6

\* Decide: an abort ends the job for good, any other answer moves it on.
LEMMA DecideInv ==
  ASSUME Inv, NEW j \in Job, NEW c \in Controller, NEW q \in Question, NEW opt \in Option,
         Decide(j, c, q, opt)
  PROVE  Order'
<1> DEFINE m0 == Renewed(man[j])
           m1 == DecideState(m0, opt)
           a == [entry |-> [Intent(c, "decide") EXCEPT !.q = q], man |-> m0]
           b == [entry |-> Answered(q, c, opt), man |-> m1]
           d == [entry |-> Finished("aborted"), man |-> m1]
           ws == IF opt = "abort" THEN <<a, b, d>> ELSE <<a, b>>
<1>1. /\ man[j].state = "needs-decision" /\ man[j].question = q /\ Loaded(j)
      /\ opt = "abort" \/ man[j].attempt < AttemptBound
      /\ UNCHANGED <<file, man, torn, active, begun>>
      /\ Run(j, ws)
  BY DEF Decide, Restored, units
<1>2. Present(j) /\ ~torn[j] /\ ~Ahead(j)
  BY <1>1 DEF Loaded, Present
<1>3. man[j] \in SoundManifest /\ Reached(Spent(j), man[j]) /\ active[j] = {} /\ Spent(j) \subseteq Unit
  BY <1>1, <1>2, PlacedFacts
<1>4. /\ m0 \in SoundManifest /\ m0.state = "needs-decision" /\ m0.question = q
      /\ m0.step = man[j].step /\ m0.attempt = man[j].attempt /\ q.attempt = m0.attempt
  BY <1>1, <1>3, LeaseSound DEF Renewed, SoundManifest, Manifest
<1>5. m1 \in SoundManifest
  BY <1>1, <1>4, DecideStateSound
<1>6. a \in SoundWrite
  BY <1>4 DEF SoundWrite, Intent, SoundEntry, Entry, EntryKind, OutcomeKind,
              LeaseKind, IntentOutcome, Blank
<1>7. b \in SoundWrite
  BY <1>1, <1>4, <1>5, AnsweredSound DEF SoundWrite
<1>8. d \in SoundWrite
  BY <1>5 DEF SoundWrite, Finished, SoundEntry, Entry, EntryKind, OutcomeKind,
              LeaseKind, Blank, State
<1>9. /\ a.entry.kind = "intent" /\ b.entry.kind = "decision.answered"
      /\ d.entry.kind = "job.finished"
      /\ a.man = m0 /\ b.man = m1 /\ d.man = m1
  BY DEF Intent, Answered, Finished, Blank
<1>10. Reached(Spent(j), m0)
  BY <1>3, <1>4, SamePlaceReached
<1>11. Reached(Spent(j), m1)
  BY <1>3, <1>4, <1>10, DecideReached
<1>12. ~Terminal(man[j]) /\ ~Terminal(m0)
  BY <1>1, <1>4 DEF Terminal
<1> HIDE DEF m0, m1, a, b, d
<1>13. /\ ws \in Seq(SoundWrite) /\ ws # <<>> /\ ws[1] = a /\ ws[2] = b
       /\ DOMAIN ws = {1, 2} \/ (DOMAIN ws = {1, 2, 3} /\ ws[3] = d)
  BY <1>6, <1>7, <1>8, WritesShape
<1> HIDE DEF ws
<1>14. Spent(j)' = Spent(j)
  BY <1>1, <1>9, <1>13, RunSpent DEF Inv, OutcomeKind
<1>15. Startable(j, Spent(j)', ws, 1)
  BY <1>3, <1>9, <1>10, <1>12, <1>13, <1>14 DEF Startable, OutcomeKind
<1>16. Startable(j, Spent(j)', ws, 2)
  BY <1>3, <1>9, <1>11, <1>12, <1>13, <1>14 DEF Startable, OutcomeKind
<1>17. 3 \in DOMAIN ws => Startable(j, Spent(j)', ws, 3)
  BY <1>3, <1>9, <1>11, <1>12, <1>13, <1>14 DEF Startable, OutcomeKind
<1>18. QED BY <1>1, <1>2, <1>13, <1>14, <1>15, <1>16, <1>17, RunInv

\* Every request a controller makes.
LEMMA RequestInv ==
  ASSUME Inv, NEW j \in Job, Request(j)
  PROVE  Order'
BY StartInv, AdvanceInv, LeaseInv, DecideInv DEF Request

\* fold: the outcome it logs is of the attempt the job stands at, and its
\* process is gone.
LEMMA FoldInv ==
  ASSUME Inv, NEW j \in Job, Fold(j)
  PROVE  Order'
<1> DEFINE u    == man[j].unit
           out  == IF results[j][u] = "none" THEN "lost" ELSE results[j][u]
           m    == Settle(man[j], out)
           e    == [entry |-> Ended(u, out), man |-> m]
           next == Missing(m, Append(log[j], e.entry))
           w    == WriteOf(m, next)
           ws   == IF next = {} THEN <<e>> ELSE <<e, w>>
<1>1. /\ man[j].state = "running" /\ u \notin active[j] /\ Loaded(j)
      /\ UNCHANGED <<file, man, torn, active, begun>>
      /\ Run(j, ws)
  BY DEF Fold, UnitEnded, Restored, units
<1>2. Present(j) /\ ~torn[j] /\ ~Ahead(j)
  BY <1>1 DEF Loaded, Present
<1>3. /\ man[j] \in SoundManifest /\ Reached(Spent(j), man[j]) /\ Spent(j) \subseteq Unit
      /\ active[j] = {} /\ log[j] \in Seq(SoundEntry)
  BY <1>1, <1>2, PlacedFacts
<1>4. u = Standing(man[j]) /\ u \in Unit
  BY <1>1, <1>3, RunningUnit
<1>5. out \in Key \cup {"ok"}
  <2>1. results[j][u] \in Result
    BY <1>4 DEF Inv, Shape
  <2>2. QED BY <2>1 DEF Result, Key
<1>6. m \in SoundManifest
  BY <1>1, <1>3, <1>5, SettleSound
<1>7. e \in SoundWrite /\ e.entry \in SoundEntry /\ e.entry.unit = u /\ e.man = m
  BY <1>4, <1>6, EndedSound DEF SoundWrite
<1>8. next # {} => /\ w \in SoundWrite /\ w.man = m
                   /\ w.entry.kind \in {"decision.asked", "job.finished"} \cup LeaseKind
  <2>1. next # {} => w \in SoundWrite
    BY <1>6, MissingSound
  <2>2. w.man = m
    BY DEF WriteOf
  <2>3. ASSUME next # {}
        PROVE  w.entry.kind \in {"decision.asked", "job.finished"} \cup LeaseKind
    <3>1. w.entry \in next
      BY <2>3 DEF WriteOf
    <3>2. \A x \in next : x.kind \in {"decision.asked", "job.finished"} \cup LeaseKind
      <4>1. Asked(m.question).kind = "decision.asked" /\ Finished(m.state).kind = "job.finished"
        BY DEF Asked, Finished, Blank
      <4>2. Taken(m.owner).kind \in LeaseKind /\ Released.kind \in LeaseKind
        BY DEF Taken, Released, Blank, LeaseKind
      <4>3. next \subseteq {Asked(m.question), Finished(m.state), Taken(m.owner), Released}
        BY DEF Missing
      <4> HIDE DEF next, m
      <4>4. QED BY <4>1, <4>2, <4>3
    <3>3. QED BY <3>1, <3>2
  <2>4. QED BY <2>1, <2>2, <2>3
<1>9. Reached(Spent(j) \cup {u}, man[j])
  BY <1>1, <1>3, <1>4 DEF Reached
<1>10. Spent(j) \cup {u} \in SUBSET Unit
  BY <1>3, <1>4
<1>11. Reached(Spent(j) \cup {u}, m)
  BY <1>1, <1>3, <1>5, <1>9, <1>10, SettleReached
<1>12. e.entry.kind \in OutcomeKind
  BY <1>4, EndedSound
<1> HIDE DEF u, out, m, e, w, next
<1>13. /\ ws \in Seq(SoundWrite) /\ ws # <<>> /\ ws[1] = e
       /\ DOMAIN ws = {1} \/ (DOMAIN ws = {1, 2} /\ ws[2] = w /\ next # {})
  BY <1>7, <1>8, WritesShape
<1> HIDE DEF ws
<1>14. Spent(j)' \subseteq Spent(j) \cup {u}
  <2>1. log'[j] = Append(log[j], e.entry)
    BY <1>1, <1>13, HeadWrite DEF Inv, Shape, Run
  <2>2. Logged(log'[j]) \subseteq Logged(log[j]) \cup {u}
    BY <1>3, <1>7, <2>1, LoggedAppend
  <2>3. QED BY <1>1, <2>2 DEF Spent
<1>15. Reached(Spent(j)', m)
  BY <1>11, <1>14 DEF Reached
<1>16. ~Terminal(man[j])
  BY <1>1 DEF Terminal
<1>17. Startable(j, Spent(j)', ws, 1)
  BY <1>3, <1>7, <1>12, <1>13, <1>15, <1>16 DEF Startable, OutcomeKind
<1>18. 2 \in DOMAIN ws => Startable(j, Spent(j)', ws, 2)
  BY <1>3, <1>7, <1>8, <1>13, <1>15, <1>16 DEF Startable, OutcomeKind, LeaseKind
<1>19. QED BY <1>1, <1>2, <1>4, <1>13, <1>14, <1>17, <1>18, RunInv
\* Prune, RemoveFiles and job-abandon touch only jobs no step runs for.
LEMMA HousekeepingInv ==
  ASSUME Inv, NEW j \in Job, Housekeeping(j)
  PROVE  Order'
<1>1. JobInv(j) /\ Shape
  BY DEF Inv, Order
<1>2. CASE Prune(j)
  <2>1. /\ Terminal(man[j]) /\ lock = NoJob /\ Present(j)
        /\ UNCHANGED <<log, torn, active, begun, lock, todo>>
        /\ file'[j] = "orphan"
        /\ \A k \in Job \ {j} : file'[k] = file[k] /\ man'[k] = man[k]
    BY <1>1, <1>2 DEF Prune, Free, Loaded, Present, units, Shape
  <2>2. active[j] = {}
    BY <2>1, PlacedFacts DEF Terminal
  <2>3. JobInv(j)'
    BY <2>1, <2>2, ConstantsOK DEF JobInv, Unborn, Turn, Placed, Locked, Pending, Present
  <2>4. ASSUME NEW k \in Job, k # j
        PROVE  JobInv(k)'
    BY <2>1, <2>4, JobFrame DEF Inv, Order
  <2>5. OneUnfinished'
    BY <2>1 DEF Inv, Order, OneUnfinished, Unfinished, Present
  <2>6. WholeWhileActive'
    BY <2>1 DEF Inv, Order, WholeWhileActive
  <2>7. QED BY <2>3, <2>4, <2>5, <2>6 DEF Order
<1>3. CASE RemoveFiles(j)
  <2>1. /\ file[j] = "orphan" /\ lock = NoJob
        /\ UNCHANGED <<man, torn, active, begun, lock, todo>>
        /\ file'[j] = "gone"
        /\ \A k \in Job \ {j} : file'[k] = file[k] /\ log'[k] = log[k]
    BY <1>1, <1>3 DEF RemoveFiles, Free, Shape
  <2>2. active[j] = {}
    BY <1>1, <2>1 DEF JobInv, Turn, Present
  <2>3. JobInv(j)'
    BY <2>1, <2>2, ConstantsOK DEF JobInv, Unborn, Turn, Placed, Locked, Pending, Present
  <2>4. ASSUME NEW k \in Job, k # j
        PROVE  JobInv(k)'
    BY <2>1, <2>4, JobFrame DEF Inv, Order
  <2>5. OneUnfinished'
    BY <2>1 DEF Inv, Order, OneUnfinished, Unfinished, Present
  <2>6. WholeWhileActive'
    BY <2>1 DEF Inv, Order, WholeWhileActive
  <2>7. QED BY <2>3, <2>4, <2>5, <2>6 DEF Order
<1>4. CASE Abandon(j)
  <2> DEFINE m == [ReleasedLease(man[j]) EXCEPT
                     !.state = "failed", !.question = NoQuestion, !.unit = NoUnit]
             w == [entry |-> Finished("failed"), man |-> m]
             ws == <<w>>
  <2>1. /\ active[j] = {} /\ Loaded(j) /\ ~Terminal(man[j])
        /\ UNCHANGED <<file, man, torn, active, begun>>
        /\ Run(j, ws)
    BY <1>4 DEF Abandon, Abandonable, units
  <2>2. Present(j) /\ ~torn[j] /\ ~Ahead(j)
    BY <2>1 DEF Loaded, Present
  <2>3. man[j] \in SoundManifest /\ Reached(Spent(j), man[j])
    BY <2>2, PlacedFacts
  <2>4. /\ m \in SoundManifest /\ m.state = "failed"
        /\ m.step = man[j].step /\ m.attempt = man[j].attempt
    BY <2>3, AbandonedSound DEF ReleasedLease, SoundManifest, Manifest
  <2>5. w \in SoundWrite
    BY <2>4 DEF SoundWrite, Finished, SoundEntry, Entry, EntryKind, OutcomeKind,
                LeaseKind, Blank, State
  <2>6. w.entry.kind = "job.finished" /\ w.man = m
    BY DEF Finished, Blank
  <2>7. Reached(Spent(j), m)
    BY <2>3, <2>4, SamePlaceReached
  <2> HIDE DEF m, w
  <2>8. ws \in Seq(SoundWrite) /\ ws # <<>> /\ ws[1] = w /\ DOMAIN ws = {1}
    BY <2>5, WritesShape
  <2> HIDE DEF ws
  <2>9. Spent(j)' = Spent(j)
    BY <2>1, <2>6, <2>8, RunSpent DEF Inv, OutcomeKind
  <2>10. Startable(j, Spent(j)', ws, 1)
    BY <2>1, <2>6, <2>7, <2>8, <2>9 DEF Startable, OutcomeKind
  <2>11. QED BY <2>1, <2>2, <2>8, <2>9, <2>10, RunInv
<1>5. CASE AbandonAdopt(j)
  BY <1>5, RepairInv
<1>6. QED BY <1>2, <1>3, <1>4, <1>5 DEF Housekeeping

\* The launch of an attempt: it is launched once, or the job stops and asks.
LEMMA LaunchInv ==
  ASSUME Inv, NEW j \in Job, Launch(j)
  PROVE  Order'
<1>1. /\ lock = j /\ todo = <<>> /\ JobInv(j) /\ Shape
      /\ UNCHANGED <<file, man, torn>>
  BY DEF Launch, StartUnit, RefuseStart, StartFails, StartUnclear, Starting, Inv, Order, disk
<1>2. Present(j) /\ ~torn[j] /\ ~Ahead(j) /\ Launchable(j, man[j])
  BY <1>1 DEF JobInv, Locked
<1>3. man[j].state = "running" /\ active[j] = {} /\ Past(Spent(j), man[j])
  BY <1>2 DEF Launchable
<1>4. /\ man[j] \in SoundManifest /\ Reached(Spent(j), man[j]) /\ Spent(j) \subseteq Unit
      /\ log[j] \in Seq(SoundEntry)
  BY <1>2, PlacedFacts
<1>5. man[j].unit = Standing(man[j]) /\ man[j].unit \in Unit /\ man[j].unit \notin Spent(j)
  <2>1. man[j].unit = Standing(man[j]) /\ man[j].unit \in Unit
    BY <1>3, <1>4, RunningUnit
  <2>2. ~Earlier(man[j].unit, man[j])
    BY <1>4, <2>1 DEF Earlier, Standing, SoundManifest, Manifest, Attempt
  <2>3. QED BY <1>3, <2>1, <2>2 DEF Past
<1>6. CASE StartUnit(j) \/ StartUnclear(j)
  <2>1. /\ lock' = NoJob /\ UNCHANGED <<log, begun, todo>>
        /\ active'[j] \subseteq {man[j].unit}
        /\ \A k \in Job \ {j} : active'[k] = active[k]
    BY <1>1, <1>3, <1>6 DEF StartUnit, StartUnclear, disk, units, Shape
  <2>2. JobInv(j)'
    <3>1. Unborn(j)' /\ Present(j)'
      BY <1>1, <1>2, <2>1 DEF Unborn, Present
    <3>2. Turn(j)'
      BY <1>1, <1>3, <1>5, <2>1, <3>1 DEF Turn, Spent
    <3>3. Placed(j)'
      BY <1>1, <1>2, <2>1 DEF JobInv, Placed, Spent
    <3>4. Locked(j)' /\ Pending(j)'
      BY <2>1, ConstantsOK DEF Locked, Pending
    <3>5. QED BY <3>1, <3>2, <3>3, <3>4 DEF JobInv
  <2>3. ASSUME NEW k \in Job, k # j
        PROVE  JobInv(k)'
    BY <1>1, <2>1, <2>3, ConstantsOK, JobFrame DEF Inv, Order
  <2>4. \A k \in Job : active'[k] # {} => active[k] # {} \/ ~torn[k]
    BY <1>2, <2>1
  <2>5. QED BY <1>1, <2>2, <2>3, <2>4, QuietBox DEF Inv, Order
<1>7. CASE RefuseStart(j) \/ StartFails(j)
  <2> DEFINE m == SetQuestion(man[j], "failed")
             a == [entry |-> Ended(man[j].unit, "failed"), man |-> m]
             b == [entry |-> Asked(m.question), man |-> m]
             ws == <<a, b>>
  <2>1. /\ Run(j, ws) /\ UNCHANGED active
        /\ begun'[j] \subseteq begun[j] \cup {man[j].unit}
        /\ \A k \in Job \ {j} : begun'[k] = begun[k]
    BY <1>1, <1>7 DEF RefuseStart, StartFails, AskAfter, units, Shape
  <2>2. /\ m \in SoundManifest /\ m.state = "needs-decision"
        /\ m.step = man[j].step /\ m.attempt = man[j].attempt
    <3>1. "failed" \in Key /\ man[j].step \in Step
      BY <1>3, <1>4, RunningUnit DEF Key
    <3>2. m \in SoundManifest
      BY <1>4, <3>1, SetQuestionSound
    <3>3. QED BY <1>4, <3>2 DEF SetQuestion, SoundManifest, Manifest
  <2>3. a \in SoundWrite /\ a.entry \in SoundEntry /\ a.entry.unit = man[j].unit
          /\ a.man = m /\ a.entry.kind \in OutcomeKind
    BY <1>5, <2>2, EndedSound DEF SoundWrite
  <2>4. m.question \in Question \cup {NoQuestion}
    BY <2>2 DEF SoundManifest, Manifest
  <2>5. b \in SoundWrite /\ b.man = m /\ b.entry.kind = "decision.asked"
    BY <2>2, <2>4 DEF SoundWrite, Asked, SoundEntry, Entry, EntryKind, OutcomeKind,
                LeaseKind, Blank
  <2> HIDE DEF m, a, b
  <2>6. ws \in Seq(SoundWrite) /\ ws # <<>> /\ ws[1] = a /\ ws[2] = b /\ DOMAIN ws = {1, 2}
    BY <2>3, <2>5, WritesShape
  <2> HIDE DEF ws
  <2>7. Spent(j)' \subseteq Spent(j) \cup {man[j].unit}
    <3>1. log'[j] = Append(log[j], a.entry)
      BY <1>1, <2>1, <2>6, HeadWrite DEF Shape, Run
    <3>2. Logged(log'[j]) \subseteq Logged(log[j]) \cup {man[j].unit}
      BY <1>4, <2>3, <3>1, LoggedAppend
    <3>3. QED BY <2>1, <3>2 DEF Spent
  <2>8. Reached(Spent(j)', m)
    <3>1. Reached(Spent(j)', man[j])
      BY <1>3, <1>4, <1>5, <2>7 DEF Reached
    <3>2. QED BY <1>3, <2>2, <3>1, SamePlaceReached
  <2>9. ~Terminal(man[j]) /\ ~Terminal(m)
    BY <1>3, <2>2 DEF Terminal
  <2>10. Startable(j, Spent(j)', ws, 1)
    BY <1>3, <2>3, <2>6, <2>8, <2>9 DEF Startable, OutcomeKind
  <2>11. Startable(j, Spent(j)', ws, 2)
    BY <1>3, <2>3, <2>5, <2>6, <2>8, <2>9 DEF Startable, OutcomeKind
  <2>12. QED BY <1>1, <1>2, <1>3, <1>5, <2>1, <2>6, <2>7, <2>10, <2>11, RunInv
<1>8. QED BY <1>6, <1>7 DEF Launch
\* A step's process begins in its turn; that a process ends, or is lost,
\* lets nothing else go on.
LEMMA StepInv ==
  ASSUME Inv, NEW j \in Job, NEW u \in Unit,
         StepProcess(j, u) \/ KillUnit(j, u) \/ LoseResult(j, u)
  PROVE  Order'
<1>1. JobInv(j) /\ Shape
  BY DEF Inv, Order
<1>2. CASE BeginStep(j, u)
  <2>1. /\ u \in active[j] /\ man[j].state = "running" /\ u = Standing(man[j]) /\ Present(j)
        /\ begun'[j] = begun[j] \cup {u}
        /\ \A k \in Job \ {j} : begun'[k] = begun[k]
        /\ UNCHANGED <<file, man, log, torn, active, lock, todo>>
    BY <1>1, <1>2 DEF BeginStep, InTurn, Standing, Present, disk, Shape
  <2>2. Spent(j)' = Spent(j) \cup {u}
    BY <2>1 DEF Spent
  <2>3. JobInv(j)'
    <3>1. Unborn(j)' /\ Turn(j)' /\ Present(j)'
      BY <1>1, <2>1 DEF JobInv, Unborn, Turn, Present
    <3>2. Placed(j)'
      BY <1>1, <2>1, <2>2 DEF JobInv, Placed, Reached
    <3>3. Locked(j)'
      BY <1>1, <2>1, <3>1 DEF JobInv, Locked, Launchable
    <3>4. Pending(j)'
      <4>1. SUFFICES ASSUME lock = j, NEW i \in DOMAIN todo
                     PROVE  PendingWrite(j, i)'
        BY <2>1 DEF Pending
      <4>2. PendingWrite(j, i)
        BY <1>1, <4>1 DEF JobInv, Pending
      <4>3. todo[i].man \in SoundManifest
        <5>1. todo \in Seq(SoundWrite)
          BY <1>1 DEF Shape
        <5>2. todo[i] \in SoundWrite
          BY <5>1
        <5>3. QED BY <5>2 DEF SoundWrite
      <4>4. todo[i].man.state = "running" /\ todo[i].man.unit = man[j].unit
        BY <2>1, <4>2 DEF PendingWrite
      <4>5. u = Standing(todo[i].man)
        BY <1>1, <2>1, <4>3, <4>4, RunningUnit DEF JobInv, Turn
      <4>6. Reached(Spent(j)', todo[i].man)
        BY <2>2, <4>2, <4>4, <4>5 DEF PendingWrite, Reached
      <4>7. todo[i].entry.kind # "step.started"
        BY <2>1, <4>2 DEF PendingWrite, Launchable
      <4>8. QED BY <2>1, <4>2, <4>6, <4>7 DEF PendingWrite, Ahead
    <3>5. QED BY <3>1, <3>2, <3>3, <3>4 DEF JobInv
  <2>4. ASSUME NEW k \in Job, k # j
        PROVE  JobInv(k)'
    BY <2>1, <2>4, JobFrame DEF Inv, Order
  <2>5. QED BY <2>1, <2>3, <2>4, QuietBox DEF Inv, Order
<1>3. CASE RefuseStep(j, u) \/ EndStep(j, u) \/ KillUnit(j, u)
  <2>1. /\ active'[j] \subseteq active[j]
        /\ \A k \in Job \ {j} : active'[k] = active[k]
        /\ UNCHANGED <<file, man, log, torn, begun, lock, todo>>
    BY <1>1, <1>3 DEF RefuseStep, EndStep, KillUnit, disk, Shape
  <2>2. JobInv(j)'
    <3>1. Unborn(j)' /\ Turn(j)' /\ Present(j)' = Present(j) /\ Spent(j)' = Spent(j)
      BY <1>1, <2>1 DEF JobInv, Unborn, Turn, Present, Spent
    <3>2. Placed(j)'
      BY <1>1, <2>1, <3>1 DEF JobInv, Placed
    <3>3. Locked(j)'
      BY <1>1, <2>1, <3>1 DEF JobInv, Locked, Launchable, Ahead
    <3>4. Pending(j)'
      BY <1>1, <2>1, <3>1 DEF JobInv, Pending, PendingWrite, Launchable, Ahead
    <3>5. QED BY <3>1, <3>2, <3>3, <3>4 DEF JobInv
  <2>3. ASSUME NEW k \in Job, k # j
        PROVE  JobInv(k)'
    BY <2>1, <2>3, JobFrame DEF Inv, Order
  <2>4. \A k \in Job : active'[k] # {} => active[k] # {} \/ ~torn[k]
    BY <2>1
  <2>5. QED BY <2>1, <2>2, <2>3, <2>4, QuietBox DEF Inv, Order
<1>4. CASE LoseResult(j, u)
  <2>1. UNCHANGED <<file, man, log, torn, active, begun, lock, todo>>
    BY <1>4 DEF LoseResult, disk
  <2>2. ASSUME NEW k \in Job
        PROVE  JobInv(k)'
    BY <2>1, JobFrame DEF Inv, Order
  <2>3. QED BY <2>1, <2>2, QuietBox DEF Inv, Order
<1>5. QED BY <1>2, <1>3, <1>4 DEF StepProcess

\* A fault stops an operation between two writes, or tears a log; the clock
\* moves a lease; and the agent starts again.
LEMMA FaultInv ==
  ASSUME Inv, FailWrite \/ Crash \/ PowerCut \/ Boot
              \/ \E j \in Job : TearLine(j) \/ ClockMoves(j)
  PROVE  Order'
<1>1. Shape /\ \A k \in Job : JobInv(k)
  BY DEF Inv, Order
<1>2. CASE FailWrite \/ Crash \/ Boot
  <2>1. /\ UNCHANGED <<file, man, log, torn, active, begun>>
        /\ lock' = NoJob \/ UNCHANGED <<lock, todo>>
    BY <1>2 DEF FailWrite, Crash, Boot, Drop, disk, units
  <2>2. ASSUME NEW k \in Job
        PROVE  JobInv(k)'
    BY <1>1, <2>1, ConstantsOK, JobFrame
  <2>3. QED BY <2>1, <2>2, QuietBox DEF Inv, Order
<1>3. CASE PowerCut
  <2>1. /\ UNCHANGED <<file, man, log, begun>> /\ lock' = NoJob
        /\ \A k \in Job : active'[k] = {}
    BY <1>3 DEF PowerCut, Drop
  <2>2. \A k \in Job : torn'[k] = torn[k] \/ (torn'[k] = TRUE /\ Present(k))
    BY <1>1, <1>3 DEF PowerCut, Present, Shape
  <2>3. ASSUME NEW k \in Job
        PROVE  JobInv(k)'
    <3>1. JobInv(k) /\ Spent(k)' = Spent(k) /\ Present(k)' = Present(k)
      BY <1>1, <2>1 DEF Spent, Present
    <3>2. Unborn(k)'
      BY <2>1, <2>2, <3>1 DEF JobInv, Unborn, Present
    <3>3. Turn(k)' /\ Placed(k)'
      BY <2>1, <3>1 DEF JobInv, Turn, Placed
    <3>4. Locked(k)' /\ Pending(k)'
      BY <2>1, ConstantsOK DEF Locked, Pending
    <3>5. QED BY <3>2, <3>3, <3>4 DEF JobInv
  <2>4. ASSUME NEW k \in Job, Unfinished(k)'
        PROVE  Unfinished(k)
    BY <2>1, <2>2, <2>4 DEF Unfinished, Present
  <2>5. OneUnfinished'
    BY <2>4 DEF Inv, Order, OneUnfinished
  <2>6. WholeWhileActive'
    BY <2>1 DEF WholeWhileActive
  <2>7. QED BY <2>3, <2>5, <2>6 DEF Order
<1>4. ASSUME NEW j \in Job, TearLine(j)
      PROVE  Order'
  <2>1. /\ UNCHANGED <<file, man, log, active, begun>> /\ lock' = NoJob
        /\ lock = j /\ "tear" \in Fault
        /\ torn'[j] = TRUE
        /\ \A k \in Job \ {j} : torn'[k] = torn[k]
    BY <1>1, <1>4 DEF TearLine, Drop, Happens, units, Shape
  <2>2. ASSUME NEW k \in Job, k # j
        PROVE  JobInv(k)'
    BY <1>1, <2>1, <2>2, ConstantsOK, JobFrame
  <2>3. JobInv(j)'
    <3>1. JobInv(j) /\ Spent(j)' = Spent(j) /\ Present(j)' = Present(j) /\ Present(j)
      BY <1>1, <2>1 DEF Spent, Present, JobInv, Locked
    <3>2. Unborn(j)' /\ Turn(j)' /\ Placed(j)'
      BY <2>1, <3>1 DEF JobInv, Unborn, Turn, Placed, Present
    <3>3. Locked(j)' /\ Pending(j)'
      BY <2>1, ConstantsOK DEF Locked, Pending
    <3>4. QED BY <3>2, <3>3 DEF JobInv
  <2>4. ASSUME NEW k \in Job, Unfinished(k)'
        PROVE  Unfinished(k)
    BY <2>1, <2>4 DEF Unfinished, Present
  <2>5. OneUnfinished'
    BY <2>4 DEF Inv, Order, OneUnfinished
  <2>6. WholeWhileActive'
    BY <2>1 DEF WholeWhileActive
  <2>7. QED BY <2>2, <2>3, <2>5, <2>6 DEF Order
<1>5. ASSUME NEW j \in Job, ClockMoves(j)
      PROVE  Order'
  <2>1. /\ man' = [man EXCEPT ![j] = [man[j] EXCEPT !.fresh = ~@]]
        /\ UNCHANGED <<file, log, torn, active, begun, lock, todo>>
    BY <1>5 DEF ClockMoves, units
  <2> DEFINE m == [man[j] EXCEPT !.fresh = ~@]
  <2>2. /\ m.step = man[j].step /\ m.attempt = man[j].attempt
        /\ m.state = man[j].state /\ m.unit = man[j].unit /\ m.loglen = man[j].loglen
    BY <1>1 DEF Shape, SoundManifest, Manifest
  <2>3. man'[j] = m /\ \A k \in Job \ {j} : man'[k] = man[k]
    BY <1>1, <2>1 DEF Shape
  <2> HIDE DEF m
  <2>4. JobInv(j)'
    <3>1. /\ JobInv(j) /\ Spent(j)' = Spent(j) /\ Present(j)' = Present(j)
          /\ Ahead(j)' = Ahead(j)
      BY <1>1, <2>1, <2>2, <2>3 DEF Spent, Present, Ahead
    <3>2. Unborn(j)' /\ Turn(j)'
      BY <2>1, <2>2, <2>3, <3>1 DEF JobInv, Unborn, Turn
    <3>3. Placed(j)'
      <4>1. Present(j) => Reached(Spent(j), m)
        BY <2>2, <3>1, SamePlaceReached DEF JobInv, Placed
      <4>2. QED BY <2>1, <2>2, <2>3, <3>1, <4>1 DEF JobInv, Placed
    <3>4. Locked(j)'
      BY <2>1, <2>2, <2>3, <3>1 DEF JobInv, Locked, Launchable, Past, Earlier
    <3>5. Terminal(m) <=> Terminal(man[j])
      BY <2>2 DEF Terminal
    <3>6. Pending(j)'
      BY <2>1, <2>2, <2>3, <3>1, <3>5 DEF JobInv, Pending, PendingWrite, Launchable
    <3>7. QED BY <3>2, <3>3, <3>4, <3>6 DEF JobInv
  <2>5. ASSUME NEW k \in Job, k # j
        PROVE  JobInv(k)'
    BY <1>1, <2>1, <2>3, <2>5, JobFrame
  <2>6. OneUnfinished'
    BY <2>1, <2>2, <2>3 DEF Inv, Order, OneUnfinished, Unfinished, Present, Terminal
  <2>7. WholeWhileActive'
    BY <2>1 DEF Inv, Order, WholeWhileActive
  <2>8. QED BY <2>4, <2>5, <2>6, <2>7 DEF Order
<1>6. QED BY <1>2, <1>3, <1>4, <1>5
---------------------------------------------------------------------------
(* The theorems. *)

\* An operation about to launch a unit has saved its job running.
LEMMA InvStarting ==
  ASSUME Inv
  PROVE  StartingRunning
BY DEF Inv, Order, JobInv, Locked, Launchable, StartingRunning

\* The invariant holds after every step.
LEMMA InvNext ==
  ASSUME Inv, [Next]_vars
  PROVE  Inv'
<1> USE DEF Inv
<1>1. CASE UNCHANGED vars
  <2>1. Shape'
    BY <1>1 DEF Shape, vars
  <2>2. ASSUME NEW k \in Job
        PROVE  JobInv(k)'
    BY <1>1, JobFrame DEF Order, vars
  <2>3. QED BY <1>1, <2>1, <2>2, QuietBox DEF Order, vars
<1>2. ASSUME NEW j \in Job, Reconcile(j)
      PROVE  Inv'
  BY <1>2, RepairShape, RepairInv, FoldShape, FoldInv DEF Reconcile
<1>3. ASSUME NEW j \in Job, Request(j)
      PROVE  Inv'
  BY <1>3, RequestShape, RequestInv
<1>4. ASSUME NEW j \in Job, Storage(j)
      PROVE  Inv'
  BY <1>4, StorageShape, WriteEntryInv, SaveManifestInv DEF Storage
<1>5. ASSUME NEW j \in Job, Launch(j)
      PROVE  Inv'
  BY <1>5, InvStarting, LaunchShape, LaunchInv
<1>6. ASSUME NEW j \in Job, NEW u \in Unit,
             StepProcess(j, u) \/ KillUnit(j, u) \/ LoseResult(j, u)
      PROVE  Inv'
  BY <1>6, StepShape, StepInv
<1>7. ASSUME NEW j \in Job, Housekeeping(j)
      PROVE  Inv'
  BY <1>7, HousekeepingShape, HousekeepingInv
<1>8. ASSUME FailWrite \/ Crash \/ PowerCut \/ Boot
             \/ \E j \in Job : TearLine(j) \/ ClockMoves(j)
      PROVE  Inv'
  BY <1>8, FaultShape, FaultInv
<1>9. QED
  BY <1>1, <1>2, <1>3, <1>4, <1>5, <1>6, <1>7, <1>8 DEF Next, JobFault

\* The invariant holds throughout.
THEOREM Invariance == Spec => []Inv
<1>1. Init => Inv
  BY InitInv
<1>2. Inv /\ [Next]_vars => Inv'
  BY InvNext
<1>3. QED BY <1>1, <1>2, PTL DEF Spec

\* Every variable keeps its type, and more: a manifest that may still move
\* stands at a step of the plan, and a running one names that very attempt.
THEOREM TypeCorrect == Spec => []TypeOK
<1>1. Inv => TypeOK
  <2>1. SUFFICES ASSUME Inv
                 PROVE  TypeOK
    OBVIOUS
  <2>2. Shape
    BY <2>1 DEF Inv
  <2>3. SoundManifest \subseteq Manifest /\ SoundEntry \subseteq Entry
    BY DEF SoundManifest, SoundEntry
  <2>4. SoundWrite \subseteq Write
    BY <2>3 DEF SoundWrite, Write
  <2>5. Seq(SoundEntry) \subseteq Seq(Entry) /\ Seq(SoundWrite) \subseteq Seq(Write)
    BY <2>3, <2>4
  <2>6. man \in [Job -> Manifest] /\ log \in [Job -> Seq(Entry)] /\ todo \in Seq(Write)
    BY <2>2, <2>3, <2>5 DEF Shape
  <2>7. QED BY <2>2, <2>6 DEF Shape, TypeOK
<1>2. QED BY <1>1, Invariance, PTL

\* A step's process is alive only while its job's manifest says running and
\* names it, whatever fails, crashes or is repaired meanwhile.
THEOREM UnitsRunInTurn == Spec => []UnitsInTurn
<1>1. Inv => UnitsInTurn
  BY DEF Inv, Order, JobInv, Turn, UnitsInTurn
<1>2. QED BY <1>1, Invariance, PTL

\* A manifest never claims history its log lacks, and lags it by one at most.
THEOREM LogStaysWithinOne == Spec => []LogWithinOne
<1>1. Inv => LogWithinOne
  BY DEF Inv, Order, JobInv, Placed, LogWithinOne
<1>2. QED BY <1>1, Invariance, PTL

\* J1: the box never has two unfinished jobs.
THEOREM OneUnfinishedJob == Spec => []OneUnfinished
<1>1. Inv => OneUnfinished
  BY DEF Inv, Order
<1>2. QED BY <1>1, Invariance, PTL

\* No two step processes of the box run at once, unless a failed write could
\* not be cut back from a log (which the run jobs_torn shows to break it).
THEOREM OneStepRunsOnBox ==
  ASSUME "tear" \notin Fault
  PROVE  Spec => []OneStepOnBox
<1>1. Inv => OneStepOnBox
  <2>1. SUFFICES ASSUME Inv, NEW j \in Job, NEW k \in Job, NEW u \in active[j], NEW v \in active[k]
                 PROVE  j = k /\ u = v
    BY DEF OneStepOnBox
  <2>2. /\ Present(j) /\ man[j].state = "running" /\ man[j].unit = u
        /\ Present(k) /\ man[k].state = "running" /\ man[k].unit = v
    BY <2>1 DEF Inv, Order, JobInv, Turn
  <2>3. ~torn[j] /\ ~torn[k]
    BY <2>1 DEF Inv, Order, WholeWhileActive
  <2>4. Unfinished(j) /\ Unfinished(k)
    BY <2>2, <2>3 DEF Unfinished, Terminal
  <2>5. j = k
    BY <2>1, <2>4 DEF Inv, Order, OneUnfinished
  <2>6. QED BY <2>2, <2>5
<1>2. QED BY <1>1, Invariance, PTL

\* Units are launched by StartUnit alone, at an attempt that has not acted.
LEMMA LaunchedOnce ==
  ASSUME Inv, [Next]_vars, NEW j \in Job
  PROVE  (active'[j] \ active[j]) \cap begun[j] = {}
<1>1. CASE UNCHANGED active \/ PowerCut
  BY <1>1 DEF PowerCut
<1>2. ASSUME NEW k \in Job, StartUnit(k)
      PROVE  (active'[j] \ active[j]) \cap begun[j] = {}
  <2>1. active' = [active EXCEPT ![k] = @ \cup {man[k].unit}] /\ active \in [Job -> SUBSET Unit]
    BY <1>2 DEF StartUnit, Inv, Shape
  <2>2. CASE j # k
    BY <2>1, <2>2
  <2>3. CASE j = k
    <3>1. lock = k /\ todo = <<>> /\ JobInv(k) /\ man[k] \in SoundManifest
      BY <1>2 DEF StartUnit, Starting, Inv, Order, Shape
    <3>2. man[k].state = "running" /\ Past(Spent(k), man[k])
      BY <3>1 DEF JobInv, Locked, Launchable
    <3>3. man[k].unit = Standing(man[k])
      BY <3>1, <3>2, RunningUnit
    <3>4. ~Earlier(man[k].unit, man[k])
      BY <3>1, <3>3 DEF Earlier, Standing, SoundManifest, Manifest, Attempt
    <3>5. man[k].unit \notin begun[k]
      BY <3>2, <3>4 DEF Past, Spent
    <3>6. QED BY <2>1, <2>3, <3>5
  <2>4. QED BY <2>2, <2>3
<1>3. ASSUME NEW k \in Job, NEW u \in Unit, StepProcess(k, u) \/ KillUnit(k, u)
      PROVE  (active'[j] \ active[j]) \cap begun[j] = {}
  <2>1. active' = active \/ active' = [active EXCEPT ![k] = @ \ {u}]
    BY <1>3 DEF StepProcess, BeginStep, RefuseStep, EndStep, KillUnit
  <2>2. QED BY <2>1 DEF Inv, Shape
<1>4. ASSUME NEW k \in Job,
             \/ Reconcile(k) \/ Request(k) \/ Storage(k) \/ Housekeeping(k)
             \/ RefuseStart(k) \/ StartFails(k) \/ StartUnclear(k)
             \/ TearLine(k) \/ ClockMoves(k) \/ \E u \in Unit : LoseResult(k, u)
      PROVE  UNCHANGED active
  <2>1. CASE Reconcile(k)
    <3>1. CASE Adopt(k)
      BY <3>1 DEF Adopt, units
    <3>2. CASE Refold(k) \/ Reapply(k)
      BY <3>2 DEF Refold, Reapply, units
    <3>3. CASE AppendTrailing(k) \/ Fold(k)
      BY <3>3 DEF AppendTrailing, Fold, units
    <3>4. QED BY <2>1, <3>1, <3>2, <3>3 DEF Reconcile
  <2>2. CASE Request(k)
    <3>1. PICK c \in Controller :
            \/ Start(k, c) \/ Renew(k, c) \/ Take(k, c) \/ Release(k, c)
            \/ \E u \in Unit : Advance(k, c, u)
            \/ \E q \in Question, opt \in Option : Decide(k, c, q, opt)
      BY <2>2 DEF Request
    <3>2. CASE Start(k, c) \/ Renew(k, c)
      BY <3>2 DEF Start, Renew, units
    <3>3. CASE Take(k, c) \/ Release(k, c)
      BY <3>3 DEF Take, Release, units
    <3>4. CASE \E u \in Unit : Advance(k, c, u)
      BY <3>4 DEF Advance, units
    <3>5. CASE \E q \in Question, opt \in Option : Decide(k, c, q, opt)
      BY <3>5 DEF Decide, units
    <3>6. QED BY <3>1, <3>2, <3>3, <3>4, <3>5
  <2>3. CASE Storage(k)
    BY <2>3 DEF Storage, WriteEntry, SaveManifest, units
  <2>4. CASE Housekeeping(k)
    BY <2>4 DEF Housekeeping, Prune, RemoveFiles, Abandon, AbandonAdopt, units
  <2>5. CASE RefuseStart(k) \/ StartFails(k) \/ StartUnclear(k)
    BY <2>5 DEF RefuseStart, StartFails, StartUnclear, units
  <2>6. CASE TearLine(k) \/ ClockMoves(k) \/ \E u \in Unit : LoseResult(k, u)
    BY <2>6 DEF TearLine, ClockMoves, LoseResult, units
  <2>7. QED BY <1>4, <2>1, <2>2, <2>3, <2>4, <2>5, <2>6
<1>5. CASE FailWrite \/ Crash \/ Boot \/ UNCHANGED vars
  BY <1>5 DEF FailWrite, Crash, Boot, vars, units
<1>6. QED
  BY <1>1, <1>2, <1>3, <1>4, <1>5 DEF Next, Launch, JobFault

\* An attempt of a step is launched at most once, whatever crashed since.
THEOREM NeverStartedTwice == Spec => NoSecondStart
<1>1. Inv /\ [Next]_vars =>
        [\A j \in Job : (active'[j] \ active[j]) \cap begun[j] = {}]_vars
  BY LaunchedOnce
<1>2. QED BY <1>1, Invariance, PTL DEF Spec, NoSecondStart
=============================================================================
