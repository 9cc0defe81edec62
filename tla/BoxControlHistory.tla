-------------------------- MODULE BoxControlHistory --------------------------
(***************************************************************************)
(* What the replay record, the nonces and the client's one retry promise   *)
(* over a whole history, for every value of the constants: a nonce outlives*)
(* its intent, one Do runs its payload once, and one retry is enough.      *)
(***************************************************************************)
EXTENDS BoxControlProofs

\* The intents of c that ran.
RanOf(c) == {ran[c][k] : k \in DOMAIN ran[c]}

-----------------------------------------------------------------------------
(* Types: what BoxTypeOK says beyond BoxInv, with the counter of the Dos. *)

ClockTyped == now \in 0 .. MaxNow /\ faults \in 0 .. MaxFaults

RecordsTyped == \A s \in disk.seen \cup mem.seen : s.nonce.ctl \in Controllers /\ s.until \in Nat

GateTyped ==
  /\ busy \subseteq Controllers
  /\ \A h \in handling : h.live \in BOOLEAN /\ h.at \in {"claimed", "admitted"} /\ h.time \in 0 .. now

EnvelopesTyped ==
  \A c \in Controllers : \A e \in signed[c] :
     e.kind \in {"start", "list"} /\ e.n \in Nat \ {0} /\ e.seq \in Nat \ {0} /\ e.expiry \in Nat /\ e.do \in Nat

ClientTyped ==
  /\ left \in [Controllers -> Nat]
  /\ \A c \in Controllers :
        /\ next[c] # 0 /\ call[c].do \in Nat
        /\ call[c].st \in {"idle", "ready", "sent", "answered", "done"}
        /\ call[c].st = "answered" => call[c].status \in Statuses
        /\ call[c].st = "done" => call[c].res \in {"ok", "rejected", "error"}

BoxTyped ==
  /\ \A c \in Controllers :
        /\ claims[c] \subseteq Tasks /\ listed[c] \in BOOLEAN
        /\ \A t \in Tasks : task[c][t] \in {"idle", "claimed", "asking", "acting"}
  /\ job = NoJob \/ job.by \in Controllers

Types == ClockTyped /\ RecordsTyped /\ GateTyped /\ EnvelopesTyped /\ ClientTyped /\ BoxTyped

LEMMA TypesEnough == BoxInv /\ Types => BoxTypeOK
<1> SUFFICES ASSUME BoxInv, Types PROVE BoxTypeOK
  OBVIOUS
<1>1. \A c \in Controllers : \A e \in signed[c] : EnvelopeOK(e) /\ e.ctl = c
  BY DEF BoxInv, AdmissionInv, EnvelopesSound, Types, EnvelopesTyped, EnvelopeOK
<1>2. \A r \in {disk, mem} :
        /\ r.last \in [Controllers -> Nat]
        /\ \A s \in r.seen : s.nonce.ctl \in Controllers /\ s.until \in Nat
  BY DEF BoxInv, AdmissionInv, GateSound, Types, RecordsTyped
<1>3. \A h \in handling :
        /\ EnvelopeOK(h.env) /\ h.live \in BOOLEAN
        /\ h.at \in {"claimed", "admitted"} /\ h.time \in 0 .. now
  BY <1>1 DEF BoxInv, AdmissionInv, GateSound, Types, GateTyped
<1>4. \A c \in Controllers : \A k \in DOMAIN ran[c] : ran[c][k] \in signed[c]
  BY RanTyped DEF BoxInv
<1>5. loaded \in BOOLEAN /\ net \subseteq UNION {signed[c] : c \in Controllers}
  BY DEF BoxInv, AdmissionInv, EnvelopesSound, GateSound
<1>6. \A c \in Controllers : next[c] \in Nat \ {0} /\ left[c] \in Nat
  BY DEF BoxInv, AdmissionInv, ClientSound, Types, ClientTyped
<1> QED BY <1>1, <1>2, <1>3, <1>4, <1>5, <1>6
        DEF BoxTypeOK, Types, ClockTyped, GateTyped, ClientTyped, BoxTyped

-----------------------------------------------------------------------------
(* The steps of BoxControl, as what they do to the gate and to a call. *)

\* Everything but Post and the steps of the gate leaves these alone.
gateFacts == <<now, disk, mem, loaded, busy, handling, ran, net, signed>>

LEMMA GateCases ==
  ASSUME BoxInv, BoxNext
  PROVE  \/ UNCHANGED gateFacts
         \/ \E c \in Controllers : Post(c)
         \/ \E e \in net : Arrive(e, TRUE)
         \/ \E e \in Captured : Arrive(e, FALSE)
         \/ \E h \in handling :
               \/ Reload(h) \/ AdmitRefused(h) \/ Admit(h) \/ AdmitUnsaved(h)
               \/ Run(h, "ok") \/ Run(h, "rejected")
         \/ Restart \/ Tick
<1>1. ASSUME NEW c \in Controllers, NEW t \in Tasks, Claim(c, t) PROVE UNCHANGED gateFacts
  BY <1>1 DEF Claim, gateFacts, vars, gateVars, clientVars
<1>2. ASSUME NEW c \in Controllers, StartSend(c) \/ StartEnd(c) PROVE UNCHANGED gateFacts
  BY <1>2 DEF StartSend, StartEnd, Begin, Collect, gateFacts, gateVars
<1>3. ASSUME NEW c \in Controllers, NEW t \in SshTasks,
             GuardSend(c, t) \/ GuardEnd(c, t) \/ ActEnd(c, t)
      PROVE  UNCHANGED gateFacts
  BY <1>3 DEF GuardSend, GuardEnd, ActEnd, Begin, Collect, gateFacts, vars, gateVars, clientVars
<1>4. ASSUME NEW c \in Controllers, ServerRestart(c) PROVE UNCHANGED gateFacts
  BY <1>4 DEF ServerRestart, gateFacts, gateVars
<1>5. ASSUME NEW c \in Controllers, ClientStep(c) PROVE UNCHANGED gateFacts \/ Post(c)
  BY <1>5 DEF ClientStep, GiveUp, Receive, ReceiveUnsaved, gateFacts, gateVars
<1>6. CASE JobEnd
  BY <1>6 DEF JobEnd, gateFacts, vars, gateVars, clientVars
<1> QED BY <1>1, <1>2, <1>3, <1>4, <1>5, <1>6
        DEF BoxNext, GateStep, Deliver, Replayed, RunStart, RunList

\* A step of a client on its call, and on its number.
CallStep(c, r) ==
  /\ call' = [call EXCEPT ![c] = r]
  /\ r.do \in {call[c].do, call[c].do + 1}
  /\ r.st = "idle" \/ (r.st = "done" /\ r.res \in {"ok", "rejected", "error"})
       \/ (r.st = "ready" /\ r.attempt = 0 /\ r.do = call[c].do + 1)
       \/ (/\ r.st = "ready" /\ r.attempt = 1 /\ r.do = call[c].do
           /\ call[c].st = "answered" /\ call[c].status = "stale" /\ call[c].attempt = 0
           /\ next' = [next EXCEPT ![c] = call[c].lastSeq + 1])
  /\ \/ UNCHANGED next
     \/ \E m \in Nat : next' = [next EXCEPT ![c] = m + 1]
  /\ UNCHANGED <<gateFacts, left>>

LEMMA CallCases ==
  ASSUME BoxInv, Types, BoxNext
  PROVE  \/ UNCHANGED <<call, next, left, gateFacts>>
         \/ \E c \in Controllers : Post(c)
         \/ \E c \in Controllers : \E r : CallStep(c, r)
         \/ GateStep
         \/ \E h \in handling : Run(h, "ok") \/ Run(h, "rejected")
<1>1. ASSUME NEW c \in Controllers, NEW t \in Tasks, Claim(c, t) PROVE UNCHANGED <<call, next, left, gateFacts>>
  BY <1>1 DEF Claim, gateFacts, vars, gateVars, clientVars
<1>2. ASSUME NEW c \in Controllers, NEW kind, Begin(c, kind) PROVE \E r : CallStep(c, r)
  <2> DEFINE r == [st |-> "ready", do |-> call[c].do + 1, kind |-> kind, attempt |-> 0]
  <2>1. call' = [call EXCEPT ![c] = r] /\ UNCHANGED <<gateFacts, left, next>>
    BY <1>2 DEF Begin, gateFacts, gateVars
  <2>2. r.st = "ready" /\ r.attempt = 0 /\ r.do = call[c].do + 1
    OBVIOUS
  <2> HIDE DEF r
  <2> QED BY <2>1, <2>2 DEF CallStep
<1>3. ASSUME NEW c \in Controllers, Collect(c) PROVE \E r : CallStep(c, r)
  <2> DEFINE r == [st |-> "idle", do |-> call[c].do]
  <2>1. call' = [call EXCEPT ![c] = r] /\ UNCHANGED <<gateFacts, left, next>>
    BY <1>3 DEF Collect, gateFacts, gateVars
  <2>2. r.st = "idle" /\ r.do = call[c].do
    OBVIOUS
  <2> HIDE DEF r
  <2> QED BY <2>1, <2>2 DEF CallStep
<1>4. ASSUME NEW c \in Controllers, ServerRestart(c) PROVE \E r : CallStep(c, r)
  <2> DEFINE r == [st |-> "idle", do |-> call[c].do]
  <2>1. call' = [call EXCEPT ![c] = r] /\ UNCHANGED <<gateFacts, left, next>>
    BY <1>4 DEF ServerRestart, gateFacts, gateVars
  <2>2. r.st = "idle" /\ r.do = call[c].do
    OBVIOUS
  <2> HIDE DEF r
  <2> QED BY <2>1, <2>2 DEF CallStep
<1>5. ASSUME NEW c \in Controllers, GiveUp(c) \/ Receive(c) \/ ReceiveUnsaved(c) PROVE \E r : CallStep(c, r)
  <2>1. UNCHANGED <<gateFacts, left>>
    BY <1>5 DEF GiveUp, Receive, ReceiveUnsaved, gateFacts, gateVars
  <2>2. call[c].st = "answered" => call[c].seq \in Nat /\ call[c].lastSeq \in Nat /\ call[c].status \in Statuses
    BY DEF BoxInv, AdmissionInv, ClientSound, Types, ClientTyped
  <2>3. \/ UNCHANGED next
        \/ \E m \in Nat : next' = [next EXCEPT ![c] = m + 1]
    BY <1>5, <2>2 DEF GiveUp, Receive, ReceiveUnsaved
  <2>4. CASE Receive(c) /\ call[c].status = "stale" /\ call[c].attempt = 0
    <3> DEFINE r == [st |-> "ready", do |-> call[c].do, kind |-> call[c].kind, attempt |-> 1]
    <3>1. /\ call' = [call EXCEPT ![c] = r] /\ call[c].st = "answered"
          /\ next' = [next EXCEPT ![c] = call[c].lastSeq + 1]
      BY <2>4 DEF Receive
    <3>2. r.st = "ready" /\ r.attempt = 1 /\ r.do = call[c].do
      OBVIOUS
    <3> HIDE DEF r
    <3> QED BY <2>1, <2>3, <2>4, <3>1, <3>2 DEF CallStep
  <2>5. CASE ~(Receive(c) /\ call[c].status = "stale" /\ call[c].attempt = 0)
    <3>1. \E res \in {"ok", "rejected", "error"} : call' = Return(c, res)
      BY <1>5, <2>2, <2>5 DEF GiveUp, Receive, ReceiveUnsaved, Statuses
    <3>2. PICK res \in {"ok", "rejected", "error"} : call' = Return(c, res)
      BY <3>1
    <3> DEFINE r == [st |-> "done", do |-> call[c].do, kind |-> call[c].kind, res |-> res]
    <3>3. call' = [call EXCEPT ![c] = r]
      BY <3>2 DEF Return
    <3>4. r.st = "done" /\ r.do = call[c].do /\ r.res = res
      OBVIOUS
    <3> HIDE DEF r
    <3> QED BY <2>1, <2>3, <3>3, <3>4 DEF CallStep
  <2> QED BY <2>4, <2>5
<1>6. ASSUME NEW c \in Controllers, NEW t \in SshTasks, ActEnd(c, t) PROVE UNCHANGED <<call, next, left, gateFacts>>
  BY <1>6 DEF ActEnd, gateFacts, vars, gateVars, clientVars
<1>7. CASE JobEnd
  BY <1>7 DEF JobEnd, gateFacts, vars, gateVars, clientVars
<1> QED BY <1>1, <1>2, <1>3, <1>4, <1>5, <1>6, <1>7
        DEF BoxNext, ClientStep, StartSend, StartEnd, GuardSend, GuardEnd, RunStart, RunList

-----------------------------------------------------------------------------
(* Every step keeps the types. *)

\* The record h's admission writes is typed.
LEMMA AdmittedTyped ==
  ASSUME BoxInv, Types, NEW h \in handling
  PROVE  \A s \in Admitted(h).seen : s.nonce.ctl \in Controllers /\ s.until \in Nat
<1> DEFINE x == [nonce |-> NonceOf(h.env), until |-> h.env.expiry + Skew]
<1>1. h.env.ctl \in Controllers /\ h.env.expiry \in Nat
  BY DEF BoxInv, AdmissionInv, GateSound, Types, EnvelopesTyped
<1>2. x.nonce.ctl \in Controllers /\ x.until \in Nat
  BY <1>1, AdmissionConstants DEF NonceOf
<1>3. Admitted(h).seen \subseteq mem.seen \cup {x}
  BY DEF Admitted, Fresh
<1> HIDE DEF x
<1> QED BY <1>2, <1>3 DEF Types, RecordsTyped

LEMMA ClockStep ==
  ASSUME BoxInv, Types, BoxNext PROVE ClockTyped' /\ now <= now' /\ now \in Nat /\ now' \in Nat
<1>1. now' = now \/ Tick
  BY GateCases DEF gateFacts, Post, Arrive, Reload, AdmitRefused, Admit, AdmitUnsaved, Run, Restart
<1>2. now' \in 0 .. MaxNow /\ now <= now' /\ now \in Nat /\ now' \in Nat
  BY <1>1, AdmissionConstants DEF Tick, Types, ClockTyped
<1>3. faults' = faults \/ (faults < MaxFaults /\ faults' = faults + 1)
  <2>1. ASSUME NEW c \in Controllers, ServerRestart(c) \/ ClientStep(c) \/ StartSend(c) \/ StartEnd(c)
        PROVE  faults' = faults \/ (faults < MaxFaults /\ faults' = faults + 1)
    BY <2>1 DEF ServerRestart, ClientStep, StartSend, StartEnd, Begin, Collect, Post, GiveUp, Receive, ReceiveUnsaved
  <2>2. ASSUME NEW c \in Controllers, NEW t \in Tasks, Claim(c, t) PROVE faults' = faults
    BY <2>2 DEF Claim, vars
  <2>3. ASSUME NEW c \in Controllers, NEW t \in SshTasks, GuardSend(c, t) \/ GuardEnd(c, t) \/ ActEnd(c, t)
        PROVE  faults' = faults
    BY <2>3 DEF GuardSend, GuardEnd, ActEnd, Begin, Collect, vars
  <2>4. CASE GateStep
    BY <2>4 DEF GateStep, Deliver, Replayed, Arrive, Reload, AdmitRefused, Admit, AdmitUnsaved, Restart, Tick
  <2>5. ASSUME NEW h \in handling, RunStart(h) \/ RunList(h) PROVE faults' = faults
    BY <2>5 DEF RunStart, RunList, Run
  <2>6. CASE JobEnd
    BY <2>6 DEF JobEnd, vars
  <2> QED BY <2>1, <2>2, <2>3, <2>4, <2>5, <2>6 DEF BoxNext
<1> QED BY <1>2, <1>3, AdmissionConstants DEF Types, ClockTyped

LEMMA RecordsStep == ASSUME BoxInv, Types, BoxNext PROVE RecordsTyped'
<1>1. ASSUME NEW h \in handling, Admit(h) \/ AdmitUnsaved(h) PROVE RecordsTyped'
  <2>1. disk' \in {disk, Admitted(h)} /\ mem' \in {mem, Admitted(h)}
    BY <1>1 DEF Admit, AdmitUnsaved
  <2> QED BY <2>1, AdmittedTyped DEF Types, RecordsTyped
<1>2. ASSUME disk' = disk, mem' \in {mem, disk} PROVE RecordsTyped'
  BY <1>2 DEF Types, RecordsTyped
<1> QED BY <1>1, <1>2, GateCases
        DEF gateFacts, Post, gateVars, clientVars, Arrive, Reload, AdmitRefused, Run, Restart, Tick

LEMMA GateTypedStep == ASSUME BoxInv, Types, BoxNext PROVE GateTyped'
<1>0. now <= now' /\ now \in Nat /\ now' \in Nat
  BY ClockStep
<1>1. ASSUME NEW e, NEW live \in BOOLEAN, e.ctl \in Controllers, Arrive(e, live) PROVE GateTyped'
  <2> DEFINE h == [env |-> e, live |-> live, at |-> "claimed", time |-> now]
  <2>1. /\ busy' \subseteq busy \cup {e.ctl} /\ handling' \subseteq handling \cup {h} /\ now' = now
    BY <1>1 DEF Arrive
  <2>2. h.live \in BOOLEAN /\ h.at = "claimed" /\ h.time = now
    OBVIOUS
  <2> HIDE DEF h
  <2> QED BY <1>0, <1>1, <2>1, <2>2 DEF Types, GateTyped
<1>2. \A e \in net \cup Captured : e.ctl \in Controllers
  BY DEF Captured, BoxInv, AdmissionInv, EnvelopesSound
<1>3. ASSUME NEW h \in handling, Admit(h) PROVE GateTyped'
  <2> DEFINE g == [h EXCEPT !.at = "admitted"]
  <2>1. busy' = busy /\ handling' = (handling \ {h}) \cup {g} /\ now' = now
    BY <1>3 DEF Admit
  <2>2. h = [env |-> h.env, live |-> h.live, at |-> h.at, time |-> h.time]
    BY DEF BoxInv, AdmissionInv, GateSound
  <2>3. g.live = h.live /\ g.at = "admitted" /\ g.time = h.time
    BY <2>2
  <2> HIDE DEF g
  <2> QED BY <2>1, <2>3 DEF Types, GateTyped
<1>4. ASSUME busy' \subseteq busy, handling' \subseteq handling PROVE GateTyped'
  BY <1>0, <1>4 DEF Types, GateTyped
<1> QED BY <1>1, <1>2, <1>3, <1>4, GateCases
        DEF gateFacts, Post, gateVars, Reload, AdmitRefused, AdmitUnsaved, Run, Restart, Tick, Leave

\* The kind of a call under way is one the box knows.
LEMMA KindOK == ASSUME BoxInv, NEW c \in Controllers, call[c].st # "idle" PROVE call[c].kind \in {"start", "list"}
BY DEF BoxInv, ClaimsSound

LEMMA EnvelopesStep == ASSUME BoxInv, Types, BoxNext PROVE EnvelopesTyped'
<1>1. ASSUME NEW c \in Controllers, Post(c) PROVE EnvelopesTyped'
  <2> DEFINE e == [ctl |-> c, n |-> Cardinality(signed[c]) + 1, seq |-> next[c],
                   kind |-> call[c].kind, expiry |-> now + Lifetime, do |-> call[c].do]
  <2>1. signed' = [signed EXCEPT ![c] = @ \cup {e}] /\ call[c].st = "ready"
    BY <1>1 DEF Post
  <2>2. Cardinality(signed[c]) \in Nat /\ next[c] \in Nat \ {0} /\ call[c].do \in Nat /\ now \in Nat
    BY FS_CardinalityType DEF BoxInv, AdmissionInv, EnvelopesSound, ClientSound, Types, ClientTyped, ClockTyped
  <2>3. /\ e.kind \in {"start", "list"} /\ e.n \in Nat \ {0} /\ e.seq \in Nat \ {0}
        /\ e.expiry \in Nat /\ e.do \in Nat
    BY <2>1, <2>2, KindOK, AdmissionConstants
  <2> HIDE DEF e
  <2>4. \A d \in Controllers : signed'[d] \subseteq signed[d] \cup {e}
    BY <2>1 DEF BoxInv, AdmissionInv, EnvelopesSound, IsFunction
  <2> QED BY <2>3, <2>4 DEF Types, EnvelopesTyped
<1>2. ASSUME signed' = signed PROVE EnvelopesTyped'
  BY <1>2 DEF Types, EnvelopesTyped
<1> QED BY <1>1, <1>2, GateCases
        DEF gateFacts, Arrive, Reload, AdmitRefused, Admit, AdmitUnsaved, Run, Restart, Tick, clientVars

\* What a step of the gate does to the calls: it answers one that waits.
AnswerOf(h, status) ==
  \E c \in Controllers :
     /\ c = h.env.ctl /\ h.live /\ call[c].st = "sent" /\ call[c].n = h.env.n
     /\ \A d \in Controllers : d # c => call'[d] = call[d]
     /\ call'[c].st = "answered" /\ call'[c].status = status
     /\ call'[c].do = call[c].do /\ call'[c].attempt = call[c].attempt
     /\ call'[c].n = call[c].n /\ call'[c].seq = call[c].seq

LEMMA AnswerParts ==
  ASSUME BoxInv, NEW h, NEW status, h.env.ctl \in Controllers, call' = Answered(h, status)
  PROVE  call' = call \/ AnswerOf(h, status)
<1> DEFINE c == h.env.ctl
<1>1. CASE h.live /\ call[c].st = "sent" /\ call[c].n = h.env.n
  <2> DEFINE r == [st |-> "answered", do |-> call[c].do, kind |-> call[c].kind, attempt |-> call[c].attempt,
                   n |-> call[c].n, seq |-> call[c].seq, status |-> status, lastSeq |-> mem.last[c]]
  <2>1. call' = [call EXCEPT ![c] = r]
    BY <1>1 DEF Answered
  <2>2. /\ r.st = "answered" /\ r.status = status /\ r.do = call[c].do /\ r.attempt = call[c].attempt
        /\ r.n = call[c].n /\ r.seq = call[c].seq
    OBVIOUS
  <2> HIDE DEF r
  <2>3. call'[c] = r /\ \A d \in Controllers : d # c => call'[d] = call[d]
    BY <2>1 DEF BoxInv, AdmissionInv, ClientSound, IsFunction
  <2> QED BY <1>1, <2>2, <2>3 DEF AnswerOf
<1>2. CASE ~(h.live /\ call[c].st = "sent" /\ call[c].n = h.env.n)
  BY <1>2 DEF Answered
<1> QED BY <1>1, <1>2

\* The answer of a step: a stale one is to an intent the gate has claimed
\* and finds stale.
GateAnswer(h, status) ==
  /\ h.env.ctl \in Controllers /\ h.env \in signed[h.env.ctl] /\ status \in Statuses
  /\ call' = Answered(h, status)
  /\ status = "stale" =>
       /\ h \in handling /\ h.at = "claimed" /\ loaded /\ Stale(h) /\ handling' = handling \ {h}
       /\ UNCHANGED <<disk, mem, loaded, ran, net>>

LEMMA AnswerCases ==
  ASSUME BoxInv, GateStep \/ \E h \in handling : Run(h, "ok") \/ Run(h, "rejected")
  PROVE  /\ UNCHANGED <<signed, next, left>>
         /\ call' = call \/ \E h, status : GateAnswer(h, status)
<1>1. \A h \in handling : h.env.ctl \in Controllers /\ h.env \in signed[h.env.ctl]
  BY DEF BoxInv, AdmissionInv, GateSound
<1>2. \A e \in net \cup Captured : e.ctl \in Controllers /\ e \in signed[e.ctl]
  BY DEF Captured, BoxInv, AdmissionInv, EnvelopesSound
<1>3. ASSUME NEW e \in net \cup Captured, NEW live, Arrive(e, live)
      PROVE  UNCHANGED <<signed, next, left>> /\ (call' = call \/ \E h, status : GateAnswer(h, status))
  <2> DEFINE h == [env |-> e, live |-> live, at |-> "claimed", time |-> now]
  <2>1. UNCHANGED <<signed, next, left>> /\ (call' = call \/ call' = Answered(h, "rejected"))
    BY <1>3 DEF Arrive
  <2>2. h.env = e
    OBVIOUS
  <2> HIDE DEF h
  <2>3. CASE call' = Answered(h, "rejected")
    <3>1. GateAnswer(h, "rejected")
      BY <1>2, <2>2, <2>3 DEF GateAnswer, Statuses
    <3> QED BY <2>1, <3>1
  <2> QED BY <2>1, <2>3
<1>4. ASSUME NEW h \in handling, NEW status \in {"ok", "rejected"}, Leave(h, status)
      PROVE  \E g, s : GateAnswer(g, s)
  <2>1. GateAnswer(h, status)
    BY <1>1, <1>4 DEF GateAnswer, Statuses, Leave
  <2> QED BY <2>1
<1>5. ASSUME NEW h \in handling, AdmitRefused(h) PROVE \E g, s : GateAnswer(g, s)
  <2>1. CASE Stale(h) /\ Leave(h, "stale")
    <3>1. GateAnswer(h, "stale")
      BY <1>1, <1>5, <2>1 DEF GateAnswer, Statuses, Leave, AdmitRefused
    <3> QED BY <3>1
  <2> QED BY <1>4, <1>5, <2>1 DEF AdmitRefused
<1>6. ASSUME NEW h \in handling, Reload(h) \/ AdmitUnsaved(h) \/ Run(h, "ok") \/ Run(h, "rejected")
      PROVE  call' = call \/ \E g, s : GateAnswer(g, s)
  BY <1>4, <1>6 DEF Reload, AdmitUnsaved, Run
<1>7. ASSUME NEW h \in handling,
             Reload(h) \/ AdmitRefused(h) \/ Admit(h) \/ AdmitUnsaved(h) \/ Run(h, "ok") \/ Run(h, "rejected")
      PROVE  UNCHANGED <<signed, next, left>>
  BY <1>7 DEF Reload, AdmitRefused, Admit, AdmitUnsaved, Run, clientVars
<1>8. ASSUME NEW h \in handling, Admit(h) PROVE call' = call
  BY <1>8 DEF Admit, clientVars
<1>9. CASE Restart \/ Tick
  BY <1>9 DEF Restart, Tick, clientVars
<1> QED BY <1>3, <1>5, <1>6, <1>7, <1>8, <1>9 DEF GateStep, Deliver, Replayed

\* A post, in the parts that matter: a new envelope with the highest nonce.
PostParts(c, e) ==
  /\ call[c].st = "ready"
  /\ e \notin signed[c] /\ e.ctl = c /\ e.seq = next[c] /\ e.do = call[c].do
  /\ \A d \in signed[c] : d.n # e.n
  /\ signed'[c] = signed[c] \cup {e} /\ net' = net \cup {e}
  /\ \A d \in Controllers : d # c => signed'[d] = signed[d] /\ call'[d] = call[d] /\ left'[d] = left[d]
  /\ call'[c].st = "sent" /\ call'[c].do = call[c].do /\ call'[c].attempt = call[c].attempt
  /\ call'[c].n = e.n /\ call'[c].seq = e.seq
  /\ left' \in [Controllers -> Nat]
  /\ UNCHANGED <<now, disk, mem, loaded, busy, handling, ran, next>>

LEMMA PostCases ==
  ASSUME BoxInv, Types, NEW c \in Controllers, Post(c) PROVE \E e : PostParts(c, e)
<1> DEFINE e == [ctl |-> c, n |-> Cardinality(signed[c]) + 1, seq |-> next[c],
                 kind |-> call[c].kind, expiry |-> now + Lifetime, do |-> call[c].do]
           r == [st |-> "sent", do |-> call[c].do, kind |-> call[c].kind,
                 attempt |-> call[c].attempt, n |-> e.n, seq |-> e.seq]
<1>1. /\ signed' = [signed EXCEPT ![c] = @ \cup {e}] /\ net' = net \cup {e}
      /\ call' = [call EXCEPT ![c] = r] /\ left' = [left EXCEPT ![c] = @ - 1]
      /\ UNCHANGED <<now, disk, mem, loaded, busy, handling, ran, next>>
      /\ call[c].st = "ready" /\ left[c] > 0
  BY DEF Post, gateVars
<1>2. /\ e.ctl = c /\ e.n = Cardinality(signed[c]) + 1 /\ e.seq = next[c] /\ e.do = call[c].do
      /\ r.st = "sent" /\ r.n = e.n /\ r.seq = e.seq /\ r.do = call[c].do /\ r.attempt = call[c].attempt
  OBVIOUS
<1> HIDE DEF e, r
<1>3. \A d \in signed[c] : d.n # e.n
  <2>1. /\ Cardinality(signed[c]) \in Nat
        /\ \A d \in signed[c] : d.n \in Nat /\ d.n <= Cardinality(signed[c])
    BY FS_CardinalityType DEF BoxInv, AdmissionInv, EnvelopesSound
  <2> QED BY <1>2, <2>1
<1>4. signed'[c] = signed[c] \cup {e} /\ \A d \in Controllers : d # c => signed'[d] = signed[d]
  BY <1>1 DEF BoxInv, AdmissionInv, EnvelopesSound, IsFunction
<1>5. call'[c] = r /\ \A d \in Controllers : d # c => call'[d] = call[d]
  BY <1>1 DEF BoxInv, AdmissionInv, ClientSound, IsFunction
<1>6. left' \in [Controllers -> Nat] /\ \A d \in Controllers : d # c => left'[d] = left[d]
  BY <1>1 DEF Types, ClientTyped
<1>7. e \notin signed[c]
  BY <1>3
<1>8. PostParts(c, e)
  BY <1>1, <1>2, <1>3, <1>4, <1>5, <1>6, <1>7 DEF PostParts
<1> QED BY <1>8

LEMMA CallParts ==
  ASSUME BoxInv, NEW c \in Controllers, NEW r, CallStep(c, r)
  PROVE  call'[c] = r /\ \A d \in Controllers : d # c => call'[d] = call[d]
BY DEF CallStep, BoxInv, AdmissionInv, ClientSound, IsFunction

LEMMA ClientStepTyped == ASSUME BoxInv, Types, BoxNext PROVE ClientTyped'
<1>1. ASSUME NEW c \in Controllers, Post(c) PROVE ClientTyped'
  <2>1. PICK e : PostParts(c, e)
    BY <1>1, PostCases
  <2> QED BY <2>1 DEF PostParts, Types, ClientTyped
<1>2. ASSUME NEW c \in Controllers, NEW r, CallStep(c, r) PROVE ClientTyped'
  <2>1. call'[c] = r /\ \A d \in Controllers : d # c => call'[d] = call[d]
    BY <1>2, CallParts
  <2>2. \A d \in Controllers : next'[d] # 0
    BY <1>2 DEF CallStep, Types, ClientTyped, BoxInv, AdmissionInv, ClientSound
  <2>3. r.do \in Nat
    BY <1>2 DEF CallStep, Types, ClientTyped
  <2>4. left' = left
    BY <1>2 DEF CallStep
  <2> QED BY <1>2, <2>1, <2>2, <2>3, <2>4 DEF CallStep, Types, ClientTyped
<1>3. CASE GateStep \/ \E h \in handling : Run(h, "ok") \/ Run(h, "rejected")
  <2>1. /\ UNCHANGED <<next, left>>
        /\ call' = call \/ \E h, status : GateAnswer(h, status)
    BY <1>3, AnswerCases
  <2>2. ASSUME NEW h, NEW status, GateAnswer(h, status) PROVE ClientTyped'
    <3>1. call' = call \/ AnswerOf(h, status)
      BY <2>2, AnswerParts DEF GateAnswer
    <3>2. status \in Statuses
      BY <2>2 DEF GateAnswer
    <3> QED BY <2>1, <3>1, <3>2 DEF AnswerOf, Types, ClientTyped
  <2> QED BY <2>1, <2>2 DEF Types, ClientTyped
<1>4. CASE UNCHANGED <<call, next, left>>
  BY <1>4 DEF Types, ClientTyped
<1> QED BY <1>1, <1>2, <1>3, <1>4, CallCases

LEMMA BoxTypedStep == ASSUME BoxInv, Types, BoxNext PROVE BoxTyped'
<1> DEFINE Handlers == \A c \in Controllers :
                          /\ claims[c] \subseteq Tasks
                          /\ \A t \in Tasks : task[c][t] \in {"idle", "claimed", "asking", "acting"}
           Listing == \A c \in Controllers : listed[c] \in BOOLEAN
           TheJob == job = NoJob \/ job.by \in Controllers
<1>1. /\ IsFunction(claims, Controllers) /\ IsFunction(listed, Controllers)
      /\ \A h \in handling : h.env.ctl \in Controllers
  BY DEF BoxInv, ClaimsSound, Excluded, AdmissionInv, GateSound
<1>2. ASSUME NEW c \in Controllers, NEW t \in Tasks, NEW pc \in {"idle", "claimed", "asking", "acting"},
             task' = At(c, t, pc),
             claims' \in {claims, [claims EXCEPT ![c] = {t}], [claims EXCEPT ![c] = @ \ {t}]}
      PROVE  Handlers'
  <2>1. /\ task'[c][t] = pc
        /\ \A d \in Controllers, u \in Tasks : d # c \/ u # t => task'[d][u] = task[d][u]
    BY <1>2, TaskStep DEF BoxInv
  <2>2. \A d \in Controllers : claims'[d] \subseteq Tasks
    BY <1>1, <1>2 DEF IsFunction, Types, BoxTyped
  <2>3. \A d \in Controllers, u \in Tasks : task'[d][u] \in {"idle", "claimed", "asking", "acting"}
    BY <1>2, <2>1 DEF Types, BoxTyped
  <2> QED BY <2>2, <2>3
<1>3. Handlers'
  <2>1. ASSUME NEW c \in Controllers, NEW t \in Tasks, Claim(c, t) PROVE Handlers'
    <3>1. task' = At(c, t, "claimed") /\ claims' = [claims EXCEPT ![c] = {t}]
      BY <2>1 DEF Claim
    <3> HIDE DEF Handlers
    <3> QED BY <1>2, <3>1
  <2>2. ASSUME NEW c \in Controllers, StartSend(c) \/ StartEnd(c) PROVE Handlers'
    <3>1. /\ task' = At(c, "start", "asking") \/ task' = At(c, "start", "idle")
          /\ claims' = claims \/ claims' = [claims EXCEPT ![c] = @ \ {"start"}]
      BY <2>2 DEF StartSend, StartEnd, Release
    <3>2. "start" \in Tasks
      BY DEF Tasks
    <3> HIDE DEF Handlers
    <3> QED BY <1>2, <3>1, <3>2
  <2>3. ASSUME NEW c \in Controllers, NEW t \in SshTasks, GuardSend(c, t) \/ GuardEnd(c, t) \/ ActEnd(c, t)
        PROVE  Handlers'
    <3>1. /\ \E pc \in {"asking", "acting", "idle"} : task' = At(c, t, pc)
          /\ claims' = claims \/ claims' = [claims EXCEPT ![c] = @ \ {t}]
      BY <2>3 DEF GuardSend, GuardEnd, ActEnd, Release
    <3>2. t \in Tasks
      BY DEF Tasks
    <3> HIDE DEF Handlers
    <3> QED BY <1>2, <3>1, <3>2
  <2>4. ASSUME NEW c \in Controllers, ServerRestart(c) PROVE Handlers'
    <3>1. claims' = [claims EXCEPT ![c] = {}] /\ task' = [task EXCEPT ![c] = [t \in Tasks |-> "idle"]]
      BY <2>4 DEF ServerRestart
    <3>2. /\ IsFunction(task, Controllers)
      BY DEF BoxInv, ClaimsSound
    <3> QED BY <1>1, <3>1, <3>2 DEF IsFunction, Types, BoxTyped
  <2>5. ASSUME UNCHANGED <<claims, task>> PROVE Handlers'
    BY <2>5 DEF Types, BoxTyped
  <2> HIDE DEF Handlers
  <2> QED BY <2>1, <2>2, <2>3, <2>4, <2>5 DEF BoxNext, RunStart, RunList, JobEnd, boxVars
<1>4. Listing'
  <2>1. listed' = listed \/ \E h \in handling : listed' = [listed EXCEPT ![h.env.ctl] = job # NoJob]
    BY DEF BoxNext, Claim, StartSend, StartEnd, GuardSend, GuardEnd, ActEnd, ServerRestart,
           RunStart, RunList, JobEnd, boxVars
  <2> QED BY <1>1, <2>1 DEF IsFunction, Types, BoxTyped
<1>5. TheJob'
  <2>1. job' \in {job, NoJob} \/ \E h \in handling : job' = [by |-> h.env.ctl]
    BY DEF BoxNext, Claim, StartSend, StartEnd, GuardSend, GuardEnd, ActEnd, ServerRestart,
           RunStart, RunList, JobEnd, boxVars
  <2> QED BY <1>1, <2>1 DEF Types, BoxTyped
<1> QED BY <1>3, <1>4, <1>5 DEF BoxTyped

LEMMA TypesInit == BoxInit => Types
<1> SUFFICES ASSUME BoxInit PROVE Types
  OBVIOUS
<1> USE DEF BoxInit, Init
<1>1. ClockTyped
  BY AdmissionConstants DEF ClockTyped
<1>2. RecordsTyped /\ GateTyped /\ EnvelopesTyped
  BY DEF RecordsTyped, GateTyped, EnvelopesTyped
<1>3. ClientTyped
  BY AdmissionConstants DEF ClientTyped, Idle
<1>4. BoxTyped
  BY DEF BoxTyped
<1> QED BY <1>1, <1>2, <1>3, <1>4 DEF Types

LEMMA TypesStep == BoxInv /\ Types /\ [BoxNext]_allVars => Types'
<1>1. ASSUME BoxInv, Types, BoxNext PROVE Types'
  BY <1>1, ClockStep, RecordsStep, GateTypedStep, EnvelopesStep, ClientStepTyped, BoxTypedStep DEF Types
<1>2. ASSUME BoxInv, Types, UNCHANGED allVars PROVE Types'
  <2>1. ClockTyped' /\ RecordsTyped' /\ GateTyped' /\ EnvelopesTyped'
    BY <1>2 DEF Types, allVars, vars, gateVars, clientVars, ClockTyped, RecordsTyped, GateTyped, EnvelopesTyped
  <2>2. ClientTyped' /\ BoxTyped'
    BY <1>2 DEF Types, allVars, vars, boxVars, clientVars, ClientTyped, BoxTyped
  <2> QED BY <2>1, <2>2 DEF Types
<1> QED BY <1>1, <1>2

LEMMA BoxInvariance == BoxSpec => [](BoxInv /\ Types)
<1>1. BoxInit => BoxInv
  BY InitInv
<1>2. BoxInv /\ [BoxNext]_allVars => BoxInv'
  BY BoxStep, BoxStutter
<1> QED BY <1>1, <1>2, TypesInit, TypesStep, PTL DEF BoxSpec

\* The servers, the network and the gate stay in the states the code has for
\* them: every envelope, record, call, claim and job has its type.
THEOREM BoxTypesHold == BoxSpec => []BoxTypeOK
BY BoxInvariance, TypesEnough, PTL

-----------------------------------------------------------------------------
(* The history: what is true of every envelope, whatever became of it.      *)

\* The gate has not decided on e: it is on its way, or claimed on the
\* connection it came in on.
Unread(e) == e \in net \/ \E h \in handling : h.env = e /\ h.live /\ h.at = "claimed"

\* e is on its way through dispatch, or ran.
Accepted(c, e) == e \in RanOf(c) \/ \E h \in handling : h.env = e /\ h.at = "admitted"

Remembers(r, e) == \E s \in r.seen : s.nonce = NonceOf(e) /\ e.expiry + Skew <= s.until

\* e did not run and never will.
Dead(e) ==
  /\ e \notin RanOf(e.ctl)
  /\ e.seq <= disk.last[e.ctl]
  /\ loaded => e.seq <= mem.last[e.ctl]
  /\ \A h \in handling : h.env = e => h.at # "admitted"

\* No two envelopes of a controller have one nonce.
Numbered == \A c \in Controllers : \A d, e \in signed[c] : d.n = e.n => d = e

InOrder == \A c \in Controllers : \A j, k \in DOMAIN ran[c] : j < k => ran[c][j].seq < ran[c][k].seq

\* Both records remember the nonce of an accepted intent as long as the clock
\* would accept it.
NoncesKept ==
  \A c \in Controllers : \A e \in signed[c] :
     Accepted(c, e) /\ now <= e.expiry + Skew => Remembers(disk, e) /\ (loaded => Remembers(mem, e))

\* Memory is never ahead of the disk.
MemoryBehind == loaded => \A c \in Controllers : mem.last[c] <= disk.last[c]

\* A record's number is that of an envelope the gate has decided on.
LastSound(r, c) == r.last[c] = 0 \/ \E e \in signed[c] : e.seq = r.last[c] /\ ~Unread(e)
LastRead == \A c \in Controllers : LastSound(disk, c) /\ LastSound(mem, c)

\* What is undecided has not run, and what is on its way is not in hand.
UnreadNew ==
  /\ \A c \in Controllers : \A e \in signed[c] : Unread(e) => e \notin RanOf(c)
  /\ \A e \in net : \A h \in handling : h.env # e

\* Of the envelopes of one Do, all but one are dead; the one whose answer the
\* caller waits for, if any, is the last.
OneLives ==
  \A c \in Controllers :
     /\ \A e \in signed[c] : e.do <= call[c].do
     /\ \A d, e \in signed[c] : d.do = e.do => d = e \/ Dead(d) \/ Dead(e)
     /\ \A e \in signed[c] :
           e.do = call[c].do =>
             /\ call[c].st = "ready" => Dead(e)
             /\ call[c].st \in {"sent", "answered"} => e.n = call[c].n \/ Dead(e)
             /\ call[c].st = "answered" /\ call[c].status = "stale" => Dead(e)

\* The second attempt has a number above every other the controller signed.
RetryAhead ==
  \A c \in Controllers :
     /\ call[c].st = "ready" /\ call[c].attempt = 1 => \A e \in signed[c] : e.seq < next[c]
     /\ call[c].st \in {"sent", "answered"} /\ call[c].attempt = 1 =>
           \A e \in signed[c] : e.n # call[c].n => e.seq < call[c].seq
     /\ call[c].st = "answered" /\ call[c].attempt = 1 => call[c].status # "stale"

GateHistory == Numbered /\ InOrder /\ NoncesKept /\ MemoryBehind /\ LastRead /\ UnreadNew
History == GateHistory /\ OneLives /\ RetryAhead

-----------------------------------------------------------------------------
(* Facts the steps share. *)

LEMMA RanSigned == ASSUME BoxInv, NEW c \in Controllers PROVE RanOf(c) \subseteq signed[c]
BY RanTyped DEF RanOf, BoxInv

LEMMA HandledSigned ==
  ASSUME BoxInv, NEW h \in handling
  PROVE  /\ h.env.ctl \in Controllers /\ h.env \in signed[h.env.ctl]
         /\ \A c \in Controllers : h.env \in signed[c] => c = h.env.ctl
         /\ \A g \in handling : g.env = h.env => g = h
BY DEF BoxInv, AdmissionInv, EnvelopesSound, GateSound

\* A controller's intents grow by an admitted one, which leaves the gate's hands.
RanStep(h) ==
  /\ h \in handling /\ h.at = "admitted"
  /\ ran'[h.env.ctl] = Append(ran[h.env.ctl], h.env)
  /\ \A c \in Controllers : c # h.env.ctl => ran'[c] = ran[c]

LEMMA RanGrows ==
  ASSUME BoxInv, BoxNext PROVE ran' = ran \/ \E h \in handling : RanStep(h)
<1>1. ASSUME NEW h \in handling, NEW status, Run(h, status) PROVE ran' = ran \/ RanStep(h)
  <2>1. h.at = "admitted" /\ (ran' = ran \/ ran' = [ran EXCEPT ![h.env.ctl] = Append(@, h.env)])
    BY <1>1 DEF Run
  <2>2. h.env.ctl \in Controllers /\ IsFunction(ran, Controllers)
    BY DEF BoxInv, AdmissionInv, GateSound
  <2> QED BY <2>1, <2>2 DEF RanStep, IsFunction
<1> QED BY <1>1, GateCases DEF gateFacts, Post, gateVars, clientVars, Arrive, Reload, AdmitRefused, Admit,
                               AdmitUnsaved, Restart, Tick

LEMMA RanOfGrows ==
  ASSUME BoxInv, NEW h \in handling, RanStep(h)
  PROVE  /\ RanOf(h.env.ctl)' = RanOf(h.env.ctl) \cup {h.env}
         /\ \A c \in Controllers : c # h.env.ctl => RanOf(c)' = RanOf(c)
<1> DEFINE c == h.env.ctl
           q == ran[c]
<1>1. c \in Controllers /\ q \in Seq(signed[c]) /\ h.env \in signed[c]
  BY DEF BoxInv, AdmissionInv, GateSound
<1>2. ran'[c] = Append(q, h.env)
  BY DEF RanStep
<1>3. DOMAIN q = 1 .. Len(q) /\ Len(q) \in Nat
  BY <1>1
<1>4. DOMAIN Append(q, h.env) = 1 .. Len(q) + 1
  BY <1>1
<1>5. \A k \in DOMAIN Append(q, h.env) :
        (k \in DOMAIN q /\ Append(q, h.env)[k] = q[k]) \/ (k = Len(q) + 1 /\ Append(q, h.env)[k] = h.env)
  BY <1>1, AppendAt
<1>6. \A k \in DOMAIN q : k \in DOMAIN Append(q, h.env) /\ Append(q, h.env)[k] = q[k]
  BY <1>3, <1>4, <1>5
<1>7. Len(q) + 1 \in DOMAIN Append(q, h.env) /\ Append(q, h.env)[Len(q) + 1] = h.env
  BY <1>3, <1>4, <1>5
<1> HIDE DEF q
<1>8. {Append(q, h.env)[k] : k \in DOMAIN Append(q, h.env)} = {q[k] : k \in DOMAIN q} \cup {h.env}
  BY <1>5, <1>6, <1>7
<1>9. RanOf(c)' = RanOf(c) \cup {h.env}
  BY <1>2, <1>8 DEF RanOf, q
<1>10. \A d \in Controllers : d # c => RanOf(d)' = RanOf(d)
  BY DEF RanStep, RanOf
<1> QED BY <1>9, <1>10

LEMMA AnyRecord == ASSUME BoxInv, BoxNext PROVE RecordKept
<1>1. CASE GateStep
  BY <1>1, GateRecord DEF BoxInv
<1>2. ASSUME NEW h \in handling, RunStart(h) \/ RunList(h) PROVE RecordKept
  <2>1. UNCHANGED <<disk, mem, loaded>> /\ handling' \subseteq handling
    BY <1>2 DEF RunStart, RunList, Run, Leave
  <2> QED BY <2>1, QuietRecord
<1>3. ASSUME UNCHANGED <<disk, mem, loaded, handling>> PROVE RecordKept
  BY <1>3, QuietRecord
<1>4. ASSUME NEW c \in Controllers, NEW t \in Tasks, Claim(c, t) PROVE UNCHANGED <<disk, mem, loaded, handling>>
  BY <1>4 DEF Claim, vars, gateVars
<1>5. ASSUME NEW c \in Controllers, StartSend(c) \/ StartEnd(c) \/ ServerRestart(c) \/ ClientStep(c)
      PROVE  UNCHANGED <<disk, mem, loaded, handling>>
  BY <1>5 DEF StartSend, StartEnd, ServerRestart, ClientStep, Begin, Collect, Post, GiveUp, Receive, ReceiveUnsaved, gateVars
<1>6. ASSUME NEW c \in Controllers, NEW t \in SshTasks, GuardSend(c, t) \/ GuardEnd(c, t) \/ ActEnd(c, t)
      PROVE  UNCHANGED <<disk, mem, loaded, handling>>
  BY <1>6 DEF GuardSend, GuardEnd, ActEnd, Begin, Collect, vars, gateVars
<1>7. CASE JobEnd
  BY <1>3, <1>7 DEF JobEnd, vars, gateVars
<1> QED BY <1>1, <1>2, <1>3, <1>4, <1>5, <1>6, <1>7 DEF BoxNext

\* The dead stay dead.
LEMMA DeadKept ==
  ASSUME BoxInv, BoxNext, NEW c \in Controllers, NEW e \in signed[c], Dead(e)
  PROVE  Dead(e)'
<1>1. e.ctl = c /\ e.seq \in Nat
  BY DEF BoxInv, AdmissionInv, EnvelopesSound
<1>2. e.seq <= disk'.last[c] /\ (loaded' => e.seq <= mem'.last[c])
  BY <1>1, AnyRecord DEF RecordKept, Dead
<1>3. \A h \in handling' : h.env = e => h.at # "admitted"
  BY <1>1, AnyRecord DEF RecordKept, Dead
<1>4. e \notin RanOf(c)'
  <2>1. CASE ran' = ran
    BY <1>1, <2>1 DEF Dead, RanOf
  <2>2. ASSUME NEW h \in handling, RanStep(h) PROVE e \notin RanOf(c)'
    BY <1>1, <2>2, RanOfGrows DEF Dead, RanStep
  <2> QED BY <2>1, <2>2, RanGrows
<1> QED BY <1>1, <1>2, <1>3, <1>4 DEF Dead

\* Only a post makes an envelope the gate has not decided on.
LEMMA UnreadShrinks ==
  ASSUME BoxInv, Types, BoxNext, NEW c \in Controllers, NEW e \in signed[c], Unread(e)' PROVE Unread(e)
<1>1. ASSUME NEW d \in Controllers, Post(d) PROVE Unread(e)
  <2>1. PICK x : PostParts(d, x)
    BY <1>1, PostCases
  <2>2. x # e
    BY <2>1 DEF PostParts, BoxInv, AdmissionInv, EnvelopesSound
  <2> QED BY <2>1, <2>2 DEF PostParts, Unread
<1>2. ASSUME NEW x, NEW live \in BOOLEAN, x \in net \/ ~live, Arrive(x, live) PROVE Unread(e)
  <2> DEFINE h == [env |-> x, live |-> live, at |-> "claimed", time |-> now]
  <2>1. net' \subseteq net /\ handling' \subseteq handling \cup {h}
    BY <1>2 DEF Arrive
  <2>2. h.env = x /\ h.live = live
    OBVIOUS
  <2> HIDE DEF h
  <2> QED BY <1>2, <2>1, <2>2 DEF Unread
<1>3. ASSUME NEW h \in handling, Admit(h) PROVE Unread(e)
  <2> DEFINE g == [h EXCEPT !.at = "admitted"]
  <2>1. net' = net /\ handling' = (handling \ {h}) \cup {g}
    BY <1>3 DEF Admit
  <2>2. g.at = "admitted"
    BY DEF BoxInv, AdmissionInv, GateSound
  <2> HIDE DEF g
  <2> QED BY <2>1, <2>2 DEF Unread
<1>4. ASSUME net' = net, handling' \subseteq handling PROVE Unread(e)
  BY <1>4 DEF Unread
<1>5. ASSUME NEW h \in handling,
             Reload(h) \/ AdmitRefused(h) \/ AdmitUnsaved(h) \/ Run(h, "ok") \/ Run(h, "rejected")
      PROVE  Unread(e)
  BY <1>4, <1>5 DEF Reload, AdmitRefused, AdmitUnsaved, Run, Leave
<1>6. CASE UNCHANGED gateFacts \/ Restart \/ Tick
  BY <1>4, <1>6 DEF gateFacts, Restart, Tick, gateVars, clientVars
<1> QED BY <1>1, <1>2, <1>3, <1>5, <1>6, GateCases

-----------------------------------------------------------------------------
(* The gate's history. *)

LEMMA NumberedStep == ASSUME BoxInv, Types, GateHistory, BoxNext PROVE Numbered'
<1>1. ASSUME NEW c \in Controllers, Post(c) PROVE Numbered'
  <2>1. PICK e : PostParts(c, e)
    BY <1>1, PostCases
  <2> QED BY <2>1 DEF PostParts, GateHistory, Numbered
<1>2. ASSUME signed' = signed PROVE Numbered'
  BY <1>2 DEF GateHistory, Numbered
<1> QED BY <1>1, <1>2, GateCases
        DEF gateFacts, Arrive, Reload, AdmitRefused, Admit, AdmitUnsaved, Run, Restart, Tick, clientVars

LEMMA InOrderStep == ASSUME BoxInv, Types, GateHistory, BoxNext PROVE InOrder'
<1>1. ASSUME NEW h \in handling, RanStep(h) PROVE InOrder'
  <2> DEFINE c == h.env.ctl
             q == ran[c]
  <2>1. c \in Controllers /\ q \in Seq(signed[c]) /\ \A k \in DOMAIN q : q[k].seq < h.env.seq
    BY <1>1 DEF RanStep, BoxInv, AdmissionInv, GateSound
  <2>2. ran'[c] = Append(q, h.env) /\ \A d \in Controllers : d # c => ran'[d] = ran[d]
    BY <1>1 DEF RanStep
  <2>3. \A j, k \in DOMAIN q : j < k => q[j].seq < q[k].seq
    BY <2>1 DEF GateHistory, InOrder
  <2>4. DOMAIN q = 1 .. Len(q) /\ Len(q) \in Nat
    BY <2>1
  <2> HIDE DEF q
  <2>5. ASSUME NEW j \in DOMAIN Append(q, h.env), NEW k \in DOMAIN Append(q, h.env), j < k
        PROVE  Append(q, h.env)[j].seq < Append(q, h.env)[k].seq
    <3>1. (j \in DOMAIN q /\ Append(q, h.env)[j] = q[j]) \/ (j = Len(q) + 1 /\ Append(q, h.env)[j] = h.env)
      BY <2>1, AppendAt
    <3>2. (k \in DOMAIN q /\ Append(q, h.env)[k] = q[k]) \/ (k = Len(q) + 1 /\ Append(q, h.env)[k] = h.env)
      BY <2>1, AppendAt
    <3> QED BY <2>1, <2>3, <2>4, <2>5, <3>1, <3>2
  <2> QED BY <2>2, <2>5 DEF GateHistory, InOrder, q
<1>2. ASSUME ran' = ran PROVE InOrder'
  BY <1>2 DEF GateHistory, InOrder
<1> QED BY <1>1, <1>2, RanGrows

\* Pruning keeps the nonce of whatever the clock would still accept.
LEMMA AdmittedRemembers ==
  ASSUME BoxInv, Types, GateHistory, NEW h \in handling, NEW c \in Controllers, NEW e \in signed[c],
         now <= e.expiry + Skew, e = h.env \/ Remembers(mem, e)
  PROVE  Remembers(Admitted(h), e)
<1> DEFINE x == [nonce |-> NonceOf(h.env), until |-> h.env.expiry + Skew]
<1>1. x \in Admitted(h).seen
  BY DEF Admitted
<1>2. x.nonce = NonceOf(h.env) /\ x.until = h.env.expiry + Skew
  OBVIOUS
<1>3. e.expiry \in Nat /\ e.ctl = c /\ now \in Nat /\ h.time \in Nat /\ h.time <= now
  BY ClockTyped, AdmissionConstants
     DEF Types, EnvelopesTyped, BoxInv, AdmissionInv, EnvelopesSound, ClockTyped, GateTyped
<1>4. e.expiry + Skew <= e.expiry + Skew
  BY <1>3, AdmissionConstants
<1> HIDE DEF x
<1>5. CASE e = h.env
  BY <1>1, <1>2, <1>4, <1>5 DEF Remembers
<1>6. CASE e # h.env
  <2>1. PICK s \in mem.seen : s.nonce = NonceOf(e) /\ e.expiry + Skew <= s.until
    BY <1>6 DEF Remembers
  <2>2. s.until \in Nat
    BY DEF Types, RecordsTyped
  <2>3. s \in Fresh(mem, h.time)
    BY <1>3, <2>1, <2>2, AdmissionConstants DEF Fresh
  <2>4. NonceOf(h.env) # NonceOf(e)
    <3>1. ASSUME NonceOf(h.env) = NonceOf(e) PROVE FALSE
      <4>1. h.env.ctl = e.ctl /\ h.env.n = e.n
        BY <3>1 DEF NonceOf
      <4>2. h.env \in signed[c]
        BY <1>3, <4>1, HandledSigned
      <4> QED BY <1>6, <4>1, <4>2 DEF GateHistory, Numbered
    <3> QED BY <3>1
  <2>5. s \in Admitted(h).seen
    BY <2>1, <2>3, <2>4 DEF Admitted
  <2> QED BY <2>1, <2>5 DEF Remembers
<1> QED BY <1>5, <1>6

\* What a step accepts that was not: the intent an admission is about.
LEMMA AcceptedGrows ==
  ASSUME BoxInv, Types, BoxNext, NEW c \in Controllers, NEW e \in signed'[c], Accepted(c, e)'
  PROVE  /\ e \in signed[c]
         /\ Accepted(c, e) \/ \E h \in handling : Admit(h) /\ e = h.env
<1>1. BoxInv'
  BY BoxStep
<1>2. CASE e \in RanOf(c)'
  <2>1. CASE ran' = ran
    BY <1>2, <2>1, RanSigned DEF RanOf, Accepted
  <2>2. ASSUME NEW h \in handling, RanStep(h) PROVE e \in signed[c] /\ Accepted(c, e)
    <3>1. RanOf(h.env.ctl)' = RanOf(h.env.ctl) \cup {h.env}
      BY <2>2, RanOfGrows
    <3>2. c # h.env.ctl => RanOf(c)' = RanOf(c)
      BY <2>2, RanOfGrows
    <3>3. e \in RanOf(c) \/ (c = h.env.ctl /\ e = h.env)
      BY <1>2, <3>1, <3>2
    <3>4. h.at = "admitted" /\ h.env \in signed[h.env.ctl] /\ RanOf(c) \subseteq signed[c]
      BY <2>2, RanSigned, HandledSigned DEF RanStep
    <3> QED BY <3>3, <3>4 DEF Accepted
  <2> QED BY <2>1, <2>2, RanGrows
<1>3. ASSUME NEW g \in handling', g.env = e, g.at = "admitted"
      PROVE  /\ e \in signed[c]
             /\ Accepted(c, e) \/ \E h \in handling : Admit(h) /\ e = h.env
  <2>1. e.ctl = c
    BY <1>1 DEF BoxInv, AdmissionInv, EnvelopesSound
  <2>2. ASSUME NEW h \in handling, Admit(h), g \notin handling
        PROVE  e \in signed[c] /\ e = h.env
    <3> DEFINE f == [h EXCEPT !.at = "admitted"]
    <3>1. handling' = (handling \ {h}) \cup {f}
      BY <2>2 DEF Admit
    <3>2. f.env = h.env
      <4>1. h = [env |-> h.env, live |-> h.live, at |-> h.at, time |-> h.time]
        BY DEF BoxInv, AdmissionInv, GateSound
      <4>2. f = [env |-> h.env, live |-> h.live, at |-> "admitted", time |-> h.time]
        BY <4>1
      <4> QED BY <4>2
    <3> HIDE DEF f
    <3> QED BY <1>3, <2>1, <2>2, <3>1, <3>2, HandledSigned
  <2>3. ASSUME NEW x, NEW live, Arrive(x, live) PROVE g \in handling
    <3> DEFINE f == [env |-> x, live |-> live, at |-> "claimed", time |-> now]
    <3>1. handling' \subseteq handling \cup {f}
      BY <2>3 DEF Arrive
    <3>2. f.at = "claimed"
      OBVIOUS
    <3> HIDE DEF f
    <3> QED BY <1>3, <3>1, <3>2
  <2>4. ASSUME handling' \subseteq handling PROVE g \in handling
    BY <2>4
  <2>5. g \in handling \/ \E h \in handling : Admit(h)
    BY <2>3, <2>4, GateCases
       DEF gateFacts, Post, gateVars, Reload, AdmitRefused, AdmitUnsaved, Run, Restart, Tick, Leave
  <2>6. CASE g \in handling
    BY <1>3, <2>1, <2>6, HandledSigned DEF Accepted
  <2> QED BY <2>2, <2>5, <2>6
<1> QED BY <1>2, <1>3 DEF Accepted

LEMMA NoncesKeptStep == ASSUME BoxInv, Types, GateHistory, BoxNext PROVE NoncesKept'
<1> SUFFICES ASSUME NEW c \in Controllers, NEW e \in signed'[c], Accepted(c, e)', now' <= e.expiry + Skew
             PROVE  Remembers(disk', e) /\ (loaded' => Remembers(mem', e))
  BY DEF NoncesKept, Remembers
<1>1. e \in signed[c] /\ (Accepted(c, e) \/ \E h \in handling : Admit(h) /\ e = h.env)
  BY AcceptedGrows
<1>2. now <= e.expiry + Skew
  <2>1. now \in Nat /\ now' \in Nat /\ now <= now'
    BY ClockStep
  <2>2. e.expiry \in Nat
    BY <1>1 DEF Types, EnvelopesTyped
  <2> QED BY <2>1, <2>2, AdmissionConstants
<1>3. CASE \E h \in handling : Admit(h)
  <2>1. PICK h \in handling : Admit(h)
    BY <1>3
  <2>2. disk' = Admitted(h) /\ mem' = Admitted(h) /\ loaded
    BY <2>1 DEF Admit
  <2>3. Accepted(c, e) => Remembers(mem, e)
    BY <1>1, <1>2, <2>2 DEF GateHistory, NoncesKept
  <2>4. e = h.env \/ Remembers(mem, e)
    <3>1. ASSUME NEW g \in handling, Admit(g) PROVE g = h
      <4>1. h.at = "claimed" /\ g.at = "claimed"
        BY <2>1, <3>1 DEF Admit
      <4>2. ASSUME g # h PROVE FALSE
        <5>1. handling' = (handling \ {h}) \cup {[h EXCEPT !.at = "admitted"]}
          BY <2>1 DEF Admit
        <5>2. handling' = (handling \ {g}) \cup {[g EXCEPT !.at = "admitted"]}
          BY <3>1 DEF Admit
        <5>3. [g EXCEPT !.at = "admitted"].at = "admitted"
          BY DEF BoxInv, AdmissionInv, GateSound
        <5> QED BY <4>1, <4>2, <5>1, <5>2, <5>3
      <4> QED BY <4>2
    <3> QED BY <1>1, <2>3, <3>1
  <2>5. Remembers(Admitted(h), e)
    BY <1>1, <1>2, <2>4, AdmittedRemembers
  <2> QED BY <2>2, <2>5
<1>4. ASSUME ~\E h \in handling : Admit(h)
      PROVE  Remembers(disk', e) /\ (loaded' => Remembers(mem', e))
  <2>1. Remembers(disk, e) /\ (loaded => Remembers(mem, e))
    BY <1>1, <1>2, <1>4 DEF GateHistory, NoncesKept
  <2>2. ASSUME NEW h \in handling, AdmitUnsaved(h) PROVE Remembers(disk', e) /\ Remembers(mem', e)
    <3>1. loaded /\ mem' = mem /\ (disk' = disk \/ disk' = Admitted(h))
      BY <2>2 DEF AdmitUnsaved
    <3>2. Remembers(Admitted(h), e)
      BY <1>1, <1>2, <2>1, <3>1, AdmittedRemembers
    <3> QED BY <2>1, <3>1, <3>2
  <2>3. ASSUME disk' = disk, mem' = disk \/ loaded' = FALSE \/ (mem' = mem /\ loaded' = loaded)
        PROVE  Remembers(disk', e) /\ (loaded' => Remembers(mem', e))
    BY <2>1, <2>3
  <2> QED BY <1>4, <2>2, <2>3, GateCases
          DEF gateFacts, Post, gateVars, Arrive, Reload, AdmitRefused, Run, Restart, Tick
<1> QED BY <1>3, <1>4

LEMMA MemoryBehindStep == ASSUME BoxInv, Types, GateHistory, BoxNext PROVE MemoryBehind'
<1>1. disk.last \in [Controllers -> Nat] /\ mem.last \in [Controllers -> Nat]
  BY DEF BoxInv, AdmissionInv, GateSound
<1>2. ASSUME NEW h \in handling, AdmitUnsaved(h) PROVE MemoryBehind'
  <2>1. /\ loaded /\ ~Stale(h) /\ mem' = mem /\ (disk' = disk \/ disk' = Admitted(h))
    BY <1>2 DEF AdmitUnsaved
  <2>2. \A c \in Controllers : mem.last[c] <= Admitted(h).last[c]
    BY <2>1, AdmittedRecord DEF BoxInv
  <2> QED BY <2>1, <2>2 DEF GateHistory, MemoryBehind
<1>3. BoxInv'
  BY BoxStep
<1>4. ASSUME mem' = disk' PROVE MemoryBehind'
  <2>1. disk'.last \in [Controllers -> Nat]
    BY <1>3 DEF BoxInv, AdmissionInv, GateSound
  <2> QED BY <1>4, <2>1 DEF MemoryBehind
<1>5. ASSUME disk' = disk, loaded' = FALSE \/ (mem' = mem /\ loaded' = loaded) PROVE MemoryBehind'
  BY <1>5 DEF GateHistory, MemoryBehind
<1> QED BY <1>2, <1>4, <1>5, GateCases
        DEF gateFacts, Post, gateVars, Arrive, Reload, AdmitRefused, Admit, Run, Restart, Tick

\* An admission decides on its envelope for good.
LEMMA DecidedAfter ==
  ASSUME BoxInv, Types, GateHistory, BoxNext, NEW h \in handling, Admit(h) \/ AdmitUnsaved(h)
  PROVE  ~Unread(h.env)'
<1>1. h.env \notin net' /\ \A g \in handling : g.env = h.env => g = h
  BY HandledSigned DEF Admit, AdmitUnsaved, GateHistory, UnreadNew
<1>2. CASE Admit(h)
  <2> DEFINE f == [h EXCEPT !.at = "admitted"]
  <2>1. handling' = (handling \ {h}) \cup {f}
    BY <1>2 DEF Admit
  <2>2. f.at = "admitted"
    BY DEF BoxInv, AdmissionInv, GateSound
  <2> HIDE DEF f
  <2> QED BY <1>1, <2>1, <2>2 DEF Unread
<1>3. CASE AdmitUnsaved(h)
  BY <1>1, <1>3 DEF AdmitUnsaved, Leave, Unread
<1> QED BY <1>2, <1>3

LEMMA LastReadStep == ASSUME BoxInv, Types, GateHistory, BoxNext PROVE LastRead'
<1>1. ASSUME NEW r, NEW c \in Controllers, LastSound(r, c)
      PROVE  r.last[c] = 0 \/ \E e \in signed'[c] : e.seq = r.last[c] /\ ~Unread(e)'
  <2>1. signed[c] \subseteq signed'[c]
    <3>1. ASSUME NEW d \in Controllers, Post(d) PROVE signed[c] \subseteq signed'[c]
      <4>1. PICK e : PostParts(d, e)
        BY <3>1, PostCases
      <4> QED BY <4>1 DEF PostParts
    <3> QED BY <3>1, GateCases
            DEF gateFacts, Arrive, Reload, AdmitRefused, Admit, AdmitUnsaved, Run, Restart, Tick, clientVars
  <2> QED BY <1>1, <2>1, UnreadShrinks DEF LastSound
<1>2. ASSUME NEW h \in handling, Admit(h) \/ AdmitUnsaved(h) PROVE LastRead'
  <2>1. /\ disk' \in {disk, Admitted(h)} /\ mem' \in {mem, Admitted(h)} /\ ~Stale(h)
        /\ signed' = signed
    BY <1>2 DEF Admit, AdmitUnsaved, clientVars
  <2>2. /\ Admitted(h).last[h.env.ctl] = h.env.seq
        /\ \A c \in Controllers : c # h.env.ctl => Admitted(h).last[c] = mem.last[c]
    BY <2>1, AdmittedRecord DEF BoxInv
  <2>3. h.env \in signed[h.env.ctl] /\ ~Unread(h.env)'
    BY <1>2, DecidedAfter, HandledSigned
  <2>4. ASSUME NEW c \in Controllers
        PROVE  \A r \in {disk, mem, Admitted(h)} :
                  r.last[c] = 0 \/ \E e \in signed'[c] : e.seq = r.last[c] /\ ~Unread(e)'
    <3>1. LastSound(disk, c) /\ LastSound(mem, c)
      BY DEF GateHistory, LastRead
    <3>2. \A r \in {disk, mem} : r.last[c] = 0 \/ \E e \in signed'[c] : e.seq = r.last[c] /\ ~Unread(e)'
      BY <1>1, <3>1
    <3>3. CASE c = h.env.ctl
      BY <2>1, <2>2, <2>3, <3>2, <3>3
    <3>4. CASE c # h.env.ctl
      BY <2>2, <3>2, <3>4
    <3> QED BY <3>3, <3>4
  <2> QED BY <2>1, <2>4 DEF LastRead, LastSound
<1>3. ASSUME disk' = disk, mem' \in {disk, mem} PROVE LastRead'
  <2>1. ASSUME NEW c \in Controllers
        PROVE  \A r \in {disk, mem} : r.last[c] = 0 \/ \E e \in signed'[c] : e.seq = r.last[c] /\ ~Unread(e)'
    <3>1. LastSound(disk, c) /\ LastSound(mem, c)
      BY DEF GateHistory, LastRead
    <3> QED BY <1>1, <3>1
  <2> QED BY <1>3, <2>1 DEF LastRead, LastSound
<1> QED BY <1>2, <1>3, GateCases
        DEF gateFacts, Post, gateVars, Arrive, Reload, AdmitRefused, Run, Restart, Tick

LEMMA UnreadNewStep == ASSUME BoxInv, Types, GateHistory, BoxNext PROVE UnreadNew'
<1>0. BoxInv'
  BY BoxStep
<1>1. ASSUME NEW c \in Controllers, NEW e \in signed'[c], Unread(e)' PROVE e \notin RanOf(c)'
  <2>1. CASE e \notin signed[c]
    <3>1. e.ctl = c /\ \A h \in handling : h.env # e
      BY <1>0, <2>1, HandledSigned DEF BoxInv, AdmissionInv, EnvelopesSound
    <3>2. CASE ran' = ran
      BY <2>1, <3>2, RanSigned DEF RanOf
    <3>3. ASSUME NEW h \in handling, RanStep(h) PROVE e \notin RanOf(c)'
      BY <2>1, <3>1, <3>3, RanOfGrows, RanSigned DEF RanStep
    <3> QED BY <3>2, <3>3, RanGrows
  <2>2. CASE e \in signed[c]
    <3>1. Unread(e) /\ e \notin RanOf(c)
      BY <1>1, <2>2, UnreadShrinks DEF GateHistory, UnreadNew
    <3>2. CASE ran' = ran
      BY <3>1, <3>2 DEF RanOf
    <3>3. ASSUME NEW h \in handling, RanStep(h) PROVE e \notin RanOf(c)'
      <4>1. h.env # e
        BY <3>1, <3>3, HandledSigned DEF Unread, RanStep, GateHistory, UnreadNew
      <4>2. RanOf(h.env.ctl)' = RanOf(h.env.ctl) \cup {h.env} /\ (c # h.env.ctl => RanOf(c)' = RanOf(c))
        BY <3>3, RanOfGrows
      <4> QED BY <3>1, <4>1, <4>2
    <3> QED BY <3>2, <3>3, RanGrows
  <2> QED BY <2>1, <2>2
<1>2. ASSUME NEW e \in net', NEW g \in handling' PROVE g.env # e
  <2>0. \A x \in net : \A h \in handling : h.env # x
    BY DEF GateHistory, UnreadNew
  <2>1. ASSUME NEW c \in Controllers, Post(c) PROVE g.env # e
    <3>1. PICK x : PostParts(c, x)
      BY <2>1, PostCases
    <3>2. x.ctl = c /\ x \notin signed[c] /\ net' = net \cup {x} /\ handling' = handling
      BY <3>1 DEF PostParts
    <3>3. g.env # x
      BY <3>2, HandledSigned
    <3> QED BY <1>2, <2>0, <3>2, <3>3
  <2>2. ASSUME NEW x, NEW live \in BOOLEAN, live \/ x \notin net, Arrive(x, live) PROVE g.env # e
    <3> DEFINE h == [env |-> x, live |-> live, at |-> "claimed", time |-> now]
    <3>1. net' = (IF live THEN net \ {x} ELSE net) /\ handling' \subseteq handling \cup {h}
      BY <2>2 DEF Arrive
    <3>2. h.env = x
      OBVIOUS
    <3> HIDE DEF h
    <3>3. CASE live
      BY <1>2, <2>0, <3>1, <3>2, <3>3
    <3>4. CASE x \notin net
      BY <1>2, <2>0, <3>1, <3>2, <3>4
    <3> QED BY <2>2, <3>3, <3>4
  <2>3. ASSUME NEW h \in handling, Admit(h) PROVE g.env # e
    <3> DEFINE f == [h EXCEPT !.at = "admitted"]
    <3>1. net' = net /\ handling' = (handling \ {h}) \cup {f}
      BY <2>3 DEF Admit
    <3>2. f.env = h.env
      <4>1. h = [env |-> h.env, live |-> h.live, at |-> h.at, time |-> h.time]
        BY DEF BoxInv, AdmissionInv, GateSound
      <4>2. f = [env |-> h.env, live |-> h.live, at |-> "admitted", time |-> h.time]
        BY <4>1
      <4> QED BY <4>2
    <3> HIDE DEF f
    <3> QED BY <1>2, <2>0, <3>1, <3>2
  <2>4. ASSUME net' = net, handling' \subseteq handling PROVE g.env # e
    BY <1>2, <2>0, <2>4
  <2>5. ASSUME NEW h \in handling,
               Reload(h) \/ AdmitRefused(h) \/ AdmitUnsaved(h) \/ Run(h, "ok") \/ Run(h, "rejected")
        PROVE  g.env # e
    BY <2>4, <2>5 DEF Reload, AdmitRefused, AdmitUnsaved, Run, Leave
  <2>6. CASE UNCHANGED gateFacts \/ Restart \/ Tick
    BY <2>4, <2>6 DEF gateFacts, Restart, Tick, gateVars, clientVars
  <2>7. \A x \in Captured : x \notin net
    BY DEF Captured
  <2>8. ASSUME NEW x \in net, Arrive(x, TRUE) PROVE g.env # e
    BY <2>2, <2>8
  <2>9. ASSUME NEW x \in Captured, Arrive(x, FALSE) PROVE g.env # e
    BY <2>2, <2>7, <2>9
  <2> QED BY <2>1, <2>3, <2>5, <2>6, <2>8, <2>9, GateCases
<1> QED BY <1>1, <1>2 DEF UnreadNew

LEMMA GateHistoryStep == ASSUME BoxInv, Types, GateHistory, BoxNext PROVE GateHistory'
BY NumberedStep, InOrderStep, NoncesKeptStep, MemoryBehindStep, LastReadStep, UnreadNewStep DEF GateHistory

-----------------------------------------------------------------------------
(* The client's history. *)

\* A stale answer buries the envelope it is about.
LEMMA StaleBuries ==
  ASSUME BoxInv, Types, GateHistory, BoxNext, NEW h, GateAnswer(h, "stale"), h.live
  PROVE  Dead(h.env)'
<1>1. /\ h \in handling /\ h.at = "claimed" /\ loaded /\ Stale(h)
      /\ h.env.ctl \in Controllers /\ h.env \in signed[h.env.ctl]
  BY DEF GateAnswer
<1>2. h.env \notin RanOf(h.env.ctl)
  BY <1>1 DEF GateHistory, UnreadNew, Unread
<1>3. h.env.seq <= mem.last[h.env.ctl] /\ h.env.seq <= disk.last[h.env.ctl]
  <2>1. h.env.seq \in Nat /\ mem.last[h.env.ctl] \in Nat /\ disk.last[h.env.ctl] \in Nat
    BY <1>1 DEF BoxInv, AdmissionInv, EnvelopesSound, GateSound
  <2> QED BY <1>1, <2>1 DEF Stale, GateHistory, MemoryBehind
<1>4. Dead(h.env)
  BY <1>1, <1>2, <1>3, HandledSigned DEF Dead
<1> QED BY <1>1, <1>4, DeadKept

LEMMA OneLivesStep == ASSUME BoxInv, Types, GateHistory, OneLives, BoxNext PROVE OneLives'
<1>0. \A c \in Controllers : \A e \in signed[c] : Dead(e) => Dead(e)'
  BY DeadKept
<1>1. ASSUME NEW c \in Controllers, Post(c) PROVE OneLives'
  <2>1. PICK x : PostParts(c, x)
    BY <1>1, PostCases
  <2>2. \A e \in signed[c] : e.do = call[c].do => Dead(e)'
    BY <1>0, <2>1 DEF OneLives, PostParts
  <2>3. call[c].do \in Nat /\ x.do = call[c].do
    BY <2>1 DEF PostParts, Types, ClientTyped
  <2>4. ASSUME NEW d \in Controllers
        PROVE  /\ \A e \in signed'[d] : e.do <= call'[d].do
               /\ \A f, e \in signed'[d] : f.do = e.do => f = e \/ Dead(f)' \/ Dead(e)'
               /\ \A e \in signed'[d] :
                     e.do = call'[d].do =>
                       /\ call'[d].st = "ready" => Dead(e)'
                       /\ call'[d].st \in {"sent", "answered"} => e.n = call'[d].n \/ Dead(e)'
                       /\ call'[d].st = "answered" /\ call'[d].status = "stale" => Dead(e)'
    <3>1. CASE d = c
      <4>1. \A e \in signed'[c] : e.do <= call'[c].do
        BY <2>1, <2>3 DEF PostParts, OneLives
      <4>2. \A f, e \in signed'[c] : f.do = e.do => f = e \/ Dead(f)' \/ Dead(e)'
        BY <1>0, <2>1, <2>2 DEF PostParts, OneLives
      <4>3. \A e \in signed'[c] : e.do = call'[c].do => e.n = call'[c].n \/ Dead(e)'
        BY <2>1, <2>2 DEF PostParts
      <4>4. call'[c].st = "sent"
        BY <2>1 DEF PostParts
      <4> QED BY <3>1, <4>1, <4>2, <4>3, <4>4
    <3>2. CASE d # c
      <4>1. signed'[d] = signed[d] /\ call'[d] = call[d]
        BY <2>1, <3>2 DEF PostParts
      <4> QED BY <1>0, <4>1 DEF OneLives
    <3> QED BY <3>1, <3>2
  <2> QED BY <2>4 DEF OneLives
<1>2. ASSUME NEW c \in Controllers, NEW r, CallStep(c, r) PROVE OneLives'
  <2>1. call'[c] = r /\ \A d \in Controllers : d # c => call'[d] = call[d]
    BY <1>2, CallParts
  <2>2. signed' = signed /\ call[c].do \in Nat /\ \A e \in signed[c] : e.do \in Nat
    BY <1>2 DEF CallStep, gateFacts, Types, ClientTyped, EnvelopesTyped
  <2>3. \A e \in signed[c] : e.do <= r.do
    BY <1>2, <2>2 DEF CallStep, OneLives
  <2>4. r.st \notin {"sent", "answered"} /\ \A e \in signed[c] : e.do = r.do /\ r.st = "ready" => Dead(e)'
    BY <1>0, <1>2, <2>2 DEF CallStep, OneLives
  <2> QED BY <1>0, <2>1, <2>2, <2>3, <2>4 DEF OneLives
<1>3. ASSUME NEW h, NEW status, GateAnswer(h, status), AnswerOf(h, status), signed' = signed PROVE OneLives'
  <2>1. PICK c \in Controllers :
          /\ c = h.env.ctl /\ h.live /\ call[c].st = "sent" /\ call[c].n = h.env.n
          /\ \A d \in Controllers : d # c => call'[d] = call[d]
          /\ call'[c].st = "answered" /\ call'[c].status = status
          /\ call'[c].do = call[c].do /\ call'[c].n = call[c].n
    BY <1>3 DEF AnswerOf
  <2>2. h.env \in signed[c]
    BY <1>3, <2>1 DEF GateAnswer
  <2>3. ASSUME NEW e \in signed[c], e.do = call[c].do
        PROVE  (e.n = call[c].n \/ Dead(e)') /\ (status = "stale" => Dead(e)')
    <3>1. e.n = call[c].n \/ Dead(e)'
      BY <1>0, <2>1, <2>3 DEF OneLives
    <3>2. CASE e.n = call[c].n
      <4>1. e = h.env
        BY <2>1, <2>2, <3>2 DEF GateHistory, Numbered
      <4>2. status = "stale" => Dead(e)'
        BY <1>3, <2>1, <4>1, StaleBuries
      <4> QED BY <3>2, <4>2
    <3> QED BY <3>1, <3>2
  <2>4. ASSUME NEW d \in Controllers
        PROVE  /\ \A e \in signed[d] : e.do <= call'[d].do
               /\ \A f, e \in signed[d] : f.do = e.do => f = e \/ Dead(f)' \/ Dead(e)'
               /\ \A e \in signed[d] :
                     e.do = call'[d].do =>
                       /\ call'[d].st = "ready" => Dead(e)'
                       /\ call'[d].st \in {"sent", "answered"} => e.n = call'[d].n \/ Dead(e)'
                       /\ call'[d].st = "answered" /\ call'[d].status = "stale" => Dead(e)'
    <3>1. \A f, e \in signed[d] : f.do = e.do => f = e \/ Dead(f)' \/ Dead(e)'
      BY <1>0 DEF OneLives
    <3>2. CASE d = c
      BY <2>1, <2>3, <3>1, <3>2 DEF OneLives
    <3>3. CASE d # c
      BY <1>0, <2>1, <3>3 DEF OneLives
    <3> QED BY <3>2, <3>3
  <2> QED BY <1>3, <2>4 DEF OneLives
<1>4. ASSUME UNCHANGED <<call, signed>> PROVE OneLives'
  BY <1>0, <1>4 DEF OneLives
<1>5. CASE GateStep \/ \E h \in handling : Run(h, "ok") \/ Run(h, "rejected")
  <2>1. signed' = signed /\ (call' = call \/ \E h, status : GateAnswer(h, status))
    BY <1>5, AnswerCases
  <2>2. ASSUME NEW h, NEW status, GateAnswer(h, status) PROVE call' = call \/ AnswerOf(h, status)
    BY <2>2, AnswerParts DEF GateAnswer
  <2> QED BY <1>3, <1>4, <2>1, <2>2
<1> QED BY <1>1, <1>2, <1>4, <1>5, CallCases DEF gateFacts

\* The number of the second attempt is above everything the gate has on
\* record, since only its own arrival can put it there.
LEMMA RetryAccepted ==
  ASSUME BoxInv, Types, GateHistory, RetryAhead, NEW h, NEW c \in Controllers,
         GateAnswer(h, "stale"), c = h.env.ctl, h.live, call[c].st = "sent", call[c].n = h.env.n,
         call[c].attempt = 1
  PROVE  FALSE
<1>1. h \in handling /\ h.at = "claimed" /\ Stale(h) /\ h.env \in signed[c]
  BY DEF GateAnswer
<1>2. Unread(h.env)
  BY <1>1 DEF Unread
<1>3. h.env.seq = call[c].seq /\ h.env.seq \in Nat \ {0} /\ h.env.seq <= mem.last[c]
  BY <1>1 DEF BoxInv, AdmissionInv, ClientSound, Types, EnvelopesTyped, Stale
<1>4. mem.last[c] # 0
  BY <1>3
<1>5. PICK e \in signed[c] : e.seq = mem.last[c] /\ ~Unread(e)
  BY <1>4 DEF GateHistory, LastRead, LastSound
<1>6. e.n # h.env.n
  BY <1>1, <1>2, <1>5 DEF GateHistory, Numbered
<1>7. e.seq < call[c].seq /\ e.seq \in Nat
  BY <1>6 DEF RetryAhead, Types, EnvelopesTyped
<1> QED BY <1>3, <1>5, <1>7

LEMMA RetryAheadStep == ASSUME BoxInv, Types, GateHistory, RetryAhead, BoxNext PROVE RetryAhead'
<1>1. ASSUME NEW c \in Controllers, Post(c) PROVE RetryAhead'
  <2>1. PICK x : PostParts(c, x)
    BY <1>1, PostCases
  <2>2. call'[c].attempt = 1 => \A e \in signed'[c] : e.n # call'[c].n => e.seq < call'[c].seq
    BY <2>1 DEF PostParts, RetryAhead
  <2>3. call'[c].st = "sent" /\ next' = next
    BY <2>1 DEF PostParts
  <2>4. \A d \in Controllers : d # c => signed'[d] = signed[d] /\ call'[d] = call[d]
    BY <2>1 DEF PostParts
  <2> QED BY <2>2, <2>3, <2>4 DEF RetryAhead
<1>2. ASSUME NEW c \in Controllers, NEW r, CallStep(c, r) PROVE RetryAhead'
  <2>1. call'[c] = r /\ \A d \in Controllers : d # c => call'[d] = call[d]
    BY <1>2, CallParts
  <2>2. signed' = signed /\ next \in [Controllers -> Nat]
    BY <1>2 DEF CallStep, gateFacts, BoxInv, AdmissionInv, ClientSound
  <2>3. \A d \in Controllers : d # c => next'[d] = next[d]
    BY <1>2, <2>2 DEF CallStep
  <2>4. r.st \notin {"sent", "answered"}
    BY <1>2 DEF CallStep
  <2>5. r.st = "ready" /\ r.attempt = 1 => \A e \in signed[c] : e.seq < next'[c]
    <3> SUFFICES ASSUME r.st = "ready", r.attempt = 1, NEW e \in signed[c] PROVE e.seq < next'[c]
      OBVIOUS
    <3>1. /\ call[c].st = "answered" /\ call[c].status = "stale"
          /\ next' = [next EXCEPT ![c] = call[c].lastSeq + 1]
      BY <1>2 DEF CallStep
    <3>2. /\ call[c].seq \in Nat /\ call[c].lastSeq \in Nat /\ call[c].seq <= call[c].lastSeq
          /\ e.seq <= call[c].seq
      BY <3>1 DEF BoxInv, AdmissionInv, ClientSound
    <3>3. e.seq \in Nat
      BY DEF Types, EnvelopesTyped
    <3> QED BY <2>2, <3>1, <3>2, <3>3
  <2> QED BY <2>1, <2>2, <2>3, <2>4, <2>5 DEF RetryAhead
<1>3. ASSUME NEW h, NEW status, GateAnswer(h, status), AnswerOf(h, status), UNCHANGED <<signed, next>>
      PROVE  RetryAhead'
  <2>1. PICK c \in Controllers :
          /\ c = h.env.ctl /\ h.live /\ call[c].st = "sent" /\ call[c].n = h.env.n
          /\ \A d \in Controllers : d # c => call'[d] = call[d]
          /\ call'[c].st = "answered" /\ call'[c].status = status /\ call'[c].attempt = call[c].attempt
          /\ call'[c].n = call[c].n /\ call'[c].seq = call[c].seq
    BY <1>3 DEF AnswerOf
  <2>2. call[c].attempt = 1 => status # "stale"
    BY <1>3, <2>1, RetryAccepted
  <2> QED BY <1>3, <2>1, <2>2 DEF RetryAhead
<1>4. ASSUME UNCHANGED <<call, signed, next>> PROVE RetryAhead'
  BY <1>4 DEF RetryAhead
<1>5. CASE GateStep \/ \E h \in handling : Run(h, "ok") \/ Run(h, "rejected")
  <2>1. UNCHANGED <<signed, next>> /\ (call' = call \/ \E h, status : GateAnswer(h, status))
    BY <1>5, AnswerCases
  <2>2. ASSUME NEW h, NEW status, GateAnswer(h, status) PROVE call' = call \/ AnswerOf(h, status)
    BY <2>2, AnswerParts DEF GateAnswer
  <2> QED BY <1>3, <1>4, <2>1, <2>2
<1> QED BY <1>1, <1>2, <1>4, <1>5, CallCases DEF gateFacts

-----------------------------------------------------------------------------
(* The theorems. *)

LEMMA HistoryInit == BoxInit => History
<1> SUFFICES ASSUME BoxInit PROVE History
  OBVIOUS
<1> USE DEF BoxInit, Init
<1>1. Numbered /\ InOrder /\ MemoryBehind /\ LastRead
  BY DEF Numbered, InOrder, MemoryBehind, LastRead, LastSound
<1>2. NoncesKept /\ UnreadNew
  BY DEF NoncesKept, UnreadNew
<1>3. OneLives /\ RetryAhead
  BY DEF OneLives, RetryAhead, Idle
<1> QED BY <1>1, <1>2, <1>3 DEF History, GateHistory

LEMMA HistoryStep == BoxInv /\ Types /\ History /\ [BoxNext]_allVars => History'
<1>1. ASSUME BoxInv, Types, History, BoxNext PROVE History'
  BY <1>1, GateHistoryStep, OneLivesStep, RetryAheadStep DEF History
<1>2. ASSUME History, UNCHANGED allVars PROVE History'
  <2>1. UNCHANGED <<now, disk, mem, loaded, handling, ran, net, signed, next, call>>
    BY <1>2 DEF allVars, vars, gateVars, clientVars
  <2>2. /\ \A e : Unread(e)' <=> Unread(e)
        /\ \A e : Dead(e)' <=> Dead(e)
        /\ \A c, e : Accepted(c, e)' <=> Accepted(c, e)
    BY <2>1 DEF Unread, Dead, Accepted, RanOf
  <2>3. Numbered' /\ InOrder' /\ NoncesKept' /\ MemoryBehind'
    BY <1>2, <2>1, <2>2 DEF History, GateHistory, Numbered, InOrder, NoncesKept, MemoryBehind, Remembers
  <2>4. LastRead' /\ UnreadNew'
    BY <1>2, <2>1, <2>2 DEF History, GateHistory, LastRead, LastSound, UnreadNew, RanOf
  <2>5. OneLives' /\ RetryAhead'
    BY <1>2, <2>1, <2>2 DEF History, OneLives, RetryAhead
  <2> QED BY <2>3, <2>4, <2>5 DEF History, GateHistory
<1> QED BY <1>1, <1>2

\* What the gate has decided, remembers and can still run, for every envelope
\* ever signed (Replay.Admit, Agent.Handle and Client.send together).
THEOREM HistoryHolds == BoxSpec => [](BoxInv /\ Types /\ History)
BY BoxInvariance, HistoryInit, HistoryStep, PTL DEF BoxSpec

\* The record prunes a nonce only when the clock would refuse its intent
\* anyway (Replay.Admit's pruning and the expiry test of Handle).
THEOREM NoncesOutlive == BoxSpec => []NonceOutlivesIntent
<1>1. BoxInv /\ Types /\ History => NonceOutlivesIntent
  <2> SUFFICES ASSUME BoxInv, History, NEW c \in Controllers, NEW k \in DOMAIN ran[c],
                      now <= ran[c][k].expiry + Skew
               PROVE  \E s \in disk.seen : s.nonce = NonceOf(ran[c][k])
    BY DEF NonceOutlivesIntent
  <2>1. ran[c][k] \in signed[c] /\ Accepted(c, ran[c][k])
    BY RanTyped DEF BoxInv, Accepted, RanOf
  <2> QED BY <2>1 DEF History, GateHistory, NoncesKept, Remembers
<1> QED BY <1>1, HistoryHolds, PTL

\* One Do of the client runs its payload at most once, although a stale_seq
\* makes it sign and post the payload a second time (Client.send).
THEOREM DoRunsOnce == BoxSpec => []OncePerCall
<1>1. BoxInv /\ Types /\ History => OncePerCall
  <2> SUFFICES ASSUME BoxInv, History, NEW c \in Controllers, NEW j \in DOMAIN ran[c], NEW k \in DOMAIN ran[c],
                      ran[c][j].do = ran[c][k].do
               PROVE  j = k
    BY DEF OncePerCall
  <2>1. /\ ran[c][j] \in signed[c] /\ ran[c][k] \in signed[c]
        /\ ran[c][j].seq \in Nat /\ ran[c][k].seq \in Nat
    BY RanTyped DEF BoxInv
  <2>2. ran[c][j].ctl = c /\ ran[c][k].ctl = c
    BY <2>1 DEF BoxInv, AdmissionInv, EnvelopesSound
  <2>3. ran[c][j] \in RanOf(c) /\ ran[c][k] \in RanOf(c)
    BY DEF RanOf
  <2>4. ran[c][j] = ran[c][k]
    BY <2>1, <2>2, <2>3 DEF History, OneLives, Dead
  <2>5. j \in Int /\ k \in Int
    <3>1. ran[c] \in Seq(signed[c])
      BY DEF BoxInv, AdmissionInv, GateSound
    <3> QED BY <3>1
  <2>6. ~(j < k) /\ ~(k < j)
    BY <2>1, <2>4 DEF History, GateHistory, InOrder
  <2> QED BY <2>5, <2>6
<1> QED BY <1>1, HistoryHolds, PTL

\* The client retries a stale_seq once: the number it then takes from the
\* gate's answer cannot be stale again, whatever is still on its way.
THEOREM OneRetryIsEnough == BoxSpec => []RetryNeverStale
<1>1. BoxInv /\ Types /\ History => RetryNeverStale
  BY DEF History, RetryAhead, RetryNeverStale
<1> QED BY <1>1, HistoryHolds, PTL
=============================================================================
