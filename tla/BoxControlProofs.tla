--------------------------- MODULE BoxControlProofs --------------------------
(***************************************************************************)
(* What holds of BoxControl for every set of controllers and of SSH tasks, *)
(* every budget of envelopes, every clock and any number of faults: the    *)
(* intents of a controller run in the order of their numbers, none twice,  *)
(* and no server works on a box beside a job it started there.             *)
(***************************************************************************)
EXTENDS BoxControl, FiniteSetTheorems, TLAPS

IsFunction(f, S) == DOMAIN f = S /\ f = [c \in S |-> f[c]]

-----------------------------------------------------------------------------
(* The inductive invariant. *)

\* The envelopes: signed by their controller, numbered by nonce.
EnvelopesSound ==
  /\ IsFunction(signed, Controllers)
  /\ net \subseteq UNION {signed[c] : c \in Controllers}
  /\ \A c \in Controllers :
        /\ IsFiniteSet(signed[c])
        /\ \A e \in signed[c] : e.ctl = c /\ e.seq \in Nat /\ e.n \in Nat /\ e.n <= Cardinality(signed[c])

\* The client's number is never below one it signed, and a call that waits
\* has the highest of them.
ClientSound ==
  /\ next \in [Controllers -> Nat]
  /\ IsFunction(call, Controllers)
  /\ \A c \in Controllers :
        /\ \A e \in signed[c] : e.seq <= next[c]
        /\ call[c].st \in {"sent", "answered"} =>
              /\ call[c].seq \in Nat
              /\ \A e \in signed[c] :
                    /\ e.seq <= call[c].seq
                    /\ e.n = call[c].n => e.seq = call[c].seq /\ e.kind = call[c].kind
        /\ call[c].st = "answered" =>
              /\ call[c].lastSeq \in Nat
              /\ call[c].status = "stale" => call[c].seq <= call[c].lastSeq

\* The gate handles one intent of a controller at a time; one it has admitted
\* is on the record, above everything that ran.
GateSound ==
  /\ disk.last \in [Controllers -> Nat]
  /\ mem.last \in [Controllers -> Nat]
  /\ loaded \in BOOLEAN
  /\ IsFunction(ran, Controllers)
  /\ \A c \in Controllers : ran[c] \in Seq(signed[c])
  /\ \A h \in handling :
        /\ h = [env |-> h.env, live |-> h.live, at |-> h.at, time |-> h.time]
        /\ h.env.ctl \in Controllers /\ h.env \in signed[h.env.ctl]
        /\ h.env.ctl \in busy
        /\ h.at = "admitted" =>
              /\ loaded
              /\ h.env.seq <= disk.last[h.env.ctl]
              /\ h.env.seq <= mem.last[h.env.ctl]
              /\ \A k \in DOMAIN ran[h.env.ctl] : ran[h.env.ctl][k].seq < h.env.seq
  /\ \A g, h \in handling : g.env.ctl = h.env.ctl => g = h
  /\ RanRecorded

AdmissionInv == EnvelopesSound /\ ClientSound /\ GateSound

\* A handler that is not idle holds the target's claim, alone; a call under
\* way belongs to the handler that is asking.
ClaimsSound ==
  /\ IsFunction(claims, Controllers)
  /\ IsFunction(task, Controllers)
  /\ \A c \in Controllers :
        /\ IsFunction(task[c], Tasks)
        /\ \A t \in Tasks : task[c][t] # "idle" => claims[c] = {t}
        /\ \A t \in Tasks :
              task[c][t] = "asking" =>
                /\ call[c].st # "idle"
                /\ call[c].kind = (IF t = "start" THEN "start" ELSE "list")
        /\ call[c].st # "idle" => \E t \in Tasks : task[c][t] = "asking"

\* No job of c is on the box and none can start: every start c has signed is
\* behind the record.
Clear(c) ==
  /\ job # NoJob => job.by # c
  /\ \A e \in signed[c] :
        e.kind = "start" =>
          /\ e.seq <= disk.last[c]
          /\ loaded => e.seq <= mem.last[c]
          /\ \A h \in handling : h.env = e => h.at # "admitted"

\* The handler works on the box, or has the listing in hand that lets it.
Allowed(c, t) ==
  \/ task[c][t] = "acting"
  \/ task[c][t] = "asking" /\ call[c].st = "answered" /\ call[c].status = "ok" /\ ~listed[c]
  \/ task[c][t] = "asking" /\ call[c].st = "done" /\ call[c].res = "ok" /\ ~listed[c]

\* Such a handler finds the box clear.
Excluded ==
  /\ IsFunction(listed, Controllers)
  /\ \A c \in Controllers, t \in SshTasks : Allowed(c, t) => Clear(c)

BoxInv == AdmissionInv /\ ClaimsSound /\ Excluded

-----------------------------------------------------------------------------
(* The client's half of a step of the gate. *)

LEMMA InitInv == BoxInit => BoxInv
<1> SUFFICES ASSUME BoxInit PROVE BoxInv
  OBVIOUS
<1> USE DEF BoxInit, Init
<1>1. EnvelopesSound
  BY FS_EmptySet DEF EnvelopesSound, IsFunction
<1>2. ClientSound
  BY DEF ClientSound, IsFunction, Idle
<1>3. GateSound
  BY DEF GateSound, RanRecorded, IsFunction
<1>4. ClaimsSound
  BY DEF ClaimsSound, IsFunction, Idle
<1>5. Excluded
  <2>1. \A c \in Controllers, t \in SshTasks : task[c][t] = "idle"
    BY DEF Tasks
  <2>2. \A c \in Controllers, t \in SshTasks : ~Allowed(c, t)
    BY <2>1 DEF Allowed
  <2> QED BY <2>2 DEF Excluded, IsFunction
<1> QED BY <1>1, <1>2, <1>3, <1>4, <1>5 DEF BoxInv, AdmissionInv

\* An answer leaves the numbers sound: a stale one says a number not below
\* the one the client sent.
LEMMA AnswerClient ==
  ASSUME AdmissionInv, NEW h, NEW status,
         h.env.ctl \in Controllers, h.env \in signed[h.env.ctl],
         status = "stale" => Stale(h),
         call' = Answered(h, status), UNCHANGED <<signed, next>>
  PROVE  ClientSound'
<1> DEFINE c == h.env.ctl
<1> USE DEF AdmissionInv
<1>1. CASE h.live /\ call[c].st = "sent" /\ call[c].n = h.env.n
  <2>1. call' = [call EXCEPT ![c] = [st |-> "answered", do |-> @.do, kind |-> @.kind, attempt |-> @.attempt,
                                      n |-> @.n, seq |-> @.seq, status |-> status, lastSeq |-> mem.last[c]]]
    BY <1>1 DEF Answered
  <2>2. /\ \A d \in Controllers : d # c => call'[d] = call[d]
        /\ call'[c].st = "answered" /\ call'[c].seq = call[c].seq /\ call'[c].n = call[c].n
        /\ call'[c].kind = call[c].kind /\ call'[c].status = status /\ call'[c].lastSeq = mem.last[c]
    BY <2>1 DEF ClientSound, IsFunction
  <2>3. IsFunction(call', Controllers)
    BY <2>1 DEF ClientSound, IsFunction
  <2>4. mem.last[c] \in Nat
    BY DEF GateSound
  <2>5. status = "stale" => call[c].seq <= mem.last[c]
    BY <1>1 DEF ClientSound, Stale
  <2> QED BY <1>1, <2>2, <2>3, <2>4, <2>5 DEF ClientSound
<1>2. CASE ~(h.live /\ call[c].st = "sent" /\ call[c].n = h.env.n)
  BY <1>2 DEF Answered, ClientSound
<1> QED BY <1>1, <1>2

\* An answer ends no call and begins none.
LEMMA AnswerClaims ==
  ASSUME ClientSound, ClaimsSound, NEW h, NEW status, h.env.ctl \in Controllers,
         call' = Answered(h, status), UNCHANGED <<claims, task>>
  PROVE  /\ ClaimsSound'
         /\ \A c \in Controllers : \/ call'[c] = call[c]
                                   \/ /\ c = h.env.ctl /\ h.live /\ call[c].st = "sent" /\ call[c].n = h.env.n
                                      /\ call'[c].st = "answered" /\ call'[c].status = status
                                      /\ call'[c].kind = call[c].kind
<1> DEFINE c == h.env.ctl
<1>1. CASE h.live /\ call[c].st = "sent" /\ call[c].n = h.env.n
  <2>1. call' = [call EXCEPT ![c] = [st |-> "answered", do |-> @.do, kind |-> @.kind, attempt |-> @.attempt,
                                      n |-> @.n, seq |-> @.seq, status |-> status, lastSeq |-> mem.last[c]]]
    BY <1>1 DEF Answered
  <2>2. /\ \A d \in Controllers : d # c => call'[d] = call[d]
        /\ call'[c].st = "answered" /\ call'[c].kind = call[c].kind /\ call'[c].status = status
    BY <2>1 DEF ClientSound, IsFunction
  <2>3. ClaimsSound'
    BY <1>1, <2>2 DEF ClaimsSound
  <2> QED BY <1>1, <2>2, <2>3
<1>2. CASE ~(h.live /\ call[c].st = "sent" /\ call[c].n = h.env.n)
  <2>1. call' = call
    BY <1>2 DEF Answered
  <2> QED BY <2>1 DEF ClaimsSound
<1> QED BY <1>1, <1>2

-----------------------------------------------------------------------------
(* Steps of the client. *)

LEMMA SeqGrows == ASSUME NEW S, NEW T, S \subseteq T, NEW q \in Seq(S) PROVE q \in Seq(T)
<1>1. Len(q) \in Nat /\ q \in [1 .. Len(q) -> S]
  OBVIOUS
<1>2. q \in [1 .. Len(q) -> T]
  BY <1>1
<1> QED BY <1>1, <1>2

LEMMA AppendAt ==
  ASSUME NEW S, NEW q \in Seq(S), NEW x, NEW k \in DOMAIN Append(q, x)
  PROVE  /\ (k \in DOMAIN q /\ Append(q, x)[k] = q[k]) \/ (k = Len(q) + 1 /\ Append(q, x)[k] = x)
<1>1. DOMAIN q = 1 .. Len(q) /\ Len(q) \in Nat
  OBVIOUS
<1>2. Len(Append(q, x)) = Len(q) + 1 /\ DOMAIN Append(q, x) = 1 .. Len(q) + 1
  OBVIOUS
<1>3. CASE k \in 1 .. Len(q)
  BY <1>1, <1>3
<1>4. CASE k = Len(q) + 1
  BY <1>1, <1>4
<1> QED BY <1>1, <1>2, <1>3, <1>4

\* Steps that leave the gate and the network alone.
LEMMA QuietGate ==
  ASSUME AdmissionInv, UNCHANGED <<disk, mem, loaded, busy, handling, ran, net, signed>>
  PROVE  EnvelopesSound' /\ GateSound'
<1>1. EnvelopesSound'
  BY DEF AdmissionInv, EnvelopesSound
<1>2. GateSound'
  <2>1. RanRecorded'
    BY DEF AdmissionInv, GateSound, RanRecorded
  <2> QED BY <2>1 DEF AdmissionInv, GateSound
<1> QED BY <1>1, <1>2

\* A call that begins or ends, or loses its answer, with the number the same
\* or raised past what it sent.
LEMMA QuietClient ==
  ASSUME AdmissionInv, NEW c \in Controllers, NEW r,
         call' = [call EXCEPT ![c] = r],
         r.st \in {"idle", "ready", "done"},
         \/ next' = next
         \/ \E m \in Nat : /\ next' = [next EXCEPT ![c] = m + 1]
                          /\ call[c].st = "answered" /\ call[c].seq <= m,
         UNCHANGED signed
  PROVE  ClientSound'
<1>1. /\ IsFunction(call', Controllers) /\ call'[c] = r
      /\ \A d \in Controllers : d # c => call'[d] = call[d]
  BY DEF AdmissionInv, ClientSound, IsFunction
<1>2. \A d \in Controllers : \A e \in signed[d] : e.seq \in Nat
  BY DEF AdmissionInv, EnvelopesSound
<1>3. /\ next' \in [Controllers -> Nat]
      /\ \A d \in Controllers : \A e \in signed[d] : e.seq <= next'[d]
  <2>1. CASE next' = next
    BY <2>1 DEF AdmissionInv, ClientSound
  <2>2. CASE \E m \in Nat : /\ next' = [next EXCEPT ![c] = m + 1]
                           /\ call[c].st = "answered" /\ call[c].seq <= m
    <3>1. PICK m \in Nat : /\ next' = [next EXCEPT ![c] = m + 1]
                          /\ call[c].st = "answered" /\ call[c].seq <= m
      BY <2>2
    <3>2. call[c].seq \in Nat /\ \A e \in signed[c] : e.seq <= call[c].seq
      BY <3>1 DEF AdmissionInv, ClientSound
    <3>3. \A e \in signed[c] : e.seq <= m + 1
      BY <1>2, <3>1, <3>2
    <3> QED BY <3>1, <3>3 DEF AdmissionInv, ClientSound
  <2> QED BY <2>1, <2>2
<1> QED BY <1>1, <1>3 DEF AdmissionInv, ClientSound

LEMMA BeginInv ==
  ASSUME AdmissionInv, NEW c \in Controllers, NEW kind, Begin(c, kind) PROVE AdmissionInv'
<1> DEFINE r == [st |-> "ready", do |-> call[c].do + 1, kind |-> kind, attempt |-> 0]
<1>1. call' = [call EXCEPT ![c] = r] /\ r.st = "ready"
  BY DEF Begin
<1> HIDE DEF r
<1>2. ClientSound'
  BY <1>1, QuietClient DEF Begin
<1> QED BY <1>2, QuietGate DEF AdmissionInv, Begin, gateVars

LEMMA CollectInv ==
  ASSUME AdmissionInv, NEW c \in Controllers, Collect(c) PROVE AdmissionInv'
<1> DEFINE r == [st |-> "idle", do |-> call[c].do]
<1>1. call' = [call EXCEPT ![c] = r] /\ r.st = "idle"
  BY DEF Collect
<1> HIDE DEF r
<1>2. ClientSound'
  BY <1>1, QuietClient DEF Collect
<1> QED BY <1>2, QuietGate DEF AdmissionInv, Collect, gateVars

LEMMA GiveUpInv ==
  ASSUME AdmissionInv, NEW c \in Controllers, GiveUp(c) PROVE AdmissionInv'
<1> DEFINE r == [st |-> "done", do |-> call[c].do, kind |-> call[c].kind, res |-> "error"]
<1>1. call' = [call EXCEPT ![c] = r] /\ r.st = "done"
  BY DEF GiveUp, Return
<1> HIDE DEF r
<1>2. ClientSound'
  BY <1>1, QuietClient DEF GiveUp
<1> QED BY <1>2, QuietGate DEF AdmissionInv, GiveUp, gateVars

LEMMA ReceiveInv ==
  ASSUME AdmissionInv, NEW c \in Controllers, Receive(c) \/ ReceiveUnsaved(c) PROVE AdmissionInv'
<1>1. call[c].st = "answered" /\ call[c].seq \in Nat /\ call[c].lastSeq \in Nat
  BY DEF Receive, ReceiveUnsaved, AdmissionInv, ClientSound
<1>2. call[c].status = "stale" => call[c].seq <= call[c].lastSeq
  BY <1>1 DEF AdmissionInv, ClientSound
<1>3. /\ UNCHANGED signed
      /\ \/ next' = next
         \/ \E m \in Nat : next' = [next EXCEPT ![c] = m + 1] /\ call[c].seq <= m
  BY <1>1, <1>2 DEF Receive, ReceiveUnsaved
<1>4. \E r : call' = [call EXCEPT ![c] = r] /\ r.st \in {"idle", "ready", "done"}
  <2>1. CASE Receive(c) /\ call[c].status = "stale" /\ call[c].attempt = 0
    <3> DEFINE r == [st |-> "ready", do |-> call[c].do, kind |-> call[c].kind, attempt |-> 1]
    <3>1. call' = [call EXCEPT ![c] = r] /\ r.st = "ready"
      BY <2>1 DEF Receive
    <3> QED BY <3>1
  <2>2. CASE Receive(c) /\ ~(call[c].status = "stale" /\ call[c].attempt = 0)
    <3> DEFINE r == [st |-> "done", do |-> call[c].do, kind |-> call[c].kind,
                     res |-> IF call[c].status = "stale" THEN "rejected" ELSE call[c].status]
    <3>1. call' = [call EXCEPT ![c] = r] /\ r.st = "done"
      BY <2>2 DEF Receive, Return
    <3> QED BY <3>1
  <2>3. CASE ReceiveUnsaved(c)
    <3> DEFINE r == [st |-> "done", do |-> call[c].do, kind |-> call[c].kind, res |-> "error"]
    <3>1. call' = [call EXCEPT ![c] = r] /\ r.st = "done"
      BY <2>3 DEF ReceiveUnsaved, Return
    <3> QED BY <3>1
  <2> QED BY <2>1, <2>2, <2>3
<1>5. PICK r : call' = [call EXCEPT ![c] = r] /\ r.st \in {"idle", "ready", "done"}
  BY <1>4
<1>6. ClientSound'
  BY <1>1, <1>3, <1>5, QuietClient
<1> QED BY <1>6, QuietGate DEF AdmissionInv, Receive, ReceiveUnsaved, gateVars

LEMMA PostInv ==
  ASSUME AdmissionInv, NEW c \in Controllers, Post(c) PROVE AdmissionInv'
<1> DEFINE e == [ctl |-> c, n |-> Cardinality(signed[c]) + 1, seq |-> next[c],
                 kind |-> call[c].kind, expiry |-> now + Lifetime, do |-> call[c].do]
           r == [st |-> "sent", do |-> call[c].do, kind |-> call[c].kind,
                 attempt |-> call[c].attempt, n |-> e.n, seq |-> e.seq]
<1>1. /\ signed' = [signed EXCEPT ![c] = @ \cup {e}] /\ net' = net \cup {e}
      /\ call' = [call EXCEPT ![c] = r]
      /\ UNCHANGED <<disk, mem, loaded, busy, handling, ran, next>>
  BY DEF Post, gateVars
<1>2. /\ e.ctl = c /\ e.n = Cardinality(signed[c]) + 1 /\ e.seq = next[c] /\ e.kind = call[c].kind
      /\ r.st = "sent" /\ r.n = e.n /\ r.seq = e.seq /\ r.kind = e.kind
  OBVIOUS
<1> HIDE DEF e, r
<1>3. /\ IsFunction(signed', Controllers) /\ signed'[c] = signed[c] \cup {e}
      /\ \A d \in Controllers : d # c => signed'[d] = signed[d]
  BY <1>1 DEF AdmissionInv, EnvelopesSound, IsFunction
<1>4. next[c] \in Nat
  BY DEF AdmissionInv, ClientSound
<1>5. /\ IsFiniteSet(signed[c]) /\ Cardinality(signed[c]) \in Nat
      /\ \A x \in signed[c] : x.ctl = c /\ x.seq \in Nat /\ x.n \in Nat /\ x.n <= Cardinality(signed[c])
  BY FS_CardinalityType DEF AdmissionInv, EnvelopesSound
<1>6. e \notin signed[c]
  BY <1>2, <1>5
<1>7. IsFiniteSet(signed'[c]) /\ Cardinality(signed'[c]) = Cardinality(signed[c]) + 1
  <2>1. /\ IsFiniteSet(signed[c] \cup {e})
        /\ Cardinality(signed[c] \cup {e}) = Cardinality(signed[c]) + 1
    BY <1>5, <1>6, FS_AddElement
  <2> QED BY <1>3, <2>1
<1>8. EnvelopesSound'
  <2>1. \A x \in signed'[c] : x.ctl = c /\ x.seq \in Nat /\ x.n \in Nat /\ x.n <= Cardinality(signed'[c])
    BY <1>2, <1>3, <1>4, <1>5, <1>7
  <2>2. net' \subseteq UNION {signed'[d] : d \in Controllers}
    BY <1>1, <1>3 DEF AdmissionInv, EnvelopesSound
  <2> QED BY <1>3, <1>7, <2>1, <2>2 DEF AdmissionInv, EnvelopesSound
<1>9. ClientSound'
  <2>1. /\ IsFunction(call', Controllers) /\ call'[c] = r
        /\ \A d \in Controllers : d # c => call'[d] = call[d]
    BY <1>1 DEF AdmissionInv, ClientSound, IsFunction
  <2>2. \A x \in signed'[c] : x.seq <= next[c]
    BY <1>2, <1>3, <1>4 DEF AdmissionInv, ClientSound
  <2>3. \A x \in signed'[c] : x.n = r.n => x.seq = r.seq /\ x.kind = r.kind
    BY <1>2, <1>3, <1>5
  <2> QED BY <1>1, <1>2, <1>3, <1>4, <2>1, <2>2, <2>3 DEF AdmissionInv, ClientSound
<1>10. GateSound'
  <2>1. \A d \in Controllers : ran'[d] \in Seq(signed'[d])
    BY <1>1, <1>3, SeqGrows DEF AdmissionInv, GateSound
  <2>2. RanRecorded'
    BY <1>1 DEF AdmissionInv, GateSound, RanRecorded
  <2>3. \A h \in handling : h.env.ctl \in Controllers => signed[h.env.ctl] \subseteq signed'[h.env.ctl]
    BY <1>3
  <2> QED BY <1>1, <2>1, <2>2, <2>3 DEF AdmissionInv, GateSound
<1> QED BY <1>8, <1>9, <1>10 DEF AdmissionInv

-----------------------------------------------------------------------------
(* Steps of the gate. *)

\* What a step of the gate does to the envelopes: at most reads one.
LEMMA ReadEnvelopes ==
  ASSUME AdmissionInv, UNCHANGED signed, net' \subseteq net PROVE EnvelopesSound'
BY DEF AdmissionInv, EnvelopesSound

LEMMA ArriveInv ==
  ASSUME AdmissionInv, NEW e, NEW live \in BOOLEAN,
         e \in UNION {signed[c] : c \in Controllers}, Arrive(e, live)
  PROVE  AdmissionInv'
<1> DEFINE h == [env |-> e, live |-> live, at |-> "claimed", time |-> now]
<1>1. /\ \/ call' = Answered(h, "rejected") /\ UNCHANGED <<busy, handling>>
         \/ /\ e.ctl \notin busy
            /\ busy' = busy \cup {e.ctl} /\ handling' = handling \cup {h} /\ UNCHANGED call
      /\ UNCHANGED <<disk, mem, loaded, ran, signed, next>> /\ net' \subseteq net
  BY DEF Arrive
<1>2. /\ h.env = e /\ h.at = "claimed"
      /\ h = [env |-> h.env, live |-> h.live, at |-> h.at, time |-> h.time]
  OBVIOUS
<1> HIDE DEF h
<1>3. e.ctl \in Controllers /\ e \in signed[e.ctl]
  BY DEF AdmissionInv, EnvelopesSound
<1>4. EnvelopesSound'
  BY <1>1, ReadEnvelopes
<1>5. ClientSound'
  <2>1. CASE UNCHANGED call
    BY <1>1, <2>1 DEF AdmissionInv, ClientSound
  <2>2. CASE call' = Answered(h, "rejected")
    BY <1>1, <1>2, <1>3, <2>2, AnswerClient
  <2> QED BY <1>1, <2>1, <2>2
<1>6. GateSound'
  <2>1. RanRecorded'
    BY <1>1 DEF AdmissionInv, GateSound, RanRecorded
  <2>2. CASE UNCHANGED <<busy, handling>>
    BY <1>1, <2>1, <2>2 DEF AdmissionInv, GateSound
  <2>3. CASE e.ctl \notin busy /\ busy' = busy \cup {e.ctl} /\ handling' = handling \cup {h}
    <3>1. \A g \in handling : g.env.ctl # e.ctl
      BY <2>3 DEF AdmissionInv, GateSound
    <3>2. \A f, g \in handling' : f.env.ctl = g.env.ctl => f = g
      BY <1>2, <2>3, <3>1 DEF AdmissionInv, GateSound
    <3> QED BY <1>1, <1>2, <1>3, <2>1, <2>3, <3>2 DEF AdmissionInv, GateSound
  <2> QED BY <1>1, <2>2, <2>3
<1> QED BY <1>4, <1>5, <1>6 DEF AdmissionInv

LEMMA RanTyped ==
  ASSUME AdmissionInv, NEW c \in Controllers, NEW k \in DOMAIN ran[c]
  PROVE  ran[c][k] \in signed[c] /\ ran[c][k].seq \in Nat
<1>1. ran[c] \in Seq(signed[c])
  BY DEF AdmissionInv, GateSound
<1>2. ran[c][k] \in signed[c]
  BY <1>1
<1> QED BY <1>2 DEF AdmissionInv, EnvelopesSound

\* Answering an intent the gate has in hand.
LEMMA LeaveHandling ==
  ASSUME AdmissionInv, NEW h \in handling, NEW status, Leave(h, status)
  PROVE  /\ handling' = handling \ {h}
         /\ \A g \in handling' : g.env.ctl \in busy' /\ g.env.ctl # h.env.ctl
BY DEF Leave, AdmissionInv, GateSound

LEMMA RefusedInv ==
  ASSUME AdmissionInv, NEW h \in handling, NEW status,
         Leave(h, status), status = "stale" => Stale(h),
         UNCHANGED <<mem, loaded, ran, net, signed, next>>,
         disk'.last \in [Controllers -> Nat],
         \A c \in Controllers, m \in Nat :
            loaded /\ m <= mem.last[c] /\ m <= disk.last[c] => m <= disk'.last[c],
         ~loaded => disk' = disk
  PROVE  AdmissionInv'
<1>1. EnvelopesSound'
  BY ReadEnvelopes
<1>2. ClientSound'
  <2>1. h.env.ctl \in Controllers /\ h.env \in signed[h.env.ctl]
    BY DEF AdmissionInv, GateSound
  <2> QED BY <2>1, AnswerClient DEF Leave
<1>3. GateSound'
  <2>1. \A c \in Controllers : \A k \in DOMAIN ran[c] : ran[c][k].seq \in Nat
    BY RanTyped
  <2>2. RanRecorded'
    BY <2>1 DEF AdmissionInv, GateSound, RanRecorded
  <2>3. \A g \in handling' : g \in handling /\ g.env.ctl \in busy'
    BY LeaveHandling
  <2>4. \A g \in handling : g.env.ctl \in Controllers /\ g.env.seq \in Nat
    BY DEF AdmissionInv, GateSound, EnvelopesSound
  <2>5. \A g \in handling' : g.at = "admitted" => g.env.seq <= disk'.last[g.env.ctl]
    BY <2>3, <2>4 DEF AdmissionInv, GateSound
  <2> QED BY <2>2, <2>3, <2>5 DEF AdmissionInv, GateSound
<1> QED BY <1>1, <1>2, <1>3 DEF AdmissionInv

LEMMA ReloadInv ==
  ASSUME AdmissionInv, NEW h \in handling, Reload(h) PROVE AdmissionInv'
<1>1. CASE Leave(h, "rejected") /\ UNCHANGED <<loaded, mem>>
  <2>1. disk'.last \in [Controllers -> Nat] /\ disk' = disk
    BY DEF Reload, AdmissionInv, GateSound
  <2> QED BY <1>1, <2>1, RefusedInv DEF Reload
<1>2. CASE loaded' = TRUE /\ mem' = disk /\ UNCHANGED <<call, handling, busy>>
  <2>1. ~loaded /\ UNCHANGED <<disk, ran, net, signed, next>>
    BY DEF Reload
  <2>2. EnvelopesSound'
    BY <2>1, ReadEnvelopes
  <2>3. ClientSound'
    BY <1>2, <2>1 DEF AdmissionInv, ClientSound
  <2>4. RanRecorded'
    BY <1>2, <2>1 DEF AdmissionInv, GateSound, RanRecorded
  <2>5. GateSound'
    BY <1>2, <2>1, <2>4 DEF AdmissionInv, GateSound
  <2> QED BY <2>2, <2>3, <2>5 DEF AdmissionInv
<1> QED BY <1>1, <1>2 DEF Reload

LEMMA AdmitRefusedInv ==
  ASSUME AdmissionInv, NEW h \in handling, AdmitRefused(h) PROVE AdmissionInv'
<1>1. /\ UNCHANGED <<disk, mem, loaded, ran, net, signed, next>>
      /\ \E status \in {"stale", "rejected"} : Leave(h, status) /\ (status = "stale" => Stale(h))
  BY DEF AdmitRefused
<1>2. disk'.last \in [Controllers -> Nat]
  BY <1>1 DEF AdmissionInv, GateSound
<1>3. PICK status \in {"stale", "rejected"} : Leave(h, status) /\ (status = "stale" => Stale(h))
  BY <1>1
<1> QED BY <1>1, <1>2, <1>3, RefusedInv

\* The record an admission writes raises one number and lowers none.
LEMMA AdmittedRecord ==
  ASSUME AdmissionInv, NEW h \in handling, ~Stale(h)
  PROVE  /\ Admitted(h).last \in [Controllers -> Nat]
         /\ Admitted(h).last[h.env.ctl] = h.env.seq
         /\ h.env.ctl \in Controllers /\ h.env.seq \in Nat /\ mem.last[h.env.ctl] < h.env.seq
         /\ \A c \in Controllers : mem.last[c] <= Admitted(h).last[c]
         /\ \A c \in Controllers : c # h.env.ctl => Admitted(h).last[c] = mem.last[c]
<1>1. h.env.ctl \in Controllers /\ h.env.seq \in Nat /\ mem.last \in [Controllers -> Nat]
  BY DEF AdmissionInv, GateSound, EnvelopesSound
<1>2. mem.last[h.env.ctl] < h.env.seq
  BY <1>1 DEF Stale
<1>3. Admitted(h).last = [mem.last EXCEPT ![h.env.ctl] = h.env.seq]
  BY DEF Admitted
<1> QED BY <1>1, <1>2, <1>3

LEMMA AdmitUnsavedInv ==
  ASSUME AdmissionInv, NEW h \in handling, AdmitUnsaved(h) PROVE AdmissionInv'
<1>1. /\ loaded /\ ~Stale(h) /\ Leave(h, "rejected") /\ (disk' = Admitted(h) \/ disk' = disk)
      /\ UNCHANGED <<mem, loaded, ran, net, signed, next>>
  BY DEF AdmitUnsaved
<1>2. disk'.last \in [Controllers -> Nat]
  BY <1>1, AdmittedRecord DEF AdmissionInv, GateSound
<1>3. \A c \in Controllers, m \in Nat : m <= mem.last[c] /\ m <= disk.last[c] => m <= disk'.last[c]
  <2>1. mem.last \in [Controllers -> Nat]
    BY DEF AdmissionInv, GateSound
  <2> QED BY <1>1, <1>2, <2>1, AdmittedRecord
<1> QED BY <1>1, <1>2, <1>3, RefusedInv

LEMMA AdmitInv ==
  ASSUME AdmissionInv, NEW h \in handling, Admit(h) PROVE AdmissionInv'
<1> DEFINE c == h.env.ctl
           g == [h EXCEPT !.at = "admitted"]
<1>1. /\ loaded /\ ~Stale(h) /\ disk' = Admitted(h) /\ mem' = disk'
      /\ handling' = (handling \ {h}) \cup {g}
      /\ UNCHANGED <<loaded, busy, ran, net, signed, next, call>>
  BY DEF Admit, clientVars
<1>2. h = [env |-> h.env, live |-> h.live, at |-> h.at, time |-> h.time]
  BY DEF AdmissionInv, GateSound
<1>3. g = [env |-> h.env, live |-> h.live, at |-> "admitted", time |-> h.time]
  BY <1>2
<1>4. g.env = h.env /\ g.at = "admitted" /\ g = [env |-> g.env, live |-> g.live, at |-> g.at, time |-> g.time]
  BY <1>3
<1> HIDE DEF g
<1>5. EnvelopesSound'
  BY <1>1, ReadEnvelopes
<1>6. ClientSound'
  BY <1>1 DEF AdmissionInv, ClientSound
<1>7. c \in Controllers /\ h.env \in signed[c] /\ c \in busy
  BY DEF AdmissionInv, GateSound
<1>8. /\ disk'.last \in [Controllers -> Nat] /\ disk'.last[c] = h.env.seq /\ h.env.seq \in Nat
      /\ mem.last[c] < h.env.seq
      /\ \A d \in Controllers : mem.last[d] <= disk'.last[d]
      /\ \A d \in Controllers : d # c => disk'.last[d] = mem.last[d]
  BY <1>1, AdmittedRecord
<1>9. mem.last \in [Controllers -> Nat]
  BY DEF AdmissionInv, GateSound
<1>10. \A d \in Controllers : \A k \in DOMAIN ran[d] : ran[d][k].seq \in Nat /\ ran[d][k].seq <= mem.last[d]
  BY <1>1, RanTyped DEF AdmissionInv, GateSound, RanRecorded
<1>11. RanRecorded'
  BY <1>1, <1>8, <1>9, <1>10 DEF RanRecorded
<1>12. \A k \in DOMAIN ran[c] : ran[c][k].seq < h.env.seq
  BY <1>7, <1>8, <1>9, <1>10
<1>13. \A f \in handling : f # h => f.env.ctl # c
  BY DEF AdmissionInv, GateSound
<1>14. \A f1, f2 \in handling' : f1.env.ctl = f2.env.ctl => f1 = f2
  BY <1>1, <1>4, <1>13 DEF AdmissionInv, GateSound
<1>15. \A f \in handling' :
         /\ f = [env |-> f.env, live |-> f.live, at |-> f.at, time |-> f.time]
         /\ f.env.ctl \in Controllers /\ f.env \in signed[f.env.ctl] /\ f.env.ctl \in busy
  BY <1>1, <1>4, <1>7 DEF AdmissionInv, GateSound
<1>16. \A f \in handling' :
         f.at = "admitted" =>
            /\ f.env.seq <= disk'.last[f.env.ctl]
            /\ \A k \in DOMAIN ran[f.env.ctl] : ran[f.env.ctl][k].seq < f.env.seq
  <2>1. g.env.seq <= disk'.last[g.env.ctl]
    BY <1>4, <1>8
  <2>2. \A f \in handling : f # h => disk'.last[f.env.ctl] = mem.last[f.env.ctl]
    BY <1>8, <1>13 DEF AdmissionInv, GateSound
  <2> QED BY <1>1, <1>4, <1>12, <2>1, <2>2 DEF AdmissionInv, GateSound
<1>17. GateSound'
  BY <1>1, <1>8, <1>11, <1>14, <1>15, <1>16 DEF AdmissionInv, GateSound
<1> QED BY <1>5, <1>6, <1>17 DEF AdmissionInv

LEMMA RunInv ==
  ASSUME AdmissionInv, NEW h \in handling, NEW status \in {"ok", "rejected"}, Run(h, status)
  PROVE  AdmissionInv'
<1> DEFINE c == h.env.ctl
<1>1. /\ h.at = "admitted" /\ Leave(h, status)
      /\ ran' = IF status = "rejected" THEN ran ELSE [ran EXCEPT ![c] = Append(@, h.env)]
      /\ UNCHANGED <<disk, mem, loaded, net, signed, next>>
  BY DEF Run
<1>2. EnvelopesSound'
  BY <1>1, ReadEnvelopes
<1>3. c \in Controllers /\ h.env \in signed[c]
  BY DEF AdmissionInv, GateSound
<1>4. ClientSound'
  BY <1>1, <1>3, AnswerClient DEF Leave
<1>5. /\ handling' = handling \ {h}
      /\ \A g \in handling' : g.env.ctl \in busy' /\ g.env.ctl # c
  BY <1>1, LeaveHandling
<1>6. /\ IsFunction(ran', Controllers)
      /\ \A d \in Controllers : d # c => ran'[d] = ran[d]
      /\ ran'[c] = ran[c] \/ ran'[c] = Append(ran[c], h.env)
  BY <1>1, <1>3 DEF AdmissionInv, GateSound, IsFunction
<1>7. ran[c] \in Seq(signed[c])
  BY <1>3 DEF AdmissionInv, GateSound
<1>8. ran'[c] \in Seq(signed[c])
  BY SMTT(30), <1>3, <1>6, <1>7
<1>9. \A k \in DOMAIN ran'[c] : (k \in DOMAIN ran[c] /\ ran'[c][k] = ran[c][k]) \/ ran'[c][k] = h.env
  <2>1. CASE ran'[c] = ran[c]
    BY <2>1
  <2>2. CASE ran'[c] = Append(ran[c], h.env)
    BY <1>7, <2>2, AppendAt
  <2> QED BY <1>6, <2>1, <2>2
<1>10. RanRecorded'
  BY SMTT(30), <1>1, <1>3, <1>6, <1>9 DEF AdmissionInv, GateSound, RanRecorded
<1>11. \A g \in handling' : ran'[g.env.ctl] = ran[g.env.ctl]
  BY <1>5, <1>6 DEF AdmissionInv, GateSound
<1>12. GateSound'
  <2>1. \A d \in Controllers : ran'[d] \in Seq(signed'[d])
    BY <1>1, <1>6, <1>8 DEF AdmissionInv, GateSound
  <2> QED BY <1>1, <1>5, <1>6, <1>10, <1>11, <2>1 DEF AdmissionInv, GateSound
<1> QED BY <1>2, <1>4, <1>12 DEF AdmissionInv

LEMMA RestartInv == ASSUME AdmissionInv, Restart PROVE AdmissionInv'
<1>1. /\ handling' = {} /\ UNCHANGED <<disk, ran, net, signed, next, call>>
      /\ (loaded' = TRUE /\ mem' = disk) \/ (loaded' = FALSE /\ mem' = mem)
  BY DEF Restart, clientVars
<1>2. EnvelopesSound'
  BY <1>1, ReadEnvelopes
<1>3. ClientSound'
  BY <1>1 DEF AdmissionInv, ClientSound
<1>4. GateSound'
  BY <1>1 DEF AdmissionInv, GateSound, RanRecorded
<1> QED BY <1>2, <1>3, <1>4 DEF AdmissionInv

LEMMA ServerRestartInv ==
  ASSUME AdmissionInv, NEW c \in Controllers, ServerRestart(c) PROVE AdmissionInv'
<1> DEFINE r == [st |-> "idle", do |-> call[c].do]
<1>1. call' = [call EXCEPT ![c] = r] /\ r.st = "idle"
  BY DEF ServerRestart
<1> HIDE DEF r
<1>2. ClientSound'
  BY <1>1, QuietClient DEF ServerRestart
<1> QED BY <1>2, QuietGate DEF AdmissionInv, ServerRestart, gateVars

LEMMA GateStepInv == ASSUME AdmissionInv, GateStep PROVE AdmissionInv'
<1>1. ASSUME NEW e \in net, Deliver(e) PROVE AdmissionInv'
  <2>1. e \in UNION {signed[c] : c \in Controllers} /\ Arrive(e, TRUE)
    BY <1>1 DEF Deliver, AdmissionInv, EnvelopesSound
  <2> QED BY <2>1, ArriveInv
<1>2. ASSUME NEW e \in Captured, Replayed(e) PROVE AdmissionInv'
  <2>1. e \in UNION {signed[c] : c \in Controllers} /\ Arrive(e, FALSE)
    BY <1>2 DEF Replayed, Captured
  <2> QED BY <2>1, ArriveInv
<1>3. ASSUME NEW h \in handling, Reload(h) \/ AdmitRefused(h) \/ Admit(h) \/ AdmitUnsaved(h) PROVE AdmissionInv'
  BY <1>3, ReloadInv, AdmitRefusedInv, AdmitInv, AdmitUnsavedInv
<1>4. CASE Restart
  BY <1>4, RestartInv
<1>5. CASE Tick
  <2>1. ClientSound'
    BY <1>5 DEF Tick, clientVars, AdmissionInv, ClientSound
  <2> QED BY <1>5, <2>1, QuietGate DEF Tick, gateVars, clientVars, AdmissionInv
<1> QED BY <1>1, <1>2, <1>3, <1>4, <1>5 DEF GateStep

LEMMA QuietInv == ASSUME AdmissionInv, UNCHANGED vars PROVE AdmissionInv'
<1>1. ClientSound'
  BY DEF vars, clientVars, AdmissionInv, ClientSound
<1> QED BY <1>1, QuietGate DEF vars, gateVars, clientVars, AdmissionInv

LEMMA AdmissionStep == ASSUME AdmissionInv, BoxNext PROVE AdmissionInv'
<1>1. ASSUME NEW c \in Controllers, NEW t \in Tasks, Claim(c, t) PROVE AdmissionInv'
  BY <1>1, QuietInv DEF Claim
<1>2. ASSUME NEW c \in Controllers, StartSend(c) \/ StartEnd(c) PROVE AdmissionInv'
  BY <1>2, BeginInv, CollectInv DEF StartSend, StartEnd
<1>3. ASSUME NEW c \in Controllers, NEW t \in SshTasks,
             GuardSend(c, t) \/ GuardEnd(c, t) \/ ActEnd(c, t)
      PROVE  AdmissionInv'
  BY <1>3, BeginInv, CollectInv, QuietInv DEF GuardSend, GuardEnd, ActEnd
<1>4. ASSUME NEW c \in Controllers, ServerRestart(c) PROVE AdmissionInv'
  BY <1>4, ServerRestartInv
<1>5. ASSUME NEW c \in Controllers, ClientStep(c) PROVE AdmissionInv'
  BY <1>5, PostInv, GiveUpInv, ReceiveInv DEF ClientStep
<1>6. CASE GateStep
  BY <1>6, GateStepInv
<1>7. ASSUME NEW h \in handling, RunStart(h) \/ RunList(h) PROVE AdmissionInv'
  BY <1>7, RunInv DEF RunStart, RunList
<1>8. CASE JobEnd
  BY <1>8, QuietInv DEF JobEnd
<1> QED BY <1>1, <1>2, <1>3, <1>4, <1>5, <1>6, <1>7, <1>8 DEF BoxNext

-----------------------------------------------------------------------------
\* Whatever the caches, the crashes and the network do, an intent that ran is
\* on the replay record (Replay.Admit persists before anything runs).
THEOREM RanRecordedTheorem == BoxSpec => []RanRecorded
<1>1. BoxInit => AdmissionInv
  BY InitInv DEF BoxInv
<1>2. AdmissionInv /\ [BoxNext]_allVars => AdmissionInv'
  <2>1. ASSUME AdmissionInv, UNCHANGED allVars PROVE AdmissionInv'
    BY <2>1, QuietInv DEF allVars
  <2> QED BY <2>1, AdmissionStep
<1>3. AdmissionInv => RanRecorded
  BY DEF AdmissionInv, GateSound
<1> QED BY <1>1, <1>2, <1>3, PTL DEF BoxSpec

-----------------------------------------------------------------------------
(* Every step of BoxControl signs, runs one intent in its turn, or stutters. *)

LEMMA PostSigns ==
  ASSUME AdmissionInv, NEW c \in Controllers, Post(c) PROVE Turn!Sign(c)
<1> DEFINE e == [ctl |-> c, n |-> Cardinality(signed[c]) + 1, seq |-> next[c],
                 kind |-> call[c].kind, expiry |-> now + Lifetime, do |-> call[c].do]
<1>1. signed' = [signed EXCEPT ![c] = @ \cup {e}] /\ ran' = ran
  BY DEF Post, gateVars
<1> HIDE DEF e
<1>2. signed'[c] = signed[c] \cup {e}
  BY <1>1 DEF AdmissionInv, EnvelopesSound, IsFunction
<1>3. signed' = [signed EXCEPT ![c] = signed'[c]]
  BY <1>1, <1>2
<1> QED BY <1>1, <1>2, <1>3 DEF Turn!Sign

LEMMA RunTakesTurn ==
  ASSUME AdmissionInv, NEW h \in handling, NEW status, Run(h, status)
  PROVE  UNCHANGED <<signed, ran>> \/ \E c \in Controllers : Turn!Run(c)
<1>1. /\ h.env.ctl \in Controllers /\ h.env \in signed[h.env.ctl]
      /\ \A k \in DOMAIN ran[h.env.ctl] : ran[h.env.ctl][k].seq < h.env.seq
  BY DEF Run, AdmissionInv, GateSound
<1>2. /\ ran' = ran \/ ran' = [ran EXCEPT ![h.env.ctl] = Append(@, h.env)]
      /\ signed' = signed
  BY DEF Run
<1> QED BY <1>1, <1>2 DEF Turn!Run

LEMMA TurnStep ==
  ASSUME AdmissionInv, BoxNext PROVE UNCHANGED <<signed, ran>> \/ Turn!Next
<1>1. ASSUME NEW c \in Controllers, NEW t \in Tasks, Claim(c, t) PROVE UNCHANGED <<signed, ran>>
  BY <1>1 DEF Claim, vars, gateVars, clientVars
<1>2. ASSUME NEW c \in Controllers, StartSend(c) \/ StartEnd(c) PROVE UNCHANGED <<signed, ran>>
  BY <1>2 DEF StartSend, StartEnd, Begin, Collect, gateVars
<1>3. ASSUME NEW c \in Controllers, NEW t \in SshTasks,
             GuardSend(c, t) \/ GuardEnd(c, t) \/ ActEnd(c, t)
      PROVE  UNCHANGED <<signed, ran>>
  BY <1>3 DEF GuardSend, GuardEnd, ActEnd, Begin, Collect, vars, gateVars, clientVars
<1>4. ASSUME NEW c \in Controllers, ServerRestart(c) PROVE UNCHANGED <<signed, ran>>
  BY <1>4 DEF ServerRestart, gateVars
<1>5. ASSUME NEW c \in Controllers, ClientStep(c) PROVE UNCHANGED <<signed, ran>> \/ Turn!Sign(c)
  BY <1>5, PostSigns DEF ClientStep, GiveUp, Receive, ReceiveUnsaved, gateVars
<1>6. CASE GateStep
  <2>1. UNCHANGED <<signed, ran>>
    BY <1>6 DEF GateStep, Deliver, Replayed, Arrive, Reload, AdmitRefused, Admit, AdmitUnsaved,
                Restart, Tick, gateVars, clientVars
  <2> QED BY <2>1
<1>7. ASSUME NEW h \in handling, RunStart(h) \/ RunList(h)
      PROVE  UNCHANGED <<signed, ran>> \/ \E c \in Controllers : Turn!Run(c)
  BY <1>7, RunTakesTurn DEF RunStart, RunList
<1>8. CASE JobEnd
  BY <1>8 DEF JobEnd, vars, gateVars, clientVars
<1> QED BY <1>1, <1>2, <1>3, <1>4, <1>5, <1>6, <1>7, <1>8 DEF BoxNext, Turn!Next

\* What Handle, the replay record and the client's numbers are for: the
\* intents of a controller run in the order of their numbers, none twice.
THEOREM TurnstileTheorem == BoxSpec => TurnstileSpec
<1>1. BoxInit => AdmissionInv
  BY InitInv DEF BoxInv
<1>2. BoxInit => Turn!Init
  BY DEF BoxInit, Init, Turn!Init
<1>3. AdmissionInv /\ [BoxNext]_allVars => AdmissionInv'
  <2>1. ASSUME AdmissionInv, UNCHANGED allVars PROVE AdmissionInv'
    BY <2>1, QuietInv DEF allVars
  <2> QED BY <2>1, AdmissionStep
<1>4. AdmissionInv /\ [BoxNext]_allVars => [Turn!Next]_(Turn!vars)
  <2>1. ASSUME UNCHANGED allVars PROVE UNCHANGED Turn!vars
    BY <2>1 DEF allVars, vars, gateVars, clientVars, Turn!vars
  <2>2. ASSUME AdmissionInv, BoxNext PROVE [Turn!Next]_(Turn!vars)
    BY <2>2, TurnStep DEF Turn!vars
  <2> QED BY <2>1, <2>2
<1> QED BY <1>1, <1>2, <1>3, <1>4, PTL DEF BoxSpec, TurnstileSpec, Turn!Spec

-----------------------------------------------------------------------------
(* No server works beside a job of its own. *)

\* The record still has every number it had, and no intent behind it is
\* admitted.
RecordKept ==
  \A c \in Controllers :
    /\ \A m \in Nat :
          m <= disk.last[c] /\ (loaded => m <= mem.last[c])
            => m <= disk'.last[c] /\ (loaded' => m <= mem'.last[c])
    /\ \A h \in handling' :
          h.env.ctl = c /\ h.at = "admitted" => h \in handling \/ (loaded /\ ~(h.env.seq <= mem.last[c]))

LEMMA ClearKept ==
  ASSUME AdmissionInv, RecordKept, NEW c \in Controllers, Clear(c),
         job' # NoJob => job'.by # c,
         \A e \in signed'[c] : e.kind = "start" => e \in signed[c]
  PROVE  Clear(c)'
<1>1. \A e \in signed[c] : e.seq \in Nat /\ e.ctl = c
  BY DEF AdmissionInv, EnvelopesSound
<1>2. \A e \in signed'[c] : e.kind = "start" =>
        /\ e.seq <= disk'.last[c]
        /\ loaded' => e.seq <= mem'.last[c]
  BY <1>1 DEF Clear, RecordKept
<1>3. ASSUME NEW e \in signed'[c], e.kind = "start", NEW h \in handling', h.env = e, h.at = "admitted"
      PROVE  FALSE
  <2>1. e \in signed[c] /\ h.env.ctl = c
    BY <1>1, <1>3
  <2>2. h \notin handling
    BY <1>3, <2>1 DEF Clear
  <2>3. loaded /\ ~(e.seq <= mem.last[c])
    BY <1>3, <2>1, <2>2 DEF RecordKept
  <2> QED BY <1>3, <2>1, <2>3 DEF Clear
<1> QED BY <1>2, <1>3 DEF Clear

LEMMA QuietRecord ==
  ASSUME UNCHANGED <<disk, mem, loaded>>,
         \A h \in handling' : h.at = "admitted" => h \in handling
  PROVE  RecordKept
BY DEF RecordKept

LEMMA GateRecord == ASSUME AdmissionInv, GateStep PROVE RecordKept
<1>1. ASSUME NEW e \in net, Deliver(e) PROVE RecordKept
  <2> DEFINE h == [env |-> e, live |-> TRUE, at |-> "claimed", time |-> now]
  <2>1. /\ UNCHANGED <<disk, mem, loaded>> /\ h.at = "claimed"
        /\ handling' = handling \/ handling' = handling \cup {h}
    BY <1>1 DEF Deliver, Arrive
  <2> HIDE DEF h
  <2> QED BY <2>1, QuietRecord
<1>2. ASSUME NEW e \in Captured, Replayed(e) PROVE RecordKept
  <2> DEFINE h == [env |-> e, live |-> FALSE, at |-> "claimed", time |-> now]
  <2>1. /\ UNCHANGED <<disk, mem, loaded>> /\ h.at = "claimed"
        /\ handling' = handling \/ handling' = handling \cup {h}
    BY <1>2 DEF Replayed, Arrive
  <2> HIDE DEF h
  <2> QED BY <2>1, QuietRecord
<1>3. ASSUME NEW h \in handling, Reload(h) PROVE RecordKept
  <2>1. UNCHANGED disk /\ ~loaded /\ handling' \subseteq handling
    BY <1>3 DEF Reload, Leave
  <2>2. (UNCHANGED <<mem, loaded>>) \/ mem' = disk
    BY <1>3 DEF Reload
  <2>3. ~loaded' \/ mem' = disk'
    BY <1>3, <2>1 DEF Reload
  <2> QED BY <2>1, <2>2, <2>3 DEF RecordKept
<1>4. ASSUME NEW h \in handling, AdmitRefused(h) PROVE RecordKept
  <2>1. UNCHANGED <<disk, mem, loaded>> /\ handling' \subseteq handling
    BY <1>4 DEF AdmitRefused, Leave
  <2> QED BY <2>1, QuietRecord
<1>5. ASSUME NEW h \in handling, AdmitUnsaved(h) PROVE RecordKept
  <2>1. /\ UNCHANGED <<mem, loaded>> /\ loaded /\ ~Stale(h)
        /\ handling' \subseteq handling /\ (disk' = disk \/ disk' = Admitted(h))
    BY <1>5 DEF AdmitUnsaved, Leave
  <2>2. mem.last \in [Controllers -> Nat] /\ disk.last \in [Controllers -> Nat]
    BY DEF AdmissionInv, GateSound
  <2>3. disk' = Admitted(h) =>
          disk'.last \in [Controllers -> Nat] /\ \A c \in Controllers : mem.last[c] <= disk'.last[c]
    BY <2>1, AdmittedRecord
  <2>4. \A c \in Controllers, m \in Nat : m <= disk.last[c] /\ m <= mem.last[c] => m <= disk'.last[c]
    BY <2>1, <2>2, <2>3
  <2> QED BY <2>1, <2>4 DEF RecordKept
<1>6. ASSUME NEW h \in handling, Admit(h) PROVE RecordKept
  <2> DEFINE g == [h EXCEPT !.at = "admitted"]
  <2>1. /\ loaded /\ ~Stale(h) /\ disk' = Admitted(h) /\ mem' = disk' /\ UNCHANGED loaded
        /\ handling' = (handling \ {h}) \cup {g}
    BY <1>6 DEF Admit
  <2>2. g.env = h.env
    <3>1. h = [env |-> h.env, live |-> h.live, at |-> h.at, time |-> h.time]
      BY DEF AdmissionInv, GateSound
    <3>2. g = [env |-> h.env, live |-> h.live, at |-> "admitted", time |-> h.time]
      BY <3>1
    <3> QED BY <3>2
  <2> HIDE DEF g
  <2>3. mem.last \in [Controllers -> Nat]
    BY DEF AdmissionInv, GateSound
  <2>4. /\ disk'.last \in [Controllers -> Nat] /\ \A c \in Controllers : mem.last[c] <= disk'.last[c]
        /\ h.env.seq \in Nat /\ h.env.ctl \in Controllers /\ mem.last[h.env.ctl] < h.env.seq
    BY <2>1, AdmittedRecord
  <2>5. \A c \in Controllers, m \in Nat : m <= mem.last[c] => m <= disk'.last[c]
    BY <2>3, <2>4
  <2>6. ~(g.env.seq <= mem.last[g.env.ctl])
    BY <2>2, <2>3, <2>4
  <2> QED BY <2>1, <2>5, <2>6 DEF RecordKept
<1>7. CASE Restart
  <2>1. UNCHANGED disk /\ handling' = {} /\ (mem' = disk \/ loaded' = FALSE)
    BY <1>7 DEF Restart
  <2> QED BY <2>1 DEF RecordKept
<1>8. CASE Tick
  BY <1>8, QuietRecord DEF Tick, gateVars
<1> QED BY <1>1, <1>2, <1>3, <1>4, <1>5, <1>6, <1>7, <1>8 DEF GateStep

\* What is left to show of a step for Excluded: it lets no handler go on
\* that could not before, and leaves the box clear for the others.
LEMMA ExcludedKept ==
  ASSUME Excluded, IsFunction(listed', Controllers),
         \A c \in Controllers, t \in SshTasks : Allowed(c, t)' => Allowed(c, t),
         \A c \in Controllers : (\E t \in SshTasks : Allowed(c, t)') /\ Clear(c) => Clear(c)'
  PROVE  Excluded'
BY DEF Excluded

\* A server is at one thing: a handler that may work on the box excludes a
\* start being asked for.
LEMMA OneTask ==
  ASSUME ClaimsSound, NEW c \in Controllers, NEW t \in SshTasks, Allowed(c, t)
  PROVE  /\ task[c]["start"] = "idle"
         /\ call[c].st # "idle" => call[c].kind = "list"
<1>1. t \in Tasks /\ "start" \in Tasks /\ t # "start"
  BY BoxConstants DEF Tasks
<1>2. task[c][t] # "idle"
  BY DEF Allowed
<1>3. \A u \in Tasks : u # t => task[c][u] = "idle"
  BY <1>1, <1>2 DEF ClaimsSound
<1> QED BY <1>1, <1>3 DEF ClaimsSound

LEMMA TaskStep ==
  ASSUME ClaimsSound, NEW c \in Controllers, NEW t \in Tasks, NEW pc, task' = At(c, t, pc)
  PROVE  /\ IsFunction(task', Controllers)
         /\ \A d \in Controllers : IsFunction(task'[d], Tasks)
         /\ task'[c][t] = pc
         /\ \A d \in Controllers, u \in Tasks : d # c \/ u # t => task'[d][u] = task[d][u]
<1>1. /\ DOMAIN task' = Controllers /\ task' = [d \in Controllers |-> task'[d]]
      /\ task'[c] = [task[c] EXCEPT ![t] = pc]
      /\ \A d \in Controllers : d # c => task'[d] = task[d]
  BY DEF ClaimsSound, IsFunction, At
<1>2. DOMAIN task[c] = Tasks
  BY DEF ClaimsSound, IsFunction
<1>3. /\ DOMAIN task'[c] = Tasks /\ task'[c] = [u \in Tasks |-> task'[c][u]]
      /\ task'[c][t] = pc /\ \A u \in Tasks : u # t => task'[c][u] = task[c][u]
  BY <1>1, <1>2
<1> QED BY SMTT(30), <1>1, <1>3 DEF ClaimsSound, IsFunction

LEMMA ClaimBox ==
  ASSUME BoxInv, NEW c \in Controllers, NEW t \in Tasks, Claim(c, t)
  PROVE  ClaimsSound' /\ Excluded'
<1> USE DEF BoxInv
<1>1. /\ task[c][t] = "idle" /\ claims[c] = {} /\ claims' = [claims EXCEPT ![c] = {t}]
      /\ task' = At(c, t, "claimed") /\ UNCHANGED <<call, job, listed, signed, disk, mem, loaded, handling>>
  BY DEF Claim, vars, gateVars, clientVars
<1>2. /\ IsFunction(task', Controllers) /\ \A d \in Controllers : IsFunction(task'[d], Tasks)
      /\ task'[c][t] = "claimed"
      /\ \A d \in Controllers, u \in Tasks : d # c \/ u # t => task'[d][u] = task[d][u]
  BY <1>1, TaskStep
<1>3. /\ IsFunction(claims', Controllers) /\ claims'[c] = {t}
      /\ \A d \in Controllers : d # c => claims'[d] = claims[d]
  BY <1>1 DEF ClaimsSound, IsFunction
<1>4. \A u \in Tasks : task[c][u] = "idle"
  BY <1>1 DEF ClaimsSound
<1>5. \A d \in Controllers, u \in Tasks : task'[d][u] # "idle" => claims'[d] = {u}
  BY <1>2, <1>3, <1>4 DEF ClaimsSound
<1>6. \A d \in Controllers, u \in Tasks :
        /\ task'[d][u] = "asking" <=> task[d][u] = "asking"
        /\ task'[d][u] = "acting" <=> task[d][u] = "acting"
  BY <1>1, <1>2
<1>7. ClaimsSound'
  BY <1>1, <1>2, <1>3, <1>5, <1>6 DEF ClaimsSound
<1>8. Excluded'
  <2>1. \A d \in Controllers, u \in SshTasks : Allowed(d, u)' => Allowed(d, u)
    BY ZenonT(30), <1>1, <1>2, <1>6 DEF Allowed, Tasks
  <2>2. \A d \in Controllers : Clear(d) => Clear(d)'
    BY <1>1 DEF Clear
  <2>3. IsFunction(listed', Controllers)
    BY <1>1 DEF Excluded
  <2> QED BY <2>1, <2>2, <2>3, ExcludedKept
<1> QED BY <1>7, <1>8

\* A handler that has its claim begins its call.
LEMMA SendBox ==
  ASSUME BoxInv, NEW c \in Controllers, NEW t \in Tasks, task[c][t] = "claimed",
         Begin(c, IF t = "start" THEN "start" ELSE "list"), task' = At(c, t, "asking"),
         UNCHANGED <<job, claims, listed>>
  PROVE  ClaimsSound' /\ Excluded'
<1> USE DEF BoxInv
<1> DEFINE kind == IF t = "start" THEN "start" ELSE "list"
           r == [st |-> "ready", do |-> call[c].do + 1, kind |-> kind, attempt |-> 0]
<1>1. /\ call[c].st = "idle" /\ call' = [call EXCEPT ![c] = r] /\ r.st = "ready" /\ r.kind = kind
      /\ UNCHANGED <<signed, disk, mem, loaded, handling>>
  BY DEF Begin, gateVars
<1> HIDE DEF r
<1>2. /\ IsFunction(task', Controllers) /\ \A d \in Controllers : IsFunction(task'[d], Tasks)
      /\ task'[c][t] = "asking"
      /\ \A d \in Controllers, u \in Tasks : d # c \/ u # t => task'[d][u] = task[d][u]
  BY TaskStep
<1>3. call'[c] = r /\ \A d \in Controllers : d # c => call'[d] = call[d]
  BY <1>1 DEF AdmissionInv, ClientSound, IsFunction
<1>4. \A u \in Tasks : u # t => task[c][u] = "idle"
  BY DEF ClaimsSound
<1>5. ClaimsSound'
  <2>1. \A d \in Controllers, u \in Tasks : task'[d][u] # "idle" => claims'[d] = {u}
    BY <1>2 DEF ClaimsSound
  <2>2. \A u \in Tasks : task'[c][u] = "asking" => u = t
    BY <1>2, <1>4
  <2>3. \A d \in Controllers, u \in Tasks :
          task'[d][u] = "asking" =>
            /\ call'[d].st # "idle"
            /\ call'[d].kind = (IF u = "start" THEN "start" ELSE "list")
    BY <1>1, <1>2, <1>3, <2>2 DEF ClaimsSound
  <2>4. \A d \in Controllers : call'[d].st # "idle" => \E u \in Tasks : task'[d][u] = "asking"
    BY <1>2, <1>3 DEF ClaimsSound
  <2>5. IsFunction(claims', Controllers)
    BY DEF ClaimsSound
  <2> QED BY <1>2, <2>1, <2>3, <2>4, <2>5 DEF ClaimsSound
<1>6. Excluded'
  <2>1. \A u \in SshTasks : ~Allowed(c, u)'
    BY <1>1, <1>2, <1>3, <1>4 DEF Allowed, Tasks
  <2>2. \A d \in Controllers, u \in SshTasks : d # c => (Allowed(d, u)' => Allowed(d, u))
    BY <1>2, <1>3 DEF Allowed, Tasks
  <2>3. \A d \in Controllers : Clear(d) => Clear(d)'
    BY <1>1 DEF Clear
  <2>4. IsFunction(listed', Controllers)
    BY DEF Excluded
  <2>5. \A d \in Controllers, u \in SshTasks : Allowed(d, u)' => Allowed(d, u)
    BY <2>1, <2>2
  <2> QED BY <2>3, <2>4, <2>5, ExcludedKept
<1> QED BY <1>5, <1>6

\* A handler's call or its work ends: it goes back to idle without its claim,
\* or, with a listing that allows it, goes on to the box.
LEMMA EndBox ==
  ASSUME BoxInv, NEW c \in Controllers, NEW t \in Tasks,
         UNCHANGED <<job, listed, signed, disk, mem, loaded, handling>>,
         \/ Collect(c) /\ task[c][t] = "asking"
         \/ call' = call /\ task[c][t] = "acting",
         \/ task' = At(c, t, "idle") /\ Release(c, t)
         \/ /\ task' = At(c, t, "acting") /\ UNCHANGED claims
            /\ t \in SshTasks => Allowed(c, t)
  PROVE  ClaimsSound' /\ Excluded'
<1> USE DEF BoxInv
<1>1. PICK pc \in {"idle", "acting"} :
        /\ task' = At(c, t, pc)
        /\ \/ pc = "idle" /\ Release(c, t)
           \/ pc = "acting" /\ UNCHANGED claims /\ (t \in SshTasks => Allowed(c, t))
  OBVIOUS
<1>2. /\ IsFunction(task', Controllers) /\ \A d \in Controllers : IsFunction(task'[d], Tasks)
      /\ task'[c][t] = pc
      /\ \A d \in Controllers, u \in Tasks : d # c \/ u # t => task'[d][u] = task[d][u]
  BY <1>1, TaskStep
<1>3. /\ \A d \in Controllers : d # c => call'[d] = call[d]
      /\ call'[c].st = "idle"
  <2>1. CASE Collect(c) /\ task[c][t] = "asking"
    BY <2>1 DEF Collect, AdmissionInv, ClientSound, IsFunction
  <2>2. CASE call' = call /\ task[c][t] = "acting"
    <3>1. \A u \in Tasks : u # t => task[c][u] = "idle"
      BY <2>2 DEF ClaimsSound
    <3> QED BY <2>2, <3>1 DEF ClaimsSound
  <2> QED BY <2>1, <2>2
<1>4. \A u \in Tasks : u # t => task[c][u] = "idle"
  BY DEF ClaimsSound
<1>5. ClaimsSound'
  <2>1. /\ IsFunction(claims', Controllers)
        /\ \A d \in Controllers : d # c => claims'[d] = claims[d]
        /\ pc = "acting" => claims'[c] = claims[c]
    BY <1>1 DEF ClaimsSound, IsFunction, Release
  <2>2. \A d \in Controllers, u \in Tasks : task'[d][u] # "idle" => claims'[d] = {u}
    BY <1>1, <1>2, <1>4, <2>1 DEF ClaimsSound
  <2>3. \A u \in Tasks : task'[c][u] # "asking"
    BY <1>1, <1>2, <1>4
  <2>4. \A d \in Controllers, u \in Tasks :
          task'[d][u] = "asking" =>
            /\ call'[d].st # "idle"
            /\ call'[d].kind = (IF u = "start" THEN "start" ELSE "list")
    BY <1>2, <1>3, <2>3 DEF ClaimsSound
  <2>5. \A d \in Controllers : call'[d].st # "idle" => \E u \in Tasks : task'[d][u] = "asking"
    BY <1>2, <1>3 DEF ClaimsSound
  <2> QED BY <1>2, <2>1, <2>2, <2>4, <2>5 DEF ClaimsSound
<1>6. Excluded'
  <2>1. \A d \in Controllers, u \in SshTasks : Allowed(d, u)' => Allowed(d, u)
    <3>1. \A d \in Controllers, u \in SshTasks : d # c => (Allowed(d, u)' => Allowed(d, u))
      BY <1>2, <1>3 DEF Allowed, Tasks
    <3>2. \A u \in SshTasks : u # t => ~Allowed(c, u)'
      BY <1>2, <1>4 DEF Allowed, Tasks
    <3>3. t \in SshTasks /\ Allowed(c, t)' => Allowed(c, t)
      BY <1>1, <1>2 DEF Allowed
    <3> QED BY <3>1, <3>2, <3>3
  <2>2. \A d \in Controllers : Clear(d) => Clear(d)'
    BY DEF Clear
  <2>3. IsFunction(listed', Controllers)
    BY DEF Excluded
  <2> QED BY <2>1, <2>2, <2>3, ExcludedKept
<1> QED BY <1>5, <1>6

LEMMA ServerRestartBox ==
  ASSUME BoxInv, NEW c \in Controllers, ServerRestart(c)
  PROVE  ClaimsSound' /\ Excluded'
<1> USE DEF BoxInv
<1>1. /\ claims' = [claims EXCEPT ![c] = {}] /\ task' = [task EXCEPT ![c] = [t \in Tasks |-> "idle"]]
      /\ UNCHANGED <<job, listed, signed, disk, mem, loaded, handling>>
  BY DEF ServerRestart, gateVars
<1>2. /\ \A d \in Controllers : d # c => call'[d] = call[d]
      /\ call'[c].st = "idle"
  BY DEF ServerRestart, AdmissionInv, ClientSound, IsFunction
<1>3. /\ IsFunction(task', Controllers) /\ task'[c] = [t \in Tasks |-> "idle"]
      /\ \A d \in Controllers : d # c => task'[d] = task[d]
  BY <1>1 DEF ClaimsSound, IsFunction
<1>4. /\ IsFunction(claims', Controllers)
      /\ \A d \in Controllers : d # c => claims'[d] = claims[d]
  BY <1>1 DEF ClaimsSound, IsFunction
<1>5. \A d \in Controllers : IsFunction(task'[d], Tasks)
  BY <1>3 DEF ClaimsSound, IsFunction
<1>6. ClaimsSound'
  BY <1>2, <1>3, <1>4, <1>5 DEF ClaimsSound
<1>7. Excluded'
  <2>1. \A d \in Controllers, u \in SshTasks : Allowed(d, u)' => Allowed(d, u)
    <3>1. \A u \in SshTasks : task'[c][u] = "idle"
      BY <1>3 DEF Tasks
    <3> QED BY <1>1, <1>2, <1>3, <3>1 DEF Allowed
  <2>2. \A d \in Controllers : Clear(d) => Clear(d)'
    BY <1>1 DEF Clear
  <2>3. IsFunction(listed', Controllers)
    BY <1>1 DEF Excluded
  <2> QED BY <2>1, <2>2, <2>3, ExcludedKept
<1> QED BY <1>6, <1>7

\* A call that stays under way, for the same handler.
LEMMA CallGoesOn ==
  ASSUME BoxInv, NEW c \in Controllers,
         \A d \in Controllers : d # c => call'[d] = call[d],
         call[c].st # "idle", call'[c].st # "idle", call'[c].kind = call[c].kind,
         UNCHANGED <<claims, task>>
  PROVE  ClaimsSound'
BY DEF BoxInv, ClaimsSound

LEMMA ClientBox ==
  ASSUME BoxInv, AdmissionInv', NEW c \in Controllers, ClientStep(c), UNCHANGED boxVars
  PROVE  ClaimsSound' /\ Excluded'
<1> USE DEF BoxInv
<1>1. UNCHANGED <<job, claims, task, listed, disk, mem, loaded, handling>>
  BY DEF ClientStep, Post, GiveUp, Receive, ReceiveUnsaved, boxVars, gateVars
<1>2. /\ \A d \in Controllers : d # c => call'[d] = call[d]
      /\ call[c].st # "idle" /\ call'[c].st # "idle" /\ call'[c].kind = call[c].kind
      /\ call'[c].st = "answered" => call[c].st = "answered" /\ call'[c].status = call[c].status
      /\ call'[c].st = "done" /\ call'[c].res = "ok" => call[c].st = "answered" /\ call[c].status = "ok"
  <2>1. IsFunction(call, Controllers)
    BY DEF AdmissionInv, ClientSound
  <2>2. CASE Post(c)
    BY <2>1, <2>2 DEF Post, IsFunction
  <2>3. CASE GiveUp(c)
    BY <2>1, <2>3 DEF GiveUp, Return, IsFunction
  <2>4. CASE Receive(c)
    BY <2>1, <2>4 DEF Receive, Return, IsFunction
  <2>5. CASE ReceiveUnsaved(c)
    BY <2>1, <2>5 DEF ReceiveUnsaved, Return, IsFunction
  <2> QED BY <2>2, <2>3, <2>4, <2>5 DEF ClientStep
<1>3. ClaimsSound'
  BY <1>1, <1>2, CallGoesOn DEF boxVars
<1>4. \A d \in Controllers, u \in SshTasks : Allowed(d, u)' => Allowed(d, u)
  BY <1>1, <1>2 DEF Allowed
<1>5. RecordKept
  BY <1>1, QuietRecord
<1>6. \A d \in Controllers : (\E u \in SshTasks : Allowed(d, u)) =>
        \A e \in signed'[d] : e.kind = "start" => e \in signed[d]
  <2>1. ASSUME NEW d \in Controllers, NEW u \in SshTasks, Allowed(d, u),
               NEW e \in signed'[d], e.kind = "start"
        PROVE  e \in signed[d]
    <3>1. CASE Post(c)
      <4> DEFINE x == [ctl |-> c, n |-> Cardinality(signed[c]) + 1, seq |-> next[c],
                       kind |-> call[c].kind, expiry |-> now + Lifetime, do |-> call[c].do]
      <4>1. signed' = [signed EXCEPT ![c] = @ \cup {x}] /\ x.kind = call[c].kind
        BY <3>1 DEF Post
      <4> HIDE DEF x
      <4>2. d = c => call[c].kind = "list"
        BY <1>2, <2>1, OneTask
      <4> QED BY <2>1, <4>1, <4>2 DEF AdmissionInv, EnvelopesSound, IsFunction
    <3>2. CASE GiveUp(c) \/ Receive(c) \/ ReceiveUnsaved(c)
      BY <2>1, <3>2 DEF GiveUp, Receive, ReceiveUnsaved
    <3> QED BY <3>1, <3>2 DEF ClientStep
  <2> QED BY <2>1
<1>7. Excluded'
  <2>1. \A d \in Controllers : (\E u \in SshTasks : Allowed(d, u)') /\ Clear(d) => Clear(d)'
    <3>1. ASSUME NEW d \in Controllers, NEW u \in SshTasks, Allowed(d, u)', Clear(d) PROVE Clear(d)'
      <4>1. \A e \in signed'[d] : e.kind = "start" => e \in signed[d]
        BY <1>4, <1>6, <3>1
      <4>2. job' # NoJob => job'.by # d
        BY <1>1, <3>1 DEF Clear
      <4> QED BY <1>5, <3>1, <4>1, <4>2, ClearKept
    <3> QED BY <3>1
  <2> QED BY <1>1, <1>4, <2>1, ExcludedKept DEF Excluded
<1> QED BY <1>3, <1>7

\* The gate's own steps answer nothing but refusals.
LEMMA GateAnswers ==
  ASSUME AdmissionInv, GateStep
  PROVE  \/ call' = call
         \/ \E h, status : /\ h.env.ctl \in Controllers /\ status \in {"stale", "rejected"}
                          /\ call' = Answered(h, status)
<1>1. ASSUME NEW e, NEW live, e.ctl \in Controllers, Arrive(e, live)
      PROVE  \/ call' = call
             \/ \E h, status : /\ h.env.ctl \in Controllers /\ status \in {"stale", "rejected"}
                              /\ call' = Answered(h, status)
  <2> DEFINE h == [env |-> e, live |-> live, at |-> "claimed", time |-> now]
  <2>1. h.env = e /\ (call' = call \/ call' = Answered(h, "rejected"))
    BY <1>1 DEF Arrive
  <2> HIDE DEF h
  <2> QED BY <1>1, <2>1
<1>2. ASSUME NEW e \in net, Deliver(e) PROVE e.ctl \in Controllers /\ Arrive(e, TRUE)
  <2>1. PICK c \in Controllers : e \in signed[c]
    BY <1>2 DEF AdmissionInv, EnvelopesSound
  <2> QED BY <1>2, <2>1 DEF Deliver, AdmissionInv, EnvelopesSound
<1>3. ASSUME NEW e \in Captured, Replayed(e) PROVE e.ctl \in Controllers /\ Arrive(e, FALSE)
  <2>1. PICK c \in Controllers : e \in signed[c]
    BY <1>3 DEF Captured
  <2> QED BY <1>3, <2>1 DEF Replayed, AdmissionInv, EnvelopesSound
<1>4. ASSUME NEW h \in handling, Reload(h) \/ AdmitRefused(h) \/ AdmitUnsaved(h)
      PROVE  \/ call' = call
             \/ h.env.ctl \in Controllers /\ \E status \in {"stale", "rejected"} : call' = Answered(h, status)
  BY <1>4 DEF Reload, AdmitRefused, AdmitUnsaved, Leave, AdmissionInv, GateSound
<1>5. ASSUME NEW h \in handling, Admit(h) PROVE call' = call
  BY <1>5 DEF Admit, clientVars
<1>6. CASE Restart \/ Tick
  BY <1>6 DEF Restart, Tick, clientVars
<1> QED BY <1>1, <1>2, <1>3, <1>4, <1>5, <1>6 DEF GateStep

LEMMA GateBox ==
  ASSUME BoxInv, GateStep, UNCHANGED boxVars
  PROVE  ClaimsSound' /\ Excluded'
<1> USE DEF BoxInv
<1>1. UNCHANGED <<job, claims, task, listed>> /\ RecordKept
  BY GateRecord DEF boxVars
<1>2. UNCHANGED signed
  BY DEF GateStep, Deliver, Replayed, Arrive, Reload, AdmitRefused, Admit, AdmitUnsaved, Restart, Tick, clientVars
<1>3. /\ ClaimsSound'
      /\ \A d \in Controllers : \/ call'[d] = call[d]
                                \/ call'[d].st = "answered" /\ call'[d].status # "ok"
  <2>1. CASE call' = call
    <3>1. ClaimsSound'
      BY <1>1, <2>1 DEF ClaimsSound
    <3> QED BY <2>1, <3>1
  <2>2. ASSUME NEW h, NEW status, h.env.ctl \in Controllers, status \in {"stale", "rejected"},
               call' = Answered(h, status)
        PROVE  /\ ClaimsSound'
               /\ \A d \in Controllers : \/ call'[d] = call[d]
                                         \/ call'[d].st = "answered" /\ call'[d].status # "ok"
    <3>1. ClientSound /\ ClaimsSound /\ UNCHANGED <<claims, task>>
      BY <1>1 DEF AdmissionInv
    <3>2. /\ ClaimsSound'
          /\ \A d \in Controllers : \/ call'[d] = call[d]
                                    \/ call'[d].st = "answered" /\ call'[d].status = status
      BY <2>2, <3>1, AnswerClaims
    <3> QED BY <2>2, <3>2
  <2> QED BY <2>1, <2>2, GateAnswers
<1>4. \A d \in Controllers, u \in SshTasks : Allowed(d, u)' => Allowed(d, u)
  BY <1>1, <1>3 DEF Allowed
<1>5. \A d \in Controllers : Clear(d) => Clear(d)'
  <2>1. ASSUME NEW d \in Controllers, Clear(d) PROVE Clear(d)'
    <3>1. job' # NoJob => job'.by # d
      BY <1>1, <2>1 DEF Clear
    <3> QED BY <1>1, <1>2, <2>1, <3>1, ClearKept
  <2> QED BY <2>1
<1>6. Excluded'
  BY <1>1, <1>4, <1>5, ExcludedKept DEF Excluded
<1> QED BY <1>3, <1>6

\* An admitted intent that runs leaves the record as it is.
LEMMA RunRecord ==
  ASSUME NEW h, NEW status, Run(h, status) PROVE RecordKept /\ UNCHANGED <<signed, disk, mem, loaded>>
BY QuietRecord DEF Run, Leave

LEMMA StartBox ==
  ASSUME BoxInv, NEW h \in handling, RunStart(h)
  PROVE  ClaimsSound' /\ Excluded'
<1> USE DEF BoxInv
<1>1. PICK status \in {"ok", "rejected"} : Run(h, status)
  BY DEF RunStart
<1>2. /\ UNCHANGED <<claims, task, listed, signed>> /\ RecordKept
      /\ h.env.kind = "start" /\ h.at = "admitted" /\ call' = Answered(h, status)
      /\ job' = job \/ job' = [by |-> h.env.ctl]
  BY <1>1, RunRecord DEF RunStart, Run, Leave
<1>3. h.env.ctl \in Controllers /\ h.env \in signed[h.env.ctl]
  BY DEF AdmissionInv, GateSound
<1>4. /\ ClaimsSound'
      /\ \A d \in Controllers : \/ call'[d] = call[d]
                                \/ /\ d = h.env.ctl /\ call[d].st = "sent" /\ call[d].n = h.env.n
                                   /\ call'[d].st = "answered"
  BY <1>2, <1>3, AnswerClaims DEF AdmissionInv
<1>5. \A d \in Controllers : call'[d] # call[d] => call[d].kind = "start" /\ call[d].st = "sent"
  BY <1>2, <1>3, <1>4 DEF AdmissionInv, ClientSound
<1>6. \A d \in Controllers, u \in SshTasks : Allowed(d, u)' => Allowed(d, u)
  <2>1. ASSUME NEW d \in Controllers, NEW u \in SshTasks, Allowed(d, u)' PROVE Allowed(d, u)
    <3>1. CASE call'[d] = call[d]
      BY <1>2, <2>1, <3>1 DEF Allowed
    <3>2. CASE call'[d] # call[d]
      <4>1. u \in Tasks /\ u # "start"
        BY BoxConstants DEF Tasks
      <4>2. task[d][u] # "asking"
        BY <1>5, <3>2, <4>1 DEF ClaimsSound
      <4> QED BY <1>2, <2>1, <4>2 DEF Allowed
    <3> QED BY <3>1, <3>2
  <2> QED BY <2>1
<1>7. \A d \in Controllers : Clear(d) => Clear(d)'
  <2>1. ASSUME NEW d \in Controllers, Clear(d) PROVE Clear(d)'
    <3>1. h.env.ctl # d
      BY <1>2, <1>3, <2>1 DEF Clear
    <3>2. job' # NoJob => job'.by # d
      BY <1>2, <2>1, <3>1 DEF Clear
    <3> QED BY <1>2, <2>1, <3>2, ClearKept
  <2> QED BY <2>1
<1>8. Excluded'
  BY <1>2, <1>6, <1>7, ExcludedKept DEF Excluded
<1> QED BY <1>4, <1>8

\* The heart of it: a listing that reaches its handler was admitted with the
\* highest number its server has signed, so every start is behind it.
LEMMA ListBox ==
  ASSUME BoxInv, NEW h \in handling, RunList(h)
  PROVE  ClaimsSound' /\ Excluded'
<1> USE DEF BoxInv
<1> DEFINE c == h.env.ctl
<1>1. /\ Run(h, "ok") /\ UNCHANGED <<job, claims, task, signed, disk, mem, loaded>> /\ RecordKept
      /\ h.env.kind = "list" /\ h.at = "admitted" /\ call' = Answered(h, "ok")
      /\ listed' = IF call' = call THEN listed ELSE [listed EXCEPT ![c] = job # NoJob]
      /\ handling' = handling \ {h}
  BY RunRecord DEF RunList, Run, Leave
<1>2. c \in Controllers /\ h.env \in signed[c]
  BY DEF AdmissionInv, GateSound
<1>3. /\ ClaimsSound'
      /\ \A d \in Controllers : \/ call'[d] = call[d]
                                \/ d = c /\ call[d].st = "sent" /\ call[d].n = h.env.n
  <2>1. /\ ClientSound /\ ClaimsSound /\ UNCHANGED <<claims, task>>
        /\ h.env.ctl \in Controllers /\ call' = Answered(h, "ok")
    BY <1>1, <1>2 DEF AdmissionInv
  <2> QED BY <2>1, AnswerClaims
<1>4. \A d \in Controllers : Clear(d) => Clear(d)'
  <2>1. ASSUME NEW d \in Controllers, Clear(d) PROVE Clear(d)'
    <3>1. job' # NoJob => job'.by # d
      BY <1>1, <2>1 DEF Clear
    <3> QED BY <1>1, <2>1, <3>1, ClearKept
  <2> QED BY <2>1
<1>5. CASE call' = call
  <2>1. \A d \in Controllers, u \in SshTasks : Allowed(d, u)' => Allowed(d, u)
    BY <1>1, <1>5 DEF Allowed
  <2>2. IsFunction(listed', Controllers)
    BY <1>1, <1>5 DEF Excluded
  <2> QED BY <1>3, <1>4, <2>1, <2>2, ExcludedKept
<1>6. CASE call' # call
  <2>1. call[c].st = "sent" /\ call[c].n = h.env.n
    BY <1>1, <1>6 DEF Answered
  <2>2. /\ IsFunction(listed', Controllers)
        /\ listed'[c] = (job # NoJob)
        /\ \A d \in Controllers : d # c => listed'[d] = listed[d]
    BY <1>1, <1>2, <1>6 DEF Excluded, IsFunction
  <2>3. \A e \in signed[c] : e.seq \in Nat /\ e.seq <= h.env.seq /\ e.ctl = c
    BY <1>2, <2>1 DEF AdmissionInv, ClientSound, EnvelopesSound
  <2>4. /\ h.env.seq \in Nat /\ disk.last[c] \in Nat /\ mem.last[c] \in Nat
        /\ h.env.seq <= disk.last[c] /\ h.env.seq <= mem.last[c]
    BY <1>1, <1>2, <2>3 DEF AdmissionInv, GateSound
  <2>5. \A g \in handling' : g.env.ctl # c
    BY <1>1 DEF AdmissionInv, GateSound
  <2>6. job = NoJob => Clear(c)'
    <3>1. \A e \in signed'[c] : e.seq <= disk'.last[c] /\ e.seq <= mem'.last[c]
      BY <1>1, <2>3, <2>4
    <3>2. \A e \in signed'[c] : \A g \in handling' : g.env # e
      BY <1>1, <2>3, <2>5
    <3> QED BY <1>1, <3>1, <3>2 DEF Clear
  <2>7. ASSUME NEW u \in SshTasks, Allowed(c, u)' PROVE Clear(c)'
    <3>1. CASE task[c][u] = "acting"
      <4>1. Allowed(c, u)
        BY <3>1 DEF Allowed
      <4>2. Clear(c)
        BY <1>2, <2>7, <4>1 DEF Excluded
      <4> QED BY <1>2, <1>4, <4>2
    <3>2. CASE task[c][u] # "acting"
      <4>1. ~listed'[c]
        BY <1>1, <2>7, <3>2 DEF Allowed
      <4> QED BY <2>2, <2>6, <4>1
    <3> QED BY <3>1, <3>2
  <2>8. ASSUME NEW d \in Controllers, d # c, NEW u \in SshTasks, Allowed(d, u)' PROVE Clear(d)'
    <3>1. Allowed(d, u)
      BY <1>1, <1>3, <2>2, <2>8 DEF Allowed
    <3> QED BY <1>4, <2>8, <3>1 DEF Excluded
  <2>9. Excluded'
    BY <2>2, <2>7, <2>8 DEF Excluded
  <2> QED BY <1>3, <2>9
<1> QED BY <1>5, <1>6

LEMMA JobEndBox == ASSUME BoxInv, JobEnd PROVE ClaimsSound' /\ Excluded'
<1> USE DEF BoxInv
<1>1. /\ UNCHANGED <<call, claims, task, listed, signed, disk, mem, loaded, handling>>
      /\ job' = NoJob
  BY DEF JobEnd, vars, gateVars, clientVars
<1>2. ClaimsSound'
  BY <1>1 DEF ClaimsSound
<1>3. \A d \in Controllers, u \in SshTasks : Allowed(d, u)' => Allowed(d, u)
  BY <1>1 DEF Allowed
<1>4. \A d \in Controllers : Clear(d) => Clear(d)'
  BY <1>1 DEF Clear
<1> QED BY <1>1, <1>2, <1>3, <1>4, ExcludedKept DEF Excluded

LEMMA BoxStep == ASSUME BoxInv, BoxNext PROVE BoxInv'
<1>0. AdmissionInv'
  BY AdmissionStep DEF BoxInv
<1>1. ASSUME NEW c \in Controllers, NEW t \in Tasks, Claim(c, t) PROVE ClaimsSound' /\ Excluded'
  BY <1>1, ClaimBox
<1>2. ASSUME NEW c \in Controllers, StartSend(c) PROVE ClaimsSound' /\ Excluded'
  BY <1>2, SendBox DEF StartSend, Tasks
<1>3. ASSUME NEW c \in Controllers, StartEnd(c) PROVE ClaimsSound' /\ Excluded'
  <2>1. UNCHANGED <<job, listed, signed, disk, mem, loaded, handling>> /\ "start" \in Tasks
    BY <1>3 DEF StartEnd, Collect, gateVars, Tasks
  <2> QED BY <1>3, <2>1, EndBox DEF StartEnd
<1>4. ASSUME NEW c \in Controllers, NEW t \in SshTasks, GuardSend(c, t) PROVE ClaimsSound' /\ Excluded'
  <2>1. t \in Tasks /\ t # "start"
    BY BoxConstants DEF Tasks
  <2>2. /\ task[c][t] = "claimed" /\ Begin(c, IF t = "start" THEN "start" ELSE "list")
        /\ task' = At(c, t, "asking") /\ UNCHANGED <<job, claims, listed>>
    BY <1>4, <2>1 DEF GuardSend
  <2> QED BY <2>1, <2>2, SendBox
<1>5. ASSUME NEW c \in Controllers, NEW t \in SshTasks, GuardEnd(c, t) PROVE ClaimsSound' /\ Excluded'
  <2>1. UNCHANGED <<job, listed, signed, disk, mem, loaded, handling>> /\ t \in Tasks
    BY <1>5 DEF GuardEnd, Collect, gateVars, Tasks
  <2>2. Collect(c) /\ task[c][t] = "asking"
    BY <1>5 DEF GuardEnd
  <2>3. \/ task' = At(c, t, "idle") /\ Release(c, t)
        \/ task' = At(c, t, "acting") /\ UNCHANGED claims /\ Allowed(c, t)
    BY <1>5 DEF GuardEnd, Allowed
  <2> QED BY <2>1, <2>2, <2>3, EndBox
<1>6. ASSUME NEW c \in Controllers, NEW t \in SshTasks, ActEnd(c, t) PROVE ClaimsSound' /\ Excluded'
  <2>1. /\ UNCHANGED <<job, listed, signed, disk, mem, loaded, handling>> /\ t \in Tasks
        /\ call' = call /\ task[c][t] = "acting" /\ task' = At(c, t, "idle") /\ Release(c, t)
    BY <1>6 DEF ActEnd, vars, gateVars, clientVars, Tasks
  <2> QED BY <2>1, EndBox
<1>7. ASSUME NEW c \in Controllers, ServerRestart(c) PROVE ClaimsSound' /\ Excluded'
  BY <1>7, ServerRestartBox
<1>8. ASSUME NEW c \in Controllers, ClientStep(c), UNCHANGED boxVars PROVE ClaimsSound' /\ Excluded'
  BY <1>0, <1>8, ClientBox
<1>9. ASSUME GateStep, UNCHANGED boxVars PROVE ClaimsSound' /\ Excluded'
  BY <1>9, GateBox
<1>10. ASSUME NEW h \in handling, RunStart(h) \/ RunList(h) PROVE ClaimsSound' /\ Excluded'
  BY <1>10, StartBox, ListBox
<1>11. ASSUME JobEnd PROVE ClaimsSound' /\ Excluded'
  BY <1>11, JobEndBox
<1> QED BY <1>0, <1>1, <1>2, <1>3, <1>4, <1>5, <1>6, <1>7, <1>8, <1>9, <1>10, <1>11 DEF BoxNext, BoxInv

LEMMA BoxStutter == ASSUME BoxInv, UNCHANGED allVars PROVE BoxInv'
<1>1. /\ UNCHANGED <<call, job, claims, task, listed, signed, disk, mem, loaded, handling>>
      /\ AdmissionInv'
  BY QuietInv DEF allVars, vars, gateVars, clientVars, boxVars, BoxInv
<1>2. ClaimsSound'
  BY <1>1 DEF BoxInv, ClaimsSound
<1>3. Excluded'
  BY <1>1 DEF BoxInv, Excluded, Allowed, Clear
<1> QED BY <1>1, <1>2, <1>3 DEF BoxInv

\* claimJobStart, claimSetupRun, claimTargetOp and refuseDuringJob keep setup
\* and clear off a box beside a job the same server started, although a start
\* may reach the gate after its caller and its claim are gone.
THEOREM NodeExclusiveTheorem == BoxSpec => []NodeExclusive
<1>1. BoxInit => BoxInv
  BY InitInv
<1>2. BoxInv /\ [BoxNext]_allVars => BoxInv'
  BY BoxStep, BoxStutter
<1>3. BoxInv => NodeExclusive
  BY DEF BoxInv, Excluded, Allowed, Clear, NodeExclusive
<1> QED BY <1>1, <1>2, <1>3, PTL DEF BoxSpec
=============================================================================
