--------------------------- MODULE IntentAdmission ---------------------------
(***************************************************************************)
(* Signed intents between the controllers and one gate: the client's Do    *)
(* (internal/agentclient), the network, and the gate's Handle with its     *)
(* replay record (internal/agent).  What an intent does once it is         *)
(* admitted belongs to the module that extends this one: Run(h, status)    *)
(* is the dispatch, whose status the extending module decides.             *)
(*                                                                         *)
(* A request crosses the network at most once, late or not at all, in any  *)
(* order; an envelope the gate has read may be captured and shown to it    *)
(* again at any time.                                                      *)
(***************************************************************************)
EXTENDS Integers, Sequences, FiniteSets

CONSTANTS
  Controllers,   \* the enrolled controller keys
  Kinds,         \* the kinds of intent
  Budgets,       \* bound: how many envelopes each controller may sign, one of these functions
  MaxNow,        \* bound: the last second of the gate's clock
  MaxFaults,     \* bound: restarts of the gate or a server, and failed writes, together
  Lifetime,      \* seconds an intent says it is good for
  Skew           \* seconds two clocks may differ

ASSUME AdmissionConstants ==
  /\ Budgets \subseteq [Controllers -> Nat]
  /\ MaxNow \in Nat /\ MaxFaults \in Nat /\ Lifetime \in Nat /\ Skew \in Nat

VARIABLES
  now,       \* the gate's clock
  disk,      \* replay.json: last sequence of each controller, and the nonces seen
  mem,       \* Replay.st, the record the running gate compares with
  loaded,    \* Agent.replayErr is nil
  busy,      \* Agent.busy
  handling,  \* the Handle calls between the claim and the answer
  net,       \* envelopes posted and not yet read by the gate (one that is lost stays here)
  signed,    \* signed[c]: every envelope c has signed (its size is the nonce counter)
  left,      \* left[c]: how many more envelopes c may sign
  next,      \* AgentPairing.NextSeq in c's config file
  call,      \* Client.send of c, one at a time (intentMu)
  faults,    \* how many faults have happened
  ran        \* history: ran[c] is the intents of c that ran, in order

gateVars == <<disk, mem, loaded, busy, handling, ran>>
clientVars == <<signed, left, next, call>>
vars == <<now, gateVars, net, clientVars, faults>>

-----------------------------------------------------------------------------
NonceOf(e) == [ctl |-> e.ctl, n |-> e.n]

\* What a receipt says: the intent ran (to its end or to a failure), the
\* replay record found its number used, or it was refused for another reason.
Statuses == {"ok", "stale", "rejected"}

Idle == [st |-> "idle", do |-> 0]
\* Mutant: a nonce is pruned in the last second its intent is accepted.
FreshStrict(r, t) == {s \in r.seen : s.until > t}

Fresh(r, t) == {s \in r.seen : s.until >= t}

Init ==
  /\ now = 0
  /\ disk = [last |-> [c \in Controllers |-> 0], seen |-> {}]
  /\ mem = disk
  /\ loaded = TRUE
  /\ busy = {}
  /\ handling = {}
  /\ net = {}
  /\ signed = [c \in Controllers |-> {}]
  /\ left \in Budgets
  /\ next = [c \in Controllers |-> 1]
  /\ call = [c \in Controllers |-> Idle]
  /\ faults = 0
  /\ ran = [c \in Controllers |-> <<>>]

-----------------------------------------------------------------------------
(* The client. call[c].st is "idle" (no Do runs), "ready" (about to sign),  *)
(* "sent" (waiting for the answer to its envelope n), "answered" (a         *)
(* verified answer is in hand) or "done" (Do has returned res).             *)

\* A caller takes intentMu and starts a Do of one payload.
Begin(c, kind) ==
  /\ call[c].st = "idle"
  /\ left[c] > 0
  /\ call' = [call EXCEPT ![c] = [st |-> "ready", do |-> @.do + 1, kind |-> kind, attempt |-> 0]]
  /\ UNCHANGED <<now, gateVars, net, signed, left, next, faults>>

\* once, up to the post: the number from the config, a new nonce.
Post(c) ==
  LET e == [ctl |-> c, n |-> Cardinality(signed[c]) + 1, seq |-> next[c],
            kind |-> call[c].kind, expiry |-> now + Lifetime, do |-> call[c].do]
  IN /\ call[c].st = "ready"
     /\ left[c] > 0
     /\ signed' = [signed EXCEPT ![c] = @ \cup {e}]
     /\ left' = [left EXCEPT ![c] = @ - 1]
     /\ net' = net \cup {e}
     /\ call' = [call EXCEPT ![c] = [st |-> "sent", do |-> @.do, kind |-> @.kind,
                                     attempt |-> @.attempt, n |-> e.n, seq |-> e.seq]]
     /\ UNCHANGED <<now, gateVars, next, faults>>

Return(c, res) == [call EXCEPT ![c] = [st |-> "done", do |-> @.do, kind |-> @.kind, res |-> res]]

\* Mutant: a caller without an answer sends its payload again with a new number.
GiveUpResends(c) ==
  /\ call[c].st = "sent" /\ call[c].attempt = 0
  /\ next' = [next EXCEPT ![c] = call[c].seq + 1]
  /\ call' = [call EXCEPT ![c] = [st |-> "ready", do |-> @.do, kind |-> @.kind, attempt |-> 1]]
  /\ UNCHANGED <<now, gateVars, net, signed, left, faults>>

\* The post fails, times out or its context ends: the caller gets an error
\* and the number is not advanced, whatever became of the envelope.
GiveUp(c) ==
  /\ call[c].st = "sent"
  /\ call' = Return(c, "error")
  /\ UNCHANGED <<now, gateVars, net, signed, left, next, faults>>

\* Mutant: the number is set to the gate's last one, not past it.
ReceiveAtLast(c) ==
  /\ call[c].st = "answered"
  /\ IF call[c].status = "stale" /\ call[c].attempt = 0
     THEN /\ next' = [next EXCEPT ![c] = call[c].lastSeq]
          /\ call' = [call EXCEPT ![c] = [st |-> "ready", do |-> @.do, kind |-> @.kind, attempt |-> 1]]
     ELSE /\ next' = [next EXCEPT ![c] = call[c].seq + 1]
          /\ call' = Return(c, IF call[c].status = "stale" THEN "rejected" ELSE call[c].status)
  /\ UNCHANGED <<now, gateVars, net, signed, left, faults>>

\* Mutant: stale_seq is not told from the other answers.
ReceiveNoRetry(c) ==
  /\ call[c].st = "answered"
  /\ next' = [next EXCEPT ![c] = call[c].seq + 1]
  /\ call' = Return(c, call[c].status)
  /\ UNCHANGED <<now, gateVars, net, signed, left, faults>>

\* A verified answer: the number moves past it, and one stale_seq moves it
\* past the gate's own and sends the payload again.
Receive(c) ==
  /\ call[c].st = "answered"
  /\ IF call[c].status = "stale" /\ call[c].attempt = 0
     THEN /\ next' = [next EXCEPT ![c] = call[c].lastSeq + 1]
          /\ call' = [call EXCEPT ![c] = [st |-> "ready", do |-> @.do, kind |-> @.kind, attempt |-> 1]]
     ELSE /\ next' = [next EXCEPT ![c] = call[c].seq + 1]
          /\ call' = Return(c, IF call[c].status = "stale" THEN "rejected" ELSE call[c].status)
  /\ UNCHANGED <<now, gateVars, net, signed, left, faults>>

\* The config cannot be saved: the answer is thrown away, with the number or
\* after it was saved once and before it was set to the gate's.
ReceiveUnsaved(c) ==
  /\ call[c].st = "answered"
  /\ faults < MaxFaults
  /\ faults' = faults + 1
  /\ \/ UNCHANGED next
     \/ call[c].status = "stale" /\ call[c].attempt = 0 /\ next' = [next EXCEPT ![c] = call[c].seq + 1]
  /\ call' = Return(c, "error")
  /\ UNCHANGED <<now, gateVars, net, signed, left>>

\* The caller takes the result and lets intentMu go.
Collect(c) ==
  /\ call[c].st = "done"
  /\ call' = [call EXCEPT ![c] = [st |-> "idle", do |-> @.do]]
  /\ UNCHANGED <<now, gateVars, net, signed, left, next, faults>>

-----------------------------------------------------------------------------
(* The gate. *)

\* The receipt goes out on the connection its envelope came in on, which is
\* the client's only if the client still waits there.
Answered(h, status) ==
  LET c == h.env.ctl
  IN IF h.live /\ call[c].st = "sent" /\ call[c].n = h.env.n
     THEN [call EXCEPT ![c] = [st |-> "answered", do |-> @.do, kind |-> @.kind, attempt |-> @.attempt,
                               n |-> @.n, seq |-> @.seq, status |-> status, lastSeq |-> mem.last[c]]]
     ELSE call

\* Mutant: intents of one controller are handled side by side.
ArriveUnclaimed(e, live) ==
  /\ net' = IF live THEN net \ {e} ELSE net
  /\ now <= e.expiry + Skew
  /\ busy' = busy \cup {e.ctl}
  /\ handling' = handling \cup {[env |-> e, live |-> live, at |-> "claimed", time |-> now]}
  /\ UNCHANGED <<now, disk, mem, loaded, ran, call, signed, left, next, faults>>

\* Handle up to the claim, for an envelope first read on the client's own
\* connection (live) or shown again. Signature, scope and policy can refuse
\* any envelope, since the policy file may have changed.
Arrive(e, live) ==
  LET h == [env |-> e, live |-> live, at |-> "claimed", time |-> now]
      late == now > e.expiry + Skew
  IN /\ net' = IF live THEN net \ {e} ELSE net
     /\ \/ /\ call' = Answered(h, "rejected")
           /\ UNCHANGED <<busy, handling>>
        \/ /\ ~late
           /\ e.ctl \notin busy
           /\ busy' = busy \cup {e.ctl}
           /\ handling' = handling \cup {h}
           /\ UNCHANGED call
     /\ UNCHANGED <<now, disk, mem, loaded, ran, signed, left, next, faults>>

Captured == (UNION {signed[c] : c \in Controllers}) \ net
Deliver(e) == e \in net /\ Arrive(e, TRUE)
Replayed(e) == e \in Captured /\ Arrive(e, FALSE)

\* Handle returns: the answer is signed and the claim released.
Leave(h, status) ==
  /\ call' = Answered(h, status)
  /\ handling' = handling \ {h}
  /\ busy' = busy \ {h.env.ctl}

\* currentReplay on a gate whose record did not load: it loads now, if an
\* operator has put the file back, or the intent is refused.
Reload(h) ==
  /\ h \in handling /\ h.at = "claimed"
  /\ ~loaded
  /\ \/ loaded' = TRUE /\ mem' = disk /\ UNCHANGED <<call, handling, busy>>
     \/ Leave(h, "rejected") /\ UNCHANGED <<loaded, mem>>
  /\ UNCHANGED <<now, disk, ran, net, signed, left, next, faults>>

Stale(h) == h.env.seq <= mem.last[h.env.ctl]
Seen(h) == \E s \in mem.seen : s.nonce = NonceOf(h.env) /\ h.time <= s.until

\* The record with h's number and nonce, expired nonces pruned.
Admitted(h) ==
  [last |-> [mem.last EXCEPT ![h.env.ctl] = h.env.seq],
   seen |-> {s \in Fresh(mem, h.time) : s.nonce # NonceOf(h.env)}
              \cup {[nonce |-> NonceOf(h.env), until |-> h.env.expiry + Skew]}]

AdmitRefused(h) ==
  /\ h \in handling /\ h.at = "claimed" /\ loaded
  /\ \/ Stale(h) /\ Leave(h, "stale")
     \/ ~Stale(h) /\ Seen(h) /\ Leave(h, "rejected")
  /\ UNCHANGED <<now, disk, mem, loaded, ran, net, signed, left, next, faults>>

\* The acceptance is on disk before it is in memory and before anything runs.
Admit(h) ==
  /\ h \in handling /\ h.at = "claimed" /\ loaded
  /\ ~Stale(h) /\ ~Seen(h)
  /\ disk' = Admitted(h)
  /\ mem' = disk'
  /\ handling' = (handling \ {h}) \cup {[h EXCEPT !.at = "admitted"]}
  /\ UNCHANGED <<now, loaded, busy, ran, net, clientVars, faults>>

\* The write fails. The new record may be on disk all the same (the rename
\* was done and the directory could not be synced); memory keeps the old one.
AdmitUnsaved(h) ==
  /\ h \in handling /\ h.at = "claimed" /\ loaded
  /\ ~Stale(h) /\ ~Seen(h)
  /\ faults < MaxFaults
  /\ faults' = faults + 1
  /\ \/ disk' = Admitted(h)
     \/ UNCHANGED disk
  /\ Leave(h, "rejected")
  /\ UNCHANGED <<now, mem, loaded, ran, net, signed, left, next>>

\* dispatch and the answer. status is "rejected" when the operation refused
\* the intent: its number is spent and nothing ran.
Run(h, status) ==
  /\ h \in handling /\ h.at = "admitted"
  /\ ran' = IF status = "rejected" THEN ran ELSE [ran EXCEPT ![h.env.ctl] = Append(@, h.env)]
  /\ Leave(h, status)
  /\ UNCHANGED <<now, disk, mem, loaded, net, signed, left, next, faults>>

\* The gate stops at any point and starts again: what it was handling is
\* gone, and the record is what the file says, unless the file is missing or
\* damaged. (reset-replay, which starts an empty one and says that it reopens
\* the replay window, is not modelled: the file that comes back is the same.)
Restart ==
  /\ faults < MaxFaults
  /\ faults' = faults + 1
  /\ busy' = {} /\ handling' = {}
  /\ \/ loaded' = TRUE /\ mem' = disk
     \/ loaded' = FALSE /\ UNCHANGED mem
  /\ UNCHANGED <<now, disk, ran, net, clientVars>>

-----------------------------------------------------------------------------
Tick ==
  /\ now < MaxNow
  /\ now' = now + 1
  /\ UNCHANGED <<gateVars, net, clientVars, faults>>

\* Every step but Begin, Collect and Run, which the extending module drives.
ClientStep(c) == Post(c) \/ GiveUp(c) \/ Receive(c) \/ ReceiveUnsaved(c)
GateStep ==
  \/ \E e \in net : Deliver(e)
  \/ \E e \in Captured : Replayed(e)
  \/ \E h \in handling : Reload(h) \/ AdmitRefused(h) \/ Admit(h) \/ AdmitUnsaved(h)
  \/ Restart \/ Tick

-----------------------------------------------------------------------------
\* The record on disk, and the one in memory when it loaded, are never below
\* a number that ran: whatever is lost or restarted, it cannot run again.
RanRecorded ==
  \A c \in Controllers : \A k \in DOMAIN ran[c] :
     /\ ran[c][k].seq <= disk.last[c]
     /\ loaded => ran[c][k].seq <= mem.last[c]

\* The second line of defence: as long as the clock would still accept an
\* intent that ran, the record on disk has its nonce, whatever was pruned.
NonceOutlivesIntent ==
  \A c \in Controllers : \A k \in DOMAIN ran[c] :
     now <= ran[c][k].expiry + Skew => \E s \in disk.seen : s.nonce = NonceOf(ran[c][k])

\* One Do runs its payload at most once, the retry after stale_seq included.
OncePerCall ==
  \A c \in Controllers : \A j, k \in DOMAIN ran[c] : ran[c][j].do = ran[c][k].do => j = k

\* One retry is enough: the answer to the second attempt is never stale_seq,
\* although envelopes whose caller gave up are still on their way.
RetryNeverStale ==
  \A c \in Controllers :
     call[c].st = "answered" /\ call[c].attempt = 1 => call[c].status # "stale"

\* The promise: intents run in the order of their numbers, none twice.
Turn == INSTANCE Turnstile
TurnstileSpec == Turn!Spec
=============================================================================
