---------------------------- MODULE RelayStreams -----------------------------
(***************************************************************************)
(* The relay's subscriptions on one chain (internal/relay/streams.go): the *)
(* poll loop every subscriber shares, found or started by Subscribe,       *)
(* retired with its last subscriber, and a bounded queue and a sender per  *)
(* subscriber.  The loop's poller is HeadPoller's.                         *)
(*                                                                         *)
(* A subscription is an element of Subs and is made once; a client that    *)
(* comes back makes another.  Stop, which only tests call, and the syncing *)
(* kind, which does not follow the heads, are left out.                    *)
(***************************************************************************)
EXTENDS HeadPoller

CONSTANTS
  Subs,      \* subscriptions
  Kind,      \* Kind[s] is "newHeads" or "logs"
  QueueLen,  \* PollerStreams.queueLen
  None

ASSUME StreamConstants ==
  /\ Kind \in [Subs -> {"newHeads", "logs"}]
  /\ QueueLen \in Nat \ {0}
  /\ None \notin Nat
  /\ Budgets \subseteq [mine : Nat, retreat : Nat, fail : Nat, forks : Nat, subs : SUBSET Subs]

VARIABLES
  loops,    \* how many loops have been started: the youngest loop's name
  running,  \* PollerStreams.loops holds loop `loops', which is then not retired
  st,       \* st[s]: "new", "found", "on" (in the loop's subs), "lost" (dropped), "gone" (closed)
  at,       \* at[s]: the loop Subscribe found, and attached to
  queue,    \* queue[s]: subscriber.queue, of heads by the order they were fanned out in
  hand,     \* hand[s]: what the sender has received and is about to notify, or None
  seen,     \* seen[s]: the last head s was notified of (the last it comes too late for, at first)
  fanned,   \* how many heads the running loop has fanned out
  fan       \* the loop's fan-out: its phase and the snapshot of subscribers still to be offered to

subVars == <<st, at, queue, hand, seen>>
streamVars == <<loops, running, subVars, fanned, fan>>
vars == <<headVars, streamVars>>

NoFan == [pc |-> "rest", to |-> {}]

Init ==
  /\ HeadInit
  /\ loops = 0 /\ running = FALSE
  /\ st = [s \in Subs |-> "new"]
  /\ at = [s \in Subs |-> 0]
  /\ queue = [s \in Subs |-> <<>>]
  /\ hand = [s \in Subs |-> None]
  /\ seen = [s \in Subs |-> 0]
  /\ fanned = 0
  /\ fan = NoFan

\* The subscribers in loop l's map.
Attached(l) == {s \in Subs : st[s] = "on" /\ at[s] = l}

-----------------------------------------------------------------------------
(* Subscribing and leaving. *)

\* Subscribe, under the streams' lock: the registered loop, or a new one.
Find(s) ==
  /\ st[s] = "new"
  /\ s \in left.subs
  /\ st' = [st EXCEPT ![s] = "found"]
  /\ IF running
     THEN /\ at' = [at EXCEPT ![s] = loops]
          /\ UNCHANGED <<loops, running, fanned, fan, pollerVars>>
     ELSE /\ loops' = loops + 1 /\ running' = TRUE
          /\ at' = [at EXCEPT ![s] = loops']
          /\ fanned' = 0 /\ fan' = NoFan
          /\ NewPoller
  /\ UNCHANGED <<queue, hand, seen, chain, left>>

\* Mutant: attach does not look whether its loop was retired.
AttachUnasked(s) ==
  /\ st[s] = "found"
  /\ st' = [st EXCEPT ![s] = "on"]
  /\ seen' = [seen EXCEPT ![s] = fanned]
  /\ UNCHANGED <<headVars, loops, running, at, queue, hand, fanned, fan>>

\* attach, under the loop's lock: a retired loop sends Subscribe back.
Attach(s) ==
  /\ st[s] = "found"
  /\ IF running /\ at[s] = loops
     THEN /\ st' = [st EXCEPT ![s] = "on"]
          /\ seen' = [seen EXCEPT ![s] = IF Kind[s] = "logs" /\ fan.pc = "newHeads" THEN fanned - 1 ELSE fanned]
     ELSE st' = [st EXCEPT ![s] = "new"] /\ UNCHANGED seen
  /\ UNCHANGED <<headVars, loops, running, at, queue, hand, fanned, fan>>

\* Mutant: the loop is unregistered and not cancelled.
RetireUncancelled ==
  /\ running' = FALSE
  /\ UNCHANGED <<fan, poll>>

\* The loop ends: what it was reading or fanning out has nobody left to reach.
Retire ==
  /\ running' = FALSE
  /\ fan' = NoFan
  /\ poll' = [pc |-> "off"]

\* Mutant: the handle of a subscriber that was dropped has nothing to do.
CloseDropped(s) ==
  /\ st[s] \in {"on", "lost"}
  /\ st' = [st EXCEPT ![s] = "gone"]
  /\ IF running /\ st[s] = "on" /\ Attached(loops) \subseteq {s}
     THEN Retire /\ UNCHANGED <<chain, left, window, last, primed, told, spoilt>>
     ELSE UNCHANGED <<headVars, running, fan>>
  /\ UNCHANGED <<loops, at, queue, hand, seen, fanned>>

\* The handle's Close (detach): s leaves its loop, which is retired and
\* unregistered in the same step when that leaves it empty. A dropped s has
\* left already, and its loop may have been replaced since.
Close(s) ==
  /\ st[s] \in {"on", "lost"}
  /\ st' = [st EXCEPT ![s] = "gone"]
  /\ IF running /\ at[s] = loops /\ Attached(loops) \subseteq {s}
     THEN Retire /\ UNCHANGED <<chain, left, window, last, primed, told, spoilt>>
     ELSE UNCHANGED <<headVars, running, fan>>
  /\ UNCHANGED <<loops, at, queue, hand, seen, fanned>>

-----------------------------------------------------------------------------
(* The loop hands out the heads Poll returned: each to the subscribers of   *)
(* newHeads, then its logs to theirs.                                       *)

Snapshot(kind) == {s \in Attached(loops) : Kind[s] = kind}

FanHead ==
  /\ poll.pc = "deliver" /\ fan.pc = "rest"
  /\ fanned' = fanned + 1
  /\ told' = Head(poll.out).block
  /\ fan' = [pc |-> "newHeads", to |-> Snapshot("newHeads")]
  /\ UNCHANGED <<chain, left, window, last, primed, poll, spoilt, loops, running, subVars>>

\* Mutant: a payload the queue has no room for is skipped.
OfferedSkips(s) ==
  /\ queue' = [queue EXCEPT ![s] = IF Len(@) < QueueLen THEN Append(@, fanned) ELSE @]
  /\ UNCHANGED <<st, at, hand, seen>>

\* offer, and drop when the queue is full. A subscriber that left since the
\* snapshot was taken is offered to in vain.
Offered(s) ==
  /\ IF Len(queue[s]) < QueueLen
     THEN queue' = [queue EXCEPT ![s] = Append(@, fanned)] /\ UNCHANGED st
     ELSE st' = [st EXCEPT ![s] = IF @ = "on" THEN "lost" ELSE @] /\ UNCHANGED queue
  /\ UNCHANGED <<at, hand, seen>>

Offer(s) ==
  /\ s \in fan.to
  /\ fan' = [fan EXCEPT !.to = @ \ {s}]
  /\ \/ Offered(s) /\ UNCHANGED left
     \/ \* eth_getLogs fails: the subscriber misses this head's logs.
        /\ fan.pc = "logs" /\ Spend("fail")
        /\ UNCHANGED subVars
  /\ UNCHANGED <<chain, pollerVars, loops, running, fanned>>

FanLogs ==
  /\ fan.pc = "newHeads" /\ fan.to = {}
  /\ fan' = [pc |-> "logs", to |-> Snapshot("logs")]
  /\ UNCHANGED <<headVars, loops, running, subVars, fanned>>

FanDone ==
  /\ fan.pc = "logs" /\ fan.to = {}
  /\ fan' = NoFan
  /\ poll' = Returned(Tail(poll.out))
  /\ UNCHANGED <<chain, left, window, last, primed, told, spoilt, loops, running, subVars, fanned>>

-----------------------------------------------------------------------------
(* A subscriber's sender. *)

\* It receives a payload and looks once more whether the subscriber left.
Take(s) ==
  /\ st[s] = "on" /\ hand[s] = None /\ queue[s] # <<>>
  /\ hand' = [hand EXCEPT ![s] = Head(queue[s])]
  /\ queue' = [queue EXCEPT ![s] = Tail(@)]
  /\ UNCHANGED <<headVars, loops, running, st, at, seen, fanned, fan>>

\* notify returns; Close does not wait for it.
Notify(s) ==
  /\ hand[s] # None
  /\ seen' = [seen EXCEPT ![s] = hand[s]]
  /\ hand' = [hand EXCEPT ![s] = None]
  /\ UNCHANGED <<headVars, loops, running, st, at, queue, fanned, fan>>

LoopStep == FanHead \/ FanLogs \/ FanDone \/ \E s \in Subs : Offer(s)

Next ==
  \/ (UpstreamStep \/ PollStep \/ ReadFailed) /\ UNCHANGED streamVars
  \/ LoopStep
  \/ \E s \in Subs : Find(s) \/ Attach(s) \/ Close(s) \/ Take(s) \/ Notify(s)

\* The loop's goroutine and each Subscribe go on, and a dropped subscriber's
\* session ends; nothing says that a client leaves or reads what it is sent.
Fairness ==
  /\ WF_vars(PollStep /\ UNCHANGED streamVars)
  /\ WF_vars(ReadFailed /\ ~Available /\ UNCHANGED streamVars)
  /\ WF_vars(LoopStep)
  /\ \A s \in Subs : WF_vars(Find(s) /\ at[s] # 0) /\ WF_vars(Attach(s)) /\ WF_vars(Close(s) /\ st[s] = "lost")

Spec == Init /\ [][Next]_vars /\ Fairness

-----------------------------------------------------------------------------
TypeOK ==
  /\ poll.pc = "off" <=> ~running
  /\ \A h \in DOMAIN window : h \in Nat /\ Number(window[h]) = h
  /\ \A s \in Subs :
        /\ st[s] \in {"new", "found", "on", "lost", "gone"}
        /\ at[s] \in 0 .. loops /\ Len(queue[s]) <= QueueLen
        /\ hand[s] # None => hand[s] \in Nat \ {0}
  /\ fan.pc \in {"rest", "newHeads", "logs"} /\ fan.to \subseteq Subs

\* No subscriber is left on a loop that has stopped, whoever left while it
\* was between finding the loop and attaching to it, and whoever closes late.
LiveAttached == \A s \in Subs : st[s] = "on" => running /\ at[s] = loops

\* A chain is polled only while somebody is there to stop it: a subscriber
\* that will close its handle, or one about to attach.
LoopWatched == running => \E s \in Subs : st[s] \in {"found", "on", "lost"} /\ at[s] = loops

\* A subscriber of newHeads is sent every head fanned out since it attached,
\* in order and once, until it leaves or is dropped; one of logs is never
\* sent a head's logs twice or out of order.
Sent(s) == <<seen[s]>> \o (IF hand[s] = None THEN <<>> ELSE <<hand[s]>>) \o queue[s]
NoHoles ==
  \A s \in Subs :
     st[s] = "on" =>
       LET p == Sent(s)
           n == Len(p)
       IN IF Kind[s] = "newHeads"
          THEN /\ \A k \in 1 .. n - 1 : p[k+1] = p[k] + 1
               /\ p[n] = IF s \in fan.to THEN fanned - 1 ELSE fanned
          ELSE \A k \in 1 .. n - 1 : p[k+1] > p[k]

\* What a head the loop hands out is to the one before: its child; a head
\* past a gap too long to catch up; the first of a replacement branch, new to
\* the client and on a parent it has seen; or the head of a branch that forked
\* off below everything the poller remembered. A head that does not extend
\* the one before is always marked.
Follows(head, b) ==
  LET parent == Ancestor(head.block, Number(head.block) - 1)
  IN IF head.reorged
     THEN /\ ~Extends(head.block, b)
          /\ \/ Extends(b, parent) /\ ~Extends(b, head.block)
             \/ /\ head.kept # {}
                /\ \A h \in head.kept : h <= Number(b) => ~Extends(head.block, Ancestor(b, h))
     ELSE \/ parent = b
          \/ Extends(head.block, b) /\ Number(head.block) > Number(b) + MaxCatchUpBlocks

\* Unless a poll was disturbed in a way it does not handle, clients are never
\* left on an abandoned branch, and never miss or repeat a head unawares.
HeadsLinked ==
  [][(poll.pc = "deliver" /\ fanned' = fanned + 1) => spoilt \/ Follows(Head(poll.out), told)]_vars

\* The poller always finds its way back to the upstream's branch, whatever
\* reorgs, gaps and failures came before; while the upstream lags on that
\* branch, there is nothing to do. A window backfilled across a reorg can take
\* a shorter new branch for lag, until it is as long as the old one.
CatchesUp ==
  []<>(running => primed /\ (Extends(last, chain) \/ (spoilt /\ Number(chain) < Number(last))))

\* head.go's and streams.go's comments: a poll that fails does not advance the
\* cursor, so between polls the cursor is the head last handed out.
CursorDelivered == primed /\ poll.pc = "idle" => told = last
=============================================================================
