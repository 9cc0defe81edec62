-------------------------- MODULE RelayStreamsProofs --------------------------
(***************************************************************************)
(* Proofs about RelayStreams for every set of subscriptions, queue length, *)
(* reorg depth and catch-up bound: types, and that nobody is left on a     *)
(* loop that has stopped, that no loop polls for nobody, that what a       *)
(* subscriber is sent has no holes, and that each head handed out follows  *)
(* the one before.                                                         *)
(***************************************************************************)
EXTENDS RelayStreams, SequenceTheorems, TLAPS

-----------------------------------------------------------------------------
(* Blocks. *)

Blocks == Seq(Nat)

\* A block's number is a natural, and its ancestors are blocks, each with
\* those below it as its own.
LEMMA BlockFacts ==
  ASSUME NEW b \in Blocks
  PROVE  /\ Number(b) \in Nat
         /\ Ancestor(b, Number(b)) = b
         /\ \A n \in 0 .. Number(b) :
              /\ Ancestor(b, n) \in Blocks
              /\ Number(Ancestor(b, n)) = n
              /\ \A m \in 0 .. n : Ancestor(Ancestor(b, n), m) = Ancestor(b, m)
<1>1. Number(b) \in Nat
  BY DEF Number, Blocks
<1>2. Ancestor(b, Number(b)) = b
  BY DEF Number, Ancestor, Blocks
<1>3. ASSUME NEW n \in 0 .. Number(b)
      PROVE  /\ Ancestor(b, n) \in Blocks
             /\ Number(Ancestor(b, n)) = n
             /\ \A i \in 1 .. n : Ancestor(b, n)[i] = b[i]
  BY <1>1 DEF Number, Ancestor, Blocks
<1>4. ASSUME NEW n \in 0 .. Number(b), NEW m \in 0 .. n
      PROVE  Ancestor(Ancestor(b, n), m) = Ancestor(b, m)
  <2> DEFINE a == Ancestor(b, n)
  <2>1. /\ a \in Blocks /\ Number(a) = n
        /\ \A i \in 1 .. n : a[i] = b[i]
    BY <1>3
  <2>2. m \in 0 .. Number(b)
    BY <1>1
  <2>3. /\ Ancestor(b, m) \in Seq(Nat) /\ Len(Ancestor(b, m)) = m
        /\ \A i \in 1 .. m : Ancestor(b, m)[i] = b[i]
    BY <1>3, <2>2 DEF Number, Blocks
  <2>4. /\ Ancestor(a, m) \in Seq(Nat) /\ Len(Ancestor(a, m)) = m
        /\ \A i \in 1 .. m : Ancestor(a, m)[i] = a[i]
    <3> HIDE DEF a
    <3> QED BY <2>1 DEF Number, Ancestor, Blocks
  <2>5. \A i \in 1 .. m : Ancestor(a, m)[i] = Ancestor(b, m)[i]
    BY <2>1, <2>3, <2>4, <1>1
  <2> HIDE DEF a
  <2>6. Ancestor(a, m) = Ancestor(b, m)
    BY <2>3, <2>4, <2>5
  <2> QED BY <2>6 DEF a
<1> QED BY <1>1, <1>2, <1>3, <1>4

\* A block mined on another keeps its ancestors.
LEMMA ChildFacts ==
  ASSUME NEW b \in Blocks, NEW x \in Nat
  PROVE  /\ Append(b, x) \in Blocks
         /\ Number(Append(b, x)) = Number(b) + 1
         /\ \A n \in 0 .. Number(b) : Ancestor(Append(b, x), n) = Ancestor(b, n)
<1> DEFINE c == Append(b, x)
<1>1. c \in Seq(Nat) /\ Len(c) = Len(b) + 1 /\ \A i \in 1 .. Len(b) : c[i] = b[i]
  BY DEF Blocks
<1>2. ASSUME NEW n \in 0 .. Len(b)
      PROVE  Ancestor(c, n) = Ancestor(b, n)
  <2> HIDE DEF c
  <2>1. /\ Ancestor(c, n) \in Seq(Nat) /\ Len(Ancestor(c, n)) = n
        /\ \A i \in 1 .. n : Ancestor(c, n)[i] = c[i]
    BY <1>1 DEF Ancestor, Blocks
  <2>2. /\ Ancestor(b, n) \in Seq(Nat) /\ Len(Ancestor(b, n)) = n
        /\ \A i \in 1 .. n : Ancestor(b, n)[i] = b[i]
    BY DEF Ancestor, Blocks
  <2>3. Len(b) \in Nat
    BY DEF Blocks
  <2>4. \A i \in 1 .. n : i \in 1 .. Len(b)
    BY <2>3
  <2>5. \A i \in 1 .. n : Ancestor(c, n)[i] = Ancestor(b, n)[i]
    BY <1>1, <2>1, <2>2, <2>4
  <2> QED BY <2>1, <2>2, <2>5
<1> QED BY <1>1, <1>2 DEF Blocks, Number

-----------------------------------------------------------------------------
(* The poller's types. *)

Heads == [block : Blocks, reorged : BOOLEAN, kept : SUBSET Nat]

IsWindow(w) ==
  /\ w = [h \in DOMAIN w |-> w[h]]
  /\ DOMAIN w \subseteq Nat
  /\ \A h \in DOMAIN w : w[h] \in Blocks /\ Number(w[h]) = h

PrimeTypes ==
  poll.pc = "prime" =>
    /\ poll = [pc |-> "prime", head |-> poll.head, at |-> poll.at, fresh |-> poll.fresh, why |-> poll.why]
    /\ poll.head \in Blocks /\ poll.at \in Nat /\ IsWindow(poll.fresh)
    /\ Lowest(poll.head) <= poll.at /\ poll.at < Number(poll.head)
    /\ poll.why \in {"first", "gap", "deep"} /\ (primed <=> poll.why # "first")

\* The walk starts at the lower of the two heads and goes no further down
\* than the reorg depth.
WalkTypes ==
  poll.pc = "walk" =>
    /\ poll = [pc |-> "walk", head |-> poll.head, start |-> poll.start, at |-> poll.at]
    /\ poll.head \in Blocks
    /\ poll.start \in Nat /\ poll.at \in Nat
    /\ poll.at <= poll.start /\ poll.start - poll.at <= MaxReorgDepth
    /\ poll.start = IF Number(poll.head) <= Number(last) THEN Number(poll.head) ELSE Number(last)

FillTypes ==
  poll.pc = "fill" =>
    /\ poll = [pc |-> "fill", at |-> poll.at, to |-> poll.to, reorged |-> poll.reorged, out |-> poll.out]
    /\ poll.at \in Nat \ {0} /\ poll.to \in Nat /\ poll.at <= poll.to
    /\ poll.reorged \in BOOLEAN /\ poll.out \in Seq(Heads)

DeliverTypes ==
  poll.pc = "deliver" =>
    poll = [pc |-> "deliver", out |-> poll.out] /\ poll.out \in Seq(Heads) /\ poll.out # <<>>

PollTypes ==
  /\ chain \in Blocks
  /\ left \in [mine : Nat, retreat : Nat, fail : Nat, forks : Nat, subs : SUBSET Subs]
  /\ IsWindow(window) /\ last \in Blocks /\ told \in Blocks
  /\ primed \in BOOLEAN /\ spoilt \in BOOLEAN
  /\ poll.pc \in {"off", "idle", "block", "prime", "next", "walk", "fill", "deliver"}
  /\ poll.pc = "block" => poll.number \in Nat
  /\ poll.pc = "next" => poll.head \in Blocks /\ Number(poll.head) > Number(last)
  /\ poll.pc \in {"next", "walk", "fill", "deliver"} => primed
  /\ PrimeTypes /\ WalkTypes /\ FillTypes /\ DeliverTypes

\* record keeps a window, holds the new head, and forgets no more than what
\* lies MaxReorgDepth below it.
LEMMA RecordFacts ==
  ASSUME NEW w, IsWindow(w), NEW b \in Blocks
  PROVE  /\ IsWindow(Record(w, b))
         /\ DOMAIN Record(w, b) \subseteq DOMAIN w \cup {Number(b)}
         /\ Number(b) \in DOMAIN Record(w, b)
         /\ Record(w, b)[Number(b)] = b
         /\ \A h \in DOMAIN Record(w, b) : h # Number(b) => h \in DOMAIN w /\ Record(w, b)[h] = w[h]
         /\ \A h \in DOMAIN Record(w, b) : h >= Number(b) - MaxReorgDepth
         /\ \A h \in DOMAIN w : h >= Number(b) - MaxReorgDepth => h \in DOMAIN Record(w, b)
<1> DEFINE H == {h \in DOMAIN w : Number(b) < MaxReorgDepth \/ h >= Number(b) - MaxReorgDepth} \cup {Number(b)}
           r == [h \in H |-> IF h = Number(b) THEN b ELSE w[h]]
<1>1. Record(w, b) = r
  BY DEF Record
<1>2. Number(b) \in Nat /\ MaxReorgDepth \in Nat \ {0}
  BY BlockFacts, PollerConstants
<1>3. DOMAIN w \subseteq Nat /\ \A h \in DOMAIN w : w[h] \in Blocks /\ Number(w[h]) = h
  BY DEF IsWindow
<1>4. H \subseteq Nat /\ H \subseteq DOMAIN w \cup {Number(b)} /\ Number(b) \in H
  BY <1>2, <1>3
<1>5. \A h \in H : h >= Number(b) - MaxReorgDepth
  BY <1>2, <1>3
<1>6. \A h \in DOMAIN w : h >= Number(b) - MaxReorgDepth => h \in H
  OBVIOUS
<1>7. DOMAIN r = H /\ r[Number(b)] = b /\ \A h \in H : h # Number(b) => h \in DOMAIN w /\ r[h] = w[h]
  BY <1>4
<1>8. IsWindow(r)
  <2> HIDE DEF H
  <2>1. r = [h \in DOMAIN r |-> r[h]]
    OBVIOUS
  <2>2. \A h \in DOMAIN r : r[h] \in Blocks /\ Number(r[h]) = h
    BY <1>3, <1>7
  <2> QED BY <2>1, <2>2, <1>4, <1>7 DEF IsWindow
<1> HIDE DEF H, r
<1> QED BY <1>1, <1>4, <1>5, <1>6, <1>7, <1>8

\* A backfill reads no further down than the genesis, nor than the depth.
LEMMA LowestFacts ==
  ASSUME NEW b \in Blocks
  PROVE  /\ Lowest(b) \in Nat /\ Lowest(b) <= Number(b)
         /\ Lowest(b) >= Number(b) - (MaxReorgDepth - 1)
         /\ Number(b) > Lowest(b) => Number(b) > 0
BY BlockFacts, PollerConstants DEF Lowest

\* What a read finds is the block of that height.
LEMMA ReadFacts ==
  ASSUME NEW n \in Nat, chain \in Blocks, n <= Number(chain)
  PROVE  Ancestor(chain, n) \in Blocks /\ Number(Ancestor(chain, n)) = n
<1>1. Number(chain) \in Nat /\ n \in 0 .. Number(chain)
  BY BlockFacts
<1> QED BY <1>1, BlockFacts

LEMMA EmptyWindow ==
  IsWindow([h \in {} |-> <<>>]) /\ DOMAIN [h \in {} |-> <<>>] = {}
BY DEF IsWindow

LEMMA PrimedTypes ==
  ASSUME PollTypes, NEW head \in Blocks, NEW w, IsWindow(w), NEW why, Primed(head, w, why),
         UNCHANGED <<chain, left>>, spoilt' \in BOOLEAN
  PROVE  PollTypes'
<1> DEFINE out == <<[block |-> head, reorged |-> why = "deep", kept |-> DOMAIN window]>>
<1>1. window' = w /\ last' = head /\ primed' = TRUE
  BY DEF Primed
<1>2. told' \in Blocks /\ (poll' = [pc |-> "idle"] \/ poll' = Returned(out))
  <2>1. Returned(<<>>) = [pc |-> "idle"]
    BY DEF Returned
  <2>2. CASE why = "first"
    BY <2>1, <2>2 DEF Primed
  <2>3. CASE why # "first"
    BY <2>3 DEF Primed, PollTypes
  <2> QED BY <2>2, <2>3
<1>3. out \in Seq(Heads) /\ out # <<>>
  BY DEF PollTypes, IsWindow, Heads
<1>4. poll' = [pc |-> "idle"] \/ poll' = [pc |-> "deliver", out |-> out]
  BY <1>2, <1>3 DEF Returned
<1> HIDE DEF out
<1>5. PrimeTypes' /\ WalkTypes' /\ FillTypes'
  BY <1>4 DEF PrimeTypes, WalkTypes, FillTypes
<1>6. DeliverTypes'
  BY <1>3, <1>4 DEF DeliverTypes
<1>7. IsWindow(window)'
  BY <1>1 DEF IsWindow
<1> QED BY <1>1, <1>2, <1>4, <1>5, <1>6, <1>7 DEF PollTypes

LEMMA PrimeTypesKept ==
  ASSUME PollTypes, NEW head \in Blocks, NEW why \in {"first", "gap", "deep"}, primed <=> why # "first",
         Prime(head, why), UNCHANGED <<chain, left>>, spoilt' \in BOOLEAN
  PROVE  PollTypes'
<1> DEFINE base == IF why = "first" THEN window ELSE [h \in {} |-> <<>>]
           w == Record(base, head)
<1>1. IsWindow(base)
  BY EmptyWindow DEF PollTypes
<1>2. IsWindow(w)
  <2> HIDE DEF base
  <2> QED BY <1>1, RecordFacts
<1>3. CASE Number(head) <= Lowest(head)
  <2>1. Primed(head, w, why)
    BY <1>3 DEF Prime
  <2> HIDE DEF w
  <2> QED BY <2>1, <1>2, PrimedTypes
<1>4. CASE ~(Number(head) <= Lowest(head))
  <2>1. /\ poll' = Backfill(head, w, why)
        /\ IF why = "first" THEN window' = w /\ last' = head ELSE UNCHANGED <<window, last>>
        /\ UNCHANGED <<primed, told>>
    BY <1>4 DEF Prime
  <2> HIDE DEF w
  <2>2. poll' = [pc |-> "prime", head |-> head, at |-> Number(head) - 1, fresh |-> w, why |-> why]
    BY <2>1 DEF Backfill
  <2>3. Number(head) \in Nat /\ Lowest(head) \in Nat /\ Number(head) > Lowest(head)
    BY <1>4, BlockFacts, LowestFacts
  <2>4. PrimeTypes'
    <3>1. Lowest(head)' = Lowest(head) /\ Number(head)' = Number(head)
      OBVIOUS
    <3>2. IsWindow(poll'.fresh)
      BY <2>2, <1>2
    <3>3. Lowest(poll'.head) <= poll'.at /\ poll'.at < Number(poll'.head) /\ poll'.at \in Nat
      BY <2>2, <2>3
    <3>4. poll'.head \in Blocks /\ poll'.why = why /\ primed' = primed
      BY <2>1, <2>2
    <3>5. poll' = [pc |-> "prime", head |-> poll'.head, at |-> poll'.at, fresh |-> poll'.fresh, why |-> poll'.why]
      BY <2>2
    <3>6. primed' <=> poll'.why # "first"
      BY <3>4
    <3> QED BY <3>2, <3>3, <3>4, <3>5, <3>6 DEF PrimeTypes, IsWindow
  <2>5. WalkTypes' /\ FillTypes' /\ DeliverTypes'
    BY <2>2 DEF WalkTypes, FillTypes, DeliverTypes
  <2>6. IsWindow(window') /\ last' \in Blocks
    BY <2>1, <1>2 DEF PollTypes
  <2> QED BY <2>1, <2>2, <2>4, <2>5, <2>6 DEF PollTypes, IsWindow
<1> QED BY <1>3, <1>4

LeftTypes == left \in [mine : Nat, retreat : Nat, fail : Nat, forks : Nat, subs : SUBSET Subs]

LEMMA SpendTypes ==
  ASSUME LeftTypes, NEW what \in {"mine", "fail"}, Spend(what)
  PROVE  LeftTypes'
BY DEF LeftTypes, Spend

LEMMA MineTypes ==
  ASSUME PollTypes, NEW x \in 0 .. left.forks, Mine(x)
  PROVE  PollTypes'
<1>1. LeftTypes'
  BY SpendTypes DEF LeftTypes, PollTypes, Mine
<1>2. x \in Nat
  BY DEF PollTypes
<1>3. chain' \in Blocks
  BY <1>2, ChildFacts DEF PollTypes, Mine
<1>4. UNCHANGED pollerVars
  BY DEF Mine
<1> QED BY <1>1, <1>3, <1>4 DEF LeftTypes, PollTypes, pollerVars, PrimeTypes, WalkTypes, FillTypes, DeliverTypes, IsWindow

LEMMA RetreatTypes ==
  ASSUME PollTypes, NEW n \in 0 .. Number(chain) - 1, Retreat(n)
  PROVE  PollTypes'
<1>1. LeftTypes'
  <2>1. left.retreat - 1 \in Nat /\ left.forks + 1 \in Nat
    BY DEF PollTypes, Retreat
  <2>2. left' = [left EXCEPT !.retreat = left.retreat - 1, !.forks = left.forks + 1]
    BY DEF Retreat
  <2> QED BY <2>1, <2>2 DEF LeftTypes, PollTypes
<1>2. chain' \in Blocks
  <2>1. Number(chain) \in Nat
    BY BlockFacts DEF PollTypes
  <2>2. n \in 0 .. Number(chain)
    BY <2>1
  <2> QED BY <2>2, BlockFacts DEF PollTypes, Retreat
<1>3. UNCHANGED <<window, last, primed, poll, told>> /\ spoilt' \in BOOLEAN
  BY DEF Retreat, PollTypes
<1> QED BY <1>1, <1>2, <1>3 DEF LeftTypes, PollTypes, PrimeTypes, WalkTypes, FillTypes, DeliverTypes, IsWindow

\* What a step that only moves the poll on has to show.
LEMMA PollOnly ==
  ASSUME PollTypes, UNCHANGED <<chain, window, last, primed, told>>, LeftTypes', spoilt' \in BOOLEAN,
         poll'.pc \in {"idle", "block", "next", "walk", "fill", "prime"},
         poll'.pc = "block" => poll'.number \in Nat,
         poll'.pc = "next" => poll'.head \in Blocks /\ Number(poll'.head) > Number(last),
         poll'.pc \in {"next", "walk", "fill"} => primed,
         PrimeTypes', WalkTypes', FillTypes'
  PROVE  PollTypes'
BY DEF LeftTypes, PollTypes, DeliverTypes, IsWindow

LEMMA PollEnds ==
  ASSUME PollTypes, UNCHANGED <<chain, window, last, primed, told>>, LeftTypes', spoilt' \in BOOLEAN,
         poll' = [pc |-> "idle"]
  PROVE  PollTypes'
BY PollOnly DEF PrimeTypes, WalkTypes, FillTypes

LEMMA ReadFailedTypes ==
  ASSUME PollTypes, ReadFailed
  PROVE  PollTypes'
<1>1. LeftTypes'
  BY SpendTypes DEF LeftTypes, PollTypes, ReadFailed
<1> QED BY <1>1, PollEnds DEF ReadFailed, PollTypes

LEMMA ReadHeadTypes ==
  ASSUME PollTypes, ReadHead
  PROVE  PollTypes'
<1>1. poll' = [pc |-> "block", number |-> Number(chain)] /\ Number(chain) \in Nat
  BY BlockFacts DEF ReadHead, PollTypes
<1>2. PrimeTypes' /\ WalkTypes' /\ FillTypes'
  BY <1>1 DEF PrimeTypes, WalkTypes, FillTypes
<1> QED BY <1>1, <1>2, PollOnly DEF ReadHead, PollTypes, LeftTypes

LEMMA WalkFromTypes ==
  ASSUME PollTypes, NEW head \in Blocks, NEW start, primed,
         start = IF Number(head) <= Number(last) THEN Number(head) ELSE Number(last),
         poll' = WalkFrom(head, start), UNCHANGED <<chain, left, window, last, primed, told, spoilt>>
  PROVE  PollTypes'
<1>1. poll' = [pc |-> "walk", head |-> head, start |-> start, at |-> start]
  BY DEF WalkFrom
<1>2. start \in Nat /\ start - start <= MaxReorgDepth
  BY BlockFacts, PollerConstants DEF PollTypes
<1>3. WalkTypes'
  BY <1>1, <1>2 DEF WalkTypes
<1>4. PrimeTypes' /\ FillTypes'
  BY <1>1 DEF PrimeTypes, FillTypes
<1> QED BY <1>1, <1>3, <1>4, PollOnly DEF PollTypes, LeftTypes

LEMMA ResumeTypes ==
  ASSUME PollTypes, NEW head \in Blocks, NEW from \in Nat \ {0}, NEW reorged \in BOOLEAN, primed,
         Resume(head, from, reorged), UNCHANGED <<chain, left>>
  PROVE  PollTypes'
<1>1. CASE Number(head) >= from /\ Number(head) - from >= MaxCatchUpBlocks
  <2>1. Prime(head, "gap") /\ spoilt' = (spoilt \/ reorged)
    BY <1>1 DEF Resume
  <2> QED BY <2>1, PrimeTypesKept DEF PollTypes
<1>2. CASE ~(Number(head) >= from /\ Number(head) - from >= MaxCatchUpBlocks)
  <2>1. /\ poll' = IF Number(head) < from THEN Returned(<<>>)
                   ELSE [pc |-> "fill", at |-> from, to |-> Number(head), reorged |-> reorged, out |-> <<>>]
        /\ UNCHANGED <<window, last, primed, told, spoilt>>
    BY <1>2 DEF Resume
  <2>2. LeftTypes' /\ spoilt' \in BOOLEAN
    BY <2>1 DEF PollTypes, LeftTypes
  <2>3. CASE Number(head) < from
    BY <2>1, <2>2, <2>3, PollEnds DEF Returned
  <2>4. CASE ~(Number(head) < from)
    <3>1. poll' = [pc |-> "fill", at |-> from, to |-> Number(head), reorged |-> reorged, out |-> <<>>]
      BY <2>1, <2>4
    <3>2. Number(head) \in Nat /\ from <= Number(head)
      BY <2>4, BlockFacts
    <3>3. FillTypes'
      BY <3>1, <3>2 DEF FillTypes
    <3>4. PrimeTypes' /\ WalkTypes'
      BY <3>1 DEF PrimeTypes, WalkTypes
    <3> QED BY <2>1, <2>2, <3>1, <3>3, <3>4, PollOnly
  <2> QED BY <2>3, <2>4
<1> QED BY <1>1, <1>2

LEMMA ReadBlockTypes ==
  ASSUME PollTypes, ReadBlock
  PROVE  PollTypes'
<1>1. poll.pc = "block" /\ Wanted = poll.number /\ poll.number \in Nat
  BY DEF ReadBlock, Wanted, PollTypes
<1>2. Read \in Blocks /\ Number(Read) \in Nat /\ Number(last) \in Nat
  <2>1. Read = Ancestor(chain, poll.number) /\ poll.number <= Number(chain)
    BY <1>1 DEF Read, Available, ReadBlock
  <2>2. Read \in Blocks
    BY <1>1, <2>1, ReadFacts DEF PollTypes
  <2> QED BY <2>2, BlockFacts DEF PollTypes
<1>3. UNCHANGED <<chain, left>>
  BY DEF ReadBlock
<1> DEFINE first == ~primed /\ Prime(Read, "first") /\ UNCHANGED spoilt
           same == primed /\ poll' = Returned(<<>>) /\ UNCHANGED <<window, last, primed, told, spoilt>>
           lower == /\ primed /\ Number(Read) <= Number(last)
                    /\ poll' = WalkFrom(Read, Number(Read)) /\ UNCHANGED <<window, last, primed, told, spoilt>>
           higher == /\ primed /\ Number(Read) > Number(last)
                     /\ poll' = [pc |-> "next", head |-> Read] /\ UNCHANGED <<window, last, primed, told, spoilt>>
<1>4. first \/ same \/ lower \/ higher
  <2>1. CASE ~primed
    BY <2>1 DEF ReadBlock
  <2>2. CASE primed
    BY <1>2, <2>2 DEF ReadBlock
  <2> QED BY <2>1, <2>2
<1>5. CASE first
  BY <1>2, <1>3, <1>5, PrimeTypesKept DEF PollTypes
<1>6. CASE same
  BY <1>3, <1>6, PollEnds DEF Returned, PollTypes, LeftTypes
<1>7. CASE lower
  BY <1>2, <1>3, <1>7, WalkFromTypes
<1>8. CASE higher
  <2>1. PrimeTypes' /\ WalkTypes' /\ FillTypes'
    BY <1>8 DEF PrimeTypes, WalkTypes, FillTypes
  <2> QED BY <1>2, <1>3, <1>8, <2>1, PollOnly DEF PollTypes, LeftTypes
<1> HIDE DEF first, same, lower, higher
<1> QED BY <1>4, <1>5, <1>6, <1>7, <1>8

LEMMA ReadPrimeTypes ==
  ASSUME PollTypes, ReadPrime
  PROVE  PollTypes'
<1> DEFINE w == [h \in DOMAIN poll.fresh \cup {poll.at} |-> IF h = poll.at THEN Read ELSE poll.fresh[h]]
<1>1. poll.pc = "prime" /\ Wanted = poll.at /\ UNCHANGED <<chain, left, spoilt>>
  BY DEF ReadPrime, Wanted
<1>2. /\ poll = [pc |-> "prime", head |-> poll.head, at |-> poll.at, fresh |-> poll.fresh, why |-> poll.why]
      /\ poll.head \in Blocks /\ poll.at \in Nat /\ IsWindow(poll.fresh)
      /\ Lowest(poll.head) <= poll.at /\ poll.at < Number(poll.head)
      /\ poll.why \in {"first", "gap", "deep"} /\ (primed <=> poll.why # "first")
  BY <1>1 DEF PollTypes, PrimeTypes
<1>3. Read \in Blocks /\ Number(Read) = poll.at
  <2>1. Read = Ancestor(chain, poll.at) /\ poll.at <= Number(chain)
    BY <1>1 DEF Read, Available, ReadPrime
  <2> QED BY <1>2, <2>1, ReadFacts DEF PollTypes
<1>4. IsWindow(w)
  <2>1. w = [h \in DOMAIN w |-> w[h]] /\ DOMAIN w = DOMAIN poll.fresh \cup {poll.at}
    OBVIOUS
  <2>2. \A h \in DOMAIN w : w[h] \in Blocks /\ Number(w[h]) = h
    BY <1>2, <1>3 DEF IsWindow
  <2>3. DOMAIN w \subseteq Nat
    BY <1>2, <2>1 DEF IsWindow
  <2> HIDE DEF w
  <2> QED BY <2>1, <2>2, <2>3 DEF IsWindow
<1>5. \/ poll.at = Lowest(poll.head) /\ Primed(poll.head, w, poll.why)
      \/ /\ poll.at # Lowest(poll.head)
         /\ poll' = [poll EXCEPT !.at = poll.at - 1, !.fresh = w]
         /\ window' = IF poll.why = "first" THEN w ELSE window
         /\ UNCHANGED <<last, primed, told>>
  BY DEF ReadPrime
<1> HIDE DEF w
<1>6. CASE poll.at = Lowest(poll.head) /\ Primed(poll.head, w, poll.why)
  BY <1>1, <1>2, <1>4, <1>6, PrimedTypes DEF PollTypes
<1>7. CASE /\ poll.at # Lowest(poll.head)
           /\ poll' = [poll EXCEPT !.at = poll.at - 1, !.fresh = w]
           /\ window' = IF poll.why = "first" THEN w ELSE window
           /\ UNCHANGED <<last, primed, told>>
  <2>1. poll' = [pc |-> "prime", head |-> poll.head, at |-> poll.at - 1, fresh |-> w, why |-> poll.why]
    <3>1. poll = [pc |-> "prime", head |-> poll.head, at |-> poll.at, fresh |-> poll.fresh, why |-> poll.why]
      BY <1>2
    <3>2. poll' = [[poll EXCEPT !.at = poll.at - 1] EXCEPT !.fresh = w]
      BY <1>7
    <3>3. [poll EXCEPT !.at = poll.at - 1]
            = [pc |-> "prime", head |-> poll.head, at |-> poll.at - 1, fresh |-> poll.fresh, why |-> poll.why]
      BY <3>1
    <3> QED BY <3>2, <3>3
  <2>2. poll.at - 1 \in Nat /\ Lowest(poll.head) <= poll.at - 1 /\ poll.at - 1 < Number(poll.head)
    BY <1>2, <1>7, LowestFacts, BlockFacts
  <2>3. poll'.head = poll.head /\ poll'.at = poll.at - 1 /\ poll'.fresh = w /\ poll'.why = poll.why
    BY <2>1
  <2>4. PrimeTypes'
    <3>1. Lowest(poll'.head) <= poll'.at /\ poll'.at < Number(poll'.head) /\ poll'.at \in Nat
      BY <2>2, <2>3
    <3>2. poll'.head \in Blocks /\ IsWindow(poll'.fresh) /\ poll'.why \in {"first", "gap", "deep"}
      BY <1>2, <1>4, <2>3
    <3>3. primed' <=> poll'.why # "first"
      BY <1>2, <1>7, <2>3
    <3>4. poll' = [pc |-> "prime", head |-> poll'.head, at |-> poll'.at, fresh |-> poll'.fresh, why |-> poll'.why]
      BY <2>1
    <3> QED BY <3>1, <3>2, <3>3, <3>4 DEF PrimeTypes, IsWindow
  <2>5. WalkTypes' /\ FillTypes' /\ DeliverTypes'
    BY <2>1 DEF WalkTypes, FillTypes, DeliverTypes
  <2>6. IsWindow(window')
    BY <1>4, <1>7 DEF PollTypes
  <2> QED BY <1>1, <1>7, <2>1, <2>4, <2>5, <2>6 DEF PollTypes, IsWindow
<1> QED BY <1>5, <1>6, <1>7

LEMMA ReadNextTypes ==
  ASSUME PollTypes, ReadNext
  PROVE  PollTypes'
<1>1. poll.pc = "next" /\ poll.head \in Blocks /\ Number(poll.head) > Number(last) /\ primed /\ UNCHANGED <<chain, left>>
  BY DEF ReadNext, PollTypes
<1>2. Number(last) \in Nat /\ Number(poll.head) \in Nat
  BY <1>1, BlockFacts DEF PollTypes
<1>3. CASE Resume(poll.head, Number(last) + 1, FALSE)
  <2>1. Number(last) + 1 \in Nat \ {0} /\ FALSE \in BOOLEAN
    BY <1>2
  <2> QED BY <1>1, <1>3, <2>1, ResumeTypes
<1>4. CASE poll' = WalkFrom(poll.head, Number(last)) /\ UNCHANGED <<window, last, primed, told, spoilt>>
  BY <1>1, <1>2, <1>4, WalkFromTypes
<1> QED BY <1>3, <1>4 DEF ReadNext

LEMMA ReadWalkTypes ==
  ASSUME PollTypes, ReadWalk
  PROVE  PollTypes'
<1>1. poll.pc = "walk" /\ primed /\ UNCHANGED <<chain, left>>
  BY DEF ReadWalk, PollTypes
<1>2. /\ poll = [pc |-> "walk", head |-> poll.head, start |-> poll.start, at |-> poll.at]
      /\ poll.head \in Blocks /\ poll.start \in Nat /\ poll.at \in Nat
      /\ poll.at <= poll.start /\ poll.start - poll.at <= MaxReorgDepth
      /\ poll.start = IF Number(poll.head) <= Number(last) THEN Number(poll.head) ELSE Number(last)
  BY <1>1 DEF PollTypes, WalkTypes
<1>3. CASE Resume(poll.head, poll.at + 1, TRUE)
  <2>1. poll.at + 1 \in Nat \ {0} /\ TRUE \in BOOLEAN
    BY <1>2
  <2> QED BY <1>1, <1>2, <1>3, <2>1, ResumeTypes
<1>4. CASE /\ poll.at > 0 /\ poll.start - poll.at < MaxReorgDepth
           /\ poll' = [poll EXCEPT !.at = poll.at - 1] /\ UNCHANGED <<window, last, primed, told, spoilt>>
  <2>1. poll' = [pc |-> "walk", head |-> poll.head, start |-> poll.start, at |-> poll.at - 1]
    BY <1>2, <1>4
  <2>2. poll.at - 1 \in Nat /\ poll.at - 1 <= poll.start /\ poll.start - (poll.at - 1) <= MaxReorgDepth
    BY <1>2, <1>4, PollerConstants
  <2>3. poll'.head = poll.head /\ poll'.start = poll.start /\ poll'.at = poll.at - 1
    BY <2>1
  <2>4. WalkTypes'
    BY <1>2, <1>4, <2>1, <2>2, <2>3 DEF WalkTypes
  <2>5. PrimeTypes' /\ FillTypes'
    BY <2>1 DEF PrimeTypes, FillTypes
  <2> QED BY <1>1, <1>4, <2>1, <2>4, <2>5, PollOnly DEF PollTypes, LeftTypes
<1>5. CASE Prime(poll.head, "deep") /\ UNCHANGED spoilt
  BY <1>1, <1>2, <1>5, PrimeTypesKept DEF PollTypes
<1> QED BY <1>3, <1>4, <1>5 DEF ReadWalk

LEMMA ReadFillTypes ==
  ASSUME PollTypes, ReadFill
  PROVE  PollTypes'
<1> DEFINE head == [block |-> Read, reorged |-> poll.reorged /\ poll.out = <<>>, kept |-> {}]
           heads == Append(poll.out, head)
<1>1. /\ poll.pc = "fill" /\ Wanted = poll.at /\ primed
      /\ UNCHANGED <<chain, left, primed, told, spoilt>>
      /\ window' = Record(window, Read) /\ last' = Read
      /\ poll' = IF poll.at = poll.to THEN Returned(heads) ELSE [poll EXCEPT !.at = poll.at + 1, !.out = heads]
  BY DEF ReadFill, Wanted, PollTypes
<1>2. /\ poll = [pc |-> "fill", at |-> poll.at, to |-> poll.to, reorged |-> poll.reorged, out |-> poll.out]
      /\ poll.at \in Nat \ {0} /\ poll.to \in Nat /\ poll.at <= poll.to
      /\ poll.reorged \in BOOLEAN /\ poll.out \in Seq(Heads)
  BY <1>1 DEF PollTypes, FillTypes
<1>3. Read \in Blocks
  <2>1. Read = Ancestor(chain, poll.at) /\ poll.at <= Number(chain)
    BY <1>1 DEF Read, Available, ReadFill
  <2> QED BY <1>2, <2>1, ReadFacts DEF PollTypes
<1>4. heads \in Seq(Heads) /\ heads # <<>>
  <2>1. head \in Heads
    BY <1>3 DEF Heads
  <2> HIDE DEF head
  <2> QED BY <1>2, <2>1
<1>5. IsWindow(window')
  BY <1>1, <1>3, RecordFacts DEF PollTypes
<1> HIDE DEF heads
<1>6. CASE poll.at = poll.to
  <2>1. poll' = [pc |-> "deliver", out |-> heads]
    BY <1>1, <1>4, <1>6 DEF Returned
  <2>2. PrimeTypes' /\ WalkTypes' /\ FillTypes'
    BY <2>1 DEF PrimeTypes, WalkTypes, FillTypes
  <2>3. DeliverTypes'
    BY <1>4, <2>1 DEF DeliverTypes
  <2> QED BY <1>1, <1>3, <1>5, <2>1, <2>2, <2>3 DEF PollTypes, IsWindow
<1>7. CASE poll.at # poll.to
  <2>1. poll' = [pc |-> "fill", at |-> poll.at + 1, to |-> poll.to, reorged |-> poll.reorged, out |-> heads]
    BY <1>1, <1>2, <1>7
  <2>2. PrimeTypes' /\ WalkTypes' /\ DeliverTypes'
    BY <2>1 DEF PrimeTypes, WalkTypes, DeliverTypes
  <2>3. poll.at + 1 \in Nat \ {0} /\ poll.at + 1 <= poll.to
    BY <1>2, <1>7
  <2>4. FillTypes'
    BY <1>2, <1>4, <2>1, <2>3 DEF FillTypes
  <2> QED BY <1>1, <1>3, <1>5, <2>1, <2>2, <2>4 DEF PollTypes, IsWindow
<1> QED BY <1>6, <1>7

\* Steps that leave the poller alone, or stop it.
LEMMA PollerUnchangedTypes ==
  ASSUME PollTypes, LeftTypes', chain' = chain, UNCHANGED pollerVars
  PROVE  PollTypes'
BY DEF PollTypes, LeftTypes, pollerVars, PrimeTypes, WalkTypes, FillTypes, DeliverTypes, IsWindow

LEMMA StoppedTypes ==
  ASSUME PollTypes, UNCHANGED <<chain, left, window, last, primed, told, spoilt>>, poll' = [pc |-> "off"]
  PROVE  PollTypes'
BY DEF PollTypes, PrimeTypes, WalkTypes, FillTypes, DeliverTypes, IsWindow

LEMMA NewPollerTypes ==
  ASSUME PollTypes, NewPoller, UNCHANGED <<chain, left>>
  PROVE  PollTypes'
<1>1. IsWindow(window') /\ last' \in Blocks /\ told' \in Blocks /\ primed' \in BOOLEAN /\ spoilt' \in BOOLEAN
  <2>1. window' = [h \in {} |-> <<>>]
    BY DEF NewPoller
  <2>2. IsWindow(window')
    BY <2>1, EmptyWindow
  <2>3. last' \in Blocks /\ told' \in Blocks
    BY DEF NewPoller, Blocks
  <2>4. primed' \in BOOLEAN /\ spoilt' \in BOOLEAN
    BY DEF NewPoller
  <2> QED BY <2>2, <2>3, <2>4
<1>2. poll' = [pc |-> "idle"]
  BY DEF NewPoller
<1> QED BY <1>1, <1>2 DEF PollTypes, PrimeTypes, WalkTypes, FillTypes, DeliverTypes, IsWindow

LEMMA FindTypes ==
  ASSUME PollTypes, NEW s \in Subs, Find(s)
  PROVE  PollTypes'
<1>1. CASE running
  BY <1>1, PollerUnchangedTypes DEF Find, PollTypes, LeftTypes
<1>2. CASE ~running
  BY <1>2, NewPollerTypes DEF Find
<1> QED BY <1>1, <1>2

LEMMA CloseTypes ==
  ASSUME PollTypes, NEW s \in Subs, Close(s)
  PROVE  PollTypes'
<1>1. CASE running /\ at[s] = loops /\ Attached(loops) \subseteq {s}
  BY <1>1, StoppedTypes DEF Close, Retire
<1>2. CASE ~(running /\ at[s] = loops /\ Attached(loops) \subseteq {s})
  BY <1>2, PollerUnchangedTypes DEF Close, headVars, PollTypes, LeftTypes
<1> QED BY <1>1, <1>2

LEMMA FanHeadTypes ==
  ASSUME PollTypes, FanHead
  PROVE  PollTypes'
<1>1. /\ poll.pc = "deliver" /\ told' = Head(poll.out).block
      /\ UNCHANGED <<chain, left, window, last, primed, poll, spoilt>>
  BY DEF FanHead
<1>2. Head(poll.out) \in Heads
  BY <1>1 DEF PollTypes, DeliverTypes
<1>3. told' \in Blocks
  BY <1>1, <1>2 DEF Heads
<1> QED BY <1>1, <1>3 DEF PollTypes, PrimeTypes, WalkTypes, FillTypes, DeliverTypes, IsWindow

LEMMA OfferTypes ==
  ASSUME PollTypes, NEW s \in Subs, Offer(s)
  PROVE  PollTypes'
<1>1. LeftTypes'
  BY SpendTypes DEF Offer, PollTypes, LeftTypes
<1> QED BY <1>1, PollerUnchangedTypes DEF Offer

LEMMA FanDoneTypes ==
  ASSUME PollTypes, FanDone, poll.pc = "deliver"
  PROVE  PollTypes'
<1>1. poll' = Returned(Tail(poll.out)) /\ UNCHANGED <<chain, left, window, last, primed, told, spoilt>>
  BY DEF FanDone
<1>2. poll.out \in Seq(Heads) /\ poll.out # <<>> /\ primed
  BY DEF PollTypes, DeliverTypes
<1>3. Tail(poll.out) \in Seq(Heads)
  BY <1>2
<1>4. CASE Tail(poll.out) = <<>>
  <2>1. poll' = [pc |-> "idle"]
    BY <1>1, <1>4 DEF Returned
  <2> QED BY <1>1, <2>1, PollEnds DEF PollTypes, LeftTypes
<1>5. CASE Tail(poll.out) # <<>>
  <2>1. poll' = [pc |-> "deliver", out |-> Tail(poll.out)]
    BY <1>1, <1>5 DEF Returned
  <2>2. PrimeTypes' /\ WalkTypes' /\ FillTypes'
    BY <2>1 DEF PrimeTypes, WalkTypes, FillTypes
  <2>3. DeliverTypes'
    BY <1>3, <1>5, <2>1 DEF DeliverTypes
  <2> QED BY <1>1, <1>2, <2>1, <2>2, <2>3 DEF PollTypes, IsWindow
<1> QED BY <1>4, <1>5

\* The fan-out hands out heads only while a poll has returned some.
FanSound ==
  /\ fan = [pc |-> fan.pc, to |-> fan.to]
  /\ fan.pc \in {"rest", "newHeads", "logs"} /\ fan.to \subseteq Subs
  /\ fan.pc = "rest" => fan.to = {}
  /\ fan.pc # "rest" => poll.pc = "deliver" /\ fanned > 0

LEMMA PollTypesStep ==
  ASSUME PollTypes, FanSound, [Next]_vars
  PROVE  PollTypes'
<1>1. CASE UpstreamStep
  BY <1>1, MineTypes, RetreatTypes DEF UpstreamStep
<1>2. CASE PollStep
  BY <1>2, ReadHeadTypes, ReadBlockTypes, ReadPrimeTypes, ReadNextTypes, ReadWalkTypes, ReadFillTypes DEF PollStep
<1>3. CASE ReadFailed
  BY <1>3, ReadFailedTypes
<1>4. CASE LoopStep
  <2>1. CASE FanLogs
    BY <2>1, PollerUnchangedTypes DEF FanLogs, headVars, PollTypes, LeftTypes
  <2>2. CASE FanDone
    BY <2>2, FanDoneTypes DEF FanSound, FanDone
  <2> QED BY <1>4, <2>1, <2>2, FanHeadTypes, OfferTypes DEF LoopStep
<1>5. ASSUME NEW s \in Subs, Attach(s) \/ Take(s) \/ Notify(s) PROVE PollTypes'
  BY <1>5, PollerUnchangedTypes DEF Attach, Take, Notify, headVars, PollTypes, LeftTypes
<1>6. CASE UNCHANGED vars
  BY <1>6, PollerUnchangedTypes DEF vars, headVars, PollTypes, LeftTypes
<1> QED BY <1>1, <1>2, <1>3, <1>4, <1>5, <1>6, FindTypes, CloseTypes DEF Next

LEMMA PollTypesInit ==
  ASSUME Init
  PROVE  PollTypes
<1>1. IsWindow(window) /\ window = [h \in {} |-> <<>>]
  BY EmptyWindow DEF Init, HeadInit
<1>2. poll = [pc |-> "off"]
  BY DEF Init, HeadInit
<1>3. left \in [mine : Nat, retreat : Nat, fail : Nat, forks : Nat, subs : SUBSET Subs]
  BY StreamConstants DEF Init, HeadInit
<1>4. chain \in Blocks /\ last \in Blocks /\ told \in Blocks
  BY DEF Init, HeadInit, Blocks
<1>5. PrimeTypes /\ WalkTypes /\ FillTypes /\ DeliverTypes
  BY <1>2 DEF PrimeTypes, WalkTypes, FillTypes, DeliverTypes
<1>6. primed \in BOOLEAN /\ spoilt \in BOOLEAN
  BY DEF Init, HeadInit
<1>7. /\ poll.pc \in {"off", "idle", "block", "prime", "next", "walk", "fill", "deliver"}
      /\ poll.pc \notin {"block", "next", "walk", "fill", "deliver"}
  BY <1>2
<1> QED BY <1>1, <1>3, <1>4, <1>5, <1>6, <1>7 DEF PollTypes

-----------------------------------------------------------------------------
(* The subscriptions' types, and the loop's phases. *)

StreamTypes ==
  /\ loops \in Nat /\ running \in BOOLEAN
  /\ st \in [Subs -> {"new", "found", "on", "lost", "gone"}]
  /\ at \in [Subs -> Nat]
  /\ queue \in [Subs -> Seq(Nat \ {0})]
  /\ hand \in [Subs -> (Nat \ {0}) \cup {None}]
  /\ seen \in [Subs -> Nat]
  /\ fanned \in Nat
  /\ \A s \in Subs : at[s] <= loops /\ Len(queue[s]) <= QueueLen

OffWhenStopped == poll.pc = "off" <=> ~running

\* What is about to be handed out was asked for by a subscriber of that kind.
FanOf == \A s \in fan.to : Kind[s] = fan.pc /\ st[s] \in {"on", "lost", "gone"}

\* A subscription has nothing to send before it is attached.
Unused == \A s \in Subs : st[s] \in {"new", "found"} => queue[s] = <<>> /\ hand[s] = None

Frame == StreamTypes /\ FanSound /\ OffWhenStopped /\ FanOf /\ Unused

\* A poll goes on from a state that is neither stopped nor handing out heads,
\* and does not stop the loop.
LEMMA PollMoves ==
  ASSUME PollTypes, PollStep \/ ReadFailed
  PROVE  poll.pc \notin {"off", "deliver"} /\ poll'.pc # "off"
<1>1. \A head, w, why : Primed(head, w, why) => poll'.pc # "off"
  BY DEF Primed, Returned
<1>2. \A head, why : Prime(head, why) => poll'.pc # "off"
  BY <1>1 DEF Prime, Backfill
<1>3. \A head, from, reorged : Resume(head, from, reorged) => poll'.pc # "off"
  BY <1>2 DEF Resume, Returned
<1>4. CASE ReadFailed
  BY <1>4 DEF ReadFailed, Polling
<1>5. CASE ReadHead
  BY <1>5 DEF ReadHead
<1>6. CASE ReadBlock
  BY <1>2, <1>6 DEF ReadBlock, Returned, WalkFrom
<1>7. CASE ReadPrime
  <2>1. poll.pc = "prime"
    BY <1>7 DEF ReadPrime
  <2>2. poll = [pc |-> "prime", head |-> poll.head, at |-> poll.at, fresh |-> poll.fresh, why |-> poll.why]
    BY <2>1 DEF PollTypes, PrimeTypes
  <2>3. \A a, f : [[poll EXCEPT !.at = a] EXCEPT !.fresh = f].pc = "prime"
    BY <2>2
  <2> QED BY <1>1, <1>7, <2>1, <2>3 DEF ReadPrime
<1>8. CASE ReadNext
  <2>1. CASE Resume(poll.head, Number(last) + 1, FALSE)
    BY <1>3, <1>8, <2>1 DEF ReadNext
  <2>2. CASE poll' = WalkFrom(poll.head, Number(last))
    BY <1>8, <2>2 DEF ReadNext, WalkFrom
  <2> QED BY <1>8, <2>1, <2>2 DEF ReadNext
<1>9. CASE ReadWalk
  <2>1. poll.pc = "walk"
    BY <1>9 DEF ReadWalk
  <2>2. poll = [pc |-> "walk", head |-> poll.head, start |-> poll.start, at |-> poll.at]
    BY <2>1 DEF PollTypes, WalkTypes
  <2>3. \A a : [poll EXCEPT !.at = a].pc = "walk"
    BY <2>2
  <2> QED BY <1>2, <1>3, <1>9, <2>1, <2>3 DEF ReadWalk
<1>10. CASE ReadFill
  <2>1. poll.pc = "fill"
    BY <1>10 DEF ReadFill
  <2>2. poll = [pc |-> "fill", at |-> poll.at, to |-> poll.to, reorged |-> poll.reorged, out |-> poll.out]
    BY <2>1 DEF PollTypes, FillTypes
  <2>3. \A a, o : [[poll EXCEPT !.at = a] EXCEPT !.out = o].pc = "fill"
    BY <2>2
  <2> QED BY <1>10, <2>1, <2>3 DEF ReadFill, Returned
<1> QED BY <1>4, <1>5, <1>6, <1>7, <1>8, <1>9, <1>10 DEF PollStep

LEMMA FrameFind ==
  ASSUME PollTypes, Frame, LiveAttached, NEW s \in Subs, Find(s)
  PROVE  Frame'
<1>1. st[s] = "new" /\ st' = [st EXCEPT ![s] = "found"] /\ UNCHANGED <<queue, hand, seen>>
  BY DEF Find
<1>2. CASE running
  <2>1. at' = [at EXCEPT ![s] = loops] /\ UNCHANGED <<loops, running, fanned, fan, poll>>
    BY <1>2 DEF Find, pollerVars
  <2> QED BY <1>1, <2>1 DEF Frame, StreamTypes, FanSound, OffWhenStopped, FanOf, Unused
<1>3. CASE ~running
  <2>1. /\ loops' = loops + 1 /\ running' = TRUE /\ at' = [at EXCEPT ![s] = loops + 1]
        /\ fanned' = 0 /\ fan' = [pc |-> "rest", to |-> {}] /\ poll' = [pc |-> "idle"]
    BY <1>3 DEF Find, NewPoller, NoFan
  <2>2. StreamTypes'
    BY <1>1, <2>1 DEF Frame, StreamTypes
  <2>3. FanSound' /\ FanOf' /\ OffWhenStopped'
    BY <2>1 DEF FanSound, FanOf, OffWhenStopped
  <2> QED BY <1>1, <2>2, <2>3 DEF Frame, StreamTypes, Unused
<1> QED BY <1>2, <1>3

LEMMA FrameAttach ==
  ASSUME PollTypes, Frame, NEW s \in Subs, Attach(s)
  PROVE  Frame'
<1>1. st[s] = "found" /\ UNCHANGED <<headVars, loops, running, at, queue, hand, fanned, fan>>
  BY DEF Attach
<1>2. /\ st' = [st EXCEPT ![s] = "on"] \/ st' = [st EXCEPT ![s] = "new"]
      /\ seen' \in [Subs -> Nat]
  <2>1. CASE running /\ at[s] = loops
    <3>1. Kind[s] = "logs" /\ fan.pc = "newHeads" => fanned - 1 \in Nat
      BY DEF Frame, FanSound, StreamTypes
    <3> QED BY <2>1, <3>1 DEF Attach, Frame, StreamTypes
  <2>2. CASE ~(running /\ at[s] = loops)
    BY <2>2 DEF Attach, Frame, StreamTypes
  <2> QED BY <2>1, <2>2
<1>3. poll' = poll
  BY <1>1 DEF headVars, pollerVars
<1> QED BY <1>1, <1>2, <1>3 DEF Frame, StreamTypes, FanSound, OffWhenStopped, FanOf, Unused

LEMMA FrameClose ==
  ASSUME PollTypes, Frame, NEW s \in Subs, Close(s)
  PROVE  Frame'
<1>1. /\ st[s] \in {"on", "lost"} /\ st' = [st EXCEPT ![s] = "gone"]
      /\ UNCHANGED <<loops, at, queue, hand, seen, fanned>>
  BY DEF Close
<1>2. CASE UNCHANGED <<headVars, running, fan>>
  <2>1. poll' = poll /\ running' = running /\ fan' = fan
    BY <1>2 DEF headVars, pollerVars
  <2> QED BY <1>1, <2>1 DEF Frame, StreamTypes, FanSound, OffWhenStopped, FanOf, Unused
<1>3. CASE Retire
  <2>1. running' = FALSE /\ fan' = [pc |-> "rest", to |-> {}] /\ poll' = [pc |-> "off"]
    BY <1>3 DEF Retire, NoFan
  <2>2. FanSound' /\ FanOf' /\ OffWhenStopped'
    BY <2>1 DEF FanSound, FanOf, OffWhenStopped
  <2> QED BY <1>1, <2>1, <2>2 DEF Frame, StreamTypes, Unused
<1> QED BY <1>2, <1>3 DEF Close

LEMMA FrameFan ==
  ASSUME PollTypes, Frame, FanHead \/ FanLogs \/ FanDone
  PROVE  Frame'
<1>1. UNCHANGED <<loops, running, st, at, queue, hand, seen>>
  BY DEF FanHead, FanLogs, FanDone, subVars
<1>2. CASE FanHead
  <2>1. /\ poll.pc = "deliver" /\ poll' = poll /\ fanned' = fanned + 1
        /\ fan' = [pc |-> "newHeads", to |-> Snapshot("newHeads")]
    BY <1>2 DEF FanHead
  <2>2. \A t \in Snapshot("newHeads") : t \in Subs /\ st[t] = "on" /\ Kind[t] = "newHeads"
    BY DEF Snapshot, Attached
  <2>3. FanSound' /\ FanOf'
    BY <1>1, <2>1, <2>2 DEF Frame, StreamTypes, FanSound, FanOf
  <2> QED BY <1>1, <2>1, <2>3 DEF Frame, StreamTypes, OffWhenStopped, Unused
<1>3. CASE FanLogs
  <2>1. /\ fan.pc = "newHeads" /\ poll' = poll /\ fanned' = fanned
        /\ fan' = [pc |-> "logs", to |-> Snapshot("logs")]
    BY <1>3 DEF FanLogs, headVars, pollerVars
  <2>2. \A t \in Snapshot("logs") : t \in Subs /\ st[t] = "on" /\ Kind[t] = "logs"
    BY DEF Snapshot, Attached
  <2>3. FanSound' /\ FanOf'
    BY <1>1, <2>1, <2>2 DEF Frame, StreamTypes, FanSound, FanOf
  <2> QED BY <1>1, <2>1, <2>3 DEF Frame, StreamTypes, OffWhenStopped, Unused
<1>4. CASE FanDone
  <2>1. fan.pc = "logs" /\ fanned' = fanned /\ fan' = [pc |-> "rest", to |-> {}] /\ poll' = Returned(Tail(poll.out))
    BY <1>4 DEF FanDone, NoFan
  <2>2. poll.pc # "off" /\ poll'.pc # "off"
    BY <2>1 DEF Frame, FanSound, Returned
  <2>3. FanSound' /\ FanOf'
    BY <2>1 DEF FanSound, FanOf
  <2> QED BY <1>1, <2>1, <2>2, <2>3 DEF Frame, StreamTypes, OffWhenStopped, Unused
<1> QED BY <1>2, <1>3, <1>4

LEMMA FrameOffer ==
  ASSUME PollTypes, Frame, NEW s \in Subs, Offer(s)
  PROVE  Frame'
<1>1. /\ s \in fan.to /\ fan' = [fan EXCEPT !.to = fan.to \ {s}]
      /\ poll' = poll /\ UNCHANGED <<loops, running, fanned>>
  BY DEF Offer, pollerVars
<1>2. /\ fan' = [pc |-> fan.pc, to |-> fan.to \ {s}]
      /\ fan.pc \in {"newHeads", "logs"} /\ fanned \in Nat \ {0} /\ poll.pc = "deliver"
  <2>1. fan = [pc |-> fan.pc, to |-> fan.to] /\ fan.pc \in {"rest", "newHeads", "logs"} /\ fan.pc # "rest"
    BY <1>1 DEF Frame, FanSound
  <2>2. fanned \in Nat \ {0} /\ poll.pc = "deliver"
    BY <2>1 DEF Frame, FanSound, StreamTypes
  <2>3. fan' = [pc |-> fan.pc, to |-> fan.to \ {s}]
    BY <1>1, <2>1
  <2> QED BY <2>1, <2>2, <2>3
<1>3. FanSound'
  BY <1>1, <1>2 DEF Frame, FanSound
<1>4. CASE Offered(s)
  <2>1. UNCHANGED <<at, hand, seen>>
    BY <1>4 DEF Offered
  <2>2. CASE Len(queue[s]) < QueueLen
    <3>1. queue' = [queue EXCEPT ![s] = Append(queue[s], fanned)] /\ st' = st
      BY <1>4, <2>2 DEF Offered
    <3>2. queue[s] \in Seq(Nat \ {0}) /\ Append(queue[s], fanned) \in Seq(Nat \ {0})
      BY <1>2 DEF Frame, StreamTypes
    <3>3. Len(Append(queue[s], fanned)) <= QueueLen
      BY <2>2, <3>2, StreamConstants
    <3>4. StreamTypes'
      BY <1>1, <2>1, <3>1, <3>2, <3>3 DEF Frame, StreamTypes
    <3>5. Unused'
      BY <1>1, <2>1, <3>1 DEF Frame, FanOf, Unused, StreamTypes
    <3>6. FanOf'
      BY <1>2, <3>1 DEF Frame, FanOf
    <3> QED BY <1>1, <1>3, <3>4, <3>5, <3>6 DEF Frame, OffWhenStopped
  <2>3. CASE ~(Len(queue[s]) < QueueLen)
    <3>1. queue' = queue /\ ((st' = [st EXCEPT ![s] = "lost"] /\ st[s] = "on") \/ st' = st)
      BY <1>4, <2>3 DEF Offered, Frame, StreamTypes
    <3>2. StreamTypes'
      BY <1>1, <2>1, <3>1 DEF Frame, StreamTypes
    <3>3. Unused'
      BY <1>1, <2>1, <3>1 DEF Frame, StreamTypes, Unused
    <3>4. fan'.pc = fan.pc /\ fan'.to = fan.to \ {s} /\ fan.to \subseteq Subs
      BY <1>2 DEF Frame, FanSound
    <3>5. \A t \in fan.to \ {s} : st'[t] = st[t]
      BY <3>1, <3>4 DEF Frame, StreamTypes
    <3>6. FanOf'
      BY <3>4, <3>5 DEF Frame, FanOf
    <3> QED BY <1>1, <1>3, <3>2, <3>3, <3>6 DEF Frame, OffWhenStopped
  <2> QED BY <2>2, <2>3
<1>5. CASE UNCHANGED subVars
  <2>1. UNCHANGED <<st, at, queue, hand, seen>>
    BY <1>5 DEF subVars
  <2> QED BY <1>1, <1>2, <1>3, <2>1 DEF Frame, StreamTypes, Unused, FanOf, OffWhenStopped
<1> QED BY <1>4, <1>5 DEF Offer

LEMMA FrameSend ==
  ASSUME PollTypes, Frame, NEW s \in Subs, Take(s) \/ Notify(s)
  PROVE  Frame'
<1>1. poll' = poll /\ UNCHANGED <<loops, running, st, at, fanned, fan>>
  BY DEF Take, Notify, headVars, pollerVars
<1>2. CASE Take(s)
  <2>1. /\ st[s] = "on" /\ queue[s] # <<>> /\ seen' = seen
        /\ hand' = [hand EXCEPT ![s] = Head(queue[s])] /\ queue' = [queue EXCEPT ![s] = Tail(queue[s])]
    BY <1>2 DEF Take
  <2>2. Head(queue[s]) \in Nat \ {0} /\ Tail(queue[s]) \in Seq(Nat \ {0}) /\ Len(Tail(queue[s])) <= QueueLen
    BY <2>1, StreamConstants DEF Frame, StreamTypes
  <2>3. StreamTypes'
    BY <1>1, <2>1, <2>2 DEF Frame, StreamTypes
  <2>4. Unused'
    BY <1>1, <2>1 DEF Frame, Unused, StreamTypes
  <2> QED BY <1>1, <2>3, <2>4 DEF Frame, FanSound, FanOf, OffWhenStopped
<1>3. CASE Notify(s)
  <2>1. /\ hand[s] # None /\ queue' = queue
        /\ seen' = [seen EXCEPT ![s] = hand[s]] /\ hand' = [hand EXCEPT ![s] = None]
    BY <1>3 DEF Notify
  <2>2. StreamTypes' /\ Unused'
    BY <1>1, <2>1 DEF Frame, StreamTypes, Unused
  <2> QED BY <1>1, <2>2 DEF Frame, FanSound, FanOf, OffWhenStopped
<1> QED BY <1>2, <1>3

LEMMA FrameStep ==
  ASSUME PollTypes, Frame, LiveAttached, [Next]_vars
  PROVE  Frame'
<1>1. CASE (UpstreamStep \/ UNCHANGED headVars) /\ UNCHANGED streamVars
  <2>1. poll' = poll
    BY <1>1 DEF UpstreamStep, Mine, Retreat, headVars, pollerVars
  <2> QED BY <1>1, <2>1 DEF streamVars, subVars, Frame, StreamTypes, FanSound, OffWhenStopped, FanOf, Unused
<1>2. CASE (PollStep \/ ReadFailed) /\ UNCHANGED streamVars
  <2>1. poll.pc \notin {"off", "deliver"} /\ poll'.pc # "off"
    BY <1>2, PollMoves
  <2> QED BY <1>2, <2>1 DEF streamVars, subVars, Frame, StreamTypes, FanSound, OffWhenStopped, FanOf, Unused
<1>3. CASE LoopStep
  BY <1>3, FrameFan, FrameOffer DEF LoopStep
<1>4. CASE UNCHANGED vars
  BY <1>1, <1>4 DEF vars
<1> QED BY <1>1, <1>2, <1>3, <1>4, FrameFind, FrameAttach, FrameClose, FrameSend DEF Next

LEMMA FrameInit ==
  ASSUME Init
  PROVE  Frame
<1>1. StreamTypes
  <2>1. queue \in [Subs -> Seq(Nat \ {0})] /\ \A s \in Subs : Len(queue[s]) = 0
    BY DEF Init
  <2>2. hand \in [Subs -> (Nat \ {0}) \cup {None}] /\ seen \in [Subs -> Nat] /\ at \in [Subs -> Nat]
    BY DEF Init
  <2>3. st \in [Subs -> {"new", "found", "on", "lost", "gone"}]
    BY DEF Init
  <2>4. \A s \in Subs : at[s] <= loops /\ Len(queue[s]) <= QueueLen
    BY <2>1, StreamConstants DEF Init
  <2>5. loops \in Nat /\ running \in BOOLEAN /\ fanned \in Nat
    BY DEF Init
  <2> QED BY <2>1, <2>2, <2>3, <2>4, <2>5 DEF StreamTypes
<1>2. poll.pc = "off" /\ running = FALSE /\ fan = [pc |-> "rest", to |-> {}]
  BY DEF Init, HeadInit, NoFan
<1>3. FanSound /\ FanOf /\ OffWhenStopped
  BY <1>2 DEF FanSound, FanOf, OffWhenStopped
<1> QED BY <1>1, <1>3 DEF Init, Frame, Unused

-----------------------------------------------------------------------------
(* Nobody on a stopped loop, and no loop for nobody. *)

LEMMA LiveAttachedStep ==
  ASSUME Frame, LiveAttached, [Next]_vars
  PROVE  LiveAttached'
<1>1. ASSUME NEW s \in Subs, Find(s) PROVE LiveAttached'
  <2>1. st[s] = "new" /\ st' = [st EXCEPT ![s] = "found"]
    BY <1>1 DEF Find
  <2>2. CASE running
    BY <1>1, <2>1, <2>2 DEF Find, LiveAttached, Frame, StreamTypes
  <2>3. CASE ~running
    BY <2>1, <2>3 DEF LiveAttached, Frame, StreamTypes
  <2> QED BY <2>2, <2>3
<1>2. ASSUME NEW s \in Subs, Attach(s) PROVE LiveAttached'
  BY <1>2 DEF Attach, LiveAttached, Frame, StreamTypes
<1>3. ASSUME NEW s \in Subs, Close(s) PROVE LiveAttached'
  <2>1. st' = [st EXCEPT ![s] = "gone"] /\ UNCHANGED <<loops, at>>
    BY <1>3 DEF Close
  <2>2. CASE running /\ at[s] = loops /\ Attached(loops) \subseteq {s}
    <3>1. \A t \in Subs : st[t] = "on" => t = s
      BY <2>2 DEF LiveAttached, Attached
    <3> QED BY <2>1, <3>1 DEF LiveAttached, Frame, StreamTypes
  <2>3. CASE ~(running /\ at[s] = loops /\ Attached(loops) \subseteq {s})
    BY <1>3, <2>1, <2>3 DEF Close, LiveAttached, Frame, StreamTypes
  <2> QED BY <2>2, <2>3
<1>4. ASSUME NEW s \in Subs, Offer(s) PROVE LiveAttached'
  BY <1>4 DEF Offer, Offered, subVars, LiveAttached, Frame, StreamTypes
<1>5. CASE UNCHANGED <<loops, running, st, at>>
  BY <1>5 DEF LiveAttached
<1>6. ASSUME NEW s \in Subs, Take(s) \/ Notify(s) PROVE UNCHANGED <<loops, running, st, at>>
  BY <1>6 DEF Take, Notify
<1>7. ASSUME FanHead \/ FanLogs \/ FanDone PROVE UNCHANGED <<loops, running, st, at>>
  BY <1>7 DEF FanHead, FanLogs, FanDone, subVars
<1> QED BY <1>1, <1>2, <1>3, <1>4, <1>5, <1>6, <1>7 DEF Next, LoopStep, vars, streamVars, subVars

LEMMA LoopWatchedStep ==
  ASSUME Frame, LoopWatched, [Next]_vars
  PROVE  LoopWatched'
<1> DEFINE W(t) == st[t] \in {"found", "on", "lost"} /\ at[t] = loops
<1>1. ASSUME NEW s \in Subs, Find(s) PROVE LoopWatched'
  BY <1>1 DEF Find, LoopWatched, Frame, StreamTypes
<1>2. ASSUME NEW s \in Subs, Attach(s) PROVE LoopWatched'
  BY <1>2 DEF Attach, LoopWatched, Frame, StreamTypes
<1>3. ASSUME NEW s \in Subs, Close(s) PROVE LoopWatched'
  <2>1. st' = [st EXCEPT ![s] = "gone"] /\ UNCHANGED <<loops, at>>
    BY <1>3 DEF Close
  <2>2. CASE running /\ at[s] = loops /\ Attached(loops) \subseteq {s}
    BY <1>3, <2>2 DEF Close, Retire, LoopWatched
  <2>3. CASE running /\ at[s] = loops /\ ~(Attached(loops) \subseteq {s})
    <3>1. PICK t \in Subs : t # s /\ st[t] = "on" /\ at[t] = loops
      BY <2>3 DEF Attached
    <3> QED BY <2>1, <3>1 DEF LoopWatched
  <2>4. CASE running /\ at[s] # loops
    <3>1. PICK t \in Subs : W(t)
      BY <2>4 DEF LoopWatched
    <3> QED BY <2>1, <2>4, <3>1 DEF LoopWatched
  <2>5. CASE ~running
    BY <1>3, <2>5 DEF Close, LoopWatched
  <2> QED BY <2>2, <2>3, <2>4, <2>5
<1>4. ASSUME NEW s \in Subs, Offer(s) PROVE LoopWatched'
  <2>1. UNCHANGED <<loops, running, at>>
    BY <1>4 DEF Offer, Offered, subVars
  <2>2. \A t \in Subs : st[t] \in {"found", "on", "lost"} => st'[t] \in {"found", "on", "lost"}
    BY <1>4 DEF Offer, Offered, subVars, Frame, StreamTypes
  <2> QED BY <2>1, <2>2 DEF LoopWatched
<1>5. CASE UNCHANGED <<loops, running, st, at>>
  BY <1>5 DEF LoopWatched
<1>6. ASSUME NEW s \in Subs, Take(s) \/ Notify(s) PROVE UNCHANGED <<loops, running, st, at>>
  BY <1>6 DEF Take, Notify
<1>7. ASSUME FanHead \/ FanLogs \/ FanDone PROVE UNCHANGED <<loops, running, st, at>>
  BY <1>7 DEF FanHead, FanLogs, FanDone, subVars
<1> QED BY <1>1, <1>2, <1>3, <1>4, <1>5, <1>6, <1>7 DEF Next, LoopStep, vars, streamVars, subVars

-----------------------------------------------------------------------------
(* What a subscriber is sent. *)

Path(x, h, q) == <<x>> \o (IF h = None THEN <<>> ELSE <<h>>) \o q

Positive == Nat \ {0}
Handed == Positive \cup {None}
InHand(h) == IF h = None THEN 0 ELSE 1

\* p is x, what is in hand, and q.
Shape(p, x, h, q) ==
  /\ p \in Seq(Nat)
  /\ Len(p) = 1 + InHand(h) + Len(q)
  /\ p[1] = x
  /\ h # None => p[2] = h
  /\ \A i \in 1 .. Len(q) : p[1 + InHand(h) + i] = q[i]

\* Element by element, what has been seen, what is in hand and what is queued.
LEMMA PathFacts ==
  ASSUME NEW x \in Nat, NEW h \in Handed, NEW q \in Seq(Positive)
  PROVE  Shape(Path(x, h, q), x, h, q)
<1> DEFINE d == InHand(h)
<1>0. d \in {0, 1} /\ (h # None => d = 1)
  BY DEF InHand
<1> DEFINE m == IF h = None THEN <<>> ELSE <<h>>
<1>1. m \in Seq(Nat) /\ Len(m) = d /\ (h # None => m[1] = h)
  BY DEF InHand, Handed, Positive
<1>2. q \in Seq(Nat)
  <2>1. Positive \subseteq Nat
    BY DEF Positive
  <2> QED BY <2>1, SeqMonotonic
<1> DEFINE a == <<x>> \o m
<1>3. <<x>> \in Seq(Nat) /\ Len(<<x>>) = 1 /\ <<x>>[1] = x
  OBVIOUS
<1>4. Path(x, h, q) = a \o q
  BY DEF Path
<1> HIDE DEF m, d
<1>5. a \in Seq(Nat) /\ Len(a) = 1 + d /\ a[1] = x /\ (h # None => a[2] = h)
  <2>1. /\ a \in Seq(Nat) /\ Len(a) = 1 + Len(m)
        /\ \A i \in 1 .. 1 + Len(m) : a[i] = IF i <= 1 THEN <<x>>[i] ELSE m[i - 1]
    BY <1>0, <1>1, <1>3, ConcatProperties
  <2> HIDE DEF a
  <2>2. a[1] = x
    BY <1>0, <1>1, <1>3, <2>1
  <2>3. h # None => a[2] = m[1]
    BY <1>0, <1>1, <2>1
  <2> QED BY <1>1, <2>1, <2>2, <2>3
<1> HIDE DEF a
<1>6. /\ a \o q \in Seq(Nat) /\ Len(a \o q) = Len(a) + Len(q)
      /\ \A i \in 1 .. Len(a) + Len(q) : (a \o q)[i] = IF i <= Len(a) THEN a[i] ELSE q[i - Len(a)]
  BY <1>2, <1>5, ConcatProperties
<1>7. Len(q) \in Nat
  BY <1>2
<1>8. (a \o q)[1] = x /\ (h # None => (a \o q)[2] = h)
  BY <1>0, <1>5, <1>6, <1>7
<1>9. ASSUME NEW i \in 1 .. Len(q) PROVE (a \o q)[1 + d + i] = q[i]
  <2> DEFINE j == 1 + d + i
  <2>1. j \in 1 .. Len(a) + Len(q) /\ ~(j <= Len(a)) /\ j - Len(a) = i
    BY <1>0, <1>5, <1>7
  <2> HIDE DEF j
  <2>2. (a \o q)[j] = q[j - Len(a)]
    BY <1>6, <2>1
  <2> QED BY <2>1, <2>2 DEF j
<1>10. Len(a \o q) = 1 + d + Len(q)
  BY <1>5, <1>6
<1> QED BY <1>4, <1>5, <1>6, <1>8, <1>9, <1>10 DEF d, Shape

\* The sender's two steps and an offer, on what a subscriber is sent.
LEMMA PathTake ==
  ASSUME NEW x \in Nat, NEW q \in Seq(Positive), q # <<>>, None \notin Nat
  PROVE  Path(x, Head(q), Tail(q)) = Path(x, None, q)
<1> DEFINE h == Head(q)
           t == Tail(q)
           p1 == Path(x, h, t)
           p2 == Path(x, None, q)
<1>1. h \in Positive /\ t \in Seq(Positive) /\ Len(t) = Len(q) - 1 /\ h = q[1] /\ Len(q) \in Nat \ {0}
  OBVIOUS
<1>2. \A i \in 1 .. Len(t) : t[i] = q[i + 1]
  OBVIOUS
<1> HIDE DEF h, t
<1>3. /\ p1 \in Seq(Nat) /\ Len(p1) = 2 + Len(t) /\ p1[1] = x /\ p1[2] = h
      /\ \A i \in 1 .. Len(t) : p1[2 + i] = t[i]
  <2>1. h # None /\ InHand(h) = 1 /\ h \in Handed
    BY <1>1 DEF InHand, Handed, Positive
  <2>2. Shape(p1, x, h, t)
    BY <1>1, <2>1, PathFacts
  <2> HIDE DEF p1
  <2>3. Len(t) \in Nat
    BY <1>1
  <2> QED BY <2>1, <2>2, <2>3 DEF Shape
<1>4. /\ p2 \in Seq(Nat) /\ Len(p2) = 1 + Len(q) /\ p2[1] = x
      /\ \A i \in 1 .. Len(q) : p2[1 + i] = q[i]
  <2>1. InHand(None) = 0 /\ None \in Handed
    BY DEF InHand, Handed
  <2>2. Shape(p2, x, None, q)
    BY <2>1, PathFacts
  <2> HIDE DEF p2
  <2> QED BY <2>1, <2>2 DEF Shape
<1> HIDE DEF p1, p2
<1>5. ASSUME NEW i \in 1 .. Len(p1) PROVE p1[i] = p2[i]
  <2>1. CASE i = 1
    BY <1>3, <1>4, <2>1
  <2>2. CASE i = 2
    <3>1. p2[1 + 1] = q[1]
      BY <1>1, <1>4
    <3> QED BY <1>1, <1>3, <2>2, <3>1
  <2>3. CASE i > 2
    <3>1. i - 2 \in 1 .. Len(t) /\ i - 1 \in 1 .. Len(q)
      BY <1>1, <1>3, <2>3
    <3>2. p1[2 + (i - 2)] = t[i - 2] /\ p2[1 + (i - 1)] = q[i - 1]
      BY <1>3, <1>4, <3>1
    <3>3. t[i - 2] = q[i - 2 + 1]
      BY <1>2, <3>1
    <3>4. 2 + (i - 2) = i /\ 1 + (i - 1) = i /\ i - 2 + 1 = i - 1
      OBVIOUS
    <3> QED BY <3>2, <3>3, <3>4
  <2> QED BY <2>1, <2>2, <2>3
<1>6. Len(p1) = Len(p2)
  BY <1>1, <1>3, <1>4
<1>7. p1 = p2
  BY <1>3, <1>4, <1>5, <1>6, SeqEqual
<1> QED BY <1>7 DEF p1, p2, h, t

LEMMA PathNotify ==
  ASSUME NEW x \in Nat, NEW h \in Positive, NEW q \in Seq(Positive), None \notin Nat
  PROVE  /\ Len(Path(h, None, q)) = Len(Path(x, h, q)) - 1
         /\ \A i \in 1 .. Len(Path(h, None, q)) : Path(h, None, q)[i] = Path(x, h, q)[i + 1]
<1> DEFINE p1 == Path(x, h, q)
           p2 == Path(h, None, q)
<1>1. /\ Len(p1) = 2 + Len(q) /\ p1[2] = h
      /\ \A i \in 1 .. Len(q) : p1[2 + i] = q[i]
  <2>1. h # None /\ InHand(h) = 1 /\ h \in Handed
    BY DEF InHand, Handed, Positive
  <2>2. Shape(p1, x, h, q)
    BY <2>1, PathFacts
  <2> HIDE DEF p1
  <2> QED BY <2>1, <2>2 DEF Shape
<1>2. /\ Len(p2) = 1 + Len(q) /\ p2[1] = h
      /\ \A i \in 1 .. Len(q) : p2[1 + i] = q[i]
  <2>1. InHand(None) = 0 /\ None \in Handed
    BY DEF InHand, Handed
  <2>2. Shape(p2, h, None, q)
    BY <2>1, PathFacts DEF Positive
  <2> HIDE DEF p2
  <2> QED BY <2>1, <2>2 DEF Shape
<1>3. Len(q) \in Nat
  OBVIOUS
<1> HIDE DEF p1, p2
<1>4. ASSUME NEW i \in 1 .. Len(p2) PROVE p2[i] = p1[i + 1]
  <2>1. CASE i = 1
    BY <1>1, <1>2, <2>1
  <2>2. CASE i > 1
    <3>1. i - 1 \in 1 .. Len(q) /\ 2 + (i - 1) = i + 1 /\ 1 + (i - 1) = i
      BY <1>2, <1>3, <2>2
    <3>2. p1[2 + (i - 1)] = q[i - 1] /\ p2[1 + (i - 1)] = q[i - 1]
      BY <1>1, <1>2, <3>1
    <3> QED BY <3>1, <3>2
  <2> QED BY <2>1, <2>2
<1>5. Len(p2) = Len(p1) - 1
  BY <1>1, <1>2, <1>3
<1> QED BY <1>4, <1>5 DEF p1, p2

LEMMA PathAppend ==
  ASSUME NEW x \in Nat, NEW h \in Handed, NEW q \in Seq(Positive), NEW n \in Positive
  PROVE  /\ Len(Path(x, h, Append(q, n))) = Len(Path(x, h, q)) + 1
         /\ \A i \in 1 .. Len(Path(x, h, q)) : Path(x, h, Append(q, n))[i] = Path(x, h, q)[i]
         /\ Path(x, h, Append(q, n))[Len(Path(x, h, q)) + 1] = n
<1> DEFINE d == InHand(h)
           r == Append(q, n)
           p1 == Path(x, h, q)
           p2 == Path(x, h, r)
<1>1. r \in Seq(Positive) /\ Len(r) = Len(q) + 1 /\ r[Len(q) + 1] = n /\ Len(q) \in Nat
  OBVIOUS
<1>2. \A i \in 1 .. Len(q) : r[i] = q[i]
  OBVIOUS
<1>3. d \in {0, 1} /\ (d = 1 => h # None) /\ (h # None => d = 1)
  BY DEF InHand
<1>4. /\ Len(p1) = 1 + d + Len(q) /\ p1[1] = x /\ (h # None => p1[2] = h)
      /\ \A i \in 1 .. Len(q) : p1[1 + d + i] = q[i]
  <2>1. Shape(p1, x, h, q)
    BY PathFacts
  <2> HIDE DEF p1
  <2> QED BY <2>1 DEF Shape
<1> HIDE DEF r
<1>5. /\ Len(p2) = 1 + d + Len(r) /\ p2[1] = x /\ (h # None => p2[2] = h)
      /\ \A i \in 1 .. Len(r) : p2[1 + d + i] = r[i]
  <2>1. Shape(p2, x, h, r)
    BY <1>1, PathFacts
  <2> HIDE DEF p2
  <2> QED BY <2>1 DEF Shape
<1> HIDE DEF p1, p2, d
<1>6. Len(p2) = Len(p1) + 1
  BY <1>1, <1>3, <1>4, <1>5
<1>7. p2[Len(p1) + 1] = n
  <2>1. Len(p1) + 1 = 1 + d + (Len(q) + 1) /\ Len(q) + 1 \in 1 .. Len(r)
    BY <1>1, <1>3, <1>4
  <2>2. p2[1 + d + (Len(q) + 1)] = r[Len(q) + 1]
    BY <1>5, <2>1
  <2> QED BY <1>1, <2>1, <2>2
<1>8. ASSUME NEW i \in 1 .. Len(p1) PROVE p2[i] = p1[i]
  <2>1. CASE i = 1
    BY <1>4, <1>5, <2>1
  <2>2. CASE i = 2 /\ d = 1
    BY <1>3, <1>4, <1>5, <2>2
  <2>3. CASE i > 1 + d
    <3>1. i - (1 + d) \in 1 .. Len(q) /\ i - (1 + d) \in 1 .. Len(r) /\ 1 + d + (i - (1 + d)) = i
      BY <1>1, <1>3, <1>4, <2>3
    <3>2. p1[1 + d + (i - (1 + d))] = q[i - (1 + d)] /\ p2[1 + d + (i - (1 + d))] = r[i - (1 + d)]
      BY <1>4, <1>5, <3>1
    <3> QED BY <1>2, <3>1, <3>2
  <2> QED BY <1>3, <2>1, <2>2, <2>3
<1> QED BY <1>6, <1>7, <1>8 DEF p1, p2, r

\* What p must be for a subscriber of kind that has been offered head number
\* top: no hole up to top for newHeads, in order and no later for logs.
Holds(kind, p, top) ==
  IF kind = "newHeads"
  THEN /\ \A k \in 1 .. Len(p) - 1 : p[k+1] = p[k] + 1
       /\ p[Len(p)] = top
  ELSE /\ \A k \in 1 .. Len(p) - 1 : p[k+1] > p[k]
       /\ p[Len(p)] <= top

LEMMA HoldsDrop ==
  ASSUME NEW kind, NEW p \in Seq(Nat), NEW r \in Seq(Nat), NEW top \in Int, Holds(kind, p, top),
         Len(r) = Len(p) - 1, Len(r) > 0, \A i \in 1 .. Len(r) : r[i] = p[i + 1]
  PROVE  Holds(kind, r, top)
<1>1. Len(p) \in Nat /\ Len(r) \in Nat
  OBVIOUS
<1>2. r[Len(r)] = p[Len(p)]
  BY <1>1
<1>3. ASSUME NEW k \in 1 .. Len(r) - 1
      PROVE  r[k] = p[k + 1] /\ r[k + 1] = p[k + 1 + 1] /\ k + 1 \in 1 .. Len(p) - 1
  <2>1. k \in 1 .. Len(r) /\ k + 1 \in 1 .. Len(r) /\ k + 1 \in 1 .. Len(p) - 1
    BY <1>1
  <2> QED BY <2>1
<1>4. CASE kind = "newHeads"
  BY <1>2, <1>3, <1>4 DEF Holds
<1>5. CASE kind # "newHeads"
  BY <1>2, <1>3, <1>5 DEF Holds
<1> QED BY <1>4, <1>5

LEMMA HoldsAppend ==
  ASSUME NEW kind, NEW p \in Seq(Nat), NEW r \in Seq(Nat), NEW n \in Nat, Holds(kind, p, n - 1),
         Len(p) > 0, Len(r) = Len(p) + 1, \A i \in 1 .. Len(p) : r[i] = p[i], r[Len(p) + 1] = n
  PROVE  Holds(kind, r, n)
<1>1. Len(p) \in Nat /\ r[Len(r)] = n /\ r[Len(p)] = p[Len(p)] /\ p[Len(p)] \in Nat
  OBVIOUS
<1>2. ASSUME NEW k \in 1 .. Len(r) - 1, k # Len(p)
      PROVE  k \in 1 .. Len(p) - 1 /\ r[k] = p[k] /\ r[k + 1] = p[k + 1]
  <2>1. Len(r) - 1 = Len(p)
    BY <1>1
  <2>2. k \in 1 .. Len(p) /\ k # Len(p)
    BY <1>2, <2>1
  <2>3. k \in 1 .. Len(p) - 1 /\ k + 1 \in 1 .. Len(p)
    BY <1>1, <2>2
  <2> QED BY <2>2, <2>3
<1>3. CASE kind = "newHeads"
  <2>1. p[Len(p)] = n - 1 /\ \A k \in 1 .. Len(p) - 1 : p[k+1] = p[k] + 1
    BY <1>3 DEF Holds
  <2>2. r[Len(p) + 1] = r[Len(p)] + 1
    BY <1>1, <2>1
  <2>3. \A k \in 1 .. Len(r) - 1 : r[k+1] = r[k] + 1
    BY <1>2, <2>1, <2>2
  <2> QED BY <1>1, <1>3, <2>3 DEF Holds
<1>4. CASE kind # "newHeads"
  <2>1. p[Len(p)] <= n - 1 /\ \A k \in 1 .. Len(p) - 1 : p[k+1] > p[k]
    BY <1>4 DEF Holds
  <2>2. r[Len(p) + 1] > r[Len(p)]
    BY <1>1, <2>1
  <2>3. \A k \in 1 .. Len(r) - 1 : r[k+1] > r[k]
    BY <1>2, <2>1, <2>2
  <2> QED BY <1>1, <1>4, <2>3 DEF Holds
<1> QED BY <1>3, <1>4

Top(s) == IF s \in fan.to \/ (Kind[s] = "logs" /\ fan.pc = "newHeads") THEN fanned - 1 ELSE fanned
SentInv == \A s \in Subs : st[s] = "on" => Holds(Kind[s], Path(seen[s], hand[s], queue[s]), Top(s))

\* What a subscriber has been sent is a path.
LEMMA PathTypes ==
  ASSUME Frame, NEW s \in Subs
  PROVE  /\ seen[s] \in Nat /\ hand[s] \in Handed /\ queue[s] \in Seq(Positive)
         /\ Path(seen[s], hand[s], queue[s]) \in Seq(Nat)
         /\ Len(Path(seen[s], hand[s], queue[s])) > 0
<1>1. seen[s] \in Nat /\ hand[s] \in Handed /\ queue[s] \in Seq(Positive)
  BY DEF Frame, StreamTypes, Handed, Positive
<1>2. Shape(Path(seen[s], hand[s], queue[s]), seen[s], hand[s], queue[s])
  BY <1>1, PathFacts
<1>3. InHand(hand[s]) \in Nat /\ Len(queue[s]) \in Nat
  BY <1>1 DEF InHand
<1> QED BY <1>1, <1>2, <1>3 DEF Shape

LEMMA SentAttach ==
  ASSUME Frame, SentInv, NEW s \in Subs, Attach(s)
  PROVE  SentInv'
<1>1. st[s] = "found" /\ UNCHANGED <<queue, hand, fanned, fan>>
  BY DEF Attach
<1>2. \A t \in Subs : Top(t)' = Top(t)
  BY <1>1 DEF Top
<1>3. CASE running /\ at[s] = loops
  <2>1. /\ st' = [st EXCEPT ![s] = "on"]
        /\ seen' = [seen EXCEPT ![s] = IF Kind[s] = "logs" /\ fan.pc = "newHeads" THEN fanned - 1 ELSE fanned]
    BY <1>3 DEF Attach
  <2>2. s \notin fan.to /\ queue[s] = <<>> /\ hand[s] = None
    BY <1>1 DEF Frame, FanOf, Unused
  <2>3. Kind[s] = "logs" /\ fan.pc = "newHeads" => fanned - 1 \in Nat
    BY DEF Frame, FanSound, StreamTypes
  <2>4. seen'[s] = Top(s) /\ Top(s) \in Nat
    BY <2>1, <2>2, <2>3 DEF Top, Frame, StreamTypes
  <2>5. Path(seen'[s], None, <<>>) = <<seen'[s]>>
    BY DEF Path
  <2>6. Holds(Kind[s], <<Top(s)>>, Top(s))
    BY <2>4 DEF Holds
  <2>7. \A t \in Subs : t # s => st'[t] = st[t] /\ seen'[t] = seen[t]
    BY <2>1 DEF Frame, StreamTypes
  <2> QED BY <1>1, <1>2, <2>2, <2>4, <2>5, <2>6, <2>7 DEF SentInv
<1>4. CASE ~(running /\ at[s] = loops)
  <2>1. st' = [st EXCEPT ![s] = "new"] /\ seen' = seen
    BY <1>4 DEF Attach
  <2> QED BY <1>1, <1>2, <2>1 DEF SentInv, Frame, StreamTypes
<1> QED BY <1>3, <1>4

\* Who leaves or is found is not on, and a loop that ends leaves nobody on.
LEMMA SentLeave ==
  ASSUME Frame, LiveAttached, SentInv, NEW s \in Subs, Find(s) \/ Close(s)
  PROVE  SentInv'
<1>1. UNCHANGED <<queue, hand, seen>>
  BY DEF Find, Close
<1>2. \A t \in Subs : st'[t] = "on" => st[t] = "on"
  BY DEF Find, Close, Frame, StreamTypes
<1>3. CASE UNCHANGED <<fanned, fan>>
  BY <1>1, <1>2, <1>3 DEF SentInv, Top
<1>4. CASE ~UNCHANGED <<fanned, fan>>
  <2>1. \A t \in Subs : st'[t] # "on"
    <3>1. CASE Find(s)
      BY <1>2, <1>4, <3>1 DEF Find, LiveAttached
    <3>2. CASE Close(s)
      <4>1. Attached(loops) \subseteq {s} /\ st' = [st EXCEPT ![s] = "gone"]
        BY <1>4, <3>2 DEF Close
      <4>2. \A t \in Subs : st[t] = "on" => t = s
        BY <4>1 DEF LiveAttached, Attached
      <4> QED BY <1>2, <4>1, <4>2 DEF Frame, StreamTypes
    <3> QED BY <3>1, <3>2
  <2> QED BY <2>1 DEF SentInv
<1> QED BY <1>3, <1>4

\* The loop goes on: every head is offered to whoever was attached.
LEMMA SentFan ==
  ASSUME Frame, LiveAttached, SentInv, FanHead \/ FanLogs \/ FanDone
  PROVE  SentInv'
<1>1. UNCHANGED <<st, queue, hand, seen>>
  BY DEF FanHead, FanLogs, FanDone, subVars
<1>2. ASSUME NEW s \in Subs, st[s] = "on" PROVE Top(s)' = Top(s)
  <2>1. at[s] = loops
    BY <1>2 DEF LiveAttached
  <2>2. Kind[s] \in {"newHeads", "logs"}
    BY StreamConstants
  <2>3. fanned \in Nat
    BY DEF Frame, StreamTypes
  <2>4. CASE FanHead
    <3>1. fan.to = {} /\ fan.pc = "rest" /\ fanned' = fanned + 1 /\ fan' = [pc |-> "newHeads", to |-> Snapshot("newHeads")]
      BY <2>4 DEF FanHead, Frame, FanSound
    <3>2. s \in Snapshot("newHeads") <=> Kind[s] = "newHeads"
      BY <1>2, <2>1 DEF Snapshot, Attached
    <3> QED BY <2>2, <2>3, <3>1, <3>2 DEF Top
  <2>5. CASE FanLogs
    <3>1. fan.to = {} /\ fan.pc = "newHeads" /\ fanned' = fanned /\ fan' = [pc |-> "logs", to |-> Snapshot("logs")]
      BY <2>5 DEF FanLogs
    <3>2. s \in Snapshot("logs") <=> Kind[s] = "logs"
      BY <1>2, <2>1 DEF Snapshot, Attached
    <3> QED BY <2>2, <3>1, <3>2 DEF Top
  <2>6. CASE FanDone
    BY <2>6 DEF FanDone, NoFan, Top
  <2> QED BY <2>4, <2>5, <2>6
<1> QED BY <1>1, <1>2 DEF SentInv

LEMMA SentOffer ==
  ASSUME Frame, SentInv, NEW s \in Subs, Offer(s)
  PROVE  SentInv'
<1>1. /\ s \in fan.to /\ fan' = [fan EXCEPT !.to = fan.to \ {s}] /\ fanned' = fanned /\ hand' = hand /\ seen' = seen
  BY DEF Offer, Offered, subVars
<1>2. fan = [pc |-> fan.pc, to |-> fan.to] /\ Kind[s] = fan.pc /\ fanned \in Nat
  BY <1>1 DEF Frame, FanSound, FanOf, StreamTypes
<1>3. fan'.pc = fan.pc /\ fan'.to = fan.to \ {s}
  BY <1>1, <1>2
<1>4. \A t \in Subs : t # s => Top(t)' = Top(t)
  BY <1>1, <1>3 DEF Top
<1>5. Top(s) = fanned - 1 /\ Top(s)' = fanned
  BY <1>1, <1>2, <1>3 DEF Top
<1>6. \A t \in Subs : st'[t] = "on" => st[t] = "on"
  BY DEF Offer, Offered, subVars, Frame, StreamTypes
<1>7. ASSUME NEW t \in Subs, t # s, st'[t] = "on"
      PROVE  Holds(Kind[t], Path(seen[t], hand[t], queue'[t]), Top(t)')
  <2>1. queue'[t] = queue[t]
    BY <1>7 DEF Offer, Offered, subVars, Frame, StreamTypes
  <2> QED BY <1>4, <1>6, <1>7, <2>1 DEF SentInv
<1>8. ASSUME st'[s] = "on" PROVE Holds(Kind[s], Path(seen[s], hand[s], queue'[s]), Top(s)')
  <2> DEFINE p == Path(seen[s], hand[s], queue[s])
             r == Path(seen[s], hand[s], queue'[s])
  <2>1. Holds(Kind[s], p, fanned - 1)
    BY <1>5, <1>6, <1>8 DEF SentInv
  <2>2. CASE queue' = [queue EXCEPT ![s] = Append(queue[s], fanned)]
    <3>1. queue'[s] = Append(queue[s], fanned)
      BY <2>2 DEF Frame, StreamTypes
    <3>2. fanned \in Positive
      BY <1>1, <1>2 DEF Frame, FanSound, Positive
    <3>3. /\ seen[s] \in Nat /\ hand[s] \in Handed /\ queue[s] \in Seq(Positive)
          /\ p \in Seq(Nat) /\ Len(p) > 0
      BY PathTypes
    <3>4. /\ Len(r) = Len(p) + 1 /\ \A i \in 1 .. Len(p) : r[i] = p[i]
          /\ r[Len(p) + 1] = fanned
      <4> DEFINE x == seen[s]
                 h == hand[s]
                 q == queue[s]
      <4>1. x \in Nat /\ h \in Handed /\ q \in Seq(Positive)
        BY <3>3
      <4> HIDE DEF x, h, q
      <4>2. /\ Len(Path(x, h, Append(q, fanned))) = Len(Path(x, h, q)) + 1
            /\ \A i \in 1 .. Len(Path(x, h, q)) : Path(x, h, Append(q, fanned))[i] = Path(x, h, q)[i]
            /\ Path(x, h, Append(q, fanned))[Len(Path(x, h, q)) + 1] = fanned
        BY <3>2, <4>1, PathAppend
      <4> QED BY <3>1, <4>2 DEF x, h, q
    <3>5. r \in Seq(Nat)
      <4>1. queue'[s] \in Seq(Positive)
        BY <3>1, <3>2, <3>3
      <4>2. Shape(r, seen[s], hand[s], queue'[s])
        BY <3>3, <4>1, PathFacts
      <4> QED BY <4>2 DEF Shape
    <3> HIDE DEF p, r
    <3>6. Holds(Kind[s], r, fanned)
      BY <1>2, <2>1, <3>3, <3>4, <3>5, HoldsAppend
    <3> QED BY <1>5, <3>6 DEF r
  <2>3. CASE queue' = queue
    <3>1. Kind[s] = "logs"
      <4>1. CASE Offered(s)
        <5>1. ~(Len(queue[s]) < QueueLen)
          <6> SUFFICES ASSUME Len(queue[s]) < QueueLen PROVE FALSE
            OBVIOUS
          <6>1. queue'[s] = Append(queue[s], fanned)
            BY <4>1 DEF Offered, Frame, StreamTypes
          <6>2. queue[s] \in Seq(Positive) /\ fanned \in Positive
            BY <1>1, <1>2, PathTypes DEF Frame, FanSound, Positive
          <6>3. Len(queue'[s]) = Len(queue[s]) + 1 /\ Len(queue[s]) \in Nat
            BY <6>1, <6>2
          <6> QED BY <2>3, <6>3
        <5>2. st'[s] # "on"
          BY <4>1, <5>1 DEF Offered, Frame, StreamTypes
        <5> QED BY <1>8, <5>2
      <4>2. CASE fan.pc = "logs"
        BY <1>2, <4>2
      <4> QED BY <4>1, <4>2 DEF Offer
    <3>2. queue'[s] = queue[s]
      BY <2>3
    <3> HIDE DEF p
    <3>3. Holds(Kind[s], p, fanned)
      <4>1. p \in Seq(Nat) /\ Len(p) > 0
        BY PathTypes DEF p
      <4>2. p[Len(p)] \in Nat /\ p[Len(p)] <= fanned - 1
        BY <2>1, <3>1, <4>1 DEF Holds
      <4> QED BY <1>2, <2>1, <3>1, <4>2 DEF Holds
    <3> QED BY <1>5, <3>2, <3>3 DEF p
  <2> QED BY <2>2, <2>3 DEF Offer, Offered, subVars
<1> QED BY <1>1, <1>7, <1>8 DEF SentInv

LEMMA SentSend ==
  ASSUME Frame, SentInv, NEW s \in Subs, Take(s) \/ Notify(s)
  PROVE  SentInv'
<1>1. UNCHANGED <<st, fanned, fan>> /\ \A t \in Subs : Top(t)' = Top(t) /\ Top(t) \in Int
  BY DEF Take, Notify, Top, Frame, StreamTypes
<1>2. \A t \in Subs : t # s => queue'[t] = queue[t] /\ hand'[t] = hand[t] /\ seen'[t] = seen[t]
  BY DEF Take, Notify, Frame, StreamTypes
<1>3. seen[s] \in Nat /\ hand[s] \in Handed /\ queue[s] \in Seq(Positive)
  BY PathTypes
<1>4. ASSUME st[s] = "on" PROVE Holds(Kind[s], Path(seen'[s], hand'[s], queue'[s]), Top(s))
  <2>1. Holds(Kind[s], Path(seen[s], hand[s], queue[s]), Top(s))
    BY <1>4 DEF SentInv
  <2>2. CASE Take(s)
    <3>1. /\ hand[s] = None /\ queue[s] # <<>> /\ seen'[s] = seen[s]
          /\ hand'[s] = Head(queue[s]) /\ queue'[s] = Tail(queue[s])
      BY <2>2 DEF Take, Frame, StreamTypes
    <3>2. Path(seen[s], Head(queue[s]), Tail(queue[s])) = Path(seen[s], None, queue[s])
      BY <1>3, <3>1, StreamConstants, PathTake
    <3> QED BY <2>1, <3>1, <3>2
  <2>3. CASE Notify(s)
    <3>1. hand[s] # None /\ seen'[s] = hand[s] /\ hand'[s] = None /\ queue'[s] = queue[s]
      BY <2>3 DEF Notify, Frame, StreamTypes
    <3>2. hand[s] \in Positive
      BY <1>3, <3>1 DEF Handed
    <3> DEFINE p == Path(seen[s], hand[s], queue[s])
               r == Path(hand[s], None, queue[s])
    <3>3. Len(r) = Len(p) - 1 /\ \A i \in 1 .. Len(r) : r[i] = p[i + 1]
      BY <1>3, <3>2, StreamConstants, PathNotify
    <3>4. p \in Seq(Nat)
      BY PathTypes
    <3>5. r \in Seq(Nat) /\ Len(r) > 0
      <4>1. None \in Handed /\ hand[s] \in Nat
        BY <3>2 DEF Handed, Positive
      <4>2. Shape(r, hand[s], None, queue[s])
        BY <1>3, <4>1, PathFacts
      <4>3. InHand(None) = 0 /\ Len(queue[s]) \in Nat
        BY <1>3 DEF InHand
      <4> HIDE DEF r
      <4> QED BY <4>2, <4>3 DEF Shape
    <3>6. Holds(Kind[s], p, Top(s))
      BY <2>1
    <3> HIDE DEF p, r
    <3>7. Holds(Kind[s], r, Top(s))
      BY <1>1, <3>3, <3>4, <3>5, <3>6, HoldsDrop
    <3> QED BY <3>1, <3>7 DEF r
  <2> QED BY <2>2, <2>3
<1>5. ASSUME NEW t \in Subs, st'[t] = "on"
      PROVE  Holds(Kind[t], Path(seen'[t], hand'[t], queue'[t]), Top(t)')
  <2>1. CASE t = s
    BY <1>1, <1>4, <1>5, <2>1
  <2>2. CASE t # s
    BY <1>1, <1>2, <1>5, <2>2 DEF SentInv
  <2> QED BY <2>1, <2>2
<1> QED BY <1>5 DEF SentInv

LEMMA SentStep ==
  ASSUME Frame, LiveAttached, SentInv, [Next]_vars
  PROVE  SentInv'
<1>1. CASE UNCHANGED streamVars
  BY <1>1 DEF streamVars, subVars, SentInv, Top
<1>2. CASE UNCHANGED vars
  BY <1>1, <1>2 DEF vars
<1>3. CASE LoopStep
  BY <1>3, SentFan, SentOffer DEF LoopStep
<1>4. ASSUME NEW s \in Subs, Find(s) \/ Attach(s) \/ Close(s) \/ Take(s) \/ Notify(s) PROVE SentInv'
  BY <1>4, SentLeave, SentAttach, SentSend
<1> QED BY <1>1, <1>2, <1>3, <1>4 DEF Next

-----------------------------------------------------------------------------
(* What the loop hands out follows what it handed out before.               *)

\* Two blocks with one ancestor have those below it in common, and a block
\* extends each of its ancestors and what these extend.
LEMMA Below ==
  ASSUME NEW b \in Blocks, NEW c \in Blocks, NEW m \in 0 .. Number(b), m <= Number(c),
         Ancestor(b, m) = Ancestor(c, m), NEW n \in 0 .. m
  PROVE  Ancestor(b, n) = Ancestor(c, n)
<1>1. m \in 0 .. Number(c)
  BY BlockFacts
<1>2. Ancestor(Ancestor(b, m), n) = Ancestor(b, n)
  BY BlockFacts
<1>3. Ancestor(Ancestor(c, m), n) = Ancestor(c, n)
  BY <1>1, BlockFacts
<1> QED BY <1>2, <1>3

LEMMA ExtendsFacts ==
  ASSUME NEW b \in Blocks
  PROVE  /\ \A n \in 0 .. Number(b) : Extends(b, Ancestor(b, n))
         /\ \A a \in Blocks : Extends(b, a) => \A n \in 0 .. Number(a) : Ancestor(b, n) = Ancestor(a, n)
<1>1. ASSUME NEW n \in 0 .. Number(b) PROVE Extends(b, Ancestor(b, n))
  <2>1. Number(Ancestor(b, n)) = n /\ n <= Number(b)
    BY BlockFacts
  <2> QED BY <2>1 DEF Extends
<1>2. ASSUME NEW a \in Blocks, Extends(b, a), NEW n \in 0 .. Number(a) PROVE Ancestor(b, n) = Ancestor(a, n)
  <2>1. Number(a) \in Nat /\ Number(b) \in Nat /\ Ancestor(a, Number(a)) = a
    BY BlockFacts
  <2>2. Number(a) <= Number(b) /\ Ancestor(b, Number(a)) = a
    BY <1>2 DEF Extends
  <2>3. Number(a) \in 0 .. Number(b) /\ Number(a) <= Number(a)
    BY <2>1, <2>2
  <2>4. Ancestor(b, Number(a)) = Ancestor(a, Number(a))
    BY <2>1, <2>2
  <2> QED BY <2>3, <2>4, Below
<1> QED BY <1>1, <1>2

\* Of a poller's window at its last block b: it holds b and, from some height
\* on that is not deeper than the reorg depth, every ancestor of b. What lies
\* above b is left from an abandoned branch.
Remembers(w, b) ==
  /\ Number(b) \in DOMAIN w
  /\ \A h \in DOMAIN w : h >= Number(b) - MaxReorgDepth
  /\ \A h \in DOMAIN w : h <= Number(b) => w[h] = Ancestor(b, h)
  /\ \A h \in DOMAIN w : \A i \in h .. Number(b) : i \in DOMAIN w

\* From height m to height n, w holds no ancestor of b.
Apart(w, b, m, n) == \A h \in DOMAIN w : m <= h /\ h <= n => w[h] # Ancestor(b, h)

Lower(a, b) == IF Number(a) <= Number(b) THEN Number(a) ELSE Number(b)

\* A backfill reads the branch of its head; the head of a gap is too far above
\* the last block, and that of a reorg too deep shares nothing with the window.
Jumps(head, why, w, b) ==
  /\ why = "gap" => Extends(head, b) /\ Number(head) > Number(b) + MaxCatchUpBlocks
  /\ why = "deep" => Apart(w, head, 0, Lower(head, b))

PrimeLinked ==
  poll.pc = "prime" =>
    /\ Extends(chain, poll.head)
    /\ DOMAIN poll.fresh = poll.at + 1 .. Number(poll.head)
    /\ \A h \in DOMAIN poll.fresh : poll.fresh[h] = Ancestor(poll.head, h)
    /\ Jumps(poll.head, poll.why, window, last)

\* A walk has found no height where window and upstream agree, and began
\* because the head does not extend the last block, unless it is no longer.
WalkLinked ==
  /\ poll.pc = "next" => Extends(chain, poll.head)
  /\ poll.pc = "walk" =>
       /\ Extends(chain, poll.head) /\ Apart(window, poll.head, poll.at + 1, poll.start)
       /\ Number(poll.head) > Number(last) => ~Extends(poll.head, last)

\* A fill begins on a child of the last block, or where the branches part.
FillBegins(n, reorged, b, c) ==
  IF reorged
  THEN /\ n <= Number(b)
       /\ Ancestor(b, n - 1) = Ancestor(c, n - 1)
       /\ Ancestor(b, n) # Ancestor(c, n)
  ELSE n = Number(b) + 1 /\ Extends(c, b)

\* The heads of out follow each other, and the last of them is b.
Run(out, b) ==
  /\ out[Len(out)].block = b
  /\ \A k \in 1 .. Len(out) - 1 : Follows(out[k + 1], out[k].block)

FillLinked ==
  poll.pc = "fill" =>
    /\ poll.to <= Number(chain)
    /\ poll.out = <<>> => told = last /\ FillBegins(poll.at, poll.reorged, last, chain)
    /\ poll.out # <<>> =>
         /\ Run(poll.out, last) /\ Follows(poll.out[1], told)
         /\ FillBegins(poll.at, FALSE, last, chain)

DeliverLinked ==
  poll.pc = "deliver" =>
    /\ Run(poll.out, last)
    /\ IF fan.pc = "rest" THEN Follows(poll.out[1], told) ELSE told = poll.out[1].block

Cursor ==
  /\ primed => Remembers(window, last)
  /\ ~primed /\ poll.pc # "prime" => DOMAIN window = {}
  /\ primed /\ poll.pc \notin {"fill", "deliver"} => told = last

Linked == Cursor /\ PrimeLinked /\ WalkLinked /\ FillLinked /\ DeliverLinked

HeadsInv == spoilt \/ poll.pc = "off" \/ Linked

LEMMA ChainFacts ==
  ASSUME PollTypes
  PROVE  /\ chain \in Blocks /\ last \in Blocks /\ told \in Blocks /\ IsWindow(window)
         /\ Number(chain) \in Nat /\ Number(last) \in Nat /\ MaxReorgDepth \in Nat \ {0} /\ MaxCatchUpBlocks \in Nat \ {0}
BY BlockFacts, PollerConstants DEF PollTypes

\* Recording a block on top of an ancestor of the last one.
LEMMA RecordRemembers ==
  ASSUME NEW w, IsWindow(w), NEW a \in Blocks, Remembers(w, a), NEW b \in Blocks,
         Number(b) > 0, Number(b) - 1 <= Number(a),
         Ancestor(a, Number(b) - 1) = Ancestor(b, Number(b) - 1)
  PROVE  Remembers(Record(w, b), b)
<1> DEFINE r == Record(w, b)
           n == Number(b)
<1>1. n \in Nat /\ Number(a) \in Nat /\ Ancestor(b, n) = b /\ DOMAIN w \subseteq Nat
  BY BlockFacts DEF IsWindow
<1>2. /\ n \in DOMAIN r /\ r[n] = b /\ DOMAIN r \subseteq DOMAIN w \cup {n}
      /\ \A h \in DOMAIN r : h # n => h \in DOMAIN w /\ r[h] = w[h]
      /\ \A h \in DOMAIN r : h >= n - MaxReorgDepth
      /\ \A h \in DOMAIN w : h >= n - MaxReorgDepth => h \in DOMAIN r
  BY RecordFacts
<1> HIDE DEF r
<1>3. ASSUME NEW h \in DOMAIN r, h <= n PROVE r[h] = Ancestor(b, h)
  <2>1. CASE h = n
    BY <1>1, <1>2, <2>1
  <2>2. CASE h # n
    <3>1. h \in DOMAIN w /\ r[h] = w[h]
      BY <1>2, <2>2
    <3>2. h \in Nat /\ h <= n - 1 /\ h <= Number(a)
      BY <1>1, <1>3, <2>2, <3>1
    <3>3. w[h] = Ancestor(a, h)
      BY <3>1, <3>2 DEF Remembers
    <3>4. n - 1 \in 0 .. Number(a) /\ n - 1 <= n /\ h \in 0 .. n - 1
      BY <1>1, <3>2
    <3>5. Ancestor(a, h) = Ancestor(b, h)
      BY <3>4, Below
    <3> QED BY <3>1, <3>3, <3>5
  <2> QED BY <2>1, <2>2
<1>4. ASSUME NEW h \in DOMAIN r, NEW i \in h .. n PROVE i \in DOMAIN r
  <2>1. CASE i = n
    BY <1>2, <2>1
  <2>2. CASE i # n
    <3>1. h \in Nat
      BY <1>1, <1>2
    <3>2. h # n /\ i \in h .. Number(a)
      BY <1>1, <1>4, <2>2, <3>1
    <3>3. h \in DOMAIN w
      BY <1>2, <3>2
    <3>4. i \in DOMAIN w
      BY <3>2, <3>3 DEF Remembers
    <3>5. h >= n - MaxReorgDepth
      BY <1>2
    <3>6. i >= n - MaxReorgDepth
      BY <1>1, <3>1, <3>2, <3>5, PollerConstants
    <3> QED BY <1>2, <3>4, <3>6
  <2> QED BY <2>1, <2>2
<1> QED BY <1>2, <1>3, <1>4 DEF Remembers, r

\* A backfill that has reached its lowest height.
LEMMA BackfillRemembers ==
  ASSUME NEW b \in Blocks, NEW w, DOMAIN w = Lowest(b) .. Number(b),
         \A h \in DOMAIN w : w[h] = Ancestor(b, h)
  PROVE  Remembers(w, b)
<1>1. /\ Lowest(b) \in Nat /\ Lowest(b) <= Number(b) /\ Lowest(b) >= Number(b) - (MaxReorgDepth - 1)
      /\ Number(b) \in Nat /\ MaxReorgDepth \in Nat \ {0}
  BY BlockFacts, LowestFacts, PollerConstants
<1>2. Number(b) \in DOMAIN w
  BY <1>1
<1>3. \A h \in DOMAIN w : h >= Number(b) - MaxReorgDepth
  BY <1>1
<1>4. \A h \in DOMAIN w : \A i \in h .. Number(b) : i \in DOMAIN w
  BY <1>1
<1> QED BY <1>2, <1>3, <1>4 DEF Remembers

\* A poll that has ended, or has read nothing yet.
LEMMA RestLinked ==
  ASSUME poll'.pc \in {"idle", "block", "off"}, Cursor'
  PROVE  Linked'
BY DEF Linked, PrimeLinked, WalkLinked, FillLinked, DeliverLinked

\* A backfill is complete: the first one delivers nothing, a later one a head
\* that is past a gap or that forked off below the window.
LEMMA PrimedLinks ==
  ASSUME PollTypes, fan'.pc = "rest", NEW head \in Blocks, NEW w, Remembers(w, head),
         NEW why \in {"first", "gap", "deep"},
         why # "first" => Remembers(window, last) /\ told = last /\ Jumps(head, why, window, last),
         Primed(head, w, why)
  PROVE  Linked'
<1>1. window' = w /\ last' = head /\ primed' = TRUE
  BY DEF Primed
<1>2. CASE why = "first"
  <2>1. poll' = [pc |-> "idle"] /\ told' = head
    BY <1>2 DEF Primed, Returned
  <2>2. Cursor'
    BY <1>1, <2>1 DEF Cursor, Remembers
  <2> QED BY <2>1, <2>2, RestLinked
<1>3. CASE why # "first"
  <2> DEFINE H == [block |-> head, reorged |-> why = "deep", kept |-> DOMAIN window]
  <2>1. poll' = [pc |-> "deliver", out |-> <<H>>] /\ told' = told
    BY <1>3 DEF Primed, Returned
  <2>2. Remembers(window, last) /\ told = last /\ Jumps(head, why, window, last)
    BY <1>3
  <2>3. H.block = head /\ H.reorged = (why = "deep") /\ H.kept = DOMAIN window
    OBVIOUS
  <2> HIDE DEF H
  <2>4. Follows(H, last)
    <3>1. CASE why = "gap"
      <4>1. Extends(head, last) /\ Number(head) > Number(last) + MaxCatchUpBlocks /\ H.reorged = FALSE
        BY <2>2, <2>3, <3>1 DEF Jumps
      <4> QED BY <2>3, <4>1 DEF Follows
    <3>2. CASE why = "deep"
      <4>1. Apart(window, head, 0, Lower(head, last)) /\ H.reorged = TRUE
        BY <2>2, <2>3, <3>2 DEF Jumps
      <4>2. /\ Number(head) \in Nat /\ Number(last) \in Nat /\ Ancestor(last, Number(last)) = last
            /\ last \in Blocks /\ DOMAIN window \subseteq Nat
        BY BlockFacts DEF PollTypes, IsWindow
      <4>3. ASSUME NEW h \in DOMAIN window, h <= Number(last), Extends(head, Ancestor(last, h)) PROVE FALSE
        <5>1. h \in 0 .. Number(last)
          BY <4>2, <4>3
        <5>2. Number(Ancestor(last, h)) = h
          BY <4>2, <5>1, BlockFacts
        <5>3. h <= Number(head) /\ Ancestor(head, h) = Ancestor(last, h)
          BY <4>3, <5>2 DEF Extends
        <5>4. window[h] = Ancestor(last, h)
          BY <2>2, <4>3 DEF Remembers
        <5>5. 0 <= h /\ h <= Lower(head, last)
          BY <4>2, <4>3, <5>1, <5>3 DEF Lower
        <5> QED BY <4>1, <5>3, <5>4, <5>5 DEF Apart
      <4>4. Number(last) \in DOMAIN window /\ Number(last) <= Number(last)
        BY <2>2, <4>2 DEF Remembers
      <4>5. ~Extends(head, last)
        BY <4>2, <4>3, <4>4
      <4>6. H.kept # {}
        BY <2>3, <4>4
      <4> QED BY <2>3, <4>1, <4>3, <4>5, <4>6 DEF Follows
    <3> QED BY <1>3, <3>1, <3>2
  <2>5. Run(<<H>>, head)
    <3>1. Len(<<H>>) = 1 /\ <<H>>[1] = H
      OBVIOUS
    <3> QED BY <2>3, <3>1 DEF Run
  <2>6. poll'.pc = "deliver" /\ poll'.out = <<H>> /\ <<H>>[1] = H
    BY <2>1
  <2>7. DeliverLinked'
    BY <1>1, <2>1, <2>2, <2>4, <2>5, <2>6 DEF DeliverLinked, Run, Follows
  <2>8. Cursor'
    BY <1>1, <2>6 DEF Cursor, Remembers
  <2> QED BY <2>6, <2>7, <2>8 DEF Linked, PrimeLinked, WalkLinked, FillLinked
<1> QED BY <1>2, <1>3

LEMMA PrimeLinks ==
  ASSUME PollTypes, Cursor, fan'.pc = "rest", NEW head \in Blocks, Extends(chain, head),
         NEW why \in {"first", "gap", "deep"}, primed <=> why # "first",
         poll.pc \notin {"prime", "fill", "deliver"}, Jumps(head, why, window, last),
         Prime(head, why), chain' = chain
  PROVE  Linked'
<1> DEFINE base == IF why = "first" THEN window ELSE [h \in {} |-> <<>>]
           w == Record(base, head)
<1>1. IsWindow(base) /\ DOMAIN base = {}
  BY EmptyWindow DEF PollTypes, Cursor
<1>2. Number(head) \in Nat /\ Ancestor(head, Number(head)) = head /\ Lowest(head) \in Nat /\ Lowest(head) <= Number(head)
  BY BlockFacts, LowestFacts
<1>3. DOMAIN w = {Number(head)} /\ w[Number(head)] = head
  <2> HIDE DEF base
  <2>1. /\ DOMAIN w \subseteq DOMAIN base \cup {Number(head)}
        /\ Number(head) \in DOMAIN w /\ w[Number(head)] = head
    BY <1>1, RecordFacts
  <2> HIDE DEF w
  <2> QED BY <1>1, <2>1
<1>4. why # "first" => Remembers(window, last) /\ told = last /\ Jumps(head, why, window, last)
  BY DEF Cursor
<1>5. CASE Number(head) <= Lowest(head)
  <2>1. Primed(head, w, why)
    BY <1>5 DEF Prime
  <2> HIDE DEF w
  <2>2. DOMAIN w = Lowest(head) .. Number(head)
    BY <1>2, <1>3, <1>5
  <2>3. \A h \in DOMAIN w : w[h] = Ancestor(head, h)
    BY <1>2, <1>3
  <2>4. Remembers(w, head)
    BY <2>2, <2>3, BackfillRemembers
  <2> QED BY <1>4, <2>1, <2>4, PrimedLinks
<1>6. CASE ~(Number(head) <= Lowest(head))
  <2>1. /\ poll' = Backfill(head, w, why)
        /\ IF why = "first" THEN window' = w /\ last' = head ELSE UNCHANGED <<window, last>>
        /\ UNCHANGED <<primed, told>>
    BY <1>6 DEF Prime
  <2> HIDE DEF w
  <2>2. poll' = [pc |-> "prime", head |-> head, at |-> Number(head) - 1, fresh |-> w, why |-> why]
    BY <2>1 DEF Backfill
  <2>3. /\ poll'.pc = "prime" /\ poll'.head = head /\ poll'.at = Number(head) - 1
        /\ poll'.fresh = w /\ poll'.why = why
    BY <2>2
  <2>4. DOMAIN w = Number(head) - 1 + 1 .. Number(head) /\ \A h \in DOMAIN w : w[h] = Ancestor(head, h)
    BY <1>2, <1>3
  <2>5. Jumps(head, why, window', last')
    BY <2>1 DEF Jumps
  <2>6. PrimeLinked'
    BY <2>3, <2>4, <2>5 DEF PrimeLinked
  <2>7. Cursor'
    <3>1. CASE why = "first"
      BY <2>1, <2>3, <3>1 DEF Cursor
    <3>2. CASE why # "first"
      BY <2>1, <2>3, <3>2 DEF Cursor, Remembers
    <3> QED BY <3>1, <3>2
  <2> QED BY <2>3, <2>6, <2>7 DEF Linked, WalkLinked, FillLinked, DeliverLinked
<1> QED BY <1>5, <1>6

\* A fill that begins.
LEMMA FillLinks ==
  ASSUME PollTypes, Cursor, primed, poll.pc \notin {"fill", "deliver"},
         NEW from, NEW to, NEW reorged, to <= Number(chain), FillBegins(from, reorged, last, chain),
         poll' = [pc |-> "fill", at |-> from, to |-> to, reorged |-> reorged, out |-> <<>>],
         UNCHANGED <<chain, window, last, primed, told>>
  PROVE  Linked'
<1>1. poll'.pc = "fill" /\ poll'.at = from /\ poll'.to = to /\ poll'.reorged = reorged /\ poll'.out = <<>>
  OBVIOUS
<1>2. told = last
  BY DEF Cursor
<1>3. FillLinked'
  BY <1>1, <1>2 DEF FillLinked, FillBegins
<1>4. Cursor'
  BY <1>1 DEF Cursor, Remembers
<1> QED BY <1>1, <1>3, <1>4 DEF Linked, PrimeLinked, WalkLinked, DeliverLinked

LEMMA ResumeLinks ==
  ASSUME PollTypes, Cursor, primed, fan'.pc = "rest", poll.pc \in {"next", "walk"},
         NEW head \in Blocks, Extends(chain, head), NEW from \in Nat \ {0}, NEW reorged \in BOOLEAN,
         Number(head) >= from => FillBegins(from, reorged, last, chain),
         Resume(head, from, reorged), UNCHANGED chain
  PROVE  spoilt' \/ Linked'
<1>1. Number(head) \in Nat /\ Number(last) \in Nat /\ MaxCatchUpBlocks \in Nat \ {0}
  BY ChainFacts, BlockFacts
<1>2. CASE Number(head) >= from /\ Number(head) - from >= MaxCatchUpBlocks
  <2>1. Prime(head, "gap") /\ spoilt' = (spoilt \/ reorged)
    BY <1>2 DEF Resume
  <2>2. CASE reorged
    BY <2>1, <2>2
  <2>3. CASE ~reorged
    <3>1. from = Number(last) + 1 /\ Extends(chain, last)
      BY <1>2, <2>3 DEF FillBegins
    <3>2. Number(head) > Number(last) + MaxCatchUpBlocks
      BY <1>1, <1>2, <3>1
    <3>3. chain \in Blocks /\ last \in Blocks /\ Number(last) \in 0 .. Number(last) /\ Number(last) \in 0 .. Number(head)
      BY <1>1, <3>2, ChainFacts
    <3>4. Ancestor(chain, Number(last)) = Ancestor(last, Number(last))
      BY <3>1, <3>3, ExtendsFacts
    <3>5. Ancestor(chain, Number(last)) = Ancestor(head, Number(last))
      BY <3>3, ExtendsFacts
    <3>6. Extends(head, last)
      <4>1. Ancestor(last, Number(last)) = last
        BY <3>3, BlockFacts
      <4>2. Number(last) <= Number(head)
        BY <1>1, <3>2
      <4> QED BY <3>4, <3>5, <4>1, <4>2 DEF Extends
    <3>7. Jumps(head, "gap", window, last)
      BY <3>2, <3>6 DEF Jumps
    <3> QED BY <2>1, <3>7, PrimeLinks
  <2> QED BY <2>2, <2>3
<1>3. CASE ~(Number(head) >= from /\ Number(head) - from >= MaxCatchUpBlocks)
  <2>1. /\ poll' = IF Number(head) < from THEN Returned(<<>>)
                   ELSE [pc |-> "fill", at |-> from, to |-> Number(head), reorged |-> reorged, out |-> <<>>]
        /\ UNCHANGED <<window, last, primed, told, spoilt>>
    BY <1>3 DEF Resume
  <2>2. CASE Number(head) < from
    <3>1. poll' = [pc |-> "idle"]
      BY <2>1, <2>2 DEF Returned
    <3>2. Cursor'
      BY <2>1, <3>1 DEF Cursor, Remembers
    <3> QED BY <3>1, <3>2, RestLinked
  <2>3. CASE ~(Number(head) < from)
    <3>1. FillBegins(from, reorged, last, chain)
      BY <1>1, <2>3
    <3>2. Number(head) <= Number(chain)
      BY DEF Extends
    <3> QED BY <2>1, <2>3, <3>1, <3>2, FillLinks
  <2> QED BY <2>2, <2>3
<1> QED BY <1>2, <1>3

\* A walk that begins.
LEMMA WalkFromLinks ==
  ASSUME PollTypes, Cursor, primed, poll.pc \in {"block", "next"}, NEW head, Extends(chain, head), NEW start \in Nat,
         Number(head) > Number(last) => ~Extends(head, last),
         poll' = WalkFrom(head, start), UNCHANGED <<chain, window, last, primed, told>>
  PROVE  Linked'
<1>1. poll'.pc = "walk" /\ poll'.head = head /\ poll'.start = start /\ poll'.at = start
  BY DEF WalkFrom
<1>2. Apart(window, head, start + 1, start)
  <2>1. DOMAIN window \subseteq Nat
    BY DEF PollTypes, IsWindow
  <2> QED BY <2>1 DEF Apart
<1>3. WalkLinked'
  BY <1>1, <1>2 DEF WalkLinked, Apart
<1>4. Cursor'
  BY <1>1 DEF Cursor, Remembers
<1> QED BY <1>1, <1>3, <1>4 DEF Linked, PrimeLinked, FillLinked, DeliverLinked

LEMMA ReadBlockLinks ==
  ASSUME PollTypes, Linked, fan'.pc = "rest", ReadBlock
  PROVE  Linked'
<1>1. /\ poll.pc = "block" /\ poll.number \in Nat /\ Read = Ancestor(chain, poll.number)
      /\ poll.number <= Number(chain) /\ chain' = chain
  BY DEF ReadBlock, Wanted, Read, Available, PollTypes
<1>2. Read \in Blocks /\ Number(Read) \in Nat /\ Number(last) \in Nat /\ Number(chain) \in Nat
  BY <1>1, ReadFacts, ChainFacts
<1>3. Extends(chain, Read)
  <2>1. poll.number \in 0 .. Number(chain)
    BY <1>1, <1>2
  <2> QED BY <1>1, <2>1, ExtendsFacts, ChainFacts
<1>4. Cursor
  BY DEF Linked
<1>5. CASE ~primed
  <2>1. Prime(Read, "first")
    BY <1>5 DEF ReadBlock
  <2>2. Jumps(Read, "first", window, last)
    BY DEF Jumps
  <2> QED BY <1>1, <1>2, <1>3, <1>4, <1>5, <2>1, <2>2, PrimeLinks
<1>6. CASE primed
  <2>1. /\ poll' = IF Read = last THEN Returned(<<>>)
                   ELSE IF Number(Read) <= Number(last) THEN WalkFrom(Read, Number(Read))
                   ELSE [pc |-> "next", head |-> Read]
        /\ UNCHANGED <<window, last, primed, told, spoilt>>
    BY <1>6 DEF ReadBlock
  <2>2. CASE Read = last
    <3>1. poll' = [pc |-> "idle"]
      BY <2>1, <2>2 DEF Returned
    <3>2. Cursor'
      BY <1>1, <1>4, <2>1, <3>1 DEF Cursor, Remembers
    <3> QED BY <3>1, <3>2, RestLinked
  <2>3. CASE Read # last /\ Number(Read) <= Number(last)
    <3>1. poll' = WalkFrom(Read, Number(Read)) /\ ~(Number(Read) > Number(last))
      BY <1>2, <2>1, <2>3
    <3> QED BY <1>1, <1>2, <1>3, <1>4, <1>6, <2>1, <3>1, WalkFromLinks
  <2>4. CASE Read # last /\ ~(Number(Read) <= Number(last))
    <3> DEFINE b == Read
    <3>1. poll' = [pc |-> "next", head |-> b]
      BY <2>1, <2>4
    <3>2. Extends(chain, b)
      BY <1>3
    <3> HIDE DEF b
    <3>3. poll'.pc = "next" /\ poll'.head = b
      BY <3>1
    <3>4. WalkLinked'
      BY <1>1, <3>2, <3>3 DEF WalkLinked
    <3>5. Cursor'
      BY <1>1, <1>4, <2>1, <3>3 DEF Cursor, Remembers
    <3> QED BY <3>3, <3>4, <3>5 DEF Linked, PrimeLinked, FillLinked, DeliverLinked
  <2> QED BY <2>2, <2>3, <2>4
<1> QED BY <1>5, <1>6

LEMMA ReadPrimeLinks ==
  ASSUME PollTypes, Linked, fan'.pc = "rest", ReadPrime
  PROVE  Linked'
<1> DEFINE w == [h \in DOMAIN poll.fresh \cup {poll.at} |-> IF h = poll.at THEN Read ELSE poll.fresh[h]]
<1>1. poll.pc = "prime" /\ Wanted = poll.at /\ chain' = chain
  BY DEF ReadPrime, Wanted
<1>2. /\ poll = [pc |-> "prime", head |-> poll.head, at |-> poll.at, fresh |-> poll.fresh, why |-> poll.why]
      /\ poll.head \in Blocks /\ poll.at \in Nat
      /\ Lowest(poll.head) <= poll.at /\ poll.at < Number(poll.head)
      /\ poll.why \in {"first", "gap", "deep"} /\ (primed <=> poll.why # "first")
  BY <1>1 DEF PollTypes, PrimeTypes
<1>3. /\ Extends(chain, poll.head)
      /\ DOMAIN poll.fresh = poll.at + 1 .. Number(poll.head)
      /\ \A h \in DOMAIN poll.fresh : poll.fresh[h] = Ancestor(poll.head, h)
      /\ Jumps(poll.head, poll.why, window, last)
  BY <1>1 DEF Linked, PrimeLinked
<1>4. Number(poll.head) \in Nat /\ chain \in Blocks /\ Lowest(poll.head) \in Nat
  BY <1>2, BlockFacts, ChainFacts, LowestFacts
<1>5. Read = Ancestor(poll.head, poll.at)
  <2>1. Read = Ancestor(chain, poll.at)
    BY <1>1 DEF Read
  <2>2. poll.at \in 0 .. Number(poll.head)
    BY <1>2, <1>4
  <2> QED BY <1>2, <1>3, <1>4, <2>1, <2>2, ExtendsFacts
<1>6. DOMAIN w = poll.at .. Number(poll.head)
  BY <1>2, <1>3, <1>4
<1>7. \A h \in DOMAIN w : w[h] = Ancestor(poll.head, h)
  BY <1>3, <1>5
<1>8. \/ poll.at = Lowest(poll.head) /\ Primed(poll.head, w, poll.why)
      \/ /\ poll.at # Lowest(poll.head)
         /\ poll' = [poll EXCEPT !.at = poll.at - 1, !.fresh = w]
         /\ window' = IF poll.why = "first" THEN w ELSE window
         /\ UNCHANGED <<last, primed, told>>
  BY DEF ReadPrime
<1> HIDE DEF w
<1>9. CASE poll.at = Lowest(poll.head) /\ Primed(poll.head, w, poll.why)
  <2>1. Remembers(w, poll.head)
    BY <1>2, <1>6, <1>7, <1>9, BackfillRemembers
  <2>2. poll.why # "first" => Remembers(window, last) /\ told = last /\ Jumps(poll.head, poll.why, window, last)
    BY <1>1, <1>2, <1>3 DEF Linked, Cursor
  <2> QED BY <1>2, <1>9, <2>1, <2>2, PrimedLinks
<1>10. CASE /\ poll.at # Lowest(poll.head)
            /\ poll' = [poll EXCEPT !.at = poll.at - 1, !.fresh = w]
            /\ window' = IF poll.why = "first" THEN w ELSE window
            /\ UNCHANGED <<last, primed, told>>
  <2>1. poll' = [pc |-> "prime", head |-> poll.head, at |-> poll.at - 1, fresh |-> w, why |-> poll.why]
    <3>1. poll = [pc |-> "prime", head |-> poll.head, at |-> poll.at, fresh |-> poll.fresh, why |-> poll.why]
      BY <1>2
    <3>2. poll' = [[poll EXCEPT !.at = poll.at - 1] EXCEPT !.fresh = w]
      BY <1>10
    <3>3. [poll EXCEPT !.at = poll.at - 1]
            = [pc |-> "prime", head |-> poll.head, at |-> poll.at - 1, fresh |-> poll.fresh, why |-> poll.why]
      BY <3>1
    <3> QED BY <3>2, <3>3
  <2>2. poll'.pc = "prime" /\ poll'.head = poll.head /\ poll'.at = poll.at - 1 /\ poll'.fresh = w /\ poll'.why = poll.why
    BY <2>1
  <2>3. DOMAIN w = poll.at - 1 + 1 .. Number(poll.head)
    BY <1>2, <1>6
  <2>4. Jumps(poll.head, poll.why, window, last) /\ (poll.why # "first" => window' = window) /\ last' = last
    BY <1>3, <1>10
  <2>5. Jumps(poll.head, poll.why, window', last')
    <3>1. CASE poll.why = "first"
      BY <3>1 DEF Jumps
    <3>2. CASE poll.why # "first"
      BY <2>4, <3>2
    <3> QED BY <3>1, <3>2
  <2>6. PrimeLinked'
    BY <1>1, <1>3, <1>7, <2>2, <2>3, <2>5 DEF PrimeLinked
  <2>7. Cursor'
    <3>1. primed => Remembers(window', last') /\ told = last
      BY <1>1, <1>2, <2>4 DEF Linked, Cursor
    <3> QED BY <1>10, <2>2, <2>4, <3>1 DEF Cursor
  <2> QED BY <2>2, <2>6, <2>7 DEF Linked, WalkLinked, FillLinked, DeliverLinked
<1> QED BY <1>8, <1>9, <1>10

LEMMA ReadNextLinks ==
  ASSUME PollTypes, Linked, fan'.pc = "rest", ReadNext
  PROVE  spoilt' \/ Linked'
<1>1. poll.pc = "next" /\ primed /\ poll.head \in Blocks /\ Number(poll.head) > Number(last) /\ chain' = chain
  BY DEF ReadNext, PollTypes
<1>2. /\ Number(last) \in Nat /\ Number(chain) \in Nat /\ Number(poll.head) \in Nat
      /\ chain \in Blocks /\ last \in Blocks
  BY <1>1, BlockFacts, ChainFacts
<1>3. Read = Ancestor(chain, Number(last) + 1) /\ Number(last) + 1 <= Number(chain)
  BY <1>1 DEF ReadNext, Wanted, Read, Available
<1>4. Ancestor(Read, Number(last)) = Ancestor(chain, Number(last))
  <2>1. Number(last) + 1 \in 0 .. Number(chain) /\ Number(last) \in 0 .. Number(last) + 1
    BY <1>2, <1>3
  <2> QED BY <1>2, <1>3, <2>1, BlockFacts
<1>5. Extends(chain, poll.head) /\ Cursor
  BY <1>1 DEF Linked, WalkLinked
<1>6. Ancestor(chain, Number(last)) = Ancestor(poll.head, Number(last))
  <2>1. Number(last) \in 0 .. Number(poll.head)
    BY <1>1, <1>2
  <2> QED BY <1>1, <1>2, <1>5, <2>1, ExtendsFacts
<1>7. CASE Ancestor(Read, Number(last)) = last
  <2>1. Resume(poll.head, Number(last) + 1, FALSE)
    BY <1>7 DEF ReadNext
  <2>2. Extends(chain, last)
    BY <1>2, <1>3, <1>4, <1>7 DEF Extends
  <2>3. FillBegins(Number(last) + 1, FALSE, last, chain)
    BY <2>2 DEF FillBegins
  <2>4. Number(last) + 1 \in Nat \ {0} /\ FALSE \in BOOLEAN
    BY <1>2
  <2> QED BY <1>1, <1>5, <2>1, <2>3, <2>4, ResumeLinks
<1>8. CASE Ancestor(Read, Number(last)) # last
  <2>1. poll' = WalkFrom(poll.head, Number(last)) /\ UNCHANGED <<window, last, primed, told, spoilt>>
    BY <1>8 DEF ReadNext
  <2>2. ~Extends(poll.head, last)
    BY <1>4, <1>6, <1>8 DEF Extends
  <2> QED BY <1>1, <1>2, <1>5, <2>1, <2>2, WalkFromLinks
<1> QED BY <1>7, <1>8

\* The first height at which a walk finds upstream and window agree is where
\* the branches part, and a walk that finds none has compared every height.
LEMMA ReadWalkLinks ==
  ASSUME PollTypes, Linked, fan'.pc = "rest", ReadWalk
  PROVE  spoilt' \/ Linked'
<1>1. poll.pc = "walk" /\ primed /\ chain' = chain
  BY DEF ReadWalk, PollTypes
<1>2. /\ poll = [pc |-> "walk", head |-> poll.head, start |-> poll.start, at |-> poll.at]
      /\ poll.head \in Blocks /\ poll.start \in Nat /\ poll.at \in Nat
      /\ poll.at <= poll.start /\ poll.start - poll.at <= MaxReorgDepth
      /\ poll.start = Lower(poll.head, last)
  BY <1>1 DEF PollTypes, WalkTypes, Lower
<1>3. /\ Extends(chain, poll.head) /\ Apart(window, poll.head, poll.at + 1, poll.start)
      /\ Number(poll.head) > Number(last) => ~Extends(poll.head, last)
  BY <1>1 DEF Linked, WalkLinked
<1>4. /\ Number(last) \in Nat /\ Number(chain) \in Nat /\ Number(poll.head) \in Nat
      /\ chain \in Blocks /\ last \in Blocks /\ DOMAIN window \subseteq Nat /\ MaxReorgDepth \in Nat
  BY <1>2, BlockFacts, ChainFacts DEF IsWindow
<1>5. Cursor /\ Remembers(window, last) /\ told = last
  BY <1>1 DEF Linked, Cursor
<1>6. poll.at <= Number(poll.head) /\ poll.at <= Number(last) /\ poll.start <= Number(last)
  BY <1>2, <1>4 DEF Lower
<1>7. Read = Ancestor(poll.head, poll.at) /\ Read = Ancestor(chain, poll.at)
  <2>1. Read = Ancestor(chain, poll.at)
    BY <1>1 DEF Read, Wanted
  <2>2. poll.at \in 0 .. Number(poll.head)
    BY <1>2, <1>4, <1>6
  <2> QED BY <1>2, <1>3, <1>4, <2>1, <2>2, ExtendsFacts
<1>8. CASE poll.at \in DOMAIN window /\ window[poll.at] = Read
  <2>1. Resume(poll.head, poll.at + 1, TRUE)
    BY <1>8 DEF ReadWalk
  <2>2. Ancestor(last, poll.at) = Ancestor(chain, poll.at) /\ Ancestor(last, poll.at) = Ancestor(poll.head, poll.at)
    BY <1>5, <1>6, <1>7, <1>8 DEF Remembers
  <2>3. ASSUME Number(poll.head) >= poll.at + 1 PROVE FillBegins(poll.at + 1, TRUE, last, chain)
    <3>1. poll.at < poll.start
      <4>1. SUFFICES ASSUME poll.at = poll.start PROVE FALSE
        BY <1>2
      <4>2. poll.at = Number(last) /\ Number(poll.head) > Number(last)
        BY <1>2, <1>4, <2>3, <4>1 DEF Lower
      <4>3. Ancestor(last, Number(last)) = last
        BY <1>4, BlockFacts
      <4>4. Extends(poll.head, last)
        BY <1>4, <2>2, <4>2, <4>3 DEF Extends
      <4> QED BY <1>3, <4>2, <4>4
    <3>2. poll.at + 1 <= poll.start /\ poll.at + 1 <= Number(last) /\ poll.at + 1 \in poll.at .. Number(last)
      BY <1>2, <1>4, <1>6, <3>1
    <3>3. poll.at + 1 \in DOMAIN window
      BY <1>5, <1>8, <3>2 DEF Remembers
    <3>4. window[poll.at + 1] = Ancestor(last, poll.at + 1)
      BY <1>5, <3>2, <3>3 DEF Remembers
    <3>5. window[poll.at + 1] # Ancestor(poll.head, poll.at + 1)
      <4>1. poll.at + 1 <= poll.at + 1
        BY <1>2
      <4> QED BY <1>3, <3>2, <3>3, <4>1 DEF Apart
    <3>6. Ancestor(chain, poll.at + 1) = Ancestor(poll.head, poll.at + 1)
      <4>1. poll.at + 1 \in 0 .. Number(poll.head)
        BY <1>2, <1>4, <2>3
      <4> QED BY <1>2, <1>3, <1>4, <4>1, ExtendsFacts
    <3> DEFINE n == poll.at + 1
    <3>7. n - 1 = poll.at
      BY <1>2
    <3>8. /\ n <= Number(last)
          /\ Ancestor(last, n - 1) = Ancestor(chain, n - 1)
          /\ Ancestor(last, n) # Ancestor(chain, n)
      BY <2>2, <3>2, <3>4, <3>5, <3>6, <3>7
    <3> HIDE DEF n
    <3>9. FillBegins(n, TRUE, last, chain)
      BY <3>8 DEF FillBegins
    <3> QED BY <3>9 DEF n
  <2>4. poll.at + 1 \in Nat \ {0} /\ TRUE \in BOOLEAN
    BY <1>2
  <2> QED BY <1>1, <1>2, <1>3, <1>5, <2>1, <2>3, <2>4, ResumeLinks
<1>9. CASE ~(poll.at \in DOMAIN window /\ window[poll.at] = Read)
  <2>1. Apart(window, poll.head, poll.at, poll.start)
    <3>1. SUFFICES ASSUME NEW h \in DOMAIN window, poll.at <= h, h <= poll.start PROVE window[h] # Ancestor(poll.head, h)
      BY DEF Apart
    <3>2. CASE h = poll.at
      BY <1>7, <1>9, <3>2
    <3>3. CASE h # poll.at
      <4>1. poll.at + 1 <= h
        BY <1>2, <1>4, <3>1, <3>3
      <4> QED BY <1>3, <3>1, <4>1 DEF Apart
    <3> QED BY <3>2, <3>3
  <2>2. CASE poll.at > 0 /\ poll.start - poll.at < MaxReorgDepth
    <3>1. poll' = [poll EXCEPT !.at = poll.at - 1] /\ UNCHANGED <<window, last, primed, told, spoilt>>
      BY <1>9, <2>2 DEF ReadWalk
    <3>2. poll' = [pc |-> "walk", head |-> poll.head, start |-> poll.start, at |-> poll.at - 1]
      BY <1>2, <3>1
    <3>3. poll'.pc = "walk" /\ poll'.head = poll.head /\ poll'.start = poll.start /\ poll'.at = poll.at - 1
      BY <3>2
    <3>4. poll.at - 1 + 1 = poll.at
      BY <1>2
    <3>5. WalkLinked'
      BY <1>1, <1>3, <2>1, <3>1, <3>3, <3>4 DEF WalkLinked
    <3>6. Cursor'
      BY <1>5, <3>1, <3>3 DEF Cursor
    <3> QED BY <3>3, <3>5, <3>6 DEF Linked, PrimeLinked, FillLinked, DeliverLinked
  <2>3. CASE ~(poll.at > 0 /\ poll.start - poll.at < MaxReorgDepth)
    <3>1. Prime(poll.head, "deep")
      BY <1>9, <2>3 DEF ReadWalk
    <3>2. \A h \in DOMAIN window : h >= poll.at
      <4>1. CASE poll.at = 0
        BY <1>4, <4>1
      <4>2. CASE poll.at # 0
        <5>1. poll.start - poll.at = MaxReorgDepth
          BY <1>2, <1>4, <2>3, <4>2
        <5>2. \A h \in DOMAIN window : h \in Nat /\ h >= Number(last) - MaxReorgDepth
          BY <1>4, <1>5 DEF Remembers
        <5>3. Number(last) - MaxReorgDepth >= poll.at
          BY <1>2, <1>4, <1>6, <5>1
        <5> QED BY <1>2, <1>4, <5>2, <5>3
      <4> QED BY <4>1, <4>2
    <3>3. Apart(window, poll.head, 0, poll.start)
      BY <2>1, <3>2 DEF Apart
    <3>4. Jumps(poll.head, "deep", window, last)
      BY <1>2, <3>3 DEF Jumps
    <3> QED BY <1>1, <1>2, <1>3, <1>5, <3>1, <3>4, PrimeLinks
  <2> QED BY <2>2, <2>3
<1> QED BY <1>8, <1>9

\* A head that is recorded on top of the last block, or where the branches
\* part, follows what was handed out, or the head recorded before it.
LEMMA FillFollows ==
  ASSUME PollTypes, NEW n \in Nat \ {0}, n <= Number(chain), NEW reorged \in BOOLEAN, FillBegins(n, reorged, last, chain),
         NEW H, H.block = Ancestor(chain, n), H.reorged = reorged
  PROVE  /\ Follows(H, last)
         /\ n - 1 <= Number(last) /\ Ancestor(last, n - 1) = Ancestor(chain, n - 1)
<1> DEFINE b == Ancestor(chain, n)
<1>1. /\ Number(chain) \in Nat /\ Number(last) \in Nat /\ chain \in Blocks /\ last \in Blocks
      /\ Ancestor(last, Number(last)) = last
  BY ChainFacts, BlockFacts
<1>2. n \in 0 .. Number(chain) /\ n - 1 \in 0 .. n /\ n - 1 \in Nat
  BY <1>1
<1>3. Number(b) = n /\ Ancestor(b, n - 1) = Ancestor(chain, n - 1)
  BY <1>1, <1>2, BlockFacts
<1>4. Ancestor(b, Number(b)) = b
  BY <1>1, <1>2, BlockFacts
<1> HIDE DEF b
<1>5. H.block = b
  BY DEF b
<1>6. CASE reorged = TRUE
  <2>1. /\ n <= Number(last) /\ Ancestor(last, n - 1) = Ancestor(chain, n - 1)
        /\ Ancestor(last, n) # b
    BY <1>6 DEF FillBegins, b
  <2>2. ~Extends(b, last)
    <3>1. SUFFICES ASSUME Extends(b, last) PROVE FALSE
      OBVIOUS
    <3>2. Number(last) <= n /\ Ancestor(b, Number(last)) = last
      BY <1>3, <3>1 DEF Extends
    <3>3. Number(last) = n
      BY <1>1, <1>2, <2>1, <3>2
    <3> QED BY <1>1, <1>3, <1>4, <2>1, <3>2, <3>3
  <2>3. Extends(last, Ancestor(b, n - 1))
    <3>1. n - 1 \in 0 .. Number(last)
      BY <1>1, <1>2, <2>1
    <3> QED BY <1>1, <1>3, <2>1, <3>1, ExtendsFacts
  <2>4. ~Extends(last, b)
    BY <1>3, <2>1 DEF Extends
  <2>5. n - 1 <= Number(last)
    BY <1>1, <1>2, <2>1
  <2> QED BY <1>3, <1>5, <1>6, <2>1, <2>2, <2>3, <2>4, <2>5 DEF Follows
<1>7. CASE reorged = FALSE
  <2>1. n = Number(last) + 1 /\ Extends(chain, last)
    BY <1>7 DEF FillBegins
  <2>2. n - 1 = Number(last)
    BY <1>1, <2>1
  <2>3. Ancestor(chain, n - 1) = last
    BY <2>1, <2>2 DEF Extends
  <2>4. n - 1 <= Number(last)
    BY <1>1, <2>2
  <2>5. Ancestor(last, n - 1) = Ancestor(chain, n - 1)
    BY <1>1, <2>2, <2>3
  <2>6. Ancestor(b, Number(b) - 1) = last
    BY <1>3, <2>3
  <2>7. Follows(H, last)
    BY <1>5, <1>7, <2>6 DEF Follows
  <2> QED BY <2>4, <2>5, <2>7
<1> QED BY <1>6, <1>7

\* A head that follows the last of a run makes it one longer.
LEMMA RunGrows ==
  ASSUME NEW out \in Seq(Heads), NEW H \in Heads, NEW b, NEW a,
         out = <<>> => Follows(H, a),
         out # <<>> => Run(out, b) /\ Follows(H, b) /\ Follows(out[1], a)
  PROVE  Run(Append(out, H), H.block) /\ Follows(Append(out, H)[1], a)
<1> DEFINE s == Append(out, H)
<1>1. /\ Len(s) = Len(out) + 1 /\ Len(out) \in Nat /\ s[Len(out) + 1] = H
      /\ \A k \in 1 .. Len(out) : s[k] = out[k]
  OBVIOUS
<1> HIDE DEF s
<1>2. CASE out = <<>>
  <2>1. Len(out) = 0
    BY <1>2
  <2>2. s[1] = H /\ Len(s) = 1
    BY <1>1, <2>1
  <2> QED BY <1>2, <2>2 DEF Run, s
<1>3. CASE out # <<>>
  <2>1. Len(out) > 0
    BY <1>1, <1>3
  <2>2. out[Len(out)].block = b /\ \A k \in 1 .. Len(out) - 1 : Follows(out[k + 1], out[k].block)
    BY <1>3 DEF Run
  <2>3. ASSUME NEW k \in 1 .. Len(s) - 1 PROVE Follows(s[k + 1], s[k].block)
    <3>1. CASE k = Len(out)
      <4>1. s[k + 1] = H /\ s[k] = out[k] /\ out[k].block = b
        BY <1>1, <2>1, <2>2, <3>1
      <4> QED BY <1>3, <4>1
    <3>2. CASE k # Len(out)
      <4>1. k \in 1 .. Len(out) - 1 /\ k \in 1 .. Len(out) /\ k + 1 \in 1 .. Len(out)
        BY <1>1, <2>3, <3>2
      <4> QED BY <1>1, <2>2, <4>1
    <3> QED BY <3>1, <3>2
  <2>4. s[1] = out[1] /\ s[Len(s)].block = H.block
    BY <1>1, <2>1
  <2> QED BY <1>3, <2>3, <2>4 DEF Run, s
<1> QED BY <1>2, <1>3

LEMMA ReadFillLinks ==
  ASSUME PollTypes, Linked, fan'.pc = "rest", ReadFill
  PROVE  Linked'
<1> DEFINE H == [block |-> Read, reorged |-> poll.reorged /\ poll.out = <<>>, kept |-> {}]
           heads == Append(poll.out, H)
           n == poll.at
<1>1. /\ poll.pc = "fill" /\ Wanted = n /\ primed /\ n <= Number(chain)
      /\ UNCHANGED <<chain, left, primed, told, spoilt>>
      /\ window' = Record(window, Read) /\ last' = Read
      /\ poll' = IF n = poll.to THEN Returned(heads) ELSE [poll EXCEPT !.at = n + 1, !.out = heads]
  BY DEF ReadFill, Wanted, Available, PollTypes
<1>2. /\ poll = [pc |-> "fill", at |-> n, to |-> poll.to, reorged |-> poll.reorged, out |-> poll.out]
      /\ n \in Nat \ {0} /\ poll.to \in Nat /\ n <= poll.to
      /\ poll.reorged \in BOOLEAN /\ poll.out \in Seq(Heads)
  BY <1>1 DEF PollTypes, FillTypes
<1>3. /\ poll.to <= Number(chain)
      /\ poll.out = <<>> => told = last /\ FillBegins(n, poll.reorged, last, chain)
      /\ poll.out # <<>> => Run(poll.out, last) /\ Follows(poll.out[1], told) /\ FillBegins(n, FALSE, last, chain)
  BY <1>1 DEF Linked, FillLinked
<1>4. Read = Ancestor(chain, n) /\ Read \in Blocks /\ Number(Read) = n
  <2>1. Read = Ancestor(chain, n)
    BY <1>1 DEF Read
  <2> QED BY <1>1, <1>2, <2>1, ReadFacts DEF PollTypes
<1>5. H \in Heads /\ H.block = Read /\ H.reorged \in BOOLEAN /\ (H.reorged <=> poll.reorged /\ poll.out = <<>>)
  BY <1>2, <1>4 DEF Heads
<1> HIDE DEF H
<1>6. FillBegins(n, H.reorged, last, chain)
  <2>1. CASE poll.out = <<>>
    <3>1. H.reorged = poll.reorged
      BY <1>2, <1>5, <2>1
    <3> QED BY <1>3, <2>1, <3>1
  <2>2. CASE poll.out # <<>>
    <3>1. H.reorged = FALSE
      BY <1>5, <2>2
    <3> QED BY <1>3, <2>2, <3>1
  <2> QED BY <2>1, <2>2
<1>7. Follows(H, last) /\ n - 1 <= Number(last) /\ Ancestor(last, n - 1) = Ancestor(chain, n - 1)
  BY <1>1, <1>2, <1>4, <1>5, <1>6, FillFollows
<1>8. Run(heads, Read) /\ Follows(heads[1], told)
  <2>1. poll.out = <<>> => Follows(H, told)
    BY <1>3, <1>7
  <2> QED BY <1>2, <1>3, <1>5, <1>7, <2>1, RunGrows
<1>9. Remembers(window', last')
  <2>1. Ancestor(Read, n - 1) = Ancestor(chain, n - 1)
    <3>1. n \in 0 .. Number(chain) /\ n - 1 \in 0 .. n
      BY <1>1, <1>2, ChainFacts
    <3> QED BY <1>4, <3>1, ChainFacts, BlockFacts
  <2>2. Remembers(window, last) /\ IsWindow(window) /\ last \in Blocks
    BY <1>1, ChainFacts DEF Linked, Cursor
  <2>3. Number(Read) > 0 /\ Number(Read) - 1 <= Number(last) /\ Ancestor(last, Number(Read) - 1) = Ancestor(Read, Number(Read) - 1)
    BY <1>2, <1>4, <1>7, <2>1
  <2>4. Remembers(Record(window, Read), Read)
    BY <1>4, <2>2, <2>3, RecordRemembers
  <2> QED BY <1>1, <2>4
<1>10. heads # <<>> /\ heads \in Seq(Heads)
  BY <1>2, <1>5
<1> HIDE DEF heads
<1>11. CASE n = poll.to
  <2>1. poll' = [pc |-> "deliver", out |-> heads]
    BY <1>1, <1>10, <1>11 DEF Returned
  <2>2. poll'.pc = "deliver" /\ poll'.out = heads
    BY <2>1
  <2>3. DeliverLinked'
    BY <1>1, <1>8, <2>2 DEF DeliverLinked
  <2>4. Cursor'
    BY <1>1, <1>9, <2>2 DEF Cursor
  <2> QED BY <2>2, <2>3, <2>4 DEF Linked, PrimeLinked, WalkLinked, FillLinked
<1>12. CASE n # poll.to
  <2>1. poll' = [pc |-> "fill", at |-> n + 1, to |-> poll.to, reorged |-> poll.reorged, out |-> heads]
    BY <1>1, <1>2, <1>12
  <2>2. poll'.pc = "fill" /\ poll'.at = n + 1 /\ poll'.to = poll.to /\ poll'.out = heads
    BY <2>1
  <2>3. Extends(chain, Read)
    <3>1. n \in 0 .. Number(chain)
      BY <1>1, <1>2, ChainFacts
    <3> QED BY <1>4, <3>1, ChainFacts, ExtendsFacts
  <2>4. FillBegins(n + 1, FALSE, last', chain')
    BY <1>1, <1>4, <2>3 DEF FillBegins
  <2>5. Run(heads, last') /\ Follows(heads[1], told')
    BY <1>1, <1>8
  <2>6. FillLinked'
    <3>1. poll'.to <= Number(chain') /\ poll'.out # <<>>
      BY <1>1, <1>3, <1>10, <2>2
    <3>2. FillBegins(poll'.at, FALSE, last', chain')
      BY <2>2, <2>4
    <3> QED BY <2>2, <2>5, <3>1, <3>2 DEF FillLinked
  <2>7. Cursor'
    BY <1>1, <1>9, <2>2 DEF Cursor
  <2> QED BY <2>2, <2>6, <2>7 DEF Linked, PrimeLinked, WalkLinked, DeliverLinked
<1> QED BY <1>11, <1>12

\* The upstream mines on what it holds.
LEMMA MineLinks ==
  ASSUME PollTypes, Linked, fan' = fan, NEW x \in 0 .. left.forks, Mine(x)
  PROVE  Linked'
<1>1. chain' = Append(chain, x) /\ UNCHANGED <<window, last, primed, poll, told>> /\ x \in Nat
  BY DEF Mine, pollerVars, PollTypes
<1>2. /\ Number(chain) \in Nat /\ Number(chain') = Number(chain) + 1
      /\ \A n \in 0 .. Number(chain) : Ancestor(chain', n) = Ancestor(chain, n)
  BY <1>1, ChainFacts, ChildFacts
<1>3. ASSUME NEW b \in Blocks, Extends(chain, b) PROVE Extends(chain', b)
  <2>1. Number(b) \in 0 .. Number(chain)
    BY <1>2, <1>3, BlockFacts DEF Extends
  <2> QED BY <1>2, <1>3, <2>1 DEF Extends
<1>4. Cursor'
  BY <1>1 DEF Linked, Cursor
<1>5. PrimeLinked'
  <2>1. poll.pc = "prime" => poll.head \in Blocks
    BY DEF PollTypes, PrimeTypes
  <2> QED BY <1>1, <1>3, <2>1 DEF Linked, PrimeLinked
<1>6. WalkLinked'
  <2>1. poll.pc \in {"next", "walk"} => poll.head \in Blocks
    BY DEF PollTypes, WalkTypes
  <2> QED BY <1>1, <1>3, <2>1 DEF Linked, WalkLinked
<1>7. FillLinked'
  <2>1. SUFFICES ASSUME poll.pc = "fill" PROVE FillLinked'
    BY <1>1 DEF FillLinked
  <2>2. poll.at \in Nat \ {0} /\ poll.to \in Nat /\ poll.at <= poll.to /\ poll.to <= Number(chain)
    BY <2>1 DEF PollTypes, FillTypes, Linked, FillLinked
  <2>3. poll.at \in 0 .. Number(chain) /\ poll.at - 1 \in 0 .. Number(chain) /\ poll.to <= Number(chain')
    BY <1>2, <2>2
  <2>4. \A r : FillBegins(poll.at, r, last, chain) => FillBegins(poll.at, r, last, chain')
    BY <1>2, <1>3, <2>3, ChainFacts DEF FillBegins
  <2> QED BY <1>1, <2>1, <2>3, <2>4 DEF Linked, FillLinked
<1>8. DeliverLinked'
  BY <1>1 DEF Linked, DeliverLinked
<1> QED BY <1>4, <1>5, <1>6, <1>7, <1>8 DEF Linked

LEMMA RetreatLinks ==
  ASSUME PollTypes, Linked, fan' = fan, NEW n, Retreat(n)
  PROVE  spoilt' \/ poll'.pc = "off" \/ Linked'
<1>1. UNCHANGED <<window, last, primed, poll, told>> /\ spoilt' = (spoilt \/ (Polling /\ poll.pc # "block"))
  BY DEF Retreat
<1>2. CASE Polling /\ poll.pc # "block"
  BY <1>1, <1>2
<1>3. CASE ~(Polling /\ poll.pc # "block")
  <2>1. poll.pc \notin {"prime", "next", "walk", "fill"}
    BY <1>3 DEF Polling
  <2> QED BY <1>1, <2>1 DEF Linked, Cursor, PrimeLinked, WalkLinked, FillLinked, DeliverLinked
<1> QED BY <1>2, <1>3

LEMMA ReadFailedLinks ==
  ASSUME PollTypes, Linked, ReadFailed
  PROVE  spoilt' \/ Linked'
<1>1. /\ Polling /\ poll' = [pc |-> "idle"] /\ UNCHANGED <<window, last, primed, told>>
      /\ spoilt' = (spoilt \/ (poll.pc = "fill" /\ poll.out # <<>>) \/ (poll.pc = "prime" /\ poll.why = "first"))
  BY DEF ReadFailed
<1>2. CASE poll.pc = "fill" /\ poll.out # <<>>
  BY <1>1, <1>2
<1>3. CASE poll.pc = "prime" /\ poll.why = "first"
  BY <1>1, <1>3
<1>4. CASE ~(poll.pc = "fill" /\ poll.out # <<>>) /\ ~(poll.pc = "prime" /\ poll.why = "first")
  <2>1. primed => told = last
    BY <1>1, <1>4 DEF Linked, Cursor, FillLinked, Polling
  <2>2. ~primed => poll.pc # "prime"
    BY <1>4 DEF PollTypes, PrimeTypes
  <2>3. Cursor'
    BY <1>1, <2>1, <2>2 DEF Linked, Cursor
  <2> QED BY <1>1, <2>3, RestLinked
<1> QED BY <1>2, <1>3, <1>4

LEMMA ReadHeadLinks ==
  ASSUME Linked, ReadHead
  PROVE  Linked'
<1>1. poll.pc = "idle" /\ poll'.pc = "block" /\ UNCHANGED <<window, last, primed, told>>
  BY DEF ReadHead
<1>2. Cursor'
  BY <1>1 DEF Linked, Cursor
<1> QED BY <1>1, <1>2, RestLinked

\* The loop takes up the next head, or is done with the last.
LEMMA FanHeadLinks ==
  ASSUME PollTypes, Linked, FanHead
  PROVE  Linked'
<1>1. /\ poll.pc = "deliver" /\ told' = Head(poll.out).block /\ fan'.pc = "newHeads"
      /\ UNCHANGED <<chain, window, last, primed, poll>>
  BY DEF FanHead
<1>2. Head(poll.out) = poll.out[1]
  BY <1>1 DEF PollTypes, DeliverTypes
<1>3. DeliverLinked'
  BY <1>1, <1>2 DEF Linked, DeliverLinked
<1>4. Cursor'
  BY <1>1 DEF Linked, Cursor
<1> QED BY <1>1, <1>3, <1>4 DEF Linked, PrimeLinked, WalkLinked, FillLinked

LEMMA FanDoneLinks ==
  ASSUME PollTypes, Linked, poll.pc = "deliver", FanDone
  PROVE  Linked'
<1>1. /\ fan.pc = "logs" /\ fan'.pc = "rest" /\ poll' = Returned(Tail(poll.out))
      /\ UNCHANGED <<chain, window, last, primed, told>>
  BY DEF FanDone, NoFan
<1>2. poll.out \in Seq(Heads) /\ poll.out # <<>>
  BY DEF PollTypes, DeliverTypes
<1> DEFINE s == Tail(poll.out)
           n == Len(poll.out)
<1>3. n \in Nat \ {0} /\ s \in Seq(Heads) /\ Len(s) = n - 1 /\ \A k \in 1 .. n - 1 : s[k] = poll.out[k + 1]
  BY <1>2
<1>4. /\ told = poll.out[1].block /\ poll.out[n].block = last
      /\ \A k \in 1 .. n - 1 : Follows(poll.out[k + 1], poll.out[k].block)
  BY <1>1 DEF Linked, DeliverLinked, Run
<1> HIDE DEF s
<1>5. CASE s = <<>>
  <2>1. n = 1
    BY <1>3, <1>5
  <2>2. told = last
    BY <1>4, <2>1
  <2>3. poll' = [pc |-> "idle"]
    BY <1>1, <1>5 DEF Returned, s
  <2>4. Cursor'
    BY <1>1, <2>2, <2>3 DEF Linked, Cursor
  <2> QED BY <2>3, <2>4, RestLinked
<1>6. CASE s # <<>>
  <2>1. poll'.pc = "deliver" /\ poll'.out = s
    BY <1>1, <1>6 DEF Returned, s
  <2>2. Len(s) > 0 /\ n > 1
    BY <1>3, <1>6
  <2>3. s[Len(s)] = poll.out[n]
    <3>1. n - 1 \in 1 .. n - 1 /\ n - 1 + 1 = n
      BY <1>3, <2>2
    <3> QED BY <1>3, <3>1
  <2>4. s[1] = poll.out[2] /\ Follows(poll.out[2], poll.out[1].block)
    <3>1. 1 \in 1 .. n - 1
      BY <1>3, <2>2
    <3>2. 1 + 1 = 2
      OBVIOUS
    <3> QED BY <1>3, <1>4, <3>1, <3>2
  <2>5. ASSUME NEW k \in 1 .. Len(s) - 1 PROVE Follows(s[k + 1], s[k].block)
    <3>1. k \in 1 .. n - 1 /\ k + 1 \in 1 .. n - 1
      BY <1>3, <2>5
    <3>2. s[k] = poll.out[k + 1] /\ s[k + 1] = poll.out[(k + 1) + 1]
      BY <1>3, <3>1
    <3> QED BY <1>4, <3>1, <3>2
  <2>6. Run(s, last) /\ Follows(s[1], told)
    BY <1>4, <2>3, <2>4, <2>5 DEF Run
  <2>7. DeliverLinked'
    BY <1>1, <2>1, <2>6 DEF DeliverLinked
  <2>8. Cursor'
    BY <1>1, <2>1 DEF Linked, Cursor
  <2> QED BY <2>1, <2>7, <2>8 DEF Linked, PrimeLinked, WalkLinked, FillLinked
<1> QED BY <1>5, <1>6

\* A poll that was disturbed stays so until its loop is replaced.
LEMMA SpoiltStays ==
  ASSUME spoilt, PollStep \/ ReadFailed \/ UpstreamStep
  PROVE  spoilt'
BY DEF PollStep, ReadFailed, UpstreamStep, Mine, pollerVars, Retreat, ReadHead, ReadBlock, ReadPrime, ReadNext, ReadWalk,
       ReadFill, Resume

LEMMA PollLinks ==
  ASSUME PollTypes, FanSound, HeadsInv, fan' = fan, PollStep \/ ReadFailed
  PROVE  HeadsInv'
<1>1. poll.pc \notin {"off", "deliver"}
  BY PollMoves
<1>2. fan'.pc = "rest"
  BY <1>1 DEF FanSound
<1>3. CASE spoilt
  BY <1>3, SpoiltStays DEF HeadsInv
<1>4. CASE Linked
  <2>1. spoilt' \/ Linked'
    BY <1>2, <1>4, ReadFailedLinks, ReadHeadLinks, ReadBlockLinks, ReadPrimeLinks, ReadNextLinks, ReadWalkLinks,
       ReadFillLinks DEF PollStep
  <2> QED BY <2>1 DEF HeadsInv
<1> QED BY <1>1, <1>3, <1>4 DEF HeadsInv

LEMMA HeadsStay ==
  ASSUME HeadsInv, UNCHANGED <<chain, pollerVars>>, fan'.pc = fan.pc \/ (poll.pc = "deliver" => fan.pc # "rest" /\ fan'.pc # "rest")
  PROVE  HeadsInv'
<1>1. UNCHANGED <<chain, window, last, primed, poll, told, spoilt>>
  BY DEF pollerVars
<1> QED BY <1>1 DEF HeadsInv, Linked, Cursor, PrimeLinked, WalkLinked, FillLinked, DeliverLinked

LEMMA HeadsStep ==
  ASSUME PollTypes, Frame, HeadsInv, [Next]_vars
  PROVE  HeadsInv'
<1>1. FanSound
  BY DEF Frame
<1>2. CASE (PollStep \/ ReadFailed) /\ UNCHANGED streamVars
  <2>1. fan' = fan
    BY <1>2 DEF streamVars
  <2> QED BY <1>1, <1>2, <2>1, PollLinks
<1>3. CASE UpstreamStep /\ UNCHANGED streamVars
  <2>1. fan' = fan /\ poll' = poll
    BY <1>3 DEF streamVars, UpstreamStep, Mine, Retreat, pollerVars
  <2>2. CASE spoilt
    BY <1>3, <2>2, SpoiltStays DEF HeadsInv
  <2>3. CASE poll.pc = "off"
    BY <2>1, <2>3 DEF HeadsInv
  <2>4. CASE Linked
    BY <1>3, <2>1, <2>4, MineLinks, RetreatLinks DEF UpstreamStep, HeadsInv
  <2> QED BY <2>2, <2>3, <2>4 DEF HeadsInv
<1>4. CASE LoopStep
  <2>1. CASE FanLogs
    BY <2>1, HeadsStay DEF FanLogs, headVars
  <2>2. ASSUME NEW s \in Subs, Offer(s) PROVE HeadsInv'
    <3>1. UNCHANGED <<chain, pollerVars>> /\ fan' = [fan EXCEPT !.to = fan.to \ {s}] /\ fan = [pc |-> fan.pc, to |-> fan.to]
      BY <1>1, <2>2 DEF Offer, FanSound
    <3>2. fan'.pc = fan.pc
      BY <3>1
    <3> QED BY <3>1, <3>2, HeadsStay
  <2>3. CASE FanHead
    <3>1. poll.pc = "deliver" /\ spoilt' = spoilt
      BY <2>3 DEF FanHead
    <3> QED BY <2>3, <3>1, FanHeadLinks DEF HeadsInv
  <2>4. CASE FanDone
    <3>1. poll.pc = "deliver" /\ spoilt' = spoilt
      BY <1>1, <2>4 DEF FanDone, FanSound
    <3> QED BY <2>4, <3>1, FanDoneLinks DEF HeadsInv
  <2> QED BY <1>4, <2>1, <2>2, <2>3, <2>4 DEF LoopStep
<1>5. ASSUME NEW s \in Subs, Attach(s) \/ Take(s) \/ Notify(s) PROVE HeadsInv'
  BY <1>5, HeadsStay DEF Attach, Take, Notify, headVars
<1>6. ASSUME NEW s \in Subs, Close(s) PROVE HeadsInv'
  <2>1. CASE Retire
    BY <2>1 DEF Retire, HeadsInv
  <2>2. CASE UNCHANGED <<headVars, running, fan>>
    BY <2>2, HeadsStay DEF headVars
  <2> QED BY <1>6, <2>1, <2>2 DEF Close
<1>7. ASSUME NEW s \in Subs, Find(s) PROVE HeadsInv'
  <2>1. CASE running
    BY <1>7, <2>1, HeadsStay DEF Find
  <2>2. CASE ~running
    <3>1. NewPoller
      BY <1>7, <2>2 DEF Find
    <3>2. poll'.pc = "idle" /\ primed' = FALSE /\ DOMAIN window' = {}
      BY <3>1 DEF NewPoller
    <3>3. Cursor'
      BY <3>2 DEF Cursor
    <3> QED BY <3>2, <3>3, RestLinked DEF HeadsInv
  <2> QED BY <2>1, <2>2
<1>8. CASE UNCHANGED vars
  BY <1>8, HeadsStay DEF vars, headVars, streamVars
<1> QED BY <1>2, <1>3, <1>4, <1>5, <1>6, <1>7, <1>8 DEF Next

\* Only FanHead counts a head.
LEMMA HeadsHandedOut ==
  ASSUME PollTypes, Frame, HeadsInv, [Next]_vars, poll.pc = "deliver", fanned' = fanned + 1
  PROVE  spoilt \/ Follows(Head(poll.out), told)
<1>1. fanned \in Nat /\ fanned' # fanned /\ fanned' # 0
  BY DEF Frame, StreamTypes
<1>2. FanHead
  <2>1. ASSUME NEW s \in Subs, Find(s) PROVE FALSE
    BY <1>1, <2>1 DEF Find
  <2> QED BY <1>1, <2>1 DEF Next, LoopStep, FanLogs, FanDone, Offer, Attach, Close, Take, Notify, streamVars, vars
<1>3. Head(poll.out) = poll.out[1] /\ fan.pc = "rest"
  BY <1>2 DEF PollTypes, DeliverTypes, FanHead
<1> QED BY <1>3 DEF HeadsInv, Linked, DeliverLinked

-----------------------------------------------------------------------------
(* The theorems. *)

IInv == PollTypes /\ Frame /\ LiveAttached /\ LoopWatched /\ SentInv /\ HeadsInv

LEMMA IInvInit ==
  ASSUME Init
  PROVE  IInv
<1>1. LiveAttached /\ SentInv
  BY DEF Init, LiveAttached, SentInv
<1>2. LoopWatched
  BY DEF Init, LoopWatched
<1>3. HeadsInv
  <2>1. poll = [pc |-> "off"]
    BY DEF Init, HeadInit
  <2> QED BY <2>1 DEF HeadsInv
<1> QED BY <1>1, <1>2, <1>3, PollTypesInit, FrameInit DEF IInv

LEMMA IInvStep ==
  ASSUME IInv, [Next]_vars
  PROVE  IInv'
<1>1. PollTypes /\ Frame /\ LiveAttached /\ LoopWatched /\ SentInv /\ HeadsInv
  BY DEF IInv
<1>2. FanSound
  BY <1>1 DEF Frame
<1>3. PollTypes'
  BY <1>1, <1>2, PollTypesStep
<1>4. Frame'
  BY <1>1, FrameStep
<1>5. LiveAttached' /\ LoopWatched' /\ SentInv'
  BY <1>1, LiveAttachedStep, LoopWatchedStep, SentStep
<1>6. HeadsInv'
  BY <1>1, HeadsStep
<1> QED BY <1>3, <1>4, <1>5, <1>6 DEF IInv

\* Everything below holds at once, and each step keeps it.
THEOREM Invariant == Spec => []IInv
<1>1. Init => IInv
  BY IInvInit
<1>2. IInv /\ [Next]_vars => IInv'
  BY IInvStep
<1> QED BY <1>1, <1>2, PTL DEF Spec

\* What the poll, the loop, the subscribers and their queues hold is what
\* streams.go and head.go keep there.
THEOREM TypeCorrect == Spec => []TypeOK
<1>1. IInv => TypeOK
  <2> SUFFICES ASSUME IInv PROVE TypeOK
    OBVIOUS
  <2>1. poll.pc = "off" <=> ~running
    BY DEF IInv, Frame, OffWhenStopped
  <2>2. \A h \in DOMAIN window : h \in Nat /\ Number(window[h]) = h
    BY DEF IInv, PollTypes, IsWindow
  <2>3. ASSUME NEW s \in Subs
        PROVE  /\ st[s] \in {"new", "found", "on", "lost", "gone"}
               /\ at[s] \in 0 .. loops /\ Len(queue[s]) <= QueueLen
               /\ hand[s] # None => hand[s] \in Nat \ {0}
    BY DEF IInv, Frame, StreamTypes
  <2>4. fan.pc \in {"rest", "newHeads", "logs"} /\ fan.to \subseteq Subs
    BY DEF IInv, Frame, FanSound
  <2> QED BY <2>1, <2>2, <2>3, <2>4 DEF TypeOK
<1> QED BY <1>1, Invariant, PTL

\* Subscribe never leaves a subscriber on a loop that the last one retired,
\* whoever left between its finding the loop and attaching to it.
THEOREM NobodyStranded == Spec => []LiveAttached
<1>1. IInv => LiveAttached
  BY DEF IInv
<1> QED BY <1>1, Invariant, PTL

\* A loop that runs has somebody whose leaving will retire it.
THEOREM NoOrphanLoop == Spec => []LoopWatched
<1>1. IInv => LoopWatched
  BY DEF IInv
<1> QED BY <1>1, Invariant, PTL

\* The bounded queue drops the subscriber and never a payload.
THEOREM SentWithoutHoles == Spec => []NoHoles
<1>1. IInv => NoHoles
  <2> SUFFICES ASSUME IInv, NEW s \in Subs, st[s] = "on"
      PROVE  LET p == Sent(s)
                 n == Len(p)
             IN IF Kind[s] = "newHeads"
                THEN /\ \A k \in 1 .. n - 1 : p[k+1] = p[k] + 1
                     /\ p[n] = IF s \in fan.to THEN fanned - 1 ELSE fanned
                ELSE \A k \in 1 .. n - 1 : p[k+1] > p[k]
    BY DEF NoHoles
  <2>1. Holds(Kind[s], Path(seen[s], hand[s], queue[s]), Top(s))
    BY DEF IInv, SentInv
  <2>2. Sent(s) = Path(seen[s], hand[s], queue[s])
    BY DEF Sent, Path
  <2>3. Holds(Kind[s], Sent(s), Top(s))
    BY <2>1, <2>2
  <2>4. Kind[s] = "newHeads" => Top(s) = IF s \in fan.to THEN fanned - 1 ELSE fanned
    BY DEF Top
  <2> HIDE DEF Sent
  <2> QED BY <2>3, <2>4 DEF Holds
<1> QED BY <1>1, Invariant, PTL

\* A head the loop hands out is the child of the one before, or one past a gap
\* too long to catch up, or it is marked as a reorg and begins the new branch
\* on a block the client has seen, or forked off below the whole window: unless
\* a poll was disturbed in a way head.go does not handle.
THEOREM HeadsFollow == Spec => HeadsLinked
<1>1. IInv /\ [Next]_vars
        => [poll.pc = "deliver" /\ fanned' = fanned + 1 => spoilt \/ Follows(Head(poll.out), told)]_vars
  BY HeadsHandedOut DEF IInv
<1> QED BY <1>1, Invariant, PTL DEF Spec, HeadsLinked
=============================================================================
