----------------------------- MODULE HeadPoller ------------------------------
(***************************************************************************)
(* The relay's head poller (internal/relay/head.go) over an upstream that  *)
(* mines, reorganises, lags and fails between any two of its reads.        *)
(*                                                                         *)
(* A block's hash commits to its ancestors, so a block is the sequence of  *)
(* choices that leads to it from the genesis <<>>: its number is its       *)
(* length, its parent and ancestors are its prefixes.  Two blocks with one *)
(* parent are told apart by a choice in 0 .. left.forks, which is one      *)
(* choice until the upstream abandons a block, for no two can be mined.    *)
(***************************************************************************)
EXTENDS Integers, Sequences

CONSTANTS
  MaxReorgDepth,     \* maxReorgDepth
  MaxCatchUpBlocks,  \* maxCatchUpBlocks
  Budgets            \* bound: how often the upstream mines, abandons blocks and fails, and
                     \* which subscriptions are made: one of these records

ASSUME PollerConstants == MaxReorgDepth \in Nat \ {0} /\ MaxCatchUpBlocks \in Nat \ {0}

VARIABLES
  chain,     \* the head of the branch the upstream holds now
  left,      \* what is left of the budget
  window,    \* HeadPoller.window: height to block
  last,      \* HeadPoller.last
  primed,    \* HeadPoller.primed
  poll,      \* where Poll is, with its local variables
  told,      \* history: the last head handed to the loop (the first poll's head at first)
  spoilt     \* history: a poll was disturbed in one of the four ways Poll does not handle

pollerVars == <<window, last, primed, poll, told, spoilt>>
headVars == <<chain, left, pollerVars>>

-----------------------------------------------------------------------------
Number(b) == Len(b)
Ancestor(b, n) == SubSeq(b, 1, n)
Extends(b, a) == Number(a) <= Number(b) /\ Ancestor(b, Number(a)) = a

\* record's window: one more height, the oldest pruned.
Record(w, b) ==
  LET heights == {h \in DOMAIN w : Number(b) < MaxReorgDepth \/ h >= Number(b) - MaxReorgDepth}
  IN [h \in heights \cup {Number(b)} |-> IF h = Number(b) THEN b ELSE w[h]]

NewPoller ==
  /\ window' = [h \in {} |-> <<>>]
  /\ last' = <<>>
  /\ primed' = FALSE
  /\ poll' = [pc |-> "idle"]
  /\ told' = <<>>
  /\ spoilt' = FALSE

HeadInit ==
  /\ chain = <<>> /\ left \in Budgets
  /\ window = [h \in {} |-> <<>>] /\ last = <<>> /\ primed = FALSE
  /\ poll = [pc |-> "off"] /\ told = <<>> /\ spoilt = FALSE

-----------------------------------------------------------------------------
(* The upstream. *)

Spend(what) == left[what] > 0 /\ left' = [left EXCEPT ![what] = @ - 1]

Mine(x) ==
  /\ Spend("mine")
  /\ chain' = Append(chain, x)
  /\ UNCHANGED pollerVars

\* Poll is between its first read and its return.
Polling == poll.pc \in {"block", "prime", "next", "walk", "fill"}

\* The upstream answers from a shorter branch: it lags, or a reorg begins.
\* A poll that has read a block reads on, now from another branch.
Retreat(n) ==
  /\ left.retreat > 0 /\ left' = [left EXCEPT !.retreat = @ - 1, !.forks = @ + 1]
  /\ n < Number(chain)
  /\ chain' = Ancestor(chain, n)
  /\ spoilt' = (spoilt \/ (Polling /\ poll.pc # "block"))
  /\ UNCHANGED <<window, last, primed, poll, told>>

-----------------------------------------------------------------------------
(* Poll, one upstream read at a time.  poll.pc names what it reads next:    *)
(* "block" (the head, after its number), "prime" (the backfill of a first   *)
(* poll or a re-anchor), "next" (the block after the last delivered),       *)
(* "walk" (walkBack) or "fill" (the new heads); "deliver" when it has       *)
(* returned heads, which the loop now hands out (each with the heights the  *)
(* window held, as history, when it is the head of a re-anchor).            *)
(* Poll does not handle four disturbances: a read that fails after a head   *)
(* was recorded, or during the first backfill, which leaves its blocks in   *)
(* the window; an upstream that abandons a block while a poll is reading;   *)
(* and a gap too long to catch up that begins with a reorg.                 *)

Wanted ==
  CASE poll.pc = "block" -> poll.number
    [] poll.pc = "next" -> Number(last) + 1
    [] poll.pc \in {"prime", "walk", "fill"} -> poll.at

Available == Wanted <= Number(chain)
Read == Ancestor(chain, Wanted)

\* A read fails, or finds no such block: Poll returns the error. What it
\* has recorded so far stays recorded; the heads it had collected are gone.
ReadFailed ==
  /\ Polling
  /\ \/ ~Available /\ UNCHANGED left
     \/ Spend("fail")
  /\ poll' = [pc |-> "idle"]
  /\ spoilt' = (spoilt \/ (poll.pc = "fill" /\ poll.out # <<>>) \/ (poll.pc = "prime" /\ poll.why = "first"))
  /\ UNCHANGED <<chain, window, last, primed, told>>

ReadHead ==
  /\ poll.pc = "idle"
  /\ poll' = [pc |-> "block", number |-> Number(chain)]
  /\ UNCHANGED <<chain, left, window, last, primed, told, spoilt>>

\* The lowest height a backfill below head reads.
Lowest(head) == IF Number(head) > MaxReorgDepth - 1 THEN Number(head) - (MaxReorgDepth - 1) ELSE 0

Returned(heads) == IF heads = <<>> THEN [pc |-> "idle"] ELSE [pc |-> "deliver", out |-> heads]
Backfill(head, w, why) ==
  [pc |-> "prime", head |-> head, at |-> Number(head) - 1, fresh |-> w, why |-> why]

\* A backfill is complete. The first poll delivers nothing; a re-anchor swaps
\* the new window in and delivers its head, marked after a reorg too deep.
Primed(head, w, why) ==
  /\ window' = w /\ last' = head /\ primed' = TRUE
  /\ IF why = "first"
     THEN poll' = Returned(<<>>) /\ told' = head
     ELSE /\ poll' = Returned(<<[block |-> head, reorged |-> why = "deep", kept |-> DOMAIN window]>>)
          /\ UNCHANGED told

\* prime: head is recorded and the heights below it are read, into the
\* window itself for a first poll, into a fresh one for a re-anchor.
Prime(head, why) ==
  LET w == Record(IF why = "first" THEN window ELSE [h \in {} |-> <<>>], head)
  IN IF Number(head) <= Lowest(head)
     THEN Primed(head, w, why)
     ELSE /\ poll' = Backfill(head, w, why)
          /\ IF why = "first" THEN window' = w /\ last' = head ELSE UNCHANGED <<window, last>>
          /\ UNCHANGED <<primed, told>>

\* The poller knows where to replay from: a gap too long is jumped, and a
\* head that adds nothing (the upstream lags) ends the poll.
Resume(head, from, reorged) ==
  IF Number(head) >= from /\ Number(head) - from >= MaxCatchUpBlocks
  THEN Prime(head, "gap") /\ spoilt' = (spoilt \/ reorged)
  ELSE /\ poll' = IF Number(head) < from THEN Returned(<<>>)
                  ELSE [pc |-> "fill", at |-> from, to |-> Number(head), reorged |-> reorged, out |-> <<>>]
       /\ UNCHANGED <<window, last, primed, told, spoilt>>

WalkFrom(head, start) == [pc |-> "walk", head |-> head, start |-> start, at |-> start]

ReadBlock ==
  /\ poll.pc = "block" /\ Available
  /\ \/ ~primed /\ Prime(Read, "first") /\ UNCHANGED spoilt
     \/ /\ primed
        /\ poll' = IF Read = last THEN Returned(<<>>)
                   ELSE IF Number(Read) <= Number(last) THEN WalkFrom(Read, Number(Read))
                   ELSE [pc |-> "next", head |-> Read]
        /\ UNCHANGED <<window, last, primed, told, spoilt>>
  /\ UNCHANGED <<chain, left>>

ReadPrime ==
  LET w == [h \in DOMAIN poll.fresh \cup {poll.at} |-> IF h = poll.at THEN Read ELSE poll.fresh[h]]
  IN /\ poll.pc = "prime" /\ Available
     /\ IF poll.at = Lowest(poll.head)
        THEN Primed(poll.head, w, poll.why)
        ELSE /\ poll' = [poll EXCEPT !.at = @ - 1, !.fresh = w]
             /\ window' = IF poll.why = "first" THEN w ELSE window
             /\ UNCHANGED <<last, primed, told>>
     /\ UNCHANGED <<chain, left, spoilt>>

ReadNext ==
  /\ poll.pc = "next" /\ Available
  /\ IF Ancestor(Read, Number(last)) = last
     THEN Resume(poll.head, Number(last) + 1, FALSE)
     ELSE poll' = WalkFrom(poll.head, Number(last)) /\ UNCHANGED <<window, last, primed, told, spoilt>>
  /\ UNCHANGED <<chain, left>>

\* Mutant: the poller replays from the height the branches share.
ReadWalkRepeats ==
  /\ poll.pc = "walk" /\ Available
  /\ IF poll.at \in DOMAIN window /\ window[poll.at] = Read
     THEN Resume(poll.head, poll.at, TRUE)
     ELSE IF poll.at > 0 /\ poll.start - poll.at < MaxReorgDepth
     THEN poll' = [poll EXCEPT !.at = @ - 1] /\ UNCHANGED <<window, last, primed, told, spoilt>>
     ELSE Prime(poll.head, "deep") /\ UNCHANGED spoilt
  /\ UNCHANGED <<chain, left>>

\* Mutant: a reorg too deep is an error and nothing else.
ReadWalkRefuses ==
  /\ poll.pc = "walk" /\ Available
  /\ IF poll.at \in DOMAIN window /\ window[poll.at] = Read
     THEN Resume(poll.head, poll.at + 1, TRUE)
     ELSE /\ poll' = IF poll.at > 0 /\ poll.start - poll.at < MaxReorgDepth
                     THEN [poll EXCEPT !.at = @ - 1] ELSE [pc |-> "idle"]
          /\ UNCHANGED <<window, last, primed, told, spoilt>>
  /\ UNCHANGED <<chain, left>>

\* walkBack: the highest height at which the upstream agrees with the window,
\* or a reorg too deep.
ReadWalk ==
  /\ poll.pc = "walk" /\ Available
  /\ IF poll.at \in DOMAIN window /\ window[poll.at] = Read
     THEN Resume(poll.head, poll.at + 1, TRUE)
     ELSE IF poll.at > 0 /\ poll.start - poll.at < MaxReorgDepth
     THEN poll' = [poll EXCEPT !.at = @ - 1] /\ UNCHANGED <<window, last, primed, told, spoilt>>
     ELSE Prime(poll.head, "deep") /\ UNCHANGED spoilt
  /\ UNCHANGED <<chain, left>>

\* One new head: recorded at once, returned with the others.
ReadFill ==
  LET heads == Append(poll.out, [block |-> Read, reorged |-> poll.reorged /\ poll.out = <<>>, kept |-> {}])
  IN /\ poll.pc = "fill" /\ Available
     /\ window' = Record(window, Read)
     /\ last' = Read
     /\ poll' = IF poll.at = poll.to THEN Returned(heads)
                ELSE [poll EXCEPT !.at = @ + 1, !.out = heads]
     /\ UNCHANGED <<chain, left, primed, told, spoilt>>

UpstreamStep == (\E x \in 0 .. left.forks : Mine(x)) \/ (\E n \in 0 .. Number(chain) - 1 : Retreat(n))
PollStep == ReadHead \/ ReadBlock \/ ReadPrime \/ ReadNext \/ ReadWalk \/ ReadFill
=============================================================================
