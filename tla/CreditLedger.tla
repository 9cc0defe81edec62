---------------------------- MODULE CreditLedger ----------------------------
(***************************************************************************)
(* How the relays charge one account (src/internal/relay/credit.go) against *)
(* the billing service's ledger (src/services/billing/src/store.rs).  A     *)
(* relay leases blocks of credits, spends them locally, and settles: it     *)
(* reports what it spent and gives the rest back.  Accounts share nothing,  *)
(* so one account stands for each of them.                                  *)
(*                                                                         *)
(* A pool's mutex is held across the call to the ledger, so a relay has at  *)
(* most one live call for the account.  A call may be given up at any time  *)
(* (the request is cancelled, the client times out, the service fails), and *)
(* then the ledger may have done it, may do it later, or never does it.     *)
(***************************************************************************)
EXTENDS Integers, FiniteSets, Functions

CONSTANTS
  Relay,        \* relays that serve the account's keys
  Fund,         \* the account's balance at the start
  Ceilings,     \* escrow ceilings an account may have; 0 is none
  Block,        \* BlockSize, how much a relay leases at a time
  Cost,         \* what one request may cost
  SettleId,     \* bound: ids in use at once (newSettleID draws 16 bytes)
  MaxFaults,    \* bound: calls given up, crashes and reconciliations
  NoCall, NoAnswer, NoReport

ASSUME CreditConstants ==
  /\ IsFiniteSet(Relay)
  /\ Fund \in Nat
  /\ Ceilings \subseteq Nat
  /\ Block \in Nat \ {0}
  /\ Cost \subseteq Nat \ {0}
  /\ SettleId \subseteq Nat
  /\ MaxFaults \in Nat
  /\ NoReport \notin [id : SettleId, spent : Nat, reserved : Nat]

VARIABLES
  pool,     \* creditPool: what each relay has leased, and spent of it
  pending,  \* pool.pending: the report the ledger has not confirmed
  sent,     \* the call a relay waits for, with the pool's mutex held
  cost,     \* what the request that made a relay lease is to cost
  answer,   \* the ledger's answer on its way back
  stray,    \* calls given up by their relay that may still arrive
  account,  \* the account's row
  applied,  \* settle_log
  faults,   \* how many faults there have been
  books     \* history: credits served, charged, and moved by hand

relayVars == <<pool, pending, sent, cost, answer>>
ledgerVars == <<account, applied>>
vars == <<pool, pending, sent, cost, answer, stray, account, applied, faults, books>>

Report == [id : SettleId, spent : Nat, reserved : Nat]
Call == [kind : {"reserve"}, ask : Nat] \cup [kind : {"settle"}, report : Report]
Answer == [status : {200, 409}, granted : Nat]

TypeOK ==
  /\ pool \in [Relay -> [available : Nat, reserved : Nat, spent : Nat]]
  /\ pending \in [Relay -> Report \cup {NoReport}]
  /\ sent \in [Relay -> Call \cup {NoCall}]
  /\ cost \in [Relay -> Cost \cup {0}]
  /\ answer \in [Relay -> Answer \cup {NoAnswer}]
  /\ stray \subseteq [call : Call, nth : Nat]
  /\ account \in [remaining : Nat, reserved : Nat, ceiling : Ceilings]
  /\ applied \subseteq Report
  /\ faults \in 0 .. MaxFaults
  /\ books \in [served : Nat, charged : Nat, byHand : Nat, lost : BOOLEAN]

EmptyPool == [available |-> 0, reserved |-> 0, spent |-> 0]

Init ==
  /\ pool = [r \in Relay |-> EmptyPool]
  /\ pending = [r \in Relay |-> NoReport]
  /\ sent = [r \in Relay |-> NoCall]
  /\ cost = [r \in Relay |-> 0]
  /\ answer = [r \in Relay |-> NoAnswer]
  /\ stray = {}
  /\ \E c \in Ceilings : account = [remaining |-> Fund, reserved |-> 0, ceiling |-> c]
  /\ applied = {}
  /\ faults = 0
  /\ books = [served |-> 0, charged |-> 0, byHand |-> 0, lost |-> FALSE]

-----------------------------------------------------------------------------
(* Spending *)

Least(a, b) == IF a <= b THEN a ELSE b
Most(a, b)  == IF a >= b THEN a ELSE b

\* The mutex of the relay's pool is free.
Free(r) == sent[r] = NoCall

Serve(p, c) == [p EXCEPT !.available = @ - c, !.spent = @ + c]

\* A request that fits in the block.
SpendLocally(r) ==
  \E c \in Cost :
    /\ Free(r)
    /\ pool[r].available >= c
    /\ pool' = [pool EXCEPT ![r] = Serve(@, c)]
    /\ books' = [books EXCEPT !.served = @ + c]
    /\ UNCHANGED <<pending, sent, cost, answer, stray, account, applied, faults>>

Ask(c) == Most(Block, c)

\* A request that does not fit: lease a block, or the request's cost if larger.
Lease(r) ==
  \E c \in Cost :
    /\ Free(r)
    /\ pool[r].available < c
    /\ sent' = [sent EXCEPT ![r] = [kind |-> "reserve", ask |-> Ask(c)]]
    /\ cost' = [cost EXCEPT ![r] = c]
    /\ UNCHANGED <<pool, pending, answer, stray, account, applied, faults, books>>

\* Mutant: the pool takes what it asked for, not what it was granted.
LeasedAsAsked(p, ask, n) ==
  [p EXCEPT !.available = @ + ask, !.reserved = @ + ask]

\* A grant outside what was asked is a fault of the ledger and not taken.
Leased(p, ask, n) ==
  IF n <= ask THEN [p EXCEPT !.available = @ + n, !.reserved = @ + n] ELSE p

\* The grant arrives: serve the request, or refuse it and keep what came.
Granted(r) ==
  LET p == Leased(pool[r], sent[r].ask, answer[r].granted)
      enough == answer[r].granted <= sent[r].ask /\ p.available >= cost[r]
  IN /\ ~Free(r) /\ sent[r].kind = "reserve" /\ answer[r] # NoAnswer
     /\ pool' = [pool EXCEPT ![r] = IF enough THEN Serve(p, cost[r]) ELSE p]
     /\ books' = [books EXCEPT !.served = IF enough THEN @ + cost[r] ELSE @]
     /\ sent' = [sent EXCEPT ![r] = NoCall]
     /\ cost' = [cost EXCEPT ![r] = 0]
     /\ answer' = [answer EXCEPT ![r] = NoAnswer]
     /\ UNCHANGED <<pending, stray, account, applied, faults>>

-----------------------------------------------------------------------------
(* Settling *)

\* Ids of the reports that may still reach the ledger.
Awaited ==
  {pending[r].id : r \in {q \in Relay : pending[q] # NoReport}}
    \cup {s.call.report.id : s \in {t \in stray : t.call.kind = "settle"}}

UsedIds == Awaited \cup {e.id : e \in applied}

\* newSettleID: an id no report has; the least, since only equality matters.
FreshId(id) ==
  /\ id \in SettleId \ UsedIds
  /\ \A other \in SettleId \ UsedIds : id <= other

SettleCall(report) == [kind |-> "settle", report |-> report]

\* Mutant: the pool is not started afresh.
FreezeKeepsPool(r) ==
  \E id \in SettleId :
    /\ FreshId(id)
    /\ LET report == [id |-> id, spent |-> pool[r].spent, reserved |-> pool[r].reserved]
       IN /\ pending' = [pending EXCEPT ![r] = report]
          /\ sent' = [sent EXCEPT ![r] = SettleCall(report)]
    /\ pool' = [pool EXCEPT ![r].spent = 0, ![r].reserved = 0]

\* Freeze what the pool holds as a report, start the pool afresh, send it.
Freeze(r) ==
  \E id \in SettleId :
    /\ FreshId(id)
    /\ LET report == [id |-> id, spent |-> pool[r].spent, reserved |-> pool[r].reserved]
       IN /\ pending' = [pending EXCEPT ![r] = report]
          /\ sent' = [sent EXCEPT ![r] = SettleCall(report)]
    /\ pool' = [pool EXCEPT ![r] = EmptyPool]

\* The timer: a report not confirmed is sent again as it was, under its id.
Settle(r) ==
  /\ Free(r)
  /\ \/ /\ pending[r] # NoReport
        /\ sent' = [sent EXCEPT ![r] = SettleCall(pending[r])]
        /\ UNCHANGED <<pool, pending>>
     \/ /\ pending[r] = NoReport
        /\ pool[r].reserved # 0
        /\ Freeze(r)
  /\ UNCHANGED <<cost, answer, stray, account, applied, faults, books>>

\* Mutant: a report the ledger refused stays pending.
SettledKeepsRefused(r) ==
  /\ ~Free(r) /\ sent[r].kind = "settle" /\ answer[r] # NoAnswer
  /\ \/ /\ answer[r].status = 409
        /\ sent' = [sent EXCEPT ![r] = NoCall]
        /\ UNCHANGED <<pool, pending>>
     \/ /\ answer[r].status = 200
        /\ pool[r].reserved = 0
        /\ pending' = [pending EXCEPT ![r] = NoReport]
        /\ sent' = [sent EXCEPT ![r] = NoCall]
        /\ UNCHANGED pool
     \/ /\ answer[r].status = 200
        /\ pool[r].reserved # 0
        /\ Freeze(r)
  /\ answer' = [answer EXCEPT ![r] = NoAnswer]
  /\ UNCHANGED <<cost, stray, account, applied, faults, books>>

\* Confirmed, or refused for good (409): drop the report, and go on with what
\* was leased since it was frozen.
Settled(r) ==
  /\ ~Free(r) /\ sent[r].kind = "settle" /\ answer[r] # NoAnswer
  /\ \/ /\ pool[r].reserved = 0
        /\ pending' = [pending EXCEPT ![r] = NoReport]
        /\ sent' = [sent EXCEPT ![r] = NoCall]
        /\ UNCHANGED pool
     \/ /\ pool[r].reserved # 0
        /\ Freeze(r)
  /\ answer' = [answer EXCEPT ![r] = NoAnswer]
  /\ UNCHANGED <<cost, stray, account, applied, faults, books>>

-----------------------------------------------------------------------------
(* The ledger; each call is one statement or one transaction. *)

Headroom(ask) ==
  IF account.ceiling = 0 THEN ask ELSE Most(account.ceiling - account.reserved, 0)

\* Mutant: the balance does not bound a grant.
GrantUnfunded(ask) == Least(ask, Headroom(ask))

Grant(ask) == Least(ask, Least(account.remaining, Headroom(ask)))

\* Store::reserve: grant what there is, and nothing is an answer too.
Reserve(ask, reply) ==
  /\ account' = [account EXCEPT !.remaining = @ - Grant(ask), !.reserved = @ + Grant(ask)]
  /\ reply = [status |-> 200, granted |-> Grant(ask)]
  /\ UNCHANGED <<applied, books>>

\* Mutant: the log is not asked.
SameIdUnlogged(report) == {}

SameId(report) == {e \in applied : e.id = report.id}

\* The log after one more report.  Entries are deleted after seven days; the
\* model deletes an entry as soon as no report with its id can arrive.
Logged(report) == {e \in applied \cup {report} : e.id \in Awaited}

\* A report that is new to the log, and the reserve covers it.
Applies(report) == SameId(report) = {} /\ report.reserved <= account.reserved

\* Store::settle: an applied id is answered from the log, with the same numbers;
\* other numbers, or more than the account holds in reserve, are a conflict.
ApplySettle(report, reply) ==
  \/ /\ Applies(report)
     /\ account' = [account EXCEPT !.reserved  = @ - report.reserved,
                                   !.remaining = @ + (report.reserved - report.spent)]
     /\ applied' = Logged(report)
     /\ books' = [books EXCEPT !.charged = @ + report.spent]
     /\ reply = [status |-> 200, granted |-> 0]
  \/ /\ ~Applies(report)
     /\ UNCHANGED <<account, applied, books>>
     /\ reply = [status |-> IF report \in applied THEN 200 ELSE 409, granted |-> 0]

\* A report of more spent than reserved gets a 400, which the relay takes for a
\* failed call.
Perform(call, reply) ==
  \/ call.kind = "reserve" /\ Reserve(call.ask, reply)
  \/ /\ call.kind = "settle"
     /\ call.report.spent <= call.report.reserved
     /\ ApplySettle(call.report, reply)

\* The replies a call may have.
Reply == [status : {200, 409}, granted : 0 .. Fund]

\* The ledger does a live call; its answer is on its way.
Answered(r) ==
  /\ ~Free(r) /\ answer[r] = NoAnswer
  /\ \E reply \in Reply :
       /\ Perform(sent[r], reply)
       /\ answer' = [answer EXCEPT ![r] = reply]
  /\ UNCHANGED <<pool, pending, sent, cost, stray, faults>>

\* A call whose relay gave it up arrives after all.
ArrivesLate ==
  \E s \in stray :
    /\ \E reply \in Reply : Perform(s.call, reply)
    /\ stray' = stray \ {s}
    /\ UNCHANGED <<pool, pending, sent, cost, answer, faults>>

-----------------------------------------------------------------------------
(* Faults *)

Abandoned(r) ==
  IF ~Free(r) /\ answer[r] = NoAnswer THEN {[call |-> sent[r], nth |-> faults]} ELSE {}

\* The call fails for the relay.  The customer's request gets a 503; a report
\* stays pending.
GiveUp(r) ==
  /\ faults < MaxFaults
  /\ ~Free(r)
  /\ stray' = stray \cup Abandoned(r)
  /\ sent' = [sent EXCEPT ![r] = NoCall]
  /\ cost' = [cost EXCEPT ![r] = 0]
  /\ answer' = [answer EXCEPT ![r] = NoAnswer]
  /\ faults' = faults + 1
  /\ UNCHANGED <<pool, pending, account, applied, books>>

\* A relay dies and starts again: pools live in memory only.
Crash(r) ==
  /\ faults < MaxFaults
  /\ stray' = stray \cup Abandoned(r)
  /\ pool' = [pool EXCEPT ![r] = EmptyPool]
  /\ pending' = [pending EXCEPT ![r] = NoReport]
  /\ sent' = [sent EXCEPT ![r] = NoCall]
  /\ cost' = [cost EXCEPT ![r] = 0]
  /\ answer' = [answer EXCEPT ![r] = NoAnswer]
  /\ faults' = faults + 1
  /\ books' = [books EXCEPT !.lost = TRUE]
  /\ UNCHANGED <<account, applied>>

\* An operator reconciles the account's reserved credits by hand.
Reconcile ==
  \E n \in 1 .. account.reserved :
    /\ faults < MaxFaults
    /\ account' = [account EXCEPT !.reserved = @ - n, !.remaining = @ + n]
    /\ faults' = faults + 1
    /\ books' = [books EXCEPT !.byHand = @ + n]
    /\ UNCHANGED <<pool, pending, sent, cost, answer, stray, applied>>

-----------------------------------------------------------------------------

RelayStep(r) == SpendLocally(r) \/ Lease(r) \/ Granted(r) \/ Settle(r) \/ Settled(r)

Next ==
  \/ \E r \in Relay : RelayStep(r) \/ Answered(r) \/ GiveUp(r) \/ Crash(r)
  \/ ArrivesLate
  \/ Reconcile

Spec == Init /\ [][Next]_vars

(***************************************************************************)
(* The settle timer ticks for ever (CreditLease.Run) and a Go mutex is not  *)
(* unfair for ever, so a settle that can start again and again does start,  *)
(* however busy the pool is.  A call that is not given up is answered.      *)
(***************************************************************************)
Fairness ==
  \A r \in Relay :
    /\ SF_vars(Settle(r))
    /\ WF_vars(Answered(r))
    /\ WF_vars(Granted(r) \/ Settled(r))

FairSpec == Spec /\ Fairness

-----------------------------------------------------------------------------
(* Properties *)

\* Every report there is: frozen by a relay, abandoned on its way, or in the log.
Reports ==
  {pending[r] : r \in {q \in Relay : pending[q] # NoReport}}
    \cup {s.call.report : s \in {t \in stray : t.call.kind = "settle"}}
    \cup applied

(* An id stands for one report: a copy sent again, or one that arrives late *)
(* from a relay that has since died, carries the numbers the log has.       *)
OneReportPerId == \A a, b \in Reports : a.id = b.id => a = b

(* No report says more was spent than was leased: the ledger rejects such a *)
(* report without closing it, so that it would stay pending for ever.       *)
NeverOverspent == \A report \in Reports : report.spent <= report.reserved

Unapplied(r) == pending[r] # NoReport /\ SameId(pending[r]) = {}

\* What the relay has spent or may spend of the ledger's reserve, with the report
\* not yet applied and the grant on its way.
Lent(r) ==
  pool[r].available + pool[r].spent
    + (IF Unapplied(r) THEN pending[r].reserved ELSE 0)
    + (IF answer[r] # NoAnswer THEN answer[r].granted ELSE 0)

\* What the relay has served and the ledger not yet charged.
Unreported(r) == pool[r].spent + (IF Unapplied(r) THEN pending[r].spent ELSE 0)

Total(f(_)) == SumFunction([r \in Relay |-> f(r)])

(* Two relays never spend the same credit: what they hold is all in reserve *)
(* (but for what an operator moved), through lost replies, retries that the *)
(* ledger had applied, and calls that arrive late.                          *)
LeasesHeld == Total(Lent) <= account.reserved + books.byHand

(* No customer is served more than was paid in.                             *)
ServedWithinFund == books.served <= Fund + books.byHand

(* What was served is charged once: never twice, whatever was resent, and,  *)
(* unless a relay died or reserves were moved by hand, never not at all.    *)
(* And a report is refused for good, which drops it, only where an operator *)
(* moved reserves: retries, late copies and crashes never lead to a 409.    *)
ChargedOnce ==
  /\ books.charged + Total(Unreported) <= books.served
  /\ ~books.lost /\ books.byHand = 0 => books.charged + Total(Unreported) = books.served
  /\ books.byHand = 0 => \A r \in Relay : answer[r] = NoAnswer \/ answer[r].status # 409

(* No credit appears or disappears in the ledger but by a charge, and the   *)
(* reserve stays under the account's escrow ceiling.                        *)
LedgerSound ==
  /\ account.remaining + account.reserved + books.charged = Fund
  /\ account.ceiling # 0 => account.reserved <= account.ceiling

(* Leased credits come back: a relay that holds any, or an unconfirmed      *)
(* report, at some time holds neither, however busy its customers are.      *)
LeasesReturn ==
  \A r \in Relay :
    pool[r].reserved # 0 \/ pending[r] # NoReport
      ~> pool[r].reserved = 0 /\ pending[r] = NoReport
=============================================================================
