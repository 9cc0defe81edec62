------------------------- MODULE CreditLedgerProofs -------------------------
(***************************************************************************)
(* What holds of CreditLedger for every number of relays, every fund,       *)
(* block, cost and ceiling, and any number of faults.                       *)
(***************************************************************************)
EXTENDS CreditLedger, FiniteSetTheorems, TLAPS

(* A pool accounts for all it leased; a report being sent is the pending    *)
(* one.                                                                     *)
PoolsBalance == \A r \in Relay : pool[r].available + pool[r].spent = pool[r].reserved

SentPending ==
  \A r \in Relay :
    sent[r] # NoCall /\ sent[r].kind = "settle" =>
      pending[r] # NoReport /\ pending[r] = sent[r].report

CreditInv ==
  /\ TypeOK
  /\ LedgerSound
  /\ PoolsBalance
  /\ SentPending
  /\ OneReportPerId
  /\ NeverOverspent

\* A grant is at most the ask and the balance, and keeps under the ceiling.
LEMMA GrantBounds ==
  ASSUME TypeOK, NEW ask \in Nat
  PROVE  /\ Grant(ask) \in Nat
         /\ Grant(ask) <= ask
         /\ Grant(ask) <= account.remaining
         /\ account.ceiling # 0 /\ account.reserved <= account.ceiling
              => account.reserved + Grant(ask) <= account.ceiling
<1>1. /\ account.remaining \in Nat /\ account.reserved \in Nat /\ account.ceiling \in Nat
  BY CreditConstants DEF TypeOK
<1>2. Headroom(ask) \in Nat
  BY <1>1 DEF Headroom, Most
<1>3. account.ceiling # 0 /\ account.reserved <= account.ceiling
        => Headroom(ask) = account.ceiling - account.reserved
  BY <1>1 DEF Headroom, Most
<1>4. QED BY <1>1, <1>2, <1>3 DEF Grant, Least
(* The reports after a step in which no relay freezes one, and the ledger   *)
(* logs at most one that is there.                                          *)
LEMMA ReportsKept ==
  ASSUME TypeOK,
         \A r \in Relay : pending'[r] = pending[r] \/ pending'[r] = NoReport,
         \A s \in stray' : s.call.kind = "settle" =>
           s \in stray \/ s.call.report \in Reports,
         applied' \subseteq Reports
  PROVE  Reports' \subseteq Reports
BY DEF Reports

\* A subset of sound reports is sound.
LEMMA SubsetSound ==
  ASSUME OneReportPerId, NeverOverspent, Reports' \subseteq Reports
  PROVE  OneReportPerId' /\ NeverOverspent'
BY DEF OneReportPerId, NeverOverspent

\* The numbers of a report are naturals, wherever it is.
LEMMA ReportsTyped ==
  ASSUME TypeOK
  PROVE  Reports \subseteq Report
<1>1. \A r \in Relay : pending[r] # NoReport => pending[r] \in Report
  BY DEF TypeOK
<1>2. \A s \in stray : s.call.kind = "settle" => s.call.report \in Report
  BY DEF TypeOK, Call
<1>3. applied \subseteq Report
  BY DEF TypeOK
<1>4. QED BY <1>1, <1>2, <1>3 DEF Reports

\* Every id of a report is in use, so a fresh one is of no report.
LEMMA FreshIsNew ==
  ASSUME NEW id, FreshId(id), NEW report \in Reports
  PROVE  report.id # id
<1>1. report.id \in UsedIds
  BY DEF UsedIds, Awaited, Reports
<1>2. QED BY <1>1 DEF FreshId
-----------------------------------------------------------------------------
(* The ledger's side: whatever call arrives, late or not, the row stays     *)
(* sound and the log gains at most the report that arrived.                 *)
LEMMA ReserveSound ==
  ASSUME TypeOK, LedgerSound, NEW ask \in Nat, NEW reply, Reserve(ask, reply)
  PROVE  /\ account' \in [remaining : Nat, reserved : Nat, ceiling : Ceilings]
         /\ LedgerSound'
         /\ UNCHANGED <<applied, books>>
<1>1. /\ Grant(ask) \in Nat /\ Grant(ask) <= account.remaining
      /\ account.ceiling # 0 /\ account.reserved <= account.ceiling
           => account.reserved + Grant(ask) <= account.ceiling
  BY GrantBounds
<1>2. /\ account.remaining \in Nat /\ account.reserved \in Nat /\ account.ceiling \in Ceilings
      /\ account \in [remaining : Nat, reserved : Nat, ceiling : Ceilings]
  BY DEF TypeOK
<1>3. account' = [account EXCEPT !.remaining = @ - Grant(ask), !.reserved = @ + Grant(ask)]
      /\ UNCHANGED <<applied, books>>
  BY DEF Reserve
<1>4. /\ account'.remaining = account.remaining - Grant(ask)
      /\ account'.reserved = account.reserved + Grant(ask)
      /\ account'.ceiling = account.ceiling
      /\ account.remaining - Grant(ask) \in Nat
      /\ account.reserved + Grant(ask) \in Nat
  BY <1>1, <1>2, <1>3
<1>a. account' \in [remaining : Nat, reserved : Nat, ceiling : Ceilings]
  BY <1>2, <1>3, <1>4
<1>5. books.charged \in Nat /\ books' = books
  BY <1>3 DEF TypeOK
<1>6. LedgerSound'
  BY <1>1, <1>2, <1>4, <1>5, CreditConstants DEF LedgerSound
<1>7. QED BY <1>3, <1>a, <1>6

LEMMA SettleSound ==
  ASSUME TypeOK, LedgerSound, NEW report \in Reports, NEW reply,
         report.spent <= report.reserved, ApplySettle(report, reply)
  PROVE  /\ account' \in [remaining : Nat, reserved : Nat, ceiling : Ceilings]
         /\ books' \in [served : Nat, charged : Nat, byHand : Nat, lost : BOOLEAN]
         /\ LedgerSound'
         /\ applied' \subseteq Reports
<1>1. report \in Report /\ report.spent \in Nat /\ report.reserved \in Nat
  BY ReportsTyped DEF Report
<1>2. /\ account \in [remaining : Nat, reserved : Nat, ceiling : Ceilings]
      /\ books \in [served : Nat, charged : Nat, byHand : Nat, lost : BOOLEAN]
      /\ applied \subseteq Reports
  BY DEF TypeOK, Reports
<1>3. CASE ~Applies(report)
  BY <1>2, <1>3 DEF ApplySettle, LedgerSound
<1>4. CASE Applies(report)
  <2>1. /\ report.reserved <= account.reserved
        /\ account' = [account EXCEPT !.reserved  = @ - report.reserved,
                                      !.remaining = @ + (report.reserved - report.spent)]
        /\ applied' = Logged(report)
        /\ books' = [books EXCEPT !.charged = @ + report.spent]
    BY <1>4 DEF ApplySettle, Applies
  <2>2. /\ account'.reserved = account.reserved - report.reserved
        /\ account'.remaining = account.remaining + (report.reserved - report.spent)
        /\ account'.ceiling = account.ceiling
        /\ account.reserved - report.reserved \in Nat
        /\ account.remaining + (report.reserved - report.spent) \in Nat
    BY <1>1, <1>2, <2>1
  <2>a. account' \in [remaining : Nat, reserved : Nat, ceiling : Ceilings]
    BY <1>2, <2>1, <2>2
  <2>3. /\ books'.charged = books.charged + report.spent
        /\ books' \in [served : Nat, charged : Nat, byHand : Nat, lost : BOOLEAN]
    BY <1>1, <1>2, <2>1
  <2>4. account.ceiling \in Nat /\ account.remaining \in Nat /\ account.reserved \in Nat
        /\ books.charged \in Nat
    BY <1>2, CreditConstants
  <2>5. LedgerSound'
    BY <1>1, <2>1, <2>2, <2>3, <2>4, CreditConstants DEF LedgerSound
  <2>6. applied' \subseteq Reports
    BY <1>2, <2>1 DEF Logged
  <2>7. QED BY <2>a, <2>3, <2>5, <2>6
<1>5. QED BY <1>3, <1>4

LEMMA PerformSound ==
  ASSUME TypeOK, LedgerSound, NEW call \in Call, NEW reply, Perform(call, reply),
         call.kind = "settle" => call.report \in Reports
  PROVE  /\ account' \in [remaining : Nat, reserved : Nat, ceiling : Ceilings]
         /\ books' \in [served : Nat, charged : Nat, byHand : Nat, lost : BOOLEAN]
         /\ LedgerSound'
         /\ applied' \subseteq Reports
<1>1. applied \subseteq Reports
  BY DEF Reports
<1>2. CASE call.kind = "reserve" /\ Reserve(call.ask, reply)
  <2>1. call.ask \in Nat
    BY <1>2 DEF Call
  <2>2. QED BY <1>1, <1>2, <2>1, ReserveSound DEF TypeOK
<1>3. CASE call.kind = "settle" /\ call.report.spent <= call.report.reserved
             /\ ApplySettle(call.report, reply)
  BY <1>3, SettleSound
<1>4. QED BY <1>2, <1>3 DEF Perform
-----------------------------------------------------------------------------
(* The relay's side. *)

PoolType == [available : Nat, reserved : Nat, spent : Nat]

\* Serving moves credits within the pool.
LEMMA ServeBalances ==
  ASSUME NEW p \in PoolType, NEW c \in Nat, p.available >= c
  PROVE  /\ Serve(p, c) \in PoolType
         /\ Serve(p, c).available + Serve(p, c).spent = p.available + p.spent
         /\ Serve(p, c).reserved = p.reserved
<1>1. p.available \in Nat /\ p.spent \in Nat /\ p.reserved \in Nat
  BY DEF PoolType
<1>2. p.available - c \in Nat /\ p.spent + c \in Nat
  BY <1>1
<1>3. /\ Serve(p, c).available = p.available - c
      /\ Serve(p, c).spent = p.spent + c
      /\ Serve(p, c).reserved = p.reserved
  BY DEF Serve, PoolType
<1>4. Serve(p, c) \in PoolType
  BY <1>2 DEF Serve, PoolType
<1>5. QED BY <1>1, <1>3, <1>4

\* A grant adds as much to the reserve as to what is available.
LEMMA LeasedBalances ==
  ASSUME NEW p \in PoolType, NEW ask \in Nat, NEW n \in Nat,
         p.available + p.spent = p.reserved
  PROVE  /\ Leased(p, ask, n) \in PoolType
         /\ Leased(p, ask, n).available + Leased(p, ask, n).spent = Leased(p, ask, n).reserved
<1>1. p.available \in Nat /\ p.spent \in Nat /\ p.reserved \in Nat
  BY DEF PoolType
<1>2. p.available + n \in Nat /\ p.reserved + n \in Nat
  BY <1>1
<1>3. CASE n <= ask
  <2>1. Leased(p, ask, n) = [p EXCEPT !.available = @ + n, !.reserved = @ + n]
    BY <1>3 DEF Leased
  <2>2. /\ Leased(p, ask, n).available = p.available + n
        /\ Leased(p, ask, n).spent = p.spent
        /\ Leased(p, ask, n).reserved = p.reserved + n
    BY <2>1 DEF PoolType
  <2>3. Leased(p, ask, n) \in PoolType
    BY <1>2, <2>1 DEF PoolType
  <2>4. QED BY <1>1, <2>2, <2>3
<1>4. CASE ~(n <= ask)
  BY <1>4 DEF Leased
<1>5. QED BY <1>3, <1>4

\* A relay spends from its block.
LEMMA SpendSound ==
  ASSUME CreditInv, NEW r \in Relay, SpendLocally(r)
  PROVE  CreditInv'
<1>1. PICK c \in Cost :
        /\ pool[r].available >= c
        /\ pool' = [pool EXCEPT ![r] = Serve(@, c)]
        /\ books' = [books EXCEPT !.served = @ + c]
        /\ UNCHANGED <<pending, sent, cost, answer, stray, account, applied, faults>>
  BY DEF SpendLocally
<1>2. c \in Nat /\ pool[r] \in PoolType /\ books.served \in Nat
  BY CreditConstants DEF CreditInv, TypeOK, PoolType
<1>3. /\ Serve(pool[r], c) \in PoolType
      /\ Serve(pool[r], c).available + Serve(pool[r], c).spent = pool[r].available + pool[r].spent
      /\ Serve(pool[r], c).reserved = pool[r].reserved
  BY <1>1, <1>2, ServeBalances
<1>4. TypeOK'
  BY <1>1, <1>2, <1>3 DEF CreditInv, TypeOK, PoolType
<1>5. PoolsBalance'
  BY <1>1, <1>2, <1>3 DEF CreditInv, PoolsBalance, TypeOK
<1>a. books'.charged = books.charged
  BY <1>1 DEF CreditInv, TypeOK
<1>b. LedgerSound'
  BY <1>1, <1>a DEF CreditInv, LedgerSound
<1>c. SentPending' /\ OneReportPerId' /\ NeverOverspent'
  BY <1>1 DEF CreditInv, SentPending, OneReportPerId, NeverOverspent, Reports
<1>7. QED BY <1>4, <1>5, <1>b, <1>c DEF CreditInv

\* It asks for more.
LEMMA LeaseSound ==
  ASSUME CreditInv, NEW r \in Relay, Lease(r)
  PROVE  CreditInv'
<1>1. PICK c \in Cost :
        /\ sent' = [sent EXCEPT ![r] = [kind |-> "reserve", ask |-> Ask(c)]]
        /\ cost' = [cost EXCEPT ![r] = c]
        /\ UNCHANGED <<pool, pending, answer, stray, account, applied, faults, books>>
  BY DEF Lease
<1>2. Ask(c) \in Nat
  BY CreditConstants DEF Ask, Most
<1>3. [kind |-> "reserve", ask |-> Ask(c)] \in Call
  BY <1>2 DEF Call
<1>4. TypeOK'
  BY <1>1, <1>3 DEF CreditInv, TypeOK
<1>5. SentPending'
  BY <1>1 DEF CreditInv, SentPending, TypeOK
<1>6. PoolsBalance' /\ OneReportPerId' /\ NeverOverspent' /\ LedgerSound'
  BY <1>1 DEF CreditInv, PoolsBalance, OneReportPerId, NeverOverspent, Reports, LedgerSound
<1>7. QED BY <1>4, <1>5, <1>6 DEF CreditInv

\* The grant arrives.
LEMMA GrantedSound ==
  ASSUME CreditInv, NEW r \in Relay, Granted(r)
  PROVE  CreditInv'
<1> DEFINE p == Leased(pool[r], sent[r].ask, answer[r].granted)
           enough == answer[r].granted <= sent[r].ask /\ p.available >= cost[r]
           q == IF enough THEN Serve(p, cost[r]) ELSE p
<1>1. /\ sent[r] # NoCall /\ sent[r].kind = "reserve" /\ answer[r] # NoAnswer
      /\ pool' = [pool EXCEPT ![r] = q]
      /\ books' = [books EXCEPT !.served = IF enough THEN @ + cost[r] ELSE @]
      /\ sent' = [sent EXCEPT ![r] = NoCall]
      /\ cost' = [cost EXCEPT ![r] = 0]
      /\ answer' = [answer EXCEPT ![r] = NoAnswer]
      /\ UNCHANGED <<pending, stray, account, applied, faults>>
  BY DEF Granted, Free
<1>2. /\ pool[r] \in PoolType
      /\ pool[r].available + pool[r].spent = pool[r].reserved
      /\ cost[r] \in Nat /\ answer[r].granted \in Nat /\ books.served \in Nat
      /\ sent[r].ask \in Nat
  BY <1>1, CreditConstants DEF CreditInv, TypeOK, PoolsBalance, PoolType, Answer, Call
<1>3. p \in PoolType /\ p.available + p.spent = p.reserved
  BY <1>2, LeasedBalances
<1>4. q \in PoolType /\ q.available + q.spent = q.reserved
  <2>1. CASE enough
    <3>1. Serve(p, cost[r]) \in PoolType
          /\ Serve(p, cost[r]).available + Serve(p, cost[r]).spent = Serve(p, cost[r]).reserved
      <4>1. p.available >= cost[r]
        BY <2>1
      <4>2. p.reserved = p.available + p.spent
        BY <1>3
      <4> HIDE DEF p
      <4> QED BY <1>2, <1>3, <4>1, <4>2, ServeBalances
    <3>2. QED BY <2>1, <3>1
  <2>2. CASE ~enough
    BY <1>3, <2>2
  <2>3. QED BY <2>1, <2>2
<1> HIDE DEF q, enough
<1>5. TypeOK'
  BY <1>1, <1>2, <1>4 DEF CreditInv, TypeOK, PoolType
<1>6. PoolsBalance'
  BY <1>1, <1>4 DEF CreditInv, PoolsBalance, TypeOK
<1>7. SentPending'
  BY <1>1 DEF CreditInv, SentPending, TypeOK
<1>a. books'.charged = books.charged
  BY <1>1 DEF CreditInv, TypeOK
<1>b. LedgerSound'
  BY <1>1, <1>a DEF CreditInv, LedgerSound
<1>8. OneReportPerId' /\ NeverOverspent' /\ LedgerSound'
  BY <1>1, <1>b DEF CreditInv, OneReportPerId, NeverOverspent, Reports
<1>9. QED BY <1>5, <1>6, <1>7, <1>8 DEF CreditInv
(* Freezing a report: its id is new, its numbers are the pool's, and the    *)
(* pool starts afresh.                                                      *)
LEMMA FreezeSound ==
  ASSUME CreditInv, NEW r \in Relay, Freeze(r), UNCHANGED <<stray, applied>>
  PROVE  /\ pool' \in [Relay -> PoolType]
         /\ pending' \in [Relay -> Report \cup {NoReport}]
         /\ sent' \in [Relay -> Call \cup {NoCall}]
         /\ PoolsBalance' /\ SentPending' /\ OneReportPerId' /\ NeverOverspent'
<1>1. PICK id \in SettleId :
        /\ FreshId(id)
        /\ LET report == [id |-> id, spent |-> pool[r].spent, reserved |-> pool[r].reserved]
           IN /\ pending' = [pending EXCEPT ![r] = report]
              /\ sent' = [sent EXCEPT ![r] = SettleCall(report)]
        /\ pool' = [pool EXCEPT ![r] = EmptyPool]
  BY DEF Freeze
<1> DEFINE report == [id |-> id, spent |-> pool[r].spent, reserved |-> pool[r].reserved]
<1>2. /\ pool \in [Relay -> PoolType]
      /\ pool[r].available + pool[r].spent = pool[r].reserved
      /\ pending \in [Relay -> Report \cup {NoReport}]
      /\ sent \in [Relay -> Call \cup {NoCall}]
  BY DEF CreditInv, TypeOK, PoolsBalance, PoolType
<1>3. /\ pool[r].available \in Nat /\ pool[r].spent \in Nat /\ pool[r].reserved \in Nat
  BY <1>2 DEF PoolType
<1>4. report \in Report /\ report # NoReport /\ report.id = id /\ report.spent <= report.reserved
  BY <1>2, <1>3, CreditConstants DEF Report
<1>5. pending' = [pending EXCEPT ![r] = report] /\ sent' = [sent EXCEPT ![r] = SettleCall(report)]
  BY <1>1
<1> HIDE DEF report
<1>6. SettleCall(report) \in Call /\ SettleCall(report).report = report
  BY <1>4 DEF SettleCall, Call
<1>7. EmptyPool \in PoolType /\ EmptyPool.available + EmptyPool.spent = EmptyPool.reserved
  BY DEF EmptyPool, PoolType
<1>8. /\ pool' \in [Relay -> PoolType]
      /\ pending' \in [Relay -> Report \cup {NoReport}]
      /\ sent' \in [Relay -> Call \cup {NoCall}]
  BY <1>1, <1>2, <1>4, <1>5, <1>6, <1>7
<1>9. PoolsBalance'
  BY <1>1, <1>2, <1>7 DEF CreditInv, PoolsBalance
<1>10. SentPending'
  BY <1>2, <1>4, <1>5, <1>6 DEF CreditInv, SentPending
<1>11. \A rep \in Reports' : rep \in Reports \/ rep = report
  BY <1>2, <1>5 DEF Reports
<1>12. \A rep \in Reports : rep.id # report.id
  BY <1>1, <1>4, FreshIsNew
<1>13. OneReportPerId' /\ NeverOverspent'
  BY <1>4, <1>11, <1>12 DEF CreditInv, OneReportPerId, NeverOverspent
<1>14. QED BY <1>8, <1>9, <1>10, <1>13

\* The timer: a report is sent again as it was, or a new one is frozen.
LEMMA SettleStartSound ==
  ASSUME CreditInv, NEW r \in Relay, Settle(r)
  PROVE  CreditInv'
<1>1. UNCHANGED <<cost, answer, stray, account, applied, faults, books>>
  BY DEF Settle
<1>2. LedgerSound'
  BY <1>1 DEF CreditInv, LedgerSound
<1>3. CASE /\ pending[r] # NoReport
           /\ sent' = [sent EXCEPT ![r] = SettleCall(pending[r])]
           /\ UNCHANGED <<pool, pending>>
  <2>1. pending[r] \in Report
    BY <1>3 DEF CreditInv, TypeOK
  <2>2. SettleCall(pending[r]) \in Call /\ SettleCall(pending[r]).report = pending[r]
    BY <2>1 DEF SettleCall, Call
  <2>3. TypeOK'
    BY <1>1, <1>3, <2>2 DEF CreditInv, TypeOK
  <2>4. SentPending'
    BY <1>3, <2>2 DEF CreditInv, SentPending, TypeOK
  <2>5. PoolsBalance' /\ OneReportPerId' /\ NeverOverspent'
    BY <1>1, <1>3 DEF CreditInv, PoolsBalance, OneReportPerId, NeverOverspent, Reports
  <2>6. QED BY <1>2, <2>3, <2>4, <2>5 DEF CreditInv
<1>4. CASE Freeze(r)
  <2>1. TypeOK'
    BY <1>1, <1>4, FreezeSound DEF CreditInv, TypeOK, PoolType
  <2>2. QED BY <1>1, <1>2, <1>4, <2>1, FreezeSound DEF CreditInv
<1>5. QED BY <1>3, <1>4 DEF Settle

\* A report is done with; the next is frozen if the pool was used meanwhile.
LEMMA SettledSound ==
  ASSUME CreditInv, NEW r \in Relay, Settled(r)
  PROVE  CreditInv'
<1>1. /\ answer' = [answer EXCEPT ![r] = NoAnswer]
      /\ UNCHANGED <<cost, stray, account, applied, faults, books>>
  BY DEF Settled
<1>2. LedgerSound'
  BY <1>1 DEF CreditInv, LedgerSound
<1>3. CASE /\ pending' = [pending EXCEPT ![r] = NoReport]
           /\ sent' = [sent EXCEPT ![r] = NoCall]
           /\ UNCHANGED pool
  <2>1. TypeOK'
    BY <1>1, <1>3 DEF CreditInv, TypeOK
  <2>2. SentPending' /\ PoolsBalance'
    BY <1>3 DEF CreditInv, SentPending, PoolsBalance, TypeOK
  <2>3. Reports' \subseteq Reports
    BY <1>1, <1>3 DEF CreditInv, TypeOK, Reports
  <2>4. OneReportPerId' /\ NeverOverspent'
    BY <2>3, SubsetSound DEF CreditInv
  <2>5. QED BY <1>2, <2>1, <2>2, <2>4 DEF CreditInv
<1>4. CASE Freeze(r)
  <2>1. TypeOK'
    BY <1>1, <1>4, FreezeSound DEF CreditInv, TypeOK, PoolType
  <2>2. QED BY <1>1, <1>2, <1>4, <2>1, FreezeSound DEF CreditInv
<1>5. QED BY <1>3, <1>4 DEF Settled
-----------------------------------------------------------------------------
(* Answers, late arrivals and faults. *)

\* A settle call under way carries a report that is there.
LEMMA SentReport ==
  ASSUME CreditInv, NEW r \in Relay, ~Free(r)
  PROVE  sent[r] \in Call /\ (sent[r].kind = "settle" => sent[r].report \in Reports)
<1>1. sent[r] \in Call
  BY DEF CreditInv, TypeOK, Free
<1>2. sent[r].kind = "settle" => sent[r].report \in Reports
  BY DEF CreditInv, SentPending, Free, Reports
<1>3. QED BY <1>1, <1>2

\* The ledger does a live call.
LEMMA AnsweredSound ==
  ASSUME CreditInv, NEW r \in Relay, Answered(r)
  PROVE  CreditInv'
<1>1. PICK reply \in Reply : Perform(sent[r], reply) /\ answer' = [answer EXCEPT ![r] = reply]
  BY DEF Answered
<1>2. ~Free(r) /\ UNCHANGED <<pool, pending, sent, cost, stray, faults>>
  BY DEF Answered
<1>3. reply \in Answer
  BY CreditConstants DEF Reply, Answer
<1>4. /\ account' \in [remaining : Nat, reserved : Nat, ceiling : Ceilings]
      /\ books' \in [served : Nat, charged : Nat, byHand : Nat, lost : BOOLEAN]
      /\ LedgerSound'
      /\ applied' \subseteq Reports
  BY <1>1, <1>2, SentReport, PerformSound DEF CreditInv
<1>5. Reports \subseteq Report
  BY ReportsTyped DEF CreditInv
<1>6. TypeOK'
  BY <1>1, <1>2, <1>3, <1>4, <1>5 DEF CreditInv, TypeOK
<1>7. Reports' \subseteq Reports
  BY <1>2, <1>4, ReportsKept DEF CreditInv, TypeOK
<1>8. OneReportPerId' /\ NeverOverspent'
  BY <1>7, SubsetSound DEF CreditInv
<1>9. PoolsBalance' /\ SentPending'
  BY <1>2 DEF CreditInv, PoolsBalance, SentPending
<1>10. QED BY <1>4, <1>6, <1>8, <1>9 DEF CreditInv

\* It does one that its relay gave up.
LEMMA ArrivesLateSound ==
  ASSUME CreditInv, ArrivesLate
  PROVE  CreditInv'
<1>1. PICK s \in stray :
        /\ \E reply \in Reply : Perform(s.call, reply)
        /\ stray' = stray \ {s}
        /\ UNCHANGED <<pool, pending, sent, cost, answer, faults>>
  BY DEF ArrivesLate
<1>2. s.call \in Call /\ (s.call.kind = "settle" => s.call.report \in Reports)
  BY DEF CreditInv, TypeOK, Reports
<1>3. /\ account' \in [remaining : Nat, reserved : Nat, ceiling : Ceilings]
      /\ books' \in [served : Nat, charged : Nat, byHand : Nat, lost : BOOLEAN]
      /\ LedgerSound'
      /\ applied' \subseteq Reports
  BY <1>1, <1>2, PerformSound DEF CreditInv
<1>4. Reports \subseteq Report
  BY ReportsTyped DEF CreditInv
<1>5. TypeOK'
  BY <1>1, <1>3, <1>4 DEF CreditInv, TypeOK
<1>6. Reports' \subseteq Reports
  BY <1>1, <1>3, ReportsKept DEF CreditInv, TypeOK
<1>7. OneReportPerId' /\ NeverOverspent'
  BY <1>6, SubsetSound DEF CreditInv
<1>8. PoolsBalance' /\ SentPending'
  BY <1>1 DEF CreditInv, PoolsBalance, SentPending
<1>9. QED BY <1>3, <1>5, <1>7, <1>8 DEF CreditInv

\* What a relay abandons is a call it had sent, hence a report that is there.
LEMMA AbandonedSound ==
  ASSUME CreditInv, NEW r \in Relay, stray' = stray \cup Abandoned(r)
  PROVE  /\ stray' \subseteq [call : Call, nth : Nat]
         /\ \A s \in stray' : s.call.kind = "settle" => s \in stray \/ s.call.report \in Reports
<1>1. CASE ~Free(r) /\ answer[r] = NoAnswer
  <2>1. Abandoned(r) = {[call |-> sent[r], nth |-> faults]}
    BY <1>1 DEF Abandoned
  <2>2. faults \in Nat /\ stray \subseteq [call : Call, nth : Nat]
    BY CreditConstants DEF CreditInv, TypeOK
  <2>3. sent[r] \in Call /\ (sent[r].kind = "settle" => sent[r].report \in Reports)
    BY <1>1, SentReport
  <2>4. QED BY <2>1, <2>2, <2>3
<1>2. CASE ~(~Free(r) /\ answer[r] = NoAnswer)
  <2>1. stray' = stray
    BY <1>2 DEF Abandoned
  <2>2. QED BY <2>1 DEF CreditInv, TypeOK
<1>3. QED BY <1>1, <1>2

\* A call that fails for its relay leaves the report pending.
LEMMA GiveUpSound ==
  ASSUME CreditInv, NEW r \in Relay, GiveUp(r)
  PROVE  CreditInv'
<1>1. /\ faults < MaxFaults
      /\ stray' = stray \cup Abandoned(r)
      /\ sent' = [sent EXCEPT ![r] = NoCall]
      /\ cost' = [cost EXCEPT ![r] = 0]
      /\ answer' = [answer EXCEPT ![r] = NoAnswer]
      /\ faults' = faults + 1
      /\ UNCHANGED <<pool, pending, account, applied, books>>
  BY DEF GiveUp
<1>2. faults' \in 0 .. MaxFaults
  BY <1>1, CreditConstants DEF CreditInv, TypeOK
<1>3. TypeOK'
  BY <1>1, <1>2, AbandonedSound DEF CreditInv, TypeOK
<1>4. Reports' \subseteq Reports
  <2>1. applied \subseteq Reports
    BY DEF Reports
  <2>2. QED BY <1>1, <2>1, AbandonedSound, ReportsKept DEF CreditInv
<1>5. OneReportPerId' /\ NeverOverspent'
  BY <1>4, SubsetSound DEF CreditInv
<1>6. PoolsBalance' /\ SentPending' /\ LedgerSound'
  BY <1>1 DEF CreditInv, PoolsBalance, SentPending, LedgerSound, TypeOK
<1>7. QED BY <1>3, <1>5, <1>6 DEF CreditInv

\* A relay dies.
LEMMA CrashSound ==
  ASSUME CreditInv, NEW r \in Relay, Crash(r)
  PROVE  CreditInv'
<1>1. /\ faults < MaxFaults
      /\ stray' = stray \cup Abandoned(r)
      /\ pool' = [pool EXCEPT ![r] = EmptyPool]
      /\ pending' = [pending EXCEPT ![r] = NoReport]
      /\ sent' = [sent EXCEPT ![r] = NoCall]
      /\ cost' = [cost EXCEPT ![r] = 0]
      /\ answer' = [answer EXCEPT ![r] = NoAnswer]
      /\ faults' = faults + 1
      /\ books' = [books EXCEPT !.lost = TRUE]
      /\ UNCHANGED <<account, applied>>
  BY DEF Crash
<1>2. faults' \in 0 .. MaxFaults
  BY <1>1, CreditConstants DEF CreditInv, TypeOK
<1>3. EmptyPool \in PoolType /\ EmptyPool.available + EmptyPool.spent = EmptyPool.reserved
  BY DEF EmptyPool, PoolType
<1>4. TypeOK'
  BY <1>1, <1>2, <1>3, AbandonedSound DEF CreditInv, TypeOK, PoolType
<1>5. Reports' \subseteq Reports
  <2>1. applied \subseteq Reports
    BY DEF Reports
  <2>2. \A q \in Relay : pending'[q] = pending[q] \/ pending'[q] = NoReport
    BY <1>1 DEF CreditInv, TypeOK
  <2>3. QED BY <1>1, <2>1, <2>2, AbandonedSound, ReportsKept DEF CreditInv
<1>6. OneReportPerId' /\ NeverOverspent'
  BY <1>5, SubsetSound DEF CreditInv
<1>7. PoolsBalance' /\ SentPending'
  BY <1>1, <1>3 DEF CreditInv, PoolsBalance, SentPending, TypeOK
<1>8. books'.charged = books.charged
  BY <1>1 DEF CreditInv, TypeOK
<1>9. LedgerSound'
  BY <1>1, <1>8 DEF CreditInv, LedgerSound
<1>10. QED BY <1>4, <1>6, <1>7, <1>9 DEF CreditInv

\* An operator moves reserves back to the balance.
LEMMA ReconcileSound ==
  ASSUME CreditInv, Reconcile
  PROVE  CreditInv'
<1>1. PICK n \in 1 .. account.reserved :
        /\ faults < MaxFaults
        /\ account' = [account EXCEPT !.reserved = @ - n, !.remaining = @ + n]
        /\ faults' = faults + 1
        /\ books' = [books EXCEPT !.byHand = @ + n]
        /\ UNCHANGED <<pool, pending, sent, cost, answer, stray, applied>>
  BY DEF Reconcile
<1>2. /\ account \in [remaining : Nat, reserved : Nat, ceiling : Ceilings]
      /\ account.remaining \in Nat /\ account.reserved \in Nat /\ account.ceiling \in Nat
      /\ books.charged \in Nat
  BY CreditConstants DEF CreditInv, TypeOK
<1>3. faults' \in 0 .. MaxFaults
  BY <1>1, CreditConstants DEF CreditInv, TypeOK
<1>4. n \in Nat /\ account.reserved - n \in Nat /\ account.remaining + n \in Nat
  BY <1>1, <1>2
<1>5. /\ account'.reserved = account.reserved - n
      /\ account'.remaining = account.remaining + n
      /\ account'.ceiling = account.ceiling
  BY <1>1, <1>2
<1>6. account' \in [remaining : Nat, reserved : Nat, ceiling : Ceilings]
  BY <1>1, <1>2, <1>4
<1>7. /\ books'.charged = books.charged
      /\ books' \in [served : Nat, charged : Nat, byHand : Nat, lost : BOOLEAN]
  BY <1>1, <1>4 DEF CreditInv, TypeOK
<1>8. LedgerSound'
  BY <1>2, <1>4, <1>5, <1>7, CreditConstants DEF CreditInv, LedgerSound
<1>9. TypeOK'
  BY <1>1, <1>3, <1>6, <1>7 DEF CreditInv, TypeOK
<1>10. PoolsBalance' /\ SentPending' /\ OneReportPerId' /\ NeverOverspent'
  BY <1>1 DEF CreditInv, PoolsBalance, SentPending, OneReportPerId, NeverOverspent, Reports
<1>11. QED BY <1>8, <1>9, <1>10 DEF CreditInv

-----------------------------------------------------------------------------
(* Whatever the relays, the ledger, the network and the operator do, the    *)
(* whole invariant holds; the rest of the theorems are its parts.           *)
THEOREM CreditInvariance == Spec => []CreditInv
<1>1. Init => CreditInv
  <2> SUFFICES ASSUME Init PROVE CreditInv
    OBVIOUS
  <2>1. TypeOK
    BY CreditConstants DEF Init, TypeOK, EmptyPool
  <2>2. LedgerSound
    BY CreditConstants DEF Init, LedgerSound
  <2>3. PoolsBalance /\ SentPending
    BY DEF Init, PoolsBalance, SentPending, EmptyPool
  <2>4. Reports = {}
    BY DEF Init, Reports
  <2>5. QED BY <2>1, <2>2, <2>3, <2>4 DEF CreditInv, OneReportPerId, NeverOverspent
<1>2. CreditInv /\ [Next]_vars => CreditInv'
  <2> SUFFICES ASSUME CreditInv, [Next]_vars PROVE CreditInv'
    OBVIOUS
  <2>1. ASSUME NEW r \in Relay, RelayStep(r) PROVE CreditInv'
    BY <2>1, SpendSound, LeaseSound, GrantedSound, SettleStartSound, SettledSound DEF RelayStep
  <2>2. ASSUME NEW r \in Relay, Answered(r) \/ GiveUp(r) \/ Crash(r) PROVE CreditInv'
    BY <2>2, AnsweredSound, GiveUpSound, CrashSound
  <2>3. CASE ArrivesLate
    BY <2>3, ArrivesLateSound
  <2>4. CASE Reconcile
    BY <2>4, ReconcileSound
  <2>5. CASE UNCHANGED vars
    BY <2>5 DEF vars, CreditInv, TypeOK, LedgerSound, PoolsBalance, SentPending,
                OneReportPerId, NeverOverspent, Reports
  <2>6. QED BY <2>1, <2>2, <2>3, <2>4, <2>5 DEF Next
<1>3. QED BY <1>1, <1>2, PTL DEF Spec

(* Every variable keeps its type: no balance, pool or report goes negative. *)
THEOREM CreditTypes == Spec => []TypeOK
<1>1. CreditInv => TypeOK
  BY DEF CreditInv
<1>2. QED BY <1>1, CreditInvariance, PTL

(* Store::reserve and Store::settle create and lose no credit, and keep the *)
(* reserve under the ceiling, whatever calls arrive in whatever order.      *)
THEOREM LedgerStaysSound == Spec => []LedgerSound
<1>1. CreditInv => LedgerSound
  BY DEF CreditInv
<1>2. QED BY <1>1, CreditInvariance, PTL

(* No settle id ever stands for two reports, so the ledger's log recognises *)
(* each retry and each late copy as what it is.                             *)
THEOREM ReportsStayFrozen == Spec => []OneReportPerId
<1>1. CreditInv => OneReportPerId
  BY DEF CreditInv
<1>2. QED BY <1>1, CreditInvariance, PTL

(* No relay reports more spent than it leased.                              *)
THEOREM ReportsCovered == Spec => []NeverOverspent
<1>1. CreditInv => NeverOverspent
  BY DEF CreditInv
<1>2. QED BY <1>1, CreditInvariance, PTL
-----------------------------------------------------------------------------
(* Sums over finite sets.  A sum is a fold that takes the elements in an     *)
(* order it chooses; what it comes to does not depend on that order.  The    *)
(* induction is on a smallest set for which a lemma would fail.              *)
LEMMA SmallestSubset ==
  ASSUME NEW S, IsFiniteSet(S), NEW T, T \subseteq SUBSET S, T # {}
  PROVE  \E m \in T : \A t \in T : t \subseteq m => t = m
<1>1. IsWellFoundedOn(StrictSubsetOrdering(S), SUBSET S)
  <2>1. FiniteSubsetsOf(S) = SUBSET S
    BY FS_FiniteSubsetsOfFinite
  <2>2. QED BY <2>1, FS_StrictSubsetOrderingWellFounded
<1>2. PICK m \in T : \A t \in T : ~(<<t, m>> \in StrictSubsetOrdering(S))
  BY <1>1, WFMin
<1>3. QED BY <1>2 DEF StrictSubsetOrdering

Pick(s) == CHOOSE x \in s : TRUE

\* it gives, for every subset of S, what the fold makes of it.
Folds(f, S, it) ==
  it = [s \in SUBSET S |-> IF s = {} THEN 0 ELSE f[Pick(s)] + it[s \ {Pick(s)}]]

Folded(f, S) == (CHOOSE it : Folds(f, S, it))[S]

LEMMA PickIn ==
  ASSUME NEW s, s # {}
  PROVE  Pick(s) \in s
BY DEF Pick

LEMMA SumIsFolded ==
  ASSUME NEW f, NEW S
  PROVE  SumFunctionOnSet(f, S) = Folded(f, S)
BY DEF SumFunctionOnSet, FoldFunctionOnSet, MapThenFoldSet, Folds, Folded, Pick

\* Two folds agree wherever both are defined.
LEMMA FoldsAgree ==
  ASSUME NEW f, NEW S, IsFiniteSet(S), NEW T \in SUBSET S, NEW U \in SUBSET S,
         NEW a, NEW b, Folds(f, T, a), Folds(f, U, b)
  PROVE  \A s \in SUBSET T : s \subseteq U => a[s] = b[s]
<1> DEFINE Bad == {s \in SUBSET T : s \subseteq U /\ a[s] # b[s]}
<1> SUFFICES ASSUME Bad # {} PROVE FALSE
  OBVIOUS
<1>1. PICK m \in Bad : \A t \in Bad : t \subseteq m => t = m
  <2>1. Bad \subseteq SUBSET S
    OBVIOUS
  <2> HIDE DEF Bad
  <2>2. QED BY <2>1, SmallestSubset
<1>2. m \in SUBSET T /\ m \in SUBSET U /\ a[m] # b[m]
  OBVIOUS
<1>3. m # {}
  BY <1>2 DEF Folds
<1>4. a[m] = f[Pick(m)] + a[m \ {Pick(m)}] /\ b[m] = f[Pick(m)] + b[m \ {Pick(m)}]
  BY <1>2, <1>3 DEF Folds
<1>5. m \ {Pick(m)} \notin Bad
  BY <1>1, <1>3, PickIn
<1>6. a[m \ {Pick(m)}] = b[m \ {Pick(m)}]
  BY <1>2, <1>5
<1>7. QED BY <1>2, <1>4, <1>6

\* There is one.
LEMMA FoldsExist ==
  ASSUME NEW f, NEW S, IsFiniteSet(S)
  PROVE  \A T \in SUBSET S : \E it : Folds(f, T, it)
<1> DEFINE Bad == {T \in SUBSET S : ~ \E it : Folds(f, T, it)}
<1> SUFFICES ASSUME Bad # {} PROVE FALSE
  OBVIOUS
<1>1. PICK m \in Bad : \A t \in Bad : t \subseteq m => t = m
  <2>1. Bad \subseteq SUBSET S
    OBVIOUS
  <2> HIDE DEF Bad
  <2>2. QED BY <2>1, SmallestSubset
<1>2. m \in SUBSET S /\ ~ \E it : Folds(f, m, it)
  OBVIOUS
<1>3. \A t \in SUBSET m : t # m => \E it : Folds(f, t, it)
  BY <1>1
<1> HIDE DEF Bad
<1> DEFINE g == [s \in SUBSET m |->
             IF s = {} THEN 0 ELSE f[Pick(s)] + Folded(f, s \ {Pick(s)})]
<1>4. \A t \in SUBSET m : t # m => Folds(f, t, CHOOSE it : Folds(f, t, it))
  BY <1>3
<1>5. ASSUME NEW t \in SUBSET m, t # m PROVE g[t] = Folded(f, t)
  <2> DEFINE it == CHOOSE h : Folds(f, t, h)
             u == t \ {Pick(t)}
             iu == CHOOSE h : Folds(f, u, h)
  <2>1. Folds(f, t, it)
    BY <1>4, <1>5
  <2>2. CASE t = {}
    BY <2>1, <2>2 DEF Folded, Folds
  <2>3. CASE t # {}
    <3>1. u \in SUBSET m /\ u # m /\ u \in SUBSET t
      BY <1>5
    <3>2. Folds(f, u, iu)
      BY <1>4, <3>1
    <3> HIDE DEF it, iu, u
    <3>3. it[u] = iu[u]
      <4>1. t \in SUBSET S /\ u \in SUBSET S
        BY <1>2, <1>5, <3>1
      <4>2. \A s \in SUBSET t : s \subseteq u => it[s] = iu[s]
        BY <2>1, <3>2, <4>1, FoldsAgree
      <4>3. QED BY <3>1, <4>2
    <3>4. it[t] = f[Pick(t)] + it[u]
      BY <2>1, <2>3 DEF Folds, u
    <3>5. g[t] = f[Pick(t)] + iu[u]
      BY <2>3 DEF Folded, iu, u
    <3>6. QED BY <3>3, <3>4, <3>5 DEF Folded, it
  <2>4. QED BY <2>2, <2>3
<1>6. Folds(f, m, g)
  <2>1. ASSUME NEW s \in SUBSET m, s # {}
        PROVE  Folded(f, s \ {Pick(s)}) = g[s \ {Pick(s)}]
    <3>1. s \ {Pick(s)} \in SUBSET m /\ s \ {Pick(s)} # m
      BY <2>1, PickIn
    <3> HIDE DEF g
    <3>2. QED BY <1>5, <3>1
  <2>2. g = [s \in SUBSET m |-> IF s = {} THEN 0 ELSE f[Pick(s)] + g[s \ {Pick(s)}]]
    BY <2>1
  <2>3. QED BY <2>2 DEF Folds
<1>7. QED BY <1>2, <1>6

\* What a sum comes to, one element after the other.
LEMMA SumStep ==
  ASSUME NEW f, NEW S, IsFiniteSet(S)
  PROVE  /\ SumFunctionOnSet(f, {}) = 0
         /\ S # {} => SumFunctionOnSet(f, S)
                       = f[Pick(S)] + SumFunctionOnSet(f, S \ {Pick(S)})
<1>1. \A T \in SUBSET S : Folds(f, T, CHOOSE it : Folds(f, T, it))
  BY FoldsExist
<1> DEFINE it(T) == CHOOSE h : Folds(f, T, h)
<1>2. Folded(f, {}) = 0
  <2>1. Folds(f, {}, it({}))
    BY <1>1
  <2>2. it({})[{}] = 0
    BY <2>1 DEF Folds
  <2>3. QED BY <2>2 DEF Folded
<1>3. ASSUME S # {} PROVE Folded(f, S) = f[Pick(S)] + Folded(f, S \ {Pick(S)})
  <2> DEFINE u == S \ {Pick(S)}
  <2>1. u \in SUBSET S /\ Folds(f, S, it(S)) /\ Folds(f, u, it(u))
    BY <1>1
  <2>2. it(S)[S] = f[Pick(S)] + it(S)[u]
    BY <1>3, <2>1 DEF Folds
  <2> DEFINE a == it(S)
             b == it(u)
  <2>3. Folds(f, S, a) /\ Folds(f, u, b)
    BY <2>1
  <2> HIDE DEF u, a, b
  <2>4. \A s \in SUBSET S : s \subseteq u => a[s] = b[s]
    <3>1. S \in SUBSET S
      OBVIOUS
    <3>2. QED BY <2>1, <2>3, <3>1, FoldsAgree
  <2>5. a[u] = b[u]
    BY <2>1, <2>4
  <2>6. QED BY <2>2, <2>5 DEF Folded, a, b, u
<1>4. QED BY <1>2, <1>3, SumIsFolded

\* A sum of naturals is a natural.
LEMMA SumNat ==
  ASSUME NEW S, IsFiniteSet(S), NEW f, \A x \in S : f[x] \in Nat
  PROVE  SumFunctionOnSet(f, S) \in Nat
<1> DEFINE Bad == {T \in SUBSET S : SumFunctionOnSet(f, T) \notin Nat}
<1> SUFFICES ASSUME Bad # {} PROVE FALSE
  OBVIOUS
<1>1. PICK m \in Bad : \A t \in Bad : t \subseteq m => t = m
  <2>1. Bad \subseteq SUBSET S
    OBVIOUS
  <2> HIDE DEF Bad
  <2>2. QED BY <2>1, SmallestSubset
<1>2. m \in SUBSET S /\ IsFiniteSet(m)
  BY FS_Subset
<1>3. m # {}
  <2>1. \A k : SumFunctionOnSet(k, {}) = 0
    BY <1>2, SumStep
  <2>2. QED BY <2>1
<1>4. Pick(m) \in m /\ m \ {Pick(m)} \in SUBSET S
  BY <1>2, <1>3, PickIn
<1>5. SumFunctionOnSet(f, m \ {Pick(m)}) \in Nat
  BY <1>1, <1>4
<1>6. f[Pick(m)] \in Nat
  BY <1>2, <1>4
<1>7. SumFunctionOnSet(f, m) \in Nat
  <2> HIDE DEF Bad
  <2>1. SumFunctionOnSet(f, m) = f[Pick(m)] + SumFunctionOnSet(f, m \ {Pick(m)})
    BY <1>2, <1>3, SumStep
  <2>2. QED BY <1>5, <1>6, <2>1
<1>8. QED BY <1>7

\* Any element may be taken first.
LEMMA SumTake ==
  ASSUME NEW S, IsFiniteSet(S), NEW f, \A x \in S : f[x] \in Nat, NEW e \in S
  PROVE  SumFunctionOnSet(f, S) = f[e] + SumFunctionOnSet(f, S \ {e})
<1> DEFINE Sum(T) == SumFunctionOnSet(f, T)
           Bad == {T \in SUBSET S : \E x \in T : Sum(T) # f[x] + Sum(T \ {x})}
<1> SUFFICES ASSUME Bad # {} PROVE FALSE
  OBVIOUS
<1>1. PICK m \in Bad : \A t \in Bad : t \subseteq m => t = m
  <2>1. Bad \subseteq SUBSET S
    OBVIOUS
  <2> HIDE DEF Bad
  <2>2. QED BY <2>1, SmallestSubset
<1>2. m \in SUBSET S /\ IsFiniteSet(m)
  BY FS_Subset
<1>3. PICK x \in m : Sum(m) # f[x] + Sum(m \ {x})
  OBVIOUS
<1> DEFINE c == Pick(m)
           both == m \ {c, x}
<1>4. c \in m /\ Sum(m) = f[c] + Sum(m \ {c})
  BY <1>2, <1>3, SumStep, PickIn
<1>5. x # c
  BY <1>3, <1>4
<1>6. Sum(m \ {c}) = f[x] + Sum(both)
  <2>1. m \ {c} \in SUBSET S /\ m \ {c} # m /\ m \ {c} \subseteq m /\ x \in m \ {c}
    BY <1>2, <1>4, <1>5
  <2>2. m \ {c} \notin Bad
    BY <1>1, <2>1
  <2>3. Sum(m \ {c}) = f[x] + Sum((m \ {c}) \ {x})
    BY <2>1, <2>2
  <2>4. (m \ {c}) \ {x} = both
    OBVIOUS
  <2>5. QED BY <2>3, <2>4
<1>7. Sum(m \ {x}) = f[c] + Sum(both)
  <2>1. m \ {x} \in SUBSET S /\ m \ {x} # m /\ m \ {x} \subseteq m /\ c \in m \ {x}
    BY <1>2, <1>4, <1>5
  <2>2. m \ {x} \notin Bad
    BY <1>1, <2>1
  <2>3. Sum(m \ {x}) = f[c] + Sum((m \ {x}) \ {c})
    BY <2>1, <2>2
  <2>4. (m \ {x}) \ {c} = both
    OBVIOUS
  <2>5. QED BY <2>3, <2>4
<1>8. f[x] \in Nat /\ f[c] \in Nat /\ Sum(both) \in Nat
  <2>1. both \in SUBSET S /\ IsFiniteSet(both)
    BY <1>2, FS_Subset
  <2>2. Sum(both) \in Nat
    BY <2>1, SumNat
  <2>3. QED BY <1>2, <1>4, <2>2
<1> HIDE DEF Sum, both, c
<1>9. QED BY <1>3, <1>4, <1>6, <1>7, <1>8

\* Functions that agree on a set have the same sum.
LEMMA SumSame ==
  ASSUME NEW S, IsFiniteSet(S), NEW f, NEW g, \A x \in S : f[x] = g[x]
  PROVE  SumFunctionOnSet(f, S) = SumFunctionOnSet(g, S)
<1> DEFINE Bad == {T \in SUBSET S : SumFunctionOnSet(f, T) # SumFunctionOnSet(g, T)}
<1> SUFFICES ASSUME Bad # {} PROVE FALSE
  OBVIOUS
<1>1. PICK m \in Bad : \A t \in Bad : t \subseteq m => t = m
  <2>1. Bad \subseteq SUBSET S
    OBVIOUS
  <2> HIDE DEF Bad
  <2>2. QED BY <2>1, SmallestSubset
<1>2. m \in SUBSET S /\ IsFiniteSet(m)
  BY FS_Subset
<1>3. m # {}
  <2>1. \A k : SumFunctionOnSet(k, {}) = 0
    BY <1>2, SumStep
  <2>2. QED BY <2>1
<1>4. Pick(m) \in m /\ m \ {Pick(m)} \in SUBSET S
  BY <1>2, <1>3, PickIn
<1>5. SumFunctionOnSet(f, m \ {Pick(m)}) = SumFunctionOnSet(g, m \ {Pick(m)})
  BY <1>1, <1>4
<1>6. SumFunctionOnSet(f, m) = SumFunctionOnSet(g, m)
  <2> HIDE DEF Bad
  <2>1. SumFunctionOnSet(f, m) = f[Pick(m)] + SumFunctionOnSet(f, m \ {Pick(m)})
    BY <1>2, <1>3, SumStep
  <2>2. SumFunctionOnSet(g, m) = g[Pick(m)] + SumFunctionOnSet(g, m \ {Pick(m)})
    BY <1>2, <1>3, SumStep
  <2>3. f[Pick(m)] = g[Pick(m)]
    BY <1>2, <1>4
  <2>4. QED BY <1>5, <2>1, <2>2, <2>3
<1>7. QED BY <1>6

\* The sum of two functions is the sum of their sums.
LEMMA SumOfSums ==
  ASSUME NEW S, IsFiniteSet(S), NEW f, NEW g, NEW h,
         \A x \in S : f[x] \in Nat /\ g[x] \in Nat /\ h[x] = f[x] + g[x]
  PROVE  SumFunctionOnSet(h, S) = SumFunctionOnSet(f, S) + SumFunctionOnSet(g, S)
<1> DEFINE Bad == {T \in SUBSET S : SumFunctionOnSet(h, T)
                     # SumFunctionOnSet(f, T) + SumFunctionOnSet(g, T)}
<1> SUFFICES ASSUME Bad # {} PROVE FALSE
  OBVIOUS
<1>1. PICK m \in Bad : \A t \in Bad : t \subseteq m => t = m
  <2>1. Bad \subseteq SUBSET S
    OBVIOUS
  <2> HIDE DEF Bad
  <2>2. QED BY <2>1, SmallestSubset
<1>2. m \in SUBSET S /\ IsFiniteSet(m)
  BY FS_Subset
<1>3. m # {}
  <2>1. SumFunctionOnSet(f, {}) = 0 /\ SumFunctionOnSet(g, {}) = 0 /\ SumFunctionOnSet(h, {}) = 0
    BY <1>2, SumStep
  <2>2. SumFunctionOnSet(h, {}) = SumFunctionOnSet(f, {}) + SumFunctionOnSet(g, {})
    BY <2>1
  <2>3. {} \notin Bad
    BY <2>2
  <2>4. QED BY <2>3
<1> DEFINE u == m \ {Pick(m)}
<1>4. Pick(m) \in m /\ u \in SUBSET S /\ IsFiniteSet(u)
  BY <1>2, <1>3, PickIn, FS_Subset
<1>5. SumFunctionOnSet(h, u) = SumFunctionOnSet(f, u) + SumFunctionOnSet(g, u)
  BY <1>1, <1>4
<1>6. SumFunctionOnSet(h, m) = SumFunctionOnSet(f, m) + SumFunctionOnSet(g, m)
  <2>1. \A k : SumFunctionOnSet(k, m) = k[Pick(m)] + SumFunctionOnSet(k, u)
    BY <1>2, <1>3, SumStep
  <2>2. f[Pick(m)] \in Nat /\ g[Pick(m)] \in Nat /\ h[Pick(m)] = f[Pick(m)] + g[Pick(m)]
    BY <1>2, <1>4
  <2> HIDE DEF Bad
  <2>3. SumFunctionOnSet(f, u) \in Nat /\ SumFunctionOnSet(g, u) \in Nat
    BY <1>4, SumNat
  <2> HIDE DEF u
  <2>4. QED BY <1>5, <2>1, <2>2, <2>3
<1>7. QED BY <1>6

\* One value changes.
LEMMA SumChange ==
  ASSUME NEW S, IsFiniteSet(S), NEW e \in S, NEW f, NEW g,
         \A x \in S : f[x] \in Nat /\ g[x] \in Nat,
         \A x \in S : x # e => f[x] = g[x]
  PROVE  /\ SumFunctionOnSet(f, S) \in Nat /\ SumFunctionOnSet(g, S) \in Nat
         /\ SumFunctionOnSet(g, S) + f[e] = SumFunctionOnSet(f, S) + g[e]
<1>1. SumFunctionOnSet(f, S) \in Nat /\ SumFunctionOnSet(g, S) \in Nat
  BY SumNat
<1>2. SumFunctionOnSet(f, S) = f[e] + SumFunctionOnSet(f, S \ {e})
  BY SumTake
<1>3. SumFunctionOnSet(g, S) = g[e] + SumFunctionOnSet(g, S \ {e})
  BY SumTake
<1>4. IsFiniteSet(S \ {e})
  BY FS_Subset
<1>5. SumFunctionOnSet(f, S \ {e}) = SumFunctionOnSet(g, S \ {e})
  BY <1>4, SumSame
<1>6. SumFunctionOnSet(f, S \ {e}) \in Nat /\ f[e] \in Nat /\ g[e] \in Nat
  BY <1>4, SumNat
<1>7. QED BY <1>1, <1>2, <1>3, <1>5, <1>6
-----------------------------------------------------------------------------
(* What the account's reserve stands for.  A report that its relay no       *)
(* longer holds, because it died, may still be on its way to the ledger; it *)
(* keeps a share of the reserve until it arrives.                           *)
Late == {s.call.report : s \in {t \in stray : t.call.kind = "settle"}}

Orphans == {x \in Late : SameId(x) = {} /\ \A r \in Relay : pending[r] # x}

\* Credits leased and not spent: in the pool, in a report, or in a grant.
Idle(r) ==
  pool[r].available
    + (IF Unapplied(r) THEN pending[r].reserved - pending[r].spent ELSE 0)
    + (IF answer[r] # NoAnswer THEN answer[r].granted ELSE 0)

idle == [r \in Relay |-> Idle(r)]
unreported == [r \in Relay |-> Unreported(r)]
spent == [x \in Report |-> x.spent]
unspent == [x \in Report |-> x.reserved - x.spent]

Sum(f, S) == SumFunctionOnSet(f, S)

(* What is charged, unreported or in a report of a relay that died has been *)
(* served, and without a crash or an operator's hand nothing else has.      *)
ServedCharged ==
  /\ books.charged + Sum(unreported, Relay) + Sum(spent, Orphans) <= books.served
  /\ ~books.lost /\ books.byHand = 0 =>
       Orphans = {} /\ books.charged + Sum(unreported, Relay) = books.served

(* What was served and what is leased and not spent was taken from the      *)
(* balance.                                                                 *)
LeasesCovered ==
  books.served + Sum(idle, Relay) + Sum(unspent, Orphans)
    <= account.reserved + books.byHand + books.charged

(* An answer 200 to a report means that it was applied, and nothing but an  *)
(* operator's hand leads to another.                                        *)
AnswersTrue ==
  \A r \in Relay : answer[r] # NoAnswer =>
    /\ sent[r] # NoCall
    /\ books.byHand = 0 => answer[r].status = 200
    /\ sent[r].kind = "settle" /\ answer[r].status = 200 => ~Unapplied(r)

\* No two relays wait for one report.
PendingDistinct ==
  \A q, r \in Relay :
    q # r /\ pending[q] # NoReport /\ pending[r] # NoReport => pending[q].id # pending[r].id

Accounts ==
  /\ IsFiniteSet(Orphans)
  /\ ServedCharged
  /\ LeasesCovered
  /\ AnswersTrue
  /\ PendingDistinct

\* The parts of a relay's share are naturals.
LEMMA ShareParts ==
  ASSUME CreditInv, NEW r \in Relay
  PROVE  /\ pool[r].available \in Nat /\ pool[r].spent \in Nat /\ pool[r].reserved \in Nat
         /\ (IF Unapplied(r) THEN pending[r].reserved - pending[r].spent ELSE 0) \in Nat
         /\ (IF Unapplied(r) THEN pending[r].spent ELSE 0) \in Nat
         /\ (IF answer[r] # NoAnswer THEN answer[r].granted ELSE 0) \in Nat
<1>1. pool[r].available \in Nat /\ pool[r].spent \in Nat /\ pool[r].reserved \in Nat
  BY DEF CreditInv, TypeOK
<1>2. ASSUME pending[r] # NoReport
      PROVE  pending[r].spent \in Nat /\ pending[r].reserved - pending[r].spent \in Nat
  <2>1. pending[r] \in Report /\ pending[r] \in Reports
    BY <1>2 DEF CreditInv, TypeOK, Reports
  <2>2. pending[r].spent \in Nat /\ pending[r].reserved \in Nat
    BY <2>1 DEF Report
  <2>3. pending[r].spent <= pending[r].reserved
    BY <2>1 DEF CreditInv, NeverOverspent
  <2>4. QED BY <2>2, <2>3
<1>3. answer[r] # NoAnswer => answer[r].granted \in Nat
  BY DEF CreditInv, TypeOK, Answer
<1>4. QED BY <1>1, <1>2, <1>3 DEF Unapplied

\* So is the share.
SharesNatural == \A r \in Relay : Idle(r) \in Nat /\ Unreported(r) \in Nat

LEMMA SharesNat == CreditInv => SharesNatural
<1> SUFFICES ASSUME CreditInv, NEW r \in Relay PROVE Idle(r) \in Nat /\ Unreported(r) \in Nat
  BY DEF SharesNatural
<1>1. QED BY ShareParts DEF Idle, Unreported

\* So is each late report's.
LEMMA LateNat ==
  ASSUME CreditInv, NEW x \in Reports
  PROVE  /\ spent[x] = x.spent /\ unspent[x] = x.reserved - x.spent
         /\ spent[x] \in Nat /\ unspent[x] \in Nat
<1>1. x \in Report /\ x.spent <= x.reserved
  BY ReportsTyped DEF CreditInv, NeverOverspent
<1>2. x.spent \in Nat /\ x.reserved \in Nat
  BY <1>1 DEF Report
<1>3. QED BY <1>1, <1>2 DEF spent, unspent

LEMMA OrphanReports ==
  Orphans \subseteq Late /\ Late \subseteq Reports
BY DEF Orphans, Late, Reports

\* The sums are naturals.
LEMMA SumsNat ==
  CreditInv /\ IsFiniteSet(Orphans) =>
    /\ Sum(idle, Relay) \in Nat /\ Sum(unreported, Relay) \in Nat
    /\ Sum(spent, Orphans) \in Nat /\ Sum(unspent, Orphans) \in Nat
<1> SUFFICES ASSUME CreditInv, IsFiniteSet(Orphans)
             PROVE  /\ Sum(idle, Relay) \in Nat /\ Sum(unreported, Relay) \in Nat
                    /\ Sum(spent, Orphans) \in Nat /\ Sum(unspent, Orphans) \in Nat
  OBVIOUS
<1>1. \A r \in Relay : idle[r] \in Nat /\ unreported[r] \in Nat
  BY SharesNat DEF SharesNatural, idle, unreported
<1>2. Sum(idle, Relay) \in Nat /\ Sum(unreported, Relay) \in Nat
  BY <1>1, CreditConstants, SumNat DEF Sum
<1>3. \A x \in Orphans : spent[x] \in Nat /\ unspent[x] \in Nat
  BY LateNat, OrphanReports
<1>4. Sum(spent, Orphans) \in Nat /\ Sum(unspent, Orphans) \in Nat
  BY <1>3, SumNat DEF Sum
<1>5. QED BY <1>2, <1>4

\* A step of one relay changes the relays' sums by its own share.
LEMMA OneShare ==
  ASSUME CreditInv, CreditInv', NEW r \in Relay,
         \A q \in Relay : q # r => Idle(q)' = Idle(q) /\ Unreported(q)' = Unreported(q)
  PROVE  /\ Idle(r) \in Nat /\ Idle(r)' \in Nat
         /\ Unreported(r) \in Nat /\ Unreported(r)' \in Nat
         /\ Sum(idle, Relay) \in Nat /\ Sum(idle', Relay) \in Nat
         /\ Sum(unreported, Relay) \in Nat /\ Sum(unreported', Relay) \in Nat
         /\ Sum(idle', Relay) + Idle(r) = Sum(idle, Relay) + Idle(r)'
         /\ Sum(unreported', Relay) + Unreported(r) = Sum(unreported, Relay) + Unreported(r)'
<1>1. \A q \in Relay : Idle(q) \in Nat /\ Unreported(q) \in Nat
  BY SharesNat DEF SharesNatural
<1>2. \A q \in Relay : Idle(q)' \in Nat /\ Unreported(q)' \in Nat
  <2>1. CreditInv' => SharesNatural'
    BY SharesNat, PTL
  <2>2. QED BY <2>1 DEF SharesNatural
<1>3. \A q \in Relay : /\ idle[q] = Idle(q) /\ idle'[q] = Idle(q)'
                       /\ unreported[q] = Unreported(q) /\ unreported'[q] = Unreported(q)'
  BY DEF idle, unreported
<1>4. IsFiniteSet(Relay)
  BY CreditConstants
<1>5. /\ Sum(idle, Relay) \in Nat /\ Sum(idle', Relay) \in Nat
      /\ Sum(idle', Relay) + idle[r] = Sum(idle, Relay) + idle'[r]
  BY <1>1, <1>2, <1>3, <1>4, SumChange DEF Sum
<1>6. /\ Sum(unreported, Relay) \in Nat /\ Sum(unreported', Relay) \in Nat
      /\ Sum(unreported', Relay) + unreported[r] = Sum(unreported, Relay) + unreported'[r]
  BY <1>1, <1>2, <1>3, <1>4, SumChange DEF Sum
<1>7. QED BY <1>1, <1>2, <1>3, <1>5, <1>6

\* A step that leaves every relay's share leaves the sums.
LEMMA NoShare ==
  ASSUME \A q \in Relay : Idle(q)' = Idle(q) /\ Unreported(q)' = Unreported(q)
  PROVE  Sum(idle', Relay) = Sum(idle, Relay) /\ Sum(unreported', Relay) = Sum(unreported, Relay)
<1>1. idle' = idle /\ unreported' = unreported
  BY DEF idle, unreported
<1>2. QED BY <1>1

\* A relay that no step touches keeps its share.
LEMMA ShareKept ==
  ASSUME NEW q \in Relay, pool'[q] = pool[q], pending'[q] = pending[q],
         answer'[q] = answer[q], applied' = applied
  PROVE  Idle(q)' = Idle(q) /\ Unreported(q)' = Unreported(q)
BY DEF Idle, Unreported, Unapplied, SameId

\* An orphan comes.
LEMMA OrphanComes ==
  ASSUME CreditInv, NEW x \in Reports, NEW S, S \subseteq Reports, IsFiniteSet(S)
  PROVE  /\ IsFiniteSet(S \cup {x})
         /\ Sum(spent, S \cup {x}) <= Sum(spent, S) + x.spent
         /\ Sum(unspent, S \cup {x}) <= Sum(unspent, S) + (x.reserved - x.spent)
<1>1. \A y \in S \cup {x} : spent[y] \in Nat /\ unspent[y] \in Nat
  BY LateNat
<1>2. spent[x] = x.spent /\ unspent[x] = x.reserved - x.spent
  BY LateNat
<1>3. IsFiniteSet(S \cup {x})
  BY FS_AddElement
<1>4. Sum(spent, S) \in Nat /\ Sum(unspent, S) \in Nat
  BY <1>1, SumNat DEF Sum
<1>5. CASE x \in S
  <2>1. S \cup {x} = S
    BY <1>5
  <2>2. QED BY <1>1, <1>2, <1>3, <1>4, <2>1
<1>6. CASE x \notin S
  <2>1. (S \cup {x}) \ {x} = S
    BY <1>6
  <2>2. Sum(spent, S \cup {x}) = spent[x] + Sum(spent, S)
    BY <1>1, <1>3, <2>1, SumTake DEF Sum
  <2>3. Sum(unspent, S \cup {x}) = unspent[x] + Sum(unspent, S)
    BY <1>1, <1>3, <2>1, SumTake DEF Sum
  <2>4. QED BY <1>1, <1>2, <1>3, <1>4, <2>2, <2>3
<1>7. QED BY <1>5, <1>6

\* An orphan goes.
LEMMA OrphanGoes ==
  ASSUME CreditInv, NEW S, S \subseteq Reports, IsFiniteSet(S), NEW x \in S
  PROVE  /\ IsFiniteSet(S \ {x})
         /\ Sum(spent, S \ {x}) \in Nat /\ Sum(unspent, S \ {x}) \in Nat
         /\ Sum(spent, S) = x.spent + Sum(spent, S \ {x})
         /\ Sum(unspent, S) = (x.reserved - x.spent) + Sum(unspent, S \ {x})
<1>1. \A y \in S : spent[y] \in Nat /\ unspent[y] \in Nat
  BY LateNat
<1>2. spent[x] = x.spent /\ unspent[x] = x.reserved - x.spent
  BY LateNat
<1>3. IsFiniteSet(S \ {x})
  BY FS_Subset
<1>4. Sum(spent, S \ {x}) \in Nat /\ Sum(unspent, S \ {x}) \in Nat
  BY <1>1, <1>3, SumNat DEF Sum
<1>5. Sum(spent, S) = spent[x] + Sum(spent, S \ {x})
  BY <1>1, SumTake DEF Sum
<1>6. Sum(unspent, S) = unspent[x] + Sum(unspent, S \ {x})
  BY <1>1, SumTake DEF Sum
<1>7. QED BY <1>2, <1>3, <1>4, <1>5, <1>6

LEMMA OrphansKept ==
  ASSUME stray' = stray, applied' = applied, pending' = pending
  PROVE  Orphans' = Orphans
BY DEF Orphans, Late, SameId
-----------------------------------------------------------------------------
(* The relays' steps keep the accounts. *)

\* Spending moves credits from what is idle to what is unreported.
LEMMA SpendAccounts ==
  ASSUME CreditInv, CreditInv', Accounts, NEW r \in Relay, SpendLocally(r)
  PROVE  Accounts'
<1>1. PICK c \in Cost :
        /\ pool[r].available >= c
        /\ pool' = [pool EXCEPT ![r] = Serve(@, c)]
        /\ books' = [books EXCEPT !.served = @ + c]
        /\ UNCHANGED <<pending, sent, cost, answer, stray, account, applied, faults>>
  BY DEF SpendLocally
<1>2. /\ c \in Nat /\ pool \in [Relay -> PoolType] /\ pool[r] \in PoolType
      /\ books \in [served : Nat, charged : Nat, byHand : Nat, lost : BOOLEAN]
      /\ account.reserved \in Nat
  BY CreditConstants DEF CreditInv, TypeOK, PoolType
<1>3. /\ pool'[r].available = pool[r].available - c
      /\ pool'[r].spent = pool[r].spent + c
  BY <1>1, <1>2 DEF Serve, PoolType
<1>4. \A q \in Relay : q # r => Idle(q)' = Idle(q) /\ Unreported(q)' = Unreported(q)
  BY <1>1, <1>2, ShareKept
<1>5. Idle(r)' = Idle(r) - c /\ Unreported(r)' = Unreported(r) + c
  <2>1. pool[r].available \in Nat /\ pool[r].spent \in Nat
    BY <1>2 DEF PoolType
  <2>2. Idle(r) \in Nat /\ Unreported(r) \in Nat
    BY <1>4, OneShare
  <2>3. UNCHANGED <<pending[r], answer[r], applied>>
    BY <1>1
  <2>4. /\ (IF Unapplied(r) THEN pending[r].reserved - pending[r].spent ELSE 0) \in Nat
        /\ (IF Unapplied(r) THEN pending[r].spent ELSE 0) \in Nat
        /\ (IF answer[r] # NoAnswer THEN answer[r].granted ELSE 0) \in Nat
    BY ShareParts
  <2>5. QED BY <1>2, <1>3, <2>1, <2>3, <2>4 DEF Idle, Unreported, Unapplied, SameId
<1>6. /\ Sum(idle', Relay) + c = Sum(idle, Relay)
      /\ Sum(unreported', Relay) = Sum(unreported, Relay) + c
      /\ Sum(idle, Relay) \in Nat /\ Sum(unreported, Relay) \in Nat
      /\ Sum(idle', Relay) \in Nat /\ Sum(unreported', Relay) \in Nat
  BY <1>2, <1>4, <1>5, OneShare
<1>7. Orphans' = Orphans /\ IsFiniteSet(Orphans)
  BY <1>1, OrphansKept DEF Accounts
<1>8. Sum(spent, Orphans) \in Nat /\ Sum(unspent, Orphans) \in Nat
  BY <1>7, SumsNat
<1>9. /\ books'.served = books.served + c /\ books'.charged = books.charged
      /\ books'.byHand = books.byHand /\ books'.lost = books.lost
      /\ books.served \in Nat /\ books.charged \in Nat /\ books.byHand \in Nat
  BY <1>1, <1>2
<1>10. ServedCharged'
  BY <1>2, <1>6, <1>7, <1>8, <1>9 DEF Accounts, ServedCharged
<1>11. LeasesCovered'
  BY <1>1, <1>2, <1>6, <1>7, <1>8, <1>9 DEF Accounts, LeasesCovered
<1>12. AnswersTrue' /\ PendingDistinct'
  BY <1>1, <1>9 DEF Accounts, AnswersTrue, PendingDistinct, Unapplied, SameId
<1>13. QED BY <1>7, <1>10, <1>11, <1>12 DEF Accounts

\* Asking for a block moves nothing.
LEMMA LeaseAccounts ==
  ASSUME CreditInv, CreditInv', Accounts, NEW r \in Relay, Lease(r)
  PROVE  Accounts'
<1>1. PICK c \in Cost :
        /\ sent' = [sent EXCEPT ![r] = [kind |-> "reserve", ask |-> Ask(c)]]
        /\ UNCHANGED <<pool, pending, answer, stray, account, applied, faults, books>>
  BY DEF Lease
<1>2. sent[r] = NoCall
  BY DEF Lease, Free
<1>3. \A q \in Relay : Idle(q)' = Idle(q) /\ Unreported(q)' = Unreported(q)
  BY <1>1, ShareKept
<1>4. Sum(idle', Relay) = Sum(idle, Relay) /\ Sum(unreported', Relay) = Sum(unreported, Relay)
  BY <1>3, NoShare
<1>5. Orphans' = Orphans
  BY <1>1, OrphansKept
<1>6. AnswersTrue'
  <2>1. answer[r] = NoAnswer
    BY <1>2 DEF Accounts, AnswersTrue
  <2>2. \A q \in Relay : q # r => sent'[q] = sent[q]
    BY <1>1 DEF CreditInv, TypeOK
  <2>3. QED BY <1>1, <2>1, <2>2 DEF Accounts, AnswersTrue, Unapplied, SameId
<1>7. QED BY <1>1, <1>4, <1>5, <1>6
          DEF Accounts, ServedCharged, LeasesCovered, PendingDistinct

\* A grant comes into the pool, whole or, refused, not at all.
LEMMA LeasedAdds ==
  ASSUME NEW p \in PoolType, NEW ask \in Nat, NEW n \in Nat
  PROVE  /\ Leased(p, ask, n) \in PoolType
         /\ Leased(p, ask, n).available <= p.available + n
         /\ Leased(p, ask, n).spent = p.spent
<1>1. p.available \in Nat /\ p.spent \in Nat /\ p.reserved \in Nat
  BY DEF PoolType
<1>2. p.available + n \in Nat /\ p.reserved + n \in Nat
  BY <1>1
<1>3. CASE n <= ask
  <2>1. Leased(p, ask, n) = [p EXCEPT !.available = @ + n, !.reserved = @ + n]
    BY <1>3 DEF Leased
  <2>2. /\ Leased(p, ask, n).available = p.available + n
        /\ Leased(p, ask, n).spent = p.spent
    BY <2>1 DEF PoolType
  <2>3. Leased(p, ask, n) \in PoolType
    BY <1>2, <2>1 DEF PoolType
  <2>4. QED BY <1>1, <1>2, <2>2, <2>3
<1>4. CASE ~(n <= ask)
  BY <1>1, <1>4 DEF Leased
<1>5. QED BY <1>3, <1>4

LEMMA GrantedAccounts ==
  ASSUME CreditInv, CreditInv', Accounts, NEW r \in Relay, Granted(r)
  PROVE  Accounts'
<1> DEFINE n == answer[r].granted
           p == Leased(pool[r], sent[r].ask, n)
           enough == n <= sent[r].ask /\ p.available >= cost[r]
           q == IF enough THEN Serve(p, cost[r]) ELSE p
           d == IF enough THEN cost[r] ELSE 0
<1>1. /\ answer[r] # NoAnswer /\ sent[r] # NoCall /\ sent[r].kind = "reserve"
      /\ pool' = [pool EXCEPT ![r] = q]
      /\ books' = [books EXCEPT !.served = IF enough THEN @ + cost[r] ELSE @]
      /\ sent' = [sent EXCEPT ![r] = NoCall]
      /\ answer' = [answer EXCEPT ![r] = NoAnswer]
      /\ UNCHANGED <<pending, stray, account, applied, faults>>
  BY DEF Granted, Free
<1>2. /\ pool \in [Relay -> PoolType] /\ pool[r] \in PoolType
      /\ answer \in [Relay -> Answer \cup {NoAnswer}] /\ sent \in [Relay -> Call \cup {NoCall}]
      /\ n \in Nat /\ sent[r].ask \in Nat /\ cost[r] \in Nat
      /\ books \in [served : Nat, charged : Nat, byHand : Nat, lost : BOOLEAN]
      /\ account.reserved \in Nat
  BY <1>1, CreditConstants DEF CreditInv, TypeOK, PoolType, Answer, Call
<1>3. p \in PoolType /\ p.available <= pool[r].available + n /\ p.spent = pool[r].spent
  BY <1>2, LeasedAdds
<1> HIDE DEF p, n
<1>4. d \in Nat /\ q.available + d <= pool[r].available + n /\ q.spent = pool[r].spent + d
  <2>1. CASE enough
    <3>1. Serve(p, cost[r]).available = p.available - cost[r]
          /\ Serve(p, cost[r]).spent = p.spent + cost[r]
      BY <1>3 DEF Serve, PoolType
    <3>2. q = Serve(p, cost[r]) /\ d = cost[r]
      BY <2>1
    <3>3. pool[r].available \in Nat /\ pool[r].spent \in Nat /\ p.available \in Nat
      BY <1>2, <1>3 DEF PoolType
    <3>4. QED BY <1>2, <1>3, <3>1, <3>2, <3>3
  <2>2. CASE ~enough
    <3>1. q = p /\ d = 0
      BY <2>2
    <3>2. pool[r].available \in Nat /\ pool[r].spent \in Nat /\ p.available \in Nat
      BY <1>2, <1>3 DEF PoolType
    <3>3. QED BY <1>2, <1>3, <3>1, <3>2
  <2>3. QED BY <2>1, <2>2
<1>5. /\ books'.served = books.served + d /\ books'.charged = books.charged
      /\ books'.byHand = books.byHand /\ books'.lost = books.lost
      /\ books.served \in Nat /\ books.charged \in Nat /\ books.byHand \in Nat
  BY <1>1, <1>2
<1> HIDE DEF enough, q, d
<1>6. \A o \in Relay : o # r => Idle(o)' = Idle(o) /\ Unreported(o)' = Unreported(o)
  BY <1>1, <1>2, ShareKept
<1>7. Idle(r)' + d <= Idle(r) /\ Unreported(r)' = Unreported(r) + d
  <2>1. pool'[r] = q /\ answer'[r] = NoAnswer /\ UNCHANGED <<pending[r], applied>>
    BY <1>1, <1>2
  <2>2. /\ Idle(r)' = q.available
                      + (IF Unapplied(r) THEN pending[r].reserved - pending[r].spent ELSE 0)
        /\ Unreported(r)' = q.spent + (IF Unapplied(r) THEN pending[r].spent ELSE 0)
    <3>1. q.available \in Nat /\ pool'[r].available \in Nat
      BY <2>1 DEF CreditInv, TypeOK
    <3>2. QED BY <2>1, <3>1, ShareParts DEF Idle, Unreported, Unapplied, SameId
  <2>3. /\ Idle(r) = pool[r].available
                      + (IF Unapplied(r) THEN pending[r].reserved - pending[r].spent ELSE 0) + n
        /\ Unreported(r) = pool[r].spent + (IF Unapplied(r) THEN pending[r].spent ELSE 0)
    BY <1>1 DEF Idle, Unreported, n
  <2>4. q.available \in Nat /\ q.spent \in Nat
    BY <2>1 DEF CreditInv, TypeOK
  <2>5. QED BY <1>2, <1>4, <2>2, <2>3, <2>4, ShareParts
<1>8. /\ Sum(idle', Relay) + d <= Sum(idle, Relay)
      /\ Sum(unreported', Relay) = Sum(unreported, Relay) + d
      /\ Sum(idle, Relay) \in Nat /\ Sum(unreported, Relay) \in Nat
      /\ Sum(idle', Relay) \in Nat /\ Sum(unreported', Relay) \in Nat
  BY <1>4, <1>6, <1>7, OneShare
<1>9. Orphans' = Orphans /\ IsFiniteSet(Orphans)
  BY <1>1, OrphansKept DEF Accounts
<1>10. Sum(spent, Orphans) \in Nat /\ Sum(unspent, Orphans) \in Nat
  BY <1>9, SumsNat
<1>11. ServedCharged'
  BY <1>4, <1>5, <1>8, <1>9, <1>10 DEF Accounts, ServedCharged
<1>12. LeasesCovered'
  BY <1>1, <1>2, <1>4, <1>5, <1>8, <1>9, <1>10 DEF Accounts, LeasesCovered
<1>13. AnswersTrue' /\ PendingDistinct'
  BY <1>1, <1>2, <1>5 DEF Accounts, AnswersTrue, PendingDistinct, Unapplied, SameId
<1>14. QED BY <1>9, <1>11, <1>12, <1>13 DEF Accounts

(* A frozen report takes over what the pool was leased and spent; its id is *)
(* on no list, so it is neither applied nor an orphan.                      *)
LEMMA FreezeShares ==
  ASSUME CreditInv, Accounts, NEW r \in Relay, Freeze(r), UNCHANGED <<stray, applied>>,
         answer'[r] = NoAnswer, \A q \in Relay : q # r => answer'[q] = answer[q]
  PROVE  /\ Idle(r)' = pool[r].available /\ Unreported(r)' = pool[r].spent
         /\ \A q \in Relay : q # r => Idle(q)' = Idle(q) /\ Unreported(q)' = Unreported(q)
         /\ pending'[r] \notin Late /\ PendingDistinct' /\ sent'[r] = SettleCall(pending'[r])
         /\ \A q \in Relay : q # r => pending'[q] = pending[q] /\ sent'[q] = sent[q]
<1>1. PICK id \in SettleId :
        /\ FreshId(id)
        /\ LET report == [id |-> id, spent |-> pool[r].spent, reserved |-> pool[r].reserved]
           IN /\ pending' = [pending EXCEPT ![r] = report]
              /\ sent' = [sent EXCEPT ![r] = SettleCall(report)]
        /\ pool' = [pool EXCEPT ![r] = EmptyPool]
  BY DEF Freeze
<1> DEFINE report == [id |-> id, spent |-> pool[r].spent, reserved |-> pool[r].reserved]
<1>2. /\ pool \in [Relay -> PoolType] /\ pool[r].available + pool[r].spent = pool[r].reserved
      /\ pending \in [Relay -> Report \cup {NoReport}]
      /\ sent \in [Relay -> Call \cup {NoCall}]
  BY DEF CreditInv, TypeOK, PoolsBalance, PoolType
<1>3. pool[r].available \in Nat /\ pool[r].spent \in Nat /\ pool[r].reserved \in Nat
  BY <1>2 DEF PoolType
<1>4. report \in Report /\ report # NoReport /\ report.id = id
      /\ report.spent = pool[r].spent /\ report.reserved = pool[r].reserved
  BY <1>3, CreditConstants DEF Report
<1>5. pending'[r] = report /\ sent'[r] = SettleCall(report) /\ pool'[r] = EmptyPool
      /\ \A q \in Relay : q # r =>
           pending'[q] = pending[q] /\ pool'[q] = pool[q] /\ sent'[q] = sent[q]
  BY <1>1, <1>2
<1> HIDE DEF report
<1>6. \A rep \in Reports : rep.id # report.id
  BY <1>1, <1>4, FreshIsNew
<1>7. SameId(report) = {}
  BY <1>6 DEF SameId, Reports
<1>8. Unapplied(r)'
  BY <1>4, <1>5, <1>7 DEF Unapplied, SameId
<1>9. EmptyPool.available = 0 /\ EmptyPool.spent = 0
  BY DEF EmptyPool
<1>10. Idle(r)' = pool[r].available
  BY <1>2, <1>3, <1>4, <1>5, <1>8, <1>9 DEF Idle
<1>11. Unreported(r)' = pool[r].spent
  BY <1>3, <1>4, <1>5, <1>8, <1>9 DEF Unreported
<1>12. \A q \in Relay : q # r => Idle(q)' = Idle(q) /\ Unreported(q)' = Unreported(q)
  BY <1>5, ShareKept
<1>13. pending'[r] \notin Late
  BY <1>5, <1>6, OrphanReports
<1>14. PendingDistinct'
  <2>1. \A q \in Relay : pending[q] # NoReport => pending[q].id # report.id
    BY <1>6 DEF Reports
  <2>2. QED BY <1>5, <2>1 DEF Accounts, PendingDistinct
<1>15. QED BY <1>5, <1>10, <1>11, <1>12, <1>13, <1>14

\* The timer starts a call.
LEMMA SettleAccounts ==
  ASSUME CreditInv, CreditInv', Accounts, NEW r \in Relay, Settle(r)
  PROVE  Accounts'
<1>1. Free(r) /\ UNCHANGED <<cost, answer, stray, account, applied, faults, books>>
  BY DEF Settle
<1>2. answer[r] = NoAnswer
  BY <1>1 DEF Accounts, AnswersTrue, Free
<1>3. CASE /\ pending[r] # NoReport
           /\ sent' = [sent EXCEPT ![r] = SettleCall(pending[r])]
           /\ UNCHANGED <<pool, pending>>
  <2>1. \A q \in Relay : Idle(q)' = Idle(q) /\ Unreported(q)' = Unreported(q)
    BY <1>1, <1>3, ShareKept
  <2>2. Sum(idle', Relay) = Sum(idle, Relay) /\ Sum(unreported', Relay) = Sum(unreported, Relay)
    BY <2>1, NoShare
  <2>3. Orphans' = Orphans
    BY <1>1, <1>3, OrphansKept
  <2>4. \A q \in Relay : q # r => sent'[q] = sent[q]
    BY <1>3 DEF CreditInv, TypeOK
  <2>5. AnswersTrue'
    BY <1>1, <1>2, <1>3, <2>4 DEF Accounts, AnswersTrue, Unapplied, SameId
  <2>6. QED BY <1>1, <1>3, <2>2, <2>3, <2>5
            DEF Accounts, ServedCharged, LeasesCovered, PendingDistinct
<1>4. CASE pending[r] = NoReport /\ Freeze(r)
  <2>1. /\ Idle(r)' = pool[r].available /\ Unreported(r)' = pool[r].spent
        /\ \A q \in Relay : q # r => Idle(q)' = Idle(q) /\ Unreported(q)' = Unreported(q)
        /\ pending'[r] \notin Late /\ PendingDistinct'
        /\ \A q \in Relay : q # r => pending'[q] = pending[q] /\ sent'[q] = sent[q]
    BY <1>1, <1>2, <1>4, FreezeShares
  <2>2. Idle(r) = pool[r].available /\ Unreported(r) = pool[r].spent
    BY <1>2, <1>4, ShareParts DEF Idle, Unreported, Unapplied
  <2>3. Sum(idle', Relay) = Sum(idle, Relay) /\ Sum(unreported', Relay) = Sum(unreported, Relay)
    BY <2>1, <2>2, NoShare
  <2>4. Orphans' = Orphans
    <3>1. \A x \in Late : pending[r] # x /\ pending'[r] # x
      <4>1. Late \subseteq Report
        BY OrphanReports, ReportsTyped DEF CreditInv
      <4>2. QED BY <1>4, <2>1, <4>1, CreditConstants DEF Report
    <3>2. \A x \in Late : (\A q \in Relay : pending'[q] # x) <=> (\A q \in Relay : pending[q] # x)
      BY <2>1, <3>1
    <3>3. Late' = Late /\ \A x \in Late : SameId(x)' = SameId(x)
      BY <1>1 DEF Late, SameId
    <3>4. \A x \in Late : x \in Orphans' <=> x \in Orphans
      BY <1>1, <3>2, <3>3 DEF Orphans, SameId
    <3>5. Orphans' \subseteq Late /\ Orphans \subseteq Late
      BY <3>3 DEF Orphans
    <3>6. QED BY <3>4, <3>5
  <2>5. AnswersTrue'
    BY <1>1, <1>2, <2>1 DEF Accounts, AnswersTrue, Unapplied, SameId
  <2>6. QED BY <1>1, <2>1, <2>3, <2>4, <2>5 DEF Accounts, ServedCharged, LeasesCovered
<1>5. QED BY <1>1, <1>3, <1>4 DEF Settle

\* What is late after a call was abandoned: a settle call carried the pending one.
LEMMA AbandonedLate ==
  ASSUME CreditInv, NEW r \in Relay, stray' = stray \cup Abandoned(r)
  PROVE  Late \subseteq Late' /\ Late' \subseteq Late \cup {pending[r]}
<1>1. CASE ~Free(r) /\ answer[r] = NoAnswer
  <2>1. stray' = stray \cup {[call |-> sent[r], nth |-> faults]}
    BY <1>1 DEF Abandoned
  <2>2. sent[r].kind = "settle" => sent[r].report = pending[r]
    BY <1>1 DEF CreditInv, SentPending, Free
  <2>3. QED BY <2>1, <2>2 DEF Late
<1>2. CASE ~(~Free(r) /\ answer[r] = NoAnswer)
  BY <1>2 DEF Abandoned, Late
<1>3. QED BY <1>1, <1>2

LateReports == NoReport \notin Late

LEMMA LateIsReport == CreditInv => LateReports
<1> SUFFICES ASSUME CreditInv PROVE NoReport \notin Late
  BY DEF LateReports
<1>1. Late \subseteq Report
  BY OrphanReports, ReportsTyped DEF CreditInv
<1>2. QED BY <1>1, CreditConstants DEF Report

(* A relay lets go of its report: if the ledger has not applied it and a    *)
(* copy is still on its way, the report becomes an orphan.                  *)
LEMMA OrphansOnDrop ==
  ASSUME CreditInv, CreditInv', NEW r \in Relay, applied' = applied,
         Late \subseteq Late', Late' \subseteq Late \cup {pending[r]},
         pending'[r] \notin Late',
         \A q \in Relay : q # r => pending'[q] = pending[q]
  PROVE  \/ Orphans' = Orphans
         \/ Unapplied(r) /\ pending[r] \in Reports /\ Orphans' = Orphans \cup {pending[r]}
<1>1. \A x : SameId(x)' = SameId(x)
  BY DEF SameId
<1>2. Orphans \subseteq Orphans'
  <2> SUFFICES ASSUME NEW x \in Orphans PROVE x \in Orphans'
    OBVIOUS
  <2>1. x \in Late' /\ SameId(x) = {} /\ \A q \in Relay : pending[q] # x
    BY DEF Orphans
  <2>2. \A q \in Relay : pending'[q] # x
    BY <2>1
  <2>3. QED BY <2>1, <2>2 DEF Orphans, SameId
<1>3. \A x \in Orphans' : x \in Orphans \/ x = pending[r]
  <2> SUFFICES ASSUME NEW x \in Orphans', x # pending[r] PROVE x \in Orphans
    OBVIOUS
  <2>1. x \in Late' /\ SameId(x) = {} /\ \A q \in Relay : pending'[q] # x
    BY DEF Orphans, SameId
  <2>2. \A q \in Relay : pending[q] # x
    BY <2>1
  <2>3. QED BY <2>1, <2>2 DEF Orphans
<1>4. CASE pending[r] \in Orphans' /\ pending[r] # NoReport
  <2>1. Orphans' = Orphans \cup {pending[r]}
    BY <1>2, <1>3, <1>4
  <2>2. Unapplied(r)
    BY <1>4 DEF Unapplied, Orphans, SameId
  <2>3. pending[r] \in Reports
    BY <1>4 DEF Reports
  <2>4. QED BY <2>1, <2>2, <2>3
<1>5. CASE pending[r] \in Orphans' /\ pending[r] = NoReport
  <2>1. CreditInv' => LateReports'
    BY LateIsReport, PTL
  <2>2. QED BY <1>5, <2>1 DEF LateReports, Orphans
<1>6. CASE pending[r] \notin Orphans'
  BY <1>2, <1>3, <1>6
<1>7. QED BY <1>4, <1>5, <1>6

(* What letting go does to the accounts: the relay keeps at most what is    *)
(* available and spent in its pool.                                         *)
LEMMA DropAccounts ==
  ASSUME CreditInv, CreditInv', Accounts, NEW r \in Relay,
         UNCHANGED account, books'.served = books.served, books'.charged = books.charged,
         books'.byHand = books.byHand,
         \A q \in Relay : q # r => Idle(q)' = Idle(q) /\ Unreported(q)' = Unreported(q),
         Idle(r)' <= pool[r].available, Unreported(r)' <= pool[r].spent,
         \/ Orphans' = Orphans
         \/ Unapplied(r) /\ pending[r] \in Reports /\ Orphans' = Orphans \cup {pending[r]}
  PROVE  /\ IsFiniteSet(Orphans')
         /\ books'.charged + Sum(unreported', Relay) + Sum(spent, Orphans') <= books'.served
         /\ LeasesCovered'
<1>1. /\ Idle(r) \in Nat /\ Idle(r)' \in Nat
      /\ Unreported(r) \in Nat /\ Unreported(r)' \in Nat
      /\ Sum(idle, Relay) \in Nat /\ Sum(idle', Relay) \in Nat
      /\ Sum(unreported, Relay) \in Nat /\ Sum(unreported', Relay) \in Nat
      /\ Sum(idle', Relay) + Idle(r) = Sum(idle, Relay) + Idle(r)'
      /\ Sum(unreported', Relay) + Unreported(r) = Sum(unreported, Relay) + Unreported(r)'
  BY OneShare
<1>2. /\ books.served \in Nat /\ books.charged \in Nat /\ books.byHand \in Nat
      /\ account.reserved \in Nat
  BY DEF CreditInv, TypeOK
<1>3. IsFiniteSet(Orphans) /\ Sum(spent, Orphans) \in Nat /\ Sum(unspent, Orphans) \in Nat
  BY SumsNat DEF Accounts
<1>4. /\ books.charged + Sum(unreported, Relay) + Sum(spent, Orphans) <= books.served
      /\ books.served + Sum(idle, Relay) + Sum(unspent, Orphans)
           <= account.reserved + books.byHand + books.charged
  BY DEF Accounts, ServedCharged, LeasesCovered
<1>5. CASE Orphans' = Orphans
  <2>1. Idle(r)' <= Idle(r) /\ Unreported(r)' <= Unreported(r)
    BY <1>1, ShareParts DEF Idle, Unreported
  <2>2. Sum(idle', Relay) <= Sum(idle, Relay) /\ Sum(unreported', Relay) <= Sum(unreported, Relay)
    BY <1>1, <2>1
  <2>3. books'.charged + Sum(unreported', Relay) + Sum(spent, Orphans') <= books'.served
    BY <1>1, <1>2, <1>3, <1>4, <1>5, <2>2
  <2>4. LeasesCovered'
    BY <1>1, <1>2, <1>3, <1>4, <1>5, <2>2 DEF LeasesCovered
  <2>5. QED BY <1>3, <1>5, <2>3, <2>4
<1>6. CASE Unapplied(r) /\ pending[r] \in Reports /\ Orphans' = Orphans \cup {pending[r]}
  <2>1. /\ IsFiniteSet(Orphans')
        /\ Sum(spent, Orphans') <= Sum(spent, Orphans) + pending[r].spent
        /\ Sum(unspent, Orphans')
             <= Sum(unspent, Orphans) + (pending[r].reserved - pending[r].spent)
    <3>1. Orphans \subseteq Reports
      BY OrphanReports
    <3>2. QED BY <1>3, <1>6, <3>1, OrphanComes
  <2>2. pending[r].spent \in Nat /\ pending[r].reserved - pending[r].spent \in Nat
    BY <1>6, LateNat
  <2>3. /\ Idle(r)' + (pending[r].reserved - pending[r].spent) <= Idle(r)
        /\ Unreported(r)' + pending[r].spent <= Unreported(r)
    BY <1>1, <1>6, <2>2, ShareParts DEF Idle, Unreported
  <2>4. /\ Sum(idle', Relay) + (pending[r].reserved - pending[r].spent) <= Sum(idle, Relay)
        /\ Sum(unreported', Relay) + pending[r].spent <= Sum(unreported, Relay)
    BY <1>1, <2>2, <2>3
  <2>5. Sum(spent, Orphans') \in Nat /\ Sum(unspent, Orphans') \in Nat
    <3>1. CreditInv' /\ IsFiniteSet(Orphans)' =>
            Sum(spent, Orphans') \in Nat /\ Sum(unspent, Orphans') \in Nat
      BY <1>6, <2>1, LateNat, SumNat, OrphanReports DEF Sum
    <3>2. QED BY <2>1, <3>1
  <2>6. books'.charged + Sum(unreported', Relay) + Sum(spent, Orphans') <= books'.served
    BY <1>1, <1>2, <1>3, <1>4, <2>1, <2>2, <2>4, <2>5
  <2>7. LeasesCovered'
    BY <1>1, <1>2, <1>3, <1>4, <2>1, <2>2, <2>4, <2>5 DEF LeasesCovered
  <2>8. QED BY <2>1, <2>6, <2>7
<1>7. QED BY <1>5, <1>6

\* The answer to a report comes back.
LEMMA SettledAccounts ==
  ASSUME CreditInv, CreditInv', Accounts, NEW r \in Relay, Settled(r)
  PROVE  Accounts'
<1>1. /\ sent[r] # NoCall /\ sent[r].kind = "settle" /\ answer[r] # NoAnswer
      /\ answer' = [answer EXCEPT ![r] = NoAnswer]
      /\ UNCHANGED <<cost, stray, account, applied, faults, books>>
  BY DEF Settled, Free
<1>2. answer'[r] = NoAnswer /\ \A q \in Relay : q # r => answer'[q] = answer[q]
  BY <1>1 DEF CreditInv, TypeOK
<1>3. pending[r] # NoReport
  BY <1>1 DEF CreditInv, SentPending
<1>4. /\ Idle(r)' = pool[r].available /\ Unreported(r)' = pool[r].spent
      /\ \A q \in Relay : q # r => Idle(q)' = Idle(q) /\ Unreported(q)' = Unreported(q)
      /\ pending'[r] \notin Late /\ PendingDistinct'
      /\ \A q \in Relay : q # r => pending'[q] = pending[q] /\ sent'[q] = sent[q]
  <2>1. CASE /\ pending' = [pending EXCEPT ![r] = NoReport]
             /\ sent' = [sent EXCEPT ![r] = NoCall]
             /\ UNCHANGED pool
    <3>1. pending'[r] = NoReport
          /\ \A q \in Relay : q # r => pending'[q] = pending[q] /\ sent'[q] = sent[q]
      BY <2>1 DEF CreditInv, TypeOK
    <3>2. Idle(r)' = pool[r].available /\ Unreported(r)' = pool[r].spent
      BY <1>2, <2>1, <3>1, ShareParts DEF Idle, Unreported, Unapplied
    <3>3. \A q \in Relay : q # r => Idle(q)' = Idle(q) /\ Unreported(q)' = Unreported(q)
      BY <1>1, <1>2, <2>1, <3>1, ShareKept
    <3>4. NoReport \notin Late
      BY LateIsReport DEF LateReports
    <3>5. PendingDistinct'
      BY <3>1 DEF Accounts, PendingDistinct
    <3>6. QED BY <3>1, <3>2, <3>3, <3>4, <3>5
  <2>2. CASE Freeze(r)
    BY <1>1, <1>2, <2>2, FreezeShares
  <2>3. QED BY <2>1, <2>2 DEF Settled
<1>5. Late' = Late
  BY <1>1 DEF Late
<1>6. \/ Orphans' = Orphans
      \/ Unapplied(r) /\ pending[r] \in Reports /\ Orphans' = Orphans \cup {pending[r]}
  BY <1>1, <1>4, <1>5, OrphansOnDrop
<1>7. pool[r].available \in Nat /\ pool[r].spent \in Nat
  BY ShareParts
<1>8. /\ IsFiniteSet(Orphans')
      /\ books'.charged + Sum(unreported', Relay) + Sum(spent, Orphans') <= books'.served
      /\ LeasesCovered'
  BY <1>1, <1>4, <1>6, <1>7, DropAccounts
<1>9. ASSUME ~books'.lost, books'.byHand = 0
      PROVE  Orphans' = {} /\ books'.charged + Sum(unreported', Relay) = books'.served
  <2>1. ~books.lost /\ books.byHand = 0 /\ UNCHANGED books
    BY <1>1, <1>9
  <2>2. ~Unapplied(r)
    BY <1>1, <2>1 DEF Accounts, AnswersTrue
  <2>3. Orphans = {} /\ books.charged + Sum(unreported, Relay) = books.served
    BY <2>1 DEF Accounts, ServedCharged
  <2>4. Unreported(r)' = Unreported(r)
    BY <1>4, <2>2, ShareParts DEF Unreported
  <2>5. Sum(unreported', Relay) = Sum(unreported, Relay)
    BY <1>4, <2>4, OneShare
  <2>6. QED BY <1>6, <2>1, <2>2, <2>3, <2>5
<1>10. AnswersTrue'
  <2> SUFFICES ASSUME NEW q \in Relay, answer'[q] # NoAnswer
               PROVE  /\ sent'[q] # NoCall
                      /\ books'.byHand = 0 => answer'[q].status = 200
                      /\ sent'[q].kind = "settle" /\ answer'[q].status = 200 => ~Unapplied(q)'
    BY DEF AnswersTrue
  <2>1. q # r
    BY <1>2
  <2>2. answer'[q] = answer[q] /\ sent'[q] = sent[q] /\ pending'[q] = pending[q]
        /\ applied' = applied /\ books' = books
    BY <1>1, <1>2, <1>4, <2>1
  <2>3. QED BY <2>2 DEF Accounts, AnswersTrue, Unapplied, SameId
<1>11. QED BY <1>4, <1>8, <1>9, <1>10 DEF Accounts, ServedCharged
-----------------------------------------------------------------------------
(* The ledger's answers and the faults keep the accounts. *)

(* Applying a report closes it and no other, and forgets no entry that a    *)
(* report under way will ask for.                                           *)
LEMMA AppliedOnce ==
  ASSUME CreditInv, NEW x \in Reports, x.id \in Awaited, applied' = Logged(x)
  PROVE  /\ x \in applied'
         /\ \A y \in Reports : y.id \in Awaited =>
              ({e \in applied' : e.id = y.id} = {} <=> SameId(y) = {} /\ y # x)
<1>1. applied' = {e \in applied \cup {x} : e.id \in Awaited}
  BY DEF Logged
<1>2. x \in applied'
  BY <1>1
<1>3. ASSUME NEW y \in Reports, y.id \in Awaited
      PROVE  {e \in applied' : e.id = y.id} = {} <=> SameId(y) = {} /\ y # x
  <2>1. ASSUME y = x PROVE {e \in applied' : e.id = y.id} # {}
    BY <1>2, <2>1
  <2>2. ASSUME y # x PROVE {e \in applied' : e.id = y.id} = SameId(y)
    <3>1. x.id # y.id
      BY <2>2 DEF CreditInv, OneReportPerId
    <3>2. QED BY <1>1, <1>3, <3>1 DEF SameId
  <2>3. QED BY <2>1, <2>2
<1>4. QED BY <1>2, <1>3

\* A relay's pending report is awaited.
LEMMA PendingAwaited ==
  ASSUME NEW r \in Relay, pending[r] # NoReport
  PROVE  pending[r] \in Reports /\ pending[r].id \in Awaited
BY DEF Reports, Awaited

LEMMA LateAwaited ==
  ASSUME NEW x \in Late
  PROVE  x \in Reports /\ x.id \in Awaited
BY DEF Late, Reports, Awaited

\* A relay whose report is another keeps its share when a report is applied.
LEMMA ShareUnlessApplied ==
  ASSUME CreditInv, NEW x \in Reports, x.id \in Awaited, applied' = Logged(x),
         NEW q \in Relay, pending[q] # x,
         pool'[q] = pool[q], pending'[q] = pending[q], answer'[q] = answer[q]
  PROVE  Idle(q)' = Idle(q) /\ Unreported(q)' = Unreported(q) /\ Unapplied(q)' = Unapplied(q)
<1>1. Unapplied(q)' = Unapplied(q)
  <2>1. CASE pending[q] = NoReport
    BY <2>1 DEF Unapplied
  <2>2. CASE pending[q] # NoReport
    <3>1. {e \in applied' : e.id = pending[q].id} = {} <=> SameId(pending[q]) = {}
      BY <2>2, AppliedOnce, PendingAwaited
    <3>2. SameId(pending[q])' = {e \in applied' : e.id = pending[q].id}
      BY DEF SameId
    <3>3. QED BY <2>2, <3>1, <3>2 DEF Unapplied
  <2>3. QED BY <2>1, <2>2
<1>2. QED BY <1>1 DEF Idle, Unreported

\* The ledger does a live call to lease.
LEMMA ReservedAccounts ==
  ASSUME CreditInv, CreditInv', Accounts, NEW r \in Relay, NEW reply \in Answer,
         answer[r] = NoAnswer, answer' = [answer EXCEPT ![r] = reply],
         sent[r] # NoCall, sent[r].kind = "reserve", Reserve(sent[r].ask, reply),
         UNCHANGED <<pool, pending, sent, stray>>
  PROVE  Accounts'
<1> DEFINE g == Grant(sent[r].ask)
<1>1. /\ account' = [account EXCEPT !.remaining = @ - g, !.reserved = @ + g]
      /\ reply = [status |-> 200, granted |-> g]
      /\ UNCHANGED <<applied, books>>
  BY DEF Reserve
<1>2. g \in Nat
  <2>1. sent[r].ask \in Nat
    BY DEF CreditInv, TypeOK, Call
  <2>2. QED BY <2>1, GrantBounds DEF CreditInv
<1> HIDE DEF g
<1>3. /\ account'.reserved = account.reserved + g /\ account.reserved \in Nat
      /\ books' = books /\ books.served \in Nat /\ books.charged \in Nat /\ books.byHand \in Nat
      /\ reply.granted = g /\ reply.status = 200
  BY <1>1 DEF CreditInv, TypeOK
<1>4. \A q \in Relay : q # r => answer'[q] = answer[q]
  BY DEF CreditInv, TypeOK
<1>5. answer'[r] = reply
  BY DEF CreditInv, TypeOK
<1>6. \A q \in Relay : q # r => Idle(q)' = Idle(q) /\ Unreported(q)' = Unreported(q)
  BY <1>1, <1>4, ShareKept
<1>7. Idle(r)' <= Idle(r) + g /\ Unreported(r)' = Unreported(r)
  <2>1. Idle(r)' = pool[r].available
                     + (IF Unapplied(r) THEN pending[r].reserved - pending[r].spent ELSE 0)
                     + (IF reply # NoAnswer THEN g ELSE 0)
    BY <1>1, <1>3, <1>5 DEF Idle, Unapplied, SameId
  <2>2. Idle(r) = pool[r].available
                     + (IF Unapplied(r) THEN pending[r].reserved - pending[r].spent ELSE 0)
    BY ShareParts DEF Idle
  <2>3. Unreported(r)' = Unreported(r)
    BY <1>1 DEF Unreported, Unapplied, SameId
  <2>4. QED BY <1>2, <2>1, <2>2, <2>3, ShareParts
<1>8. /\ Sum(idle', Relay) <= Sum(idle, Relay) + g
      /\ Sum(unreported', Relay) = Sum(unreported, Relay)
      /\ Sum(idle, Relay) \in Nat /\ Sum(idle', Relay) \in Nat
  BY <1>2, <1>6, <1>7, OneShare
<1>9. Orphans' = Orphans
  BY <1>1, OrphansKept
<1>10. IsFiniteSet(Orphans) /\ Sum(unspent, Orphans) \in Nat
  BY SumsNat DEF Accounts
<1>11. ServedCharged'
  BY <1>3, <1>8, <1>9 DEF Accounts, ServedCharged
<1>12. LeasesCovered'
  BY <1>2, <1>3, <1>8, <1>9, <1>10 DEF Accounts, LeasesCovered
<1>13. AnswersTrue'
  <2>1. \A q \in Relay : Unapplied(q)' = Unapplied(q)
    BY <1>1 DEF Unapplied, SameId
  <2>2. QED BY <1>1, <1>3, <1>4, <1>5, <2>1 DEF Accounts, AnswersTrue
<1>14. PendingDistinct'
  BY DEF Accounts, PendingDistinct
<1>15. QED BY <1>9, <1>10, <1>11, <1>12, <1>13, <1>14 DEF Accounts

\* A relay's share is part of the sums.
LEMMA ShareBelow ==
  ASSUME CreditInv, NEW r \in Relay
  PROVE  Idle(r) <= Sum(idle, Relay) /\ Unreported(r) <= Sum(unreported, Relay)
<1>1. \A q \in Relay : /\ idle[q] = Idle(q) /\ idle[q] \in Nat
                       /\ unreported[q] = Unreported(q) /\ unreported[q] \in Nat
  BY SharesNat DEF SharesNatural, idle, unreported
<1>2. IsFiniteSet(Relay) /\ IsFiniteSet(Relay \ {r})
  BY CreditConstants, FS_Subset
<1>3. Sum(idle, Relay) = idle[r] + Sum(idle, Relay \ {r})
  BY <1>1, <1>2, SumTake DEF Sum
<1>4. Sum(unreported, Relay) = unreported[r] + Sum(unreported, Relay \ {r})
  BY <1>1, <1>2, SumTake DEF Sum
<1>5. Sum(idle, Relay \ {r}) \in Nat /\ Sum(unreported, Relay \ {r}) \in Nat
  BY <1>1, <1>2, SumNat DEF Sum
<1>6. QED BY <1>1, <1>3, <1>4, <1>5

(* Unless an operator moved reserves, the reserve covers every report that  *)
(* is pending and not applied.                                              *)
LEMMA ReserveCovers ==
  ASSUME CreditInv, Accounts, NEW r \in Relay, Unapplied(r), books.byHand = 0
  PROVE  pending[r].reserved <= account.reserved
<1>1. pending[r] \in Reports /\ pending[r] # NoReport
  BY PendingAwaited DEF Unapplied
<1>2. pending[r].spent \in Nat /\ pending[r].reserved - pending[r].spent \in Nat
      /\ pending[r].reserved \in Nat
  BY <1>1, LateNat DEF CreditInv, TypeOK, Report
<1>3. /\ pending[r].reserved - pending[r].spent <= Idle(r)
      /\ pending[r].spent <= Unreported(r)
      /\ Idle(r) \in Nat /\ Unreported(r) \in Nat
  <2>1. Idle(r) \in Nat /\ Unreported(r) \in Nat
    BY SharesNat DEF SharesNatural
  <2>2. QED BY <1>2, <2>1, ShareParts DEF Idle, Unreported
<1>4. Idle(r) <= Sum(idle, Relay) /\ Unreported(r) <= Sum(unreported, Relay)
  BY ShareBelow
<1>5. /\ Sum(idle, Relay) \in Nat /\ Sum(unreported, Relay) \in Nat
      /\ Sum(spent, Orphans) \in Nat /\ Sum(unspent, Orphans) \in Nat
  BY SumsNat DEF Accounts
<1>6. /\ books.served \in Nat /\ books.charged \in Nat /\ account.reserved \in Nat
  BY DEF CreditInv, TypeOK
<1>7. /\ books.charged + Sum(unreported, Relay) + Sum(spent, Orphans) <= books.served
      /\ books.served + Sum(idle, Relay) + Sum(unspent, Orphans)
           <= account.reserved + books.charged
  BY <1>5, <1>6 DEF Accounts, ServedCharged, LeasesCovered
<1>8. QED BY <1>2, <1>3, <1>4, <1>5, <1>6, <1>7

\* It does a live call to settle.
LEMMA AppliedAccounts ==
  ASSUME CreditInv, CreditInv', Accounts, NEW r \in Relay, NEW reply \in Answer,
         answer[r] = NoAnswer, answer' = [answer EXCEPT ![r] = reply],
         sent[r] # NoCall, sent[r].kind = "settle",
         ApplySettle(sent[r].report, reply),
         UNCHANGED <<pool, pending, sent, stray>>
  PROVE  Accounts'
<1> DEFINE x == pending[r]
<1>1. pending[r] # NoReport /\ sent[r].report = x
  BY DEF CreditInv, SentPending
<1>2. x \in Reports /\ x.id \in Awaited
  BY <1>1, PendingAwaited
<1>3. answer'[r] = reply /\ \A q \in Relay : q # r => answer'[q] = answer[q]
  BY DEF CreditInv, TypeOK
<1>4. /\ account.reserved \in Nat
      /\ account \in [remaining : Nat, reserved : Nat, ceiling : Ceilings]
      /\ books \in [served : Nat, charged : Nat, byHand : Nat, lost : BOOLEAN]
  BY DEF CreditInv, TypeOK
<1>5. /\ IsFiniteSet(Orphans)
      /\ Sum(idle, Relay) \in Nat /\ Sum(unreported, Relay) \in Nat
      /\ Sum(spent, Orphans) \in Nat /\ Sum(unspent, Orphans) \in Nat
  BY SumsNat DEF Accounts
<1>6. x.spent \in Nat /\ x.reserved - x.spent \in Nat /\ x.reserved \in Nat
  BY <1>1, <1>2, LateNat DEF CreditInv, TypeOK, Report
<1>7. CASE Applies(x)
  <2>1. /\ account' = [account EXCEPT !.reserved  = @ - x.reserved,
                                      !.remaining = @ + (x.reserved - x.spent)]
        /\ applied' = Logged(x)
        /\ books' = [books EXCEPT !.charged = @ + x.spent]
        /\ reply = [status |-> 200, granted |-> 0]
    BY <1>1, <1>7 DEF ApplySettle
  <2>2. /\ account'.reserved = account.reserved - x.reserved
        /\ books'.charged = books.charged + x.spent /\ books'.served = books.served
        /\ books'.byHand = books.byHand /\ books'.lost = books.lost
        /\ reply.status = 200 /\ reply.granted = 0
    BY <1>4, <2>1
  <2>3. Unapplied(r)
    BY <1>1, <1>7 DEF Applies, Unapplied
  <2>4. ~Unapplied(r)'
    <3>1. {e \in applied' : e.id = x.id} # {}
      BY <1>2, <2>1, AppliedOnce
    <3>2. SameId(pending[r])' = {e \in applied' : e.id = x.id}
      BY DEF SameId
    <3>3. QED BY <3>1, <3>2 DEF Unapplied
  <2>5. \A q \in Relay : q # r =>
          Idle(q)' = Idle(q) /\ Unreported(q)' = Unreported(q) /\ Unapplied(q)' = Unapplied(q)
    <3>1. \A q \in Relay : q # r => pending[q] # x
      BY <1>1 DEF Accounts, PendingDistinct
    <3> HIDE DEF x
    <3>2. QED BY <1>2, <1>3, <2>1, <3>1, ShareUnlessApplied
  <2>6. /\ Idle(r)' + (x.reserved - x.spent) = Idle(r)
        /\ Unreported(r)' + x.spent = Unreported(r)
    <3>1. Idle(r) = pool[r].available + (x.reserved - x.spent)
          /\ Unreported(r) = pool[r].spent + x.spent
      BY <1>6, <2>3, ShareParts DEF Idle, Unreported
    <3>2. Idle(r)' = pool[r].available /\ Unreported(r)' = pool[r].spent
      BY <1>3, <2>2, <2>4, ShareParts DEF Idle, Unreported
    <3>3. QED BY <1>6, <3>1, <3>2, ShareParts
  <2>7. /\ Sum(idle', Relay) + (x.reserved - x.spent) = Sum(idle, Relay)
        /\ Sum(unreported', Relay) + x.spent = Sum(unreported, Relay)
        /\ Sum(idle', Relay) \in Nat /\ Sum(unreported', Relay) \in Nat
    <3> HIDE DEF x
    <3>1. /\ Idle(r) \in Nat /\ Idle(r)' \in Nat
          /\ Unreported(r) \in Nat /\ Unreported(r)' \in Nat
          /\ Sum(idle', Relay) \in Nat /\ Sum(unreported', Relay) \in Nat
          /\ Sum(idle', Relay) + Idle(r) = Sum(idle, Relay) + Idle(r)'
          /\ Sum(unreported', Relay) + Unreported(r) = Sum(unreported, Relay) + Unreported(r)'
      BY <2>5, OneShare
    <3>2. QED BY <1>5, <1>6, <2>6, <3>1
  <2>8. Orphans' = Orphans
    <3>1. Late' = Late
      BY DEF Late
    <3>2. ASSUME NEW y \in Late PROVE y \in Orphans' <=> y \in Orphans
      <4>1. y \in Reports /\ y.id \in Awaited
        BY LateAwaited
      <4>2. SameId(y)' = {} <=> SameId(y) = {} /\ y # x
        <5>1. SameId(y)' = {e \in applied' : e.id = y.id}
          BY DEF SameId
        <5> HIDE DEF x
        <5>2. QED BY <1>2, <2>1, <4>1, <5>1, AppliedOnce
      <4>3. y \in Orphans' <=> SameId(y)' = {} /\ \A q \in Relay : pending[q] # y
        BY <3>1 DEF Orphans, SameId
      <4>4. QED BY <4>2, <4>3 DEF Orphans
    <3>3. Orphans' \subseteq Late /\ Orphans \subseteq Late
      BY <3>1 DEF Orphans
    <3>4. QED BY <3>2, <3>3
  <2> HIDE DEF x
  <2>9. ServedCharged'
    BY <1>4, <1>5, <1>6, <2>2, <2>7, <2>8 DEF Accounts, ServedCharged
  <2>10. LeasesCovered'
    BY <1>4, <1>5, <1>6, <2>2, <2>7, <2>8 DEF Accounts, LeasesCovered
  <2>11. AnswersTrue'
    BY <1>3, <2>2, <2>4, <2>5 DEF Accounts, AnswersTrue
  <2>12. PendingDistinct'
    BY DEF Accounts, PendingDistinct
  <2>13. QED BY <1>5, <2>8, <2>9, <2>10, <2>11, <2>12 DEF Accounts
<1>8. CASE ~Applies(x)
  <2>1. /\ UNCHANGED <<account, applied, books>>
        /\ reply = [status |-> IF x \in applied THEN 200 ELSE 409, granted |-> 0]
    BY <1>1, <1>8 DEF ApplySettle
  <2>2. reply.granted = 0 /\ (reply.status = 200 <=> x \in applied)
    BY <2>1
  <2>3. \A q \in Relay : Unapplied(q)' = Unapplied(q)
    BY <2>1 DEF Unapplied, SameId
  <2>4. \A q \in Relay : Idle(q)' = Idle(q) /\ Unreported(q)' = Unreported(q)
    <3>1. \A q \in Relay : q # r => Idle(q)' = Idle(q) /\ Unreported(q)' = Unreported(q)
      BY <1>3, <2>1, ShareKept
    <3>2. (IF answer'[r] # NoAnswer THEN answer'[r].granted ELSE 0) = 0
      BY <1>3, <2>2
    <3>3. Idle(r)' = Idle(r) /\ Unreported(r)' = Unreported(r)
      BY <2>3, <3>2, ShareParts DEF Idle, Unreported
    <3>4. QED BY <3>1, <3>3
  <2>5. Sum(idle', Relay) = Sum(idle, Relay) /\ Sum(unreported', Relay) = Sum(unreported, Relay)
    BY <2>4, NoShare
  <2>6. Orphans' = Orphans
    BY <2>1, OrphansKept
  <2>7. reply.status = 200 => ~Unapplied(r)
    BY <2>2 DEF Unapplied, SameId
  <2>8. books.byHand = 0 => reply.status = 200
    <3> SUFFICES ASSUME books.byHand = 0 PROVE x \in applied
      BY <2>2
    <3>1. CASE SameId(x) = {}
      <4>1. Unapplied(r)
        BY <1>1, <3>1 DEF Unapplied
      <4>2. x.reserved <= account.reserved
        BY <4>1, ReserveCovers
      <4>3. QED BY <1>8, <3>1, <4>2 DEF Applies
    <3>2. CASE SameId(x) # {}
      <4>1. PICK e \in applied : e.id = x.id
        BY <3>2 DEF SameId
      <4>2. e \in Reports
        BY DEF Reports
      <4>3. QED BY <1>2, <4>1, <4>2 DEF CreditInv, OneReportPerId
    <3>3. QED BY <3>1, <3>2
  <2>9. AnswersTrue'
    BY <1>3, <2>1, <2>3, <2>7, <2>8 DEF Accounts, AnswersTrue
  <2>10. QED BY <2>1, <2>5, <2>6, <2>9
             DEF Accounts, ServedCharged, LeasesCovered, PendingDistinct
<1>9. QED BY <1>7, <1>8

LEMMA AnsweredAccounts ==
  ASSUME CreditInv, CreditInv', Accounts, NEW r \in Relay, Answered(r)
  PROVE  Accounts'
<1>1. PICK reply \in Reply : Perform(sent[r], reply) /\ answer' = [answer EXCEPT ![r] = reply]
  BY DEF Answered
<1>2. sent[r] # NoCall /\ answer[r] = NoAnswer /\ UNCHANGED <<pool, pending, sent, cost, stray, faults>>
  BY DEF Answered, Free
<1>3. reply \in Answer
  BY CreditConstants DEF Reply, Answer
<1>4. CASE sent[r].kind = "reserve" /\ Reserve(sent[r].ask, reply)
  BY <1>1, <1>2, <1>3, <1>4, ReservedAccounts
<1>5. CASE sent[r].kind = "settle" /\ ApplySettle(sent[r].report, reply)
  BY <1>1, <1>2, <1>3, <1>5, AppliedAccounts
<1>6. QED BY <1>1, <1>4, <1>5 DEF Perform

\* A call to lease that its relay gave up arrives late: nobody has the grant.
LEMMA LateReserveAccounts ==
  ASSUME CreditInv, CreditInv', Accounts, NEW s \in stray, NEW reply,
         s.call.kind = "reserve", Reserve(s.call.ask, reply), stray' = stray \ {s},
         UNCHANGED <<pool, pending, sent, answer>>
  PROVE  Accounts'
<1> DEFINE g == Grant(s.call.ask)
<1>1. /\ account' = [account EXCEPT !.remaining = @ - g, !.reserved = @ + g]
      /\ UNCHANGED <<applied, books>>
  BY DEF Reserve
<1>2. g \in Nat
  <2>1. s.call \in Call
    BY DEF CreditInv, TypeOK
  <2>2. s.call.ask \in Nat
    BY <2>1 DEF Call
  <2>3. QED BY <2>2, GrantBounds DEF CreditInv
<1> HIDE DEF g
<1>3. /\ account'.reserved = account.reserved + g /\ account.reserved \in Nat
      /\ books.served \in Nat /\ books.charged \in Nat /\ books.byHand \in Nat
  BY <1>1 DEF CreditInv, TypeOK
<1>4. Sum(idle', Relay) = Sum(idle, Relay) /\ Sum(unreported', Relay) = Sum(unreported, Relay)
  <2>1. \A q \in Relay : Idle(q)' = Idle(q) /\ Unreported(q)' = Unreported(q)
    BY <1>1, ShareKept
  <2>2. QED BY <2>1, NoShare
<1>5. Orphans' = Orphans
  <2>1. Late' = Late
    BY DEF Late
  <2>2. QED BY <1>1, <2>1 DEF Orphans, SameId
<1>6. /\ IsFiniteSet(Orphans)
      /\ Sum(idle, Relay) \in Nat /\ Sum(unspent, Orphans) \in Nat
  BY SumsNat DEF Accounts
<1>7. LeasesCovered'
  BY <1>1, <1>2, <1>3, <1>4, <1>5, <1>6 DEF Accounts, LeasesCovered
<1>8. ServedCharged' /\ AnswersTrue' /\ PendingDistinct'
  BY <1>1, <1>4, <1>5 DEF Accounts, ServedCharged, AnswersTrue, PendingDistinct, Unapplied, SameId
<1>9. QED BY <1>5, <1>6, <1>7, <1>8 DEF Accounts

(* A report that its relay gave up arrives late: it is that relay's still,  *)
(* or an orphan.                                                            *)
LEMMA LateSettleAccounts ==
  ASSUME CreditInv, CreditInv', Accounts, NEW s \in stray, NEW reply,
         s.call.kind = "settle", ApplySettle(s.call.report, reply), stray' = stray \ {s},
         UNCHANGED <<pool, pending, sent, answer>>
  PROVE  Accounts'
<1> DEFINE x == s.call.report
<1>1. x \in Late
  BY DEF Late
<1>2. x \in Reports /\ x.id \in Awaited
  BY <1>1, LateAwaited
<1>3. Late' \subseteq Late /\ Late \subseteq Late' \cup {x}
  BY DEF Late
<1>4. /\ account \in [remaining : Nat, reserved : Nat, ceiling : Ceilings]
      /\ books \in [served : Nat, charged : Nat, byHand : Nat, lost : BOOLEAN]
      /\ account.reserved \in Nat
  BY DEF CreditInv, TypeOK
<1>5. /\ IsFiniteSet(Orphans)
      /\ Sum(idle, Relay) \in Nat /\ Sum(unreported, Relay) \in Nat
      /\ Sum(spent, Orphans) \in Nat /\ Sum(unspent, Orphans) \in Nat
  BY SumsNat DEF Accounts
<1>6. x.spent \in Nat /\ x.reserved - x.spent \in Nat /\ x.reserved \in Nat
  BY <1>2, LateNat, ReportsTyped DEF CreditInv, Report
<1>7. PendingDistinct'
  BY DEF Accounts, PendingDistinct
<1> HIDE DEF x
<1>8. CASE Applies(x)
  <2>1. /\ account' = [account EXCEPT !.reserved  = @ - x.reserved,
                                      !.remaining = @ + (x.reserved - x.spent)]
        /\ applied' = Logged(x)
        /\ books' = [books EXCEPT !.charged = @ + x.spent]
    BY <1>8 DEF ApplySettle, x
  <2>2. /\ account'.reserved = account.reserved - x.reserved
        /\ books'.charged = books.charged + x.spent /\ books'.served = books.served
        /\ books'.byHand = books.byHand /\ books'.lost = books.lost
    BY <1>4, <2>1
  <2>3. ASSUME NEW q \in Relay, pending[q] # x
        PROVE  Idle(q)' = Idle(q) /\ Unreported(q)' = Unreported(q) /\ Unapplied(q)' = Unapplied(q)
    BY <1>2, <2>1, <2>3, ShareUnlessApplied
  <2>4. ASSUME NEW q \in Relay, pending[q] = x PROVE ~Unapplied(q)' /\ Unapplied(q)
    <3>1. {e \in applied' : e.id = x.id} # {}
      BY <1>2, <2>1, AppliedOnce
    <3>2. SameId(pending[q])' = {e \in applied' : e.id = x.id}
      BY <2>4 DEF SameId
    <3>3. x # NoReport
      BY <1>1, LateIsReport DEF LateReports
    <3>4. QED BY <1>8, <2>4, <3>1, <3>2, <3>3 DEF Unapplied, Applies
  <2>5. AnswersTrue'
    <3>1. \A q \in Relay : ~Unapplied(q) => ~Unapplied(q)'
      BY <2>3, <2>4
    <3>2. QED BY <2>2, <3>1 DEF Accounts, AnswersTrue
  <2>6. ASSUME NEW y \in Late, y # x PROVE SameId(y)' = {} <=> SameId(y) = {}
    <3>1. y \in Reports /\ y.id \in Awaited
      BY LateAwaited
    <3>2. SameId(y)' = {e \in applied' : e.id = y.id}
      BY DEF SameId
    <3>3. QED BY <1>2, <2>1, <2>6, <3>1, <3>2, AppliedOnce
  <2>7. x \notin Orphans'
    <3>1. {e \in applied' : e.id = x.id} # {}
      BY <1>2, <2>1, AppliedOnce
    <3>2. QED BY <3>1 DEF Orphans, SameId
  <2>8. Orphans' = Orphans \ {x}
    <3>1. ASSUME NEW y \in Late, y # x PROVE y \in Orphans' <=> y \in Orphans
      <4>1. y \in Orphans' <=> SameId(y)' = {} /\ \A q \in Relay : pending[q] # y
        BY <1>3, <3>1 DEF Orphans, SameId
      <4>2. QED BY <2>6, <3>1, <4>1 DEF Orphans
    <3>2. Orphans' \subseteq Late /\ Orphans \subseteq Late
      BY <1>3 DEF Orphans
    <3>3. QED BY <2>7, <3>1, <3>2
  <2>9. CASE \E r \in Relay : pending[r] = x
    <3>1. PICK r \in Relay : pending[r] = x
      BY <2>9
    <3>2. Orphans' = Orphans
      BY <2>8, <3>1 DEF Orphans
    <3>3. Unapplied(r) /\ ~Unapplied(r)'
      BY <2>4, <3>1
    <3>4. \A q \in Relay : q # r => pending[q] # x
      BY <3>1, <3>3 DEF Accounts, PendingDistinct, Unapplied
    <3>5. \A q \in Relay : q # r => Idle(q)' = Idle(q) /\ Unreported(q)' = Unreported(q)
      BY <2>3, <3>4
    <3>6. /\ Idle(r)' + (x.reserved - x.spent) = Idle(r)
          /\ Unreported(r)' + x.spent = Unreported(r)
      BY <1>6, <3>1, <3>3, ShareParts DEF Idle, Unreported
    <3>7. /\ Sum(idle', Relay) + (x.reserved - x.spent) = Sum(idle, Relay)
          /\ Sum(unreported', Relay) + x.spent = Sum(unreported, Relay)
          /\ Sum(idle', Relay) \in Nat /\ Sum(unreported', Relay) \in Nat
      <4>1. /\ Idle(r) \in Nat /\ Idle(r)' \in Nat
            /\ Unreported(r) \in Nat /\ Unreported(r)' \in Nat
            /\ Sum(idle', Relay) \in Nat /\ Sum(unreported', Relay) \in Nat
            /\ Sum(idle', Relay) + Idle(r) = Sum(idle, Relay) + Idle(r)'
            /\ Sum(unreported', Relay) + Unreported(r) = Sum(unreported, Relay) + Unreported(r)'
        BY <3>5, OneShare
      <4>2. QED BY <1>5, <1>6, <3>6, <4>1
    <3>8. ServedCharged'
      BY <1>4, <1>5, <1>6, <2>2, <3>2, <3>7 DEF Accounts, ServedCharged
    <3>9. LeasesCovered'
      BY <1>4, <1>5, <1>6, <2>2, <3>2, <3>7 DEF Accounts, LeasesCovered
    <3>10. QED BY <1>5, <1>7, <2>5, <3>2, <3>8, <3>9 DEF Accounts
  <2>10. CASE \A r \in Relay : pending[r] # x
    <3>1. x \in Orphans
      BY <1>1, <1>8, <2>10 DEF Orphans, Applies
    <3>2. Sum(idle', Relay) = Sum(idle, Relay) /\ Sum(unreported', Relay) = Sum(unreported, Relay)
      BY <2>3, <2>10, NoShare
    <3>3. /\ IsFiniteSet(Orphans')
          /\ Sum(spent, Orphans') \in Nat /\ Sum(unspent, Orphans') \in Nat
          /\ Sum(spent, Orphans) = x.spent + Sum(spent, Orphans')
          /\ Sum(unspent, Orphans) = (x.reserved - x.spent) + Sum(unspent, Orphans')
      <4>1. Orphans \subseteq Reports
        BY OrphanReports
      <4>2. QED BY <1>5, <2>8, <3>1, <4>1, OrphanGoes
    <3>4. ServedCharged'
      BY <1>4, <1>5, <1>6, <2>2, <3>1, <3>2, <3>3 DEF Accounts, ServedCharged
    <3>5. LeasesCovered'
      BY <1>4, <1>5, <1>6, <2>2, <3>2, <3>3 DEF Accounts, LeasesCovered
    <3>6. QED BY <1>7, <2>5, <3>3, <3>4, <3>5 DEF Accounts
  <2>11. QED BY <2>9, <2>10
<1>9. CASE ~Applies(x)
  <2>1. UNCHANGED <<account, applied, books>>
    BY <1>9 DEF ApplySettle, x
  <2>2. \A q \in Relay : Idle(q)' = Idle(q) /\ Unreported(q)' = Unreported(q)
    BY <2>1, ShareKept
  <2>3. Sum(idle', Relay) = Sum(idle, Relay) /\ Sum(unreported', Relay) = Sum(unreported, Relay)
    BY <2>2, NoShare
  <2>4. \/ Orphans' = Orphans
        \/ x \in Orphans /\ Orphans' = Orphans \ {x}
    <3>1. Orphans' \subseteq Orphans /\ Orphans \subseteq Orphans' \cup {x}
      BY <1>3, <2>1 DEF Orphans, SameId
    <3>2. CASE x \in Orphans'
      <4>1. Orphans' = Orphans
        BY <3>1, <3>2
      <4>2. QED BY <4>1
    <3>3. CASE x \notin Orphans' /\ x \in Orphans
      <4>1. Orphans' = Orphans \ {x}
        BY <3>1, <3>3
      <4>2. QED BY <3>3, <4>1
    <3>4. CASE x \notin Orphans' /\ x \notin Orphans
      <4>1. Orphans' = Orphans
        BY <3>1, <3>4
      <4>2. QED BY <4>1
    <3>5. QED BY <3>2, <3>3, <3>4
  <2>5. /\ IsFiniteSet(Orphans')
        /\ Sum(spent, Orphans') \in Nat /\ Sum(spent, Orphans') <= Sum(spent, Orphans)
        /\ Sum(unspent, Orphans') \in Nat /\ Sum(unspent, Orphans') <= Sum(unspent, Orphans)
    <3>1. CASE Orphans' = Orphans
      BY <1>5, <3>1
    <3>2. CASE x \in Orphans /\ Orphans' = Orphans \ {x}
      <4>1. Orphans \subseteq Reports
        BY OrphanReports
      <4>2. /\ IsFiniteSet(Orphans')
            /\ Sum(spent, Orphans') \in Nat /\ Sum(unspent, Orphans') \in Nat
            /\ Sum(spent, Orphans) = x.spent + Sum(spent, Orphans')
            /\ Sum(unspent, Orphans) = (x.reserved - x.spent) + Sum(unspent, Orphans')
        BY <1>5, <3>2, <4>1, OrphanGoes
      <4>3. QED BY <1>6, <4>2
    <3>3. QED BY <2>4, <3>1, <3>2
  <2>6. ServedCharged'
    BY <1>4, <1>5, <2>1, <2>3, <2>4, <2>5 DEF Accounts, ServedCharged
  <2>7. LeasesCovered'
    BY <1>4, <1>5, <2>1, <2>3, <2>5 DEF Accounts, LeasesCovered
  <2>8. AnswersTrue'
    BY <2>1 DEF Accounts, AnswersTrue, Unapplied, SameId
  <2>9. QED BY <1>7, <2>5, <2>6, <2>7, <2>8 DEF Accounts
<1>10. QED BY <1>8, <1>9

LEMMA ArrivesLateAccounts ==
  ASSUME CreditInv, CreditInv', Accounts, ArrivesLate
  PROVE  Accounts'
<1>1. PICK s \in stray :
        /\ \E reply \in Reply : Perform(s.call, reply)
        /\ stray' = stray \ {s}
        /\ UNCHANGED <<pool, pending, sent, cost, answer, faults>>
  BY DEF ArrivesLate
<1>2. PICK reply \in Reply : Perform(s.call, reply)
  BY <1>1
<1>3. CASE s.call.kind = "reserve" /\ Reserve(s.call.ask, reply)
  BY <1>1, <1>3, LateReserveAccounts
<1>4. CASE s.call.kind = "settle" /\ ApplySettle(s.call.report, reply)
  BY <1>1, <1>4, LateSettleAccounts
<1>5. QED BY <1>2, <1>3, <1>4 DEF Perform

\* A call given up leaves its report with the relay, and maybe a copy under way.
LEMMA GiveUpAccounts ==
  ASSUME CreditInv, CreditInv', Accounts, NEW r \in Relay, GiveUp(r)
  PROVE  Accounts'
<1>1. /\ stray' = stray \cup Abandoned(r)
      /\ sent' = [sent EXCEPT ![r] = NoCall]
      /\ answer' = [answer EXCEPT ![r] = NoAnswer]
      /\ UNCHANGED <<pool, pending, account, applied, books>>
  BY DEF GiveUp
<1>2. answer'[r] = NoAnswer
      /\ \A q \in Relay : q # r => answer'[q] = answer[q] /\ sent'[q] = sent[q]
  BY <1>1 DEF CreditInv, TypeOK
<1>3. \A q \in Relay : q # r => Idle(q)' = Idle(q) /\ Unreported(q)' = Unreported(q)
  BY <1>1, <1>2, ShareKept
<1>4. Idle(r)' <= Idle(r) /\ Unreported(r)' = Unreported(r)
  BY <1>1, <1>2, ShareParts DEF Idle, Unreported, Unapplied, SameId
<1>5. /\ Sum(idle', Relay) <= Sum(idle, Relay)
      /\ Sum(unreported', Relay) = Sum(unreported, Relay)
      /\ Sum(idle, Relay) \in Nat /\ Sum(idle', Relay) \in Nat
  BY <1>3, <1>4, OneShare
<1>6. Late \subseteq Late' /\ Late' \subseteq Late \cup {pending[r]}
  BY <1>1, AbandonedLate
<1>7. Orphans' = Orphans
  <2>1. \A y : SameId(y)' = SameId(y)
    BY <1>1 DEF SameId
  <2>2. pending' = pending
    BY <1>1
  <2>3. QED BY <1>6, <2>1, <2>2 DEF Orphans, SameId
<1>8. IsFiniteSet(Orphans) /\ Sum(unspent, Orphans) \in Nat
      /\ books.served \in Nat /\ books.charged \in Nat /\ books.byHand \in Nat
      /\ account.reserved \in Nat
  BY SumsNat DEF Accounts, CreditInv, TypeOK
<1>9. LeasesCovered'
  BY <1>1, <1>5, <1>7, <1>8 DEF Accounts, LeasesCovered
<1>10. ServedCharged'
  BY <1>1, <1>5, <1>7 DEF Accounts, ServedCharged
<1>11. AnswersTrue' /\ PendingDistinct'
  BY <1>1, <1>2 DEF Accounts, AnswersTrue, PendingDistinct, Unapplied, SameId
<1>12. QED BY <1>7, <1>8, <1>9, <1>10, <1>11 DEF Accounts

\* A relay that dies leaves at most one orphan.
LEMMA CrashAccounts ==
  ASSUME CreditInv, CreditInv', Accounts, NEW r \in Relay, Crash(r)
  PROVE  Accounts'
<1>1. /\ stray' = stray \cup Abandoned(r)
      /\ pool' = [pool EXCEPT ![r] = EmptyPool]
      /\ pending' = [pending EXCEPT ![r] = NoReport]
      /\ sent' = [sent EXCEPT ![r] = NoCall]
      /\ answer' = [answer EXCEPT ![r] = NoAnswer]
      /\ books' = [books EXCEPT !.lost = TRUE]
      /\ UNCHANGED <<account, applied>>
  BY DEF Crash
<1>2. /\ answer'[r] = NoAnswer /\ pending'[r] = NoReport /\ pool'[r] = EmptyPool
      /\ \A q \in Relay : q # r => /\ answer'[q] = answer[q] /\ sent'[q] = sent[q]
                                   /\ pool'[q] = pool[q] /\ pending'[q] = pending[q]
  BY <1>1 DEF CreditInv, TypeOK
<1>3. /\ books'.served = books.served /\ books'.charged = books.charged
      /\ books'.byHand = books.byHand /\ books'.lost = TRUE
  BY <1>1 DEF CreditInv, TypeOK
<1>4. \A q \in Relay : q # r => Idle(q)' = Idle(q) /\ Unreported(q)' = Unreported(q)
  BY <1>1, <1>2, ShareKept
<1>5. Idle(r)' <= pool[r].available /\ Unreported(r)' <= pool[r].spent
  BY <1>1, <1>2, ShareParts DEF Idle, Unreported, Unapplied, EmptyPool
<1>6. Late \subseteq Late' /\ Late' \subseteq Late \cup {pending[r]}
  BY <1>1, AbandonedLate
<1>7. pending'[r] \notin Late'
  <2>1. CreditInv' => LateReports'
    BY LateIsReport, PTL
  <2>2. QED BY <1>2, <2>1 DEF LateReports
<1>8. \/ Orphans' = Orphans
      \/ Unapplied(r) /\ pending[r] \in Reports /\ Orphans' = Orphans \cup {pending[r]}
  BY <1>1, <1>2, <1>6, <1>7, OrphansOnDrop
<1>9. /\ IsFiniteSet(Orphans')
      /\ books'.charged + Sum(unreported', Relay) + Sum(spent, Orphans') <= books'.served
      /\ LeasesCovered'
  BY <1>1, <1>3, <1>4, <1>5, <1>8, DropAccounts
<1>10. AnswersTrue' /\ PendingDistinct'
  BY <1>1, <1>2, <1>3 DEF Accounts, AnswersTrue, PendingDistinct, Unapplied, SameId
<1>11. QED BY <1>3, <1>9, <1>10 DEF Accounts, ServedCharged

\* An operator's hand is in the books.
LEMMA ReconcileAccounts ==
  ASSUME CreditInv, CreditInv', Accounts, Reconcile
  PROVE  Accounts'
<1>1. PICK n \in 1 .. account.reserved :
        /\ account' = [account EXCEPT !.reserved = @ - n, !.remaining = @ + n]
        /\ books' = [books EXCEPT !.byHand = @ + n]
        /\ UNCHANGED <<pool, pending, sent, cost, answer, stray, applied>>
  BY DEF Reconcile
<1>2. /\ account'.reserved = account.reserved - n /\ account.reserved \in Nat
      /\ books'.byHand = books.byHand + n /\ books'.served = books.served
      /\ books'.charged = books.charged
      /\ books.byHand \in Nat /\ books.served \in Nat /\ books.charged \in Nat
      /\ n \in Nat /\ n # 0
  BY <1>1 DEF CreditInv, TypeOK
<1>3. Sum(idle', Relay) = Sum(idle, Relay) /\ Sum(unreported', Relay) = Sum(unreported, Relay)
  <2>1. \A q \in Relay : Idle(q)' = Idle(q) /\ Unreported(q)' = Unreported(q)
    BY <1>1, ShareKept
  <2>2. QED BY <2>1, NoShare
<1>4. Orphans' = Orphans
  BY <1>1, OrphansKept
<1>5. /\ IsFiniteSet(Orphans) /\ Sum(idle, Relay) \in Nat /\ Sum(unreported, Relay) \in Nat
      /\ Sum(spent, Orphans) \in Nat /\ Sum(unspent, Orphans) \in Nat
  BY SumsNat DEF Accounts
<1>6. books'.byHand # 0
  BY <1>2
<1>7. ServedCharged'
  BY <1>2, <1>3, <1>4, <1>6 DEF Accounts, ServedCharged
<1>8. LeasesCovered'
  BY <1>2, <1>3, <1>4, <1>5 DEF Accounts, LeasesCovered
<1>9. AnswersTrue' /\ PendingDistinct'
  BY <1>1, <1>6 DEF Accounts, AnswersTrue, PendingDistinct, Unapplied, SameId
<1>10. QED BY <1>4, <1>5, <1>7, <1>8, <1>9 DEF Accounts
-----------------------------------------------------------------------------
\* A sum of nothing but zeros is zero.
LEMMA SumZero ==
  ASSUME NEW S, IsFiniteSet(S), NEW f, \A x \in S : f[x] = 0
  PROVE  SumFunctionOnSet(f, S) = 0
<1>1. SumFunctionOnSet(f, S) \in Nat
  BY SumNat
<1>2. SumFunctionOnSet(f, S) = SumFunctionOnSet(f, S) + SumFunctionOnSet(f, S)
  BY SumOfSums
<1>3. QED BY <1>1, <1>2

(* The accounts balance at the start and after every step.                  *)
THEOREM AccountsInvariance == Spec => []Accounts
<1>1. Init => Accounts
  <2> SUFFICES ASSUME Init PROVE Accounts
    OBVIOUS
  <2>1. Orphans = {}
    BY DEF Init, Orphans, Late
  <2>2. IsFiniteSet({}) /\ Sum(spent, {}) = 0 /\ Sum(unspent, {}) = 0
    <3>1. IsFiniteSet({})
      BY FS_EmptySet
    <3>2. QED BY <3>1, SumStep DEF Sum
  <2>3. Sum(idle, Relay) = 0 /\ Sum(unreported, Relay) = 0
    <3>1. \A r \in Relay : idle[r] = 0 /\ unreported[r] = 0
      BY DEF Init, idle, unreported, Idle, Unreported, Unapplied, EmptyPool
    <3>2. QED BY <3>1, CreditConstants, SumZero DEF Sum
  <2>4. /\ books.served = 0 /\ books.charged = 0 /\ books.byHand = 0 /\ account.reserved = 0
    BY DEF Init
  <2>5. ServedCharged /\ LeasesCovered
    BY <2>1, <2>2, <2>3, <2>4 DEF ServedCharged, LeasesCovered
  <2>6. AnswersTrue /\ PendingDistinct
    BY DEF Init, AnswersTrue, PendingDistinct
  <2>7. QED BY <2>1, <2>2, <2>5, <2>6 DEF Accounts
<1>2. CreditInv /\ CreditInv' /\ Accounts /\ [Next]_vars => Accounts'
  <2> SUFFICES ASSUME CreditInv, CreditInv', Accounts, [Next]_vars PROVE Accounts'
    OBVIOUS
  <2>1. ASSUME NEW r \in Relay, RelayStep(r) PROVE Accounts'
    BY <2>1, SpendAccounts, LeaseAccounts, GrantedAccounts, SettleAccounts, SettledAccounts
       DEF RelayStep
  <2>2. ASSUME NEW r \in Relay, Answered(r) \/ GiveUp(r) \/ Crash(r) PROVE Accounts'
    BY <2>2, AnsweredAccounts, GiveUpAccounts, CrashAccounts
  <2>3. CASE ArrivesLate
    BY <2>3, ArrivesLateAccounts
  <2>4. CASE Reconcile
    BY <2>4, ReconcileAccounts
  <2>5. CASE UNCHANGED vars
    <3>1. \A q \in Relay : Idle(q)' = Idle(q) /\ Unreported(q)' = Unreported(q)
      BY <2>5, ShareKept DEF vars
    <3>2. Sum(idle', Relay) = Sum(idle, Relay) /\ Sum(unreported', Relay) = Sum(unreported, Relay)
      BY <3>1, NoShare
    <3>3. Orphans' = Orphans
      BY <2>5, OrphansKept DEF vars
    <3>4. QED BY <2>5, <3>2, <3>3 DEF vars, Accounts, ServedCharged, LeasesCovered, AnswersTrue,
                  PendingDistinct, Unapplied, SameId
  <2>6. QED BY <2>1, <2>2, <2>3, <2>4, <2>5 DEF Next
<1>3. QED BY <1>1, <1>2, CreditInvariance, PTL DEF Spec

(* The relays never hold or have spent more of an account than is in its    *)
(* reserve, but for what an operator moved, for any number of relays.       *)
THEOREM LeasesStayHeld == Spec => []LeasesHeld
<1>1. CreditInv /\ Accounts => LeasesHeld
  <2> SUFFICES ASSUME CreditInv, Accounts PROVE LeasesHeld
    OBVIOUS
  <2> DEFINE lent == [r \in Relay |-> Lent(r)]
  <2>1. Total(Lent) = Sum(lent, Relay)
    BY DEF Total, SumFunction, Sum
  <2>2. \A r \in Relay : idle[r] \in Nat /\ unreported[r] \in Nat /\ lent[r] = idle[r] + unreported[r]
    <3> SUFFICES ASSUME NEW r \in Relay
                 PROVE  Idle(r) \in Nat /\ Unreported(r) \in Nat /\ Lent(r) = Idle(r) + Unreported(r)
      BY DEF idle, unreported
    <3>1. Idle(r) \in Nat /\ Unreported(r) \in Nat
      BY SharesNat DEF SharesNatural
    <3>2. CASE Unapplied(r)
      <4>1. pending[r].spent \in Nat /\ pending[r].reserved - pending[r].spent \in Nat
            /\ pending[r].reserved \in Nat
        <5>1. pending[r] \in Reports
          BY <3>2, PendingAwaited DEF Unapplied
        <5>2. QED BY <5>1, LateNat, ReportsTyped DEF CreditInv, Report
      <4>2. QED BY <3>1, <3>2, <4>1, ShareParts DEF Lent, Idle, Unreported
    <3>3. CASE ~Unapplied(r)
      BY <3>1, <3>3, ShareParts DEF Lent, Idle, Unreported
    <3>4. QED BY <3>1, <3>2, <3>3
  <2> HIDE DEF lent
  <2>3. Sum(lent, Relay) = Sum(idle, Relay) + Sum(unreported, Relay)
    BY <2>2, CreditConstants, SumOfSums DEF Sum
  <2>4. /\ Sum(idle, Relay) \in Nat /\ Sum(unreported, Relay) \in Nat
        /\ Sum(spent, Orphans) \in Nat /\ Sum(unspent, Orphans) \in Nat
    BY SumsNat DEF Accounts
  <2>5. /\ books.served \in Nat /\ books.charged \in Nat /\ books.byHand \in Nat
        /\ account.reserved \in Nat
    BY DEF CreditInv, TypeOK
  <2>6. QED BY <2>1, <2>3, <2>4, <2>5 DEF Accounts, ServedCharged, LeasesCovered, LeasesHeld
<1>2. QED BY <1>1, CreditInvariance, AccountsInvariance, PTL

(* No customer is served more than was paid in, whatever relays die and     *)
(* whatever calls are lost, repeated or late.                               *)
THEOREM ServedStaysFunded == Spec => []ServedWithinFund
<1>1. CreditInv /\ Accounts => ServedWithinFund
  <2> SUFFICES ASSUME CreditInv, Accounts PROVE ServedWithinFund
    OBVIOUS
  <2>1. Sum(idle, Relay) \in Nat /\ Sum(unspent, Orphans) \in Nat
    BY SumsNat DEF Accounts
  <2>2. /\ books.served \in Nat /\ books.charged \in Nat /\ books.byHand \in Nat
        /\ account.reserved \in Nat /\ account.remaining \in Nat /\ Fund \in Nat
    BY CreditConstants DEF CreditInv, TypeOK
  <2>3. QED BY <2>1, <2>2 DEF CreditInv, LedgerSound, Accounts, LeasesCovered, ServedWithinFund
<1>2. QED BY <1>1, CreditInvariance, AccountsInvariance, PTL

(* What was served is charged once, and without a crash or an operator's    *)
(* hand all of it; only that hand leads to a report refused for good.       *)
THEOREM ServedIsChargedOnce == Spec => []ChargedOnce
<1>1. CreditInv /\ Accounts => ChargedOnce
  <2> SUFFICES ASSUME CreditInv, Accounts PROVE ChargedOnce
    OBVIOUS
  <2>1. Total(Unreported) = Sum(unreported, Relay)
    BY DEF Total, SumFunction, Sum, unreported
  <2>2. Sum(unreported, Relay) \in Nat /\ Sum(spent, Orphans) \in Nat
    BY SumsNat DEF Accounts
  <2>3. books.served \in Nat /\ books.charged \in Nat
    BY DEF CreditInv, TypeOK
  <2>4. books.byHand = 0 => \A r \in Relay : answer[r] = NoAnswer \/ answer[r].status # 409
    BY DEF Accounts, AnswersTrue
  <2>5. QED BY <2>1, <2>2, <2>3, <2>4 DEF Accounts, ServedCharged, ChargedOnce
<1>2. QED BY <1>1, CreditInvariance, AccountsInvariance, PTL
=============================================================================
