----------------------------- MODULE StakingData -----------------------------
(***************************************************************************)
(* The staking API: src/src/services/staking_data_service.ts, the SQL of   *)
(* src/src/queries/staking_queries.ts, src/src/utils/staking_utils.ts and  *)
(* src/src/handlers/staking_handlers.ts.                                   *)
(*                                                                         *)
(* The tables are filled by the event pipeline, which is external: here    *)
(* they are one log of chain events, and the pipeline's views are defined  *)
(* over it.  A query reads one state of the log; the several queries of a  *)
(* request are not in a transaction, and the log grows between them.       *)
(***************************************************************************)
EXTENDS Integers, FiniteSetsExt, SequencesExt

CONSTANTS
    Pool,
    Staker,
    Maker,
    OperatorOf,  \* the staker who operates each pool
    Amounts,     \* of ZRX, of fees and of rewards
    Genesis,     \* the log up to the start of some epoch
    RecentBlocks,\* the blocks of the last seven days
    Asked,       \* the requests that clients make
    MaxEvents,   \* bound: the length of the log
    None

VARIABLES
    events,   \* the chain's events, with the position of their transaction
    request   \* one request, its queries' answers, and the epoch it came in

vars == <<events, request>>

Position == Nat \X Nat   \* block number, transaction index
Before(a, b) == a[1] < b[1] \/ (a[1] = b[1] /\ a[2] < b[2])

Kinds == {"create", "join", "stake", "unstake", "move", "fill", "reward", "epoch"}
Event == [kind : Kinds, who : Staker \cup Maker \cup {None},
          from : Pool \cup {None}, to : Pool \cup {None}, amount : Nat, at : Position]

Requests == {"delegator", "pools", "pool", "epochs"}
EventTypes == {"deposited_zrx", "withdrew_zrx", "staked", "removed_stake", "moved_stake"}

\* The log that a behaviour starts from is one of the chain, in its order.
ASSUME StakingAssumption ==
    /\ IsFiniteSet(Staker) /\ OperatorOf \in [Pool -> Staker]
    /\ Amounts \subseteq Nat \ {0}
    /\ None \notin Staker \cup Pool \cup Maker \cup Position \cup Requests \cup EventTypes
    /\ Genesis \in Seq(Event) /\ Genesis # <<>> /\ Genesis[Len(Genesis)].kind = "epoch"
    /\ \A i, j \in DOMAIN Genesis : i < j => ~Before(Genesis[j].at, Genesis[i].at)
    /\ RecentBlocks \in Nat /\ MaxEvents \in Nat /\ Len(Genesis) <= MaxEvents
    /\ Asked \subseteq Requests

QueriesOf == [delegator |-> 4, pools |-> 5, pool |-> 8, epochs |-> 2]
Idle == [kind |-> None, id |-> None, got |-> <<>>, epoch |-> 0, ended |-> FALSE]

TypeOK ==
    /\ events \in Seq(Event) /\ Len(events) <= MaxEvents
    /\ \/ request = Idle
       \/ /\ request.kind \in Requests /\ request.id \in Staker \cup Pool \cup {None}
          /\ Len(request.got) <= QueriesOf[request.kind]
          /\ request.epoch \in Nat /\ request.ended \in BOOLEAN

-----------------------------------------------------------------------------
(* The pipeline's tables and views.                                        *)

Rows(kind) == {i \in DOMAIN events : events[i].kind = kind}
Total(rows) == SumFunction([i \in rows |-> events[i].amount])
AllRows == DOMAIN events
Now == events[Len(events)].at

CurrentEpochId == Cardinality(Rows("epoch"))
EpochAt(i) == Cardinality({j \in Rows("epoch") : j <= i})
StartRow(n) == CHOOSE i \in Rows("epoch") : EpochAt(i) = n
Start(n) == events[StartRow(n)].at

\* pool_info, as of a row of the log.
Created(i) == {events[j].to : j \in {k \in Rows("create") : k <= i}}
MakersOf(p, i) ==
    {m \in Maker : LET joins == {j \in Rows("join") : j <= i /\ events[j].who = m} IN
                   joins # {} /\ events[Max(joins)].to = p}
PoolInfo == Created(Len(events))

\* zrx_staking_changes, zrx_staking_contract_changes and their sums over some rows.
Staked(who, pools, rows) ==
    LET moves == {i \in rows : events[i].kind = "move" /\ events[i].who \in who} IN
    Total({i \in moves : events[i].to \in pools}) - Total({i \in moves : events[i].from \in pools})
Deposited(who, rows) ==
    LET ofThem == {i \in rows : events[i].who \in who} IN
    Total({i \in ofThem : events[i].kind = "stake"}) - Total({i \in ofThem : events[i].kind = "unstake"})
SumOver(S, Of(_)) == SumFunction([x \in S |-> Of(x)])

\* epoch_start_pool_status: the contracts' snapshot at the start of an epoch.
AtStart(n) == LET row == StartRow(n) IN 1 .. row
StartMakers(n, p) == MakersOf(p, StartRow(n))

-----------------------------------------------------------------------------
(* The queries, and what is made of their rows.                            *)

\* Mutant: The start of an epoch is compared by its block alone.
BeforeEpochByBlock(n) == LET start == Start(n) IN {i \in AllRows : events[i].at[1] < start[1]}
\* Mutant: Changes of the transaction that starts the epoch count for it.
BeforeEpochInclusive(n) == {i \in AllRows : ~Before(Start(n), events[i].at)}
\* A function, so that TLC works out the position once.
RowsBefore == [position \in Position |-> {i \in AllRows : Before(events[i].at, position)}]
BeforeEpoch(n) == RowsBefore[Start(n)]

\* Mutant: The end of an epoch is compared by its block alone.
FillsInByBlock(n) ==
    LET start == Start(n)
        end == IF n < CurrentEpochId THEN Start(n + 1) ELSE None
    IN {i \in Rows("fill") : /\ Before(start, events[i].at)
                             /\ end # None => events[i].at[1] <= end[1]}

FillsIn(n) ==
    LET start == Start(n)
        end == IF n < CurrentEpochId THEN Start(n + 1) ELSE None
    IN {i \in Rows("fill") : /\ Before(start, events[i].at)
                             /\ end # None => Before(events[i].at, end)}

EpochNWithFees(n) ==
    [epochId |-> n,
     deposited |-> Deposited(Staker, BeforeEpoch(n)),
     staked |-> Staked(Staker, Pool, AtStart(n)),
     fees |-> Total(FillsIn(n))]

\* current_epoch has no end that a fill could come after.
CurrentEpochWithFees ==
    LET n == CurrentEpochId
        start == Start(n)
    IN
    [epochId |-> n,
     deposited |-> Deposited(Staker, BeforeEpoch(n)),
     staked |-> Staked(Staker, Pool, AtStart(n)),
     fees |-> Total({i \in Rows("fill") : Before(start, events[i].at)})]

NextEpoch ==
    [epochId |-> CurrentEpochId + 1,
     deposited |-> Deposited(Staker, AllRows),
     staked |-> Staked(Staker, Pool, AllRows),
     fees |-> 0]

PoolStatistics ==
    [stake : Nat, operatorStake : Nat, memberStake : Nat, makers : SUBSET Maker, fees : Nat]
\* Mutant: The members' stake is subtracted the wrong way round.
PoolStatsNegated(p, rows, makers, fees) ==
    LET all == Staked(Staker, {p}, rows)
        operators == Staked({OperatorOf[p]}, {p}, rows)
    IN [stake |-> all, operatorStake |-> operators, memberStake |-> operators - all,
        makers |-> makers, fees |-> fees]

PoolStats(p, rows, makers, fees) ==
    [stake |-> Staked(Staker, {p}, rows), operatorStake |-> Staked({OperatorOf[p]}, {p}, rows),
     memberStake |-> Staked(Staker \ {OperatorOf[p]}, {p}, rows),
     makers |-> makers, fees |-> fees]

\* Unlike the fees of the epoch, those of a pool include the fills of the
\* transaction that starts the epoch.
CurrentEpochPoolStats(p) ==
    LET n == CurrentEpochId
        start == Start(n)
        makers == StartMakers(n, p)
        fills == {i \in Rows("fill") : ~Before(events[i].at, start) /\ events[i].who \in makers}
    IN PoolStats(p, AtStart(n), makers, Total(fills))

NextEpochPoolStats(p) == PoolStats(p, AllRows, MakersOf(p, Len(events)), 0)

\* Mutant: All fills count for the pool in which their maker is now.
PoolTotalProtocolFeesGeneratedNow(p) ==
    Total(UNION {{i \in FillsIn(n) : events[i].who \in MakersOf(p, Len(events))} : n \in 1 .. CurrentEpochId})
PoolTotalProtocolFeesGenerated(p) ==
    Total(UNION {{i \in FillsIn(n) : events[i].who \in StartMakers(n, p)} : n \in 1 .. CurrentEpochId})

SevenDayProtocolFeesGenerated(p) ==
    Total({i \in Rows("fill") : /\ events[i].at[1] > Now[1] - RecentBlocks
                                /\ events[i].who \in MakersOf(p, Len(events))})

\* Rewards are stamped with the epoch after the one they are paid for.
RewardsOf(p) == {i \in Rows("reward") : events[i].to = p}
\* Mutant: Rewards are taken for those of the epoch they are stamped with.
PaidForStamped(i) == EpochAt(i)
PaidFor(i) == EpochAt(i) - 1

\* A full join of the rewards with the epochs: a past epoch in which only other
\* pools were paid is missing.
PoolEpochRewards(p) ==
    LET past == 1 .. CurrentEpochId - 1 IN
    {[epoch |-> PaidFor(i), total |-> events[i].amount] : i \in {j \in RewardsOf(p) : PaidFor(j) \in past}}
    \cup {[epoch |-> n, total |-> 0] : n \in {k \in past : \A i \in Rows("reward") : PaidFor(i) # k}}

AllTimePoolRewards(p) == Total(RewardsOf(p))
AllTimeStats == Total(Rows("reward"))

\* What the averages are taken of: the rewards, joined with the snapshot of the epoch
\* that they are paid for, what the members had staked then, and their number.  That
\* members have a part of a reward, and how much it is per stake, is left out.
PoolAvgRewards(p) ==
    LET recent == {i \in RewardsOf(p) : /\ EpochAt(i) > CurrentEpochId - 4
                                        /\ PaidFor(i) \in 1 .. CurrentEpochId
                                        /\ p \in Created(StartRow(PaidFor(i)))}
        MemberStake(i) == Staked(Staker \ {OperatorOf[p]}, {p}, AtStart(PaidFor(i)))
    IN <<Total(recent), SumOver(recent, MemberStake), Cardinality(recent)>>

\* A delegator without stake has a row without a pool.
DelegatorStaked(s, rows) ==
    LET pools == {p \in Pool : \E i \in rows \cap Rows("move") :
                     events[i].who = s /\ p \in {events[i].from, events[i].to}} IN
    [overall |-> Staked({s}, Pool, rows),
     poolData |-> IF pools = {} THEN {[pool |-> None, stake |-> 0]}
                  ELSE {[pool |-> p, stake |-> Staked({s}, {p}, rows)] : p \in pools}]

CurrentEpochDelegatorDeposited(s) == Deposited({s}, BeforeEpoch(CurrentEpochId))
\* Mutant: What will be staked in the next epoch is served for the current one.
CurrentEpochDelegatorStakedNext(s) == DelegatorStaked(s, AllRows)
CurrentEpochDelegatorStaked(s) == DelegatorStaked(s, BeforeEpoch(CurrentEpochId))
NextEpochDelegatorDeposited(s) == Deposited({s}, AllRows)
NextEpochDelegatorStaked(s) == DelegatorStaked(s, AllRows)

\* Mutant: Stake that moves from pool to pool is left out.
EventTypeUnmoved(e) ==
    CASE e.kind = "stake" -> "deposited_zrx"
      [] e.kind = "unstake" -> "withdrew_zrx"
      [] e.kind = "move" /\ e.from = None /\ e.to # None -> "staked"
      [] e.kind = "move" /\ e.from # None /\ e.to = None -> "removed_stake"
      [] OTHER -> None

EventType(e) ==
    CASE e.kind = "stake" -> "deposited_zrx"
      [] e.kind = "unstake" -> "withdrew_zrx"
      [] e.kind = "move" /\ e.from = None /\ e.to # None -> "staked"
      [] e.kind = "move" /\ e.from # None /\ e.to = None -> "removed_stake"
      [] e.kind = "move" /\ e.from # None /\ e.to # None -> "moved_stake"
      [] OTHER -> None

\* Earned rewards, which a view of the pipeline shares out, are left out.
DelegatorEvents(s) ==
    {[type |-> EventType(events[i]), row |-> i] :
        i \in {j \in AllRows : events[j].who = s /\ EventType(events[j]) # None}}

-----------------------------------------------------------------------------
(* The chain, as far as the log shows it.                                  *)

Places == {"sameTransaction", "nextTransaction", "nextBlock"}
At(place) ==
    CASE place = "sameTransaction" -> Now
      [] place = "nextTransaction" -> <<Now[1], Now[2] + 1>>
      [] place = "nextBlock" -> <<Now[1] + 1, 0>>

NotFound == request.kind = "pool" /\ request.got # <<>> /\ ~request.got[1]
Answered == request # Idle /\ (Len(request.got) = QueriesOf[request.kind] \/ NotFound)

\* Bounded: the length of the log; what happens after the answer is not explored.
LogGrows == Len(events) < MaxEvents /\ ~Answered

Emits(kind, who, from, to, amount) ==
    \E place \in Places :
        events' = Append(events, [kind |-> kind, who |-> who, from |-> from, to |-> to,
                                  amount |-> amount, at |-> At(place)])

\* ZRX that is staked with a pool, in this epoch or the next, cannot be withdrawn.
Free(s, rows) == Deposited({s}, AllRows) - Staked({s}, Pool, rows)

CreatePool(p) == p \notin PoolInfo /\ Emits("create", OperatorOf[p], None, p, 0)
JoinPool(m, p) ==
    /\ p \in PoolInfo /\ m \notin MakersOf(p, Len(events))
    /\ Emits("join", m, None, p, 0)
Stake(s, amount) == Emits("stake", s, None, None, amount)
Unstake(s, amount) ==
    /\ amount <= Free(s, AllRows) /\ amount <= Free(s, AtStart(CurrentEpochId))
    /\ Emits("unstake", s, None, None, amount)
MoveStake(s, from, to, amount) ==
    /\ from # to
    /\ amount <= (IF from = None THEN Free(s, AllRows) ELSE Staked({s}, {from}, AllRows))
    /\ Emits("move", s, from, to, amount)
Fill(m, fee) == Emits("fill", m, None, None, fee)
\* A pool whose makers paid fees in the epoch before is paid once.
PayReward(p, amount) ==
    /\ \E i \in Rows("fill") :
          EpochAt(i) = CurrentEpochId - 1 /\ events[i].who \in MakersOf(p, i)
    /\ \A i \in RewardsOf(p) : EpochAt(i) < CurrentEpochId
    /\ Emits("reward", None, None, p, amount)
EndEpoch ==
    /\ LogGrows /\ Emits("epoch", None, None, None, 0)
    /\ events'[Len(events')].at # Start(CurrentEpochId)
    /\ request' = [request EXCEPT !.ended = @ \/ request # Idle]

ChainStep ==
    /\ LogGrows
    /\ \/ \E p \in Pool : CreatePool(p)
       \/ \E m \in Maker, p \in Pool : JoinPool(m, p)
       \/ \E s \in Staker, amount \in Amounts : Stake(s, amount) \/ Unstake(s, amount)
       \/ \E s \in Staker, from, to \in PoolInfo \cup {None}, amount \in Amounts :
             MoveStake(s, from, to, amount)
       \/ \E m \in Maker, fee \in Amounts : Fill(m, fee)
       \/ \E p \in PoolInfo, amount \in Amounts : PayReward(p, amount)
    /\ UNCHANGED request

-----------------------------------------------------------------------------
(* A request: its queries, one after the other.                            *)

\* Mutant: A pool without a snapshot at the start of the epoch has no row.
PoolsWithRowsOfEpoch == Created(StartRow(CurrentEpochId))
\* The statistics start from the events that created the pools.
PoolsWithRows == PoolInfo

GetDelegator(s) ==
    << CurrentEpochDelegatorDeposited(s), CurrentEpochDelegatorStaked(s),
       NextEpochDelegatorDeposited(s), NextEpochDelegatorStaked(s) >>
GetStakingPools ==
    LET Table(Query(_)) == [p \in PoolsWithRows |-> Query(p)] IN
    << PoolInfo, Table(CurrentEpochPoolStats), Table(NextEpochPoolStats),
       Table(SevenDayProtocolFeesGenerated), Table(PoolAvgRewards) >>
GetStakingPoolById(p) ==
    << p \in PoolInfo, CurrentEpochPoolStats(p), NextEpochPoolStats(p),
       SevenDayProtocolFeesGenerated(p), PoolAvgRewards(p),
       PoolEpochRewards(p), AllTimePoolRewards(p), PoolTotalProtocolFeesGenerated(p) >>
GetStakingEpochs == << CurrentEpochWithFees, NextEpoch >>

\* Bounded: no request comes when the log is full and stands still.
Ask(kind, id) ==
    /\ kind \in Asked /\ request = Idle /\ Len(events) < MaxEvents
    /\ request' = [Idle EXCEPT !.kind = kind, !.id = id, !.epoch = CurrentEpochId]
    /\ UNCHANGED events

Query ==
    LET k == Len(request.got) + 1
        answers == CASE request.kind = "delegator" -> GetDelegator(request.id)
                     [] request.kind = "pools" -> GetStakingPools
                     [] request.kind = "pool" -> GetStakingPoolById(request.id)
                     [] request.kind = "epochs" -> GetStakingEpochs
    IN
    /\ request # Idle /\ ~Answered
    /\ request' = [request EXCEPT !.got = Append(@, answers[k])]
    /\ UNCHANGED events

Init == events = Genesis /\ request = Idle

Next ==
    \/ ChainStep
    \/ EndEpoch
    \/ \E s \in Staker : Ask("delegator", s)
    \/ \E p \in Pool : Ask("pool", p)
    \/ \E kind \in {"pools", "epochs"} : Ask(kind, None)
    \/ Query

Spec == Init /\ [][Next]_vars

-----------------------------------------------------------------------------
(* Properties.                                                             *)

\* The log and the request are well formed, and no statistic of a pool is negative.
TypeInvariant ==
    /\ TypeOK
    /\ \A p \in PoolInfo : {CurrentEpochPoolStats(p), NextEpochPoolStats(p)} \subseteq PoolStatistics

\* The two ways in which the stake of the current epoch is kept agree: what
\* the delegators staked with a pool before the epoch, from the changes, is the
\* stake of the pool in the contracts' snapshot, unless stake moved in the very
\* transaction that started the epoch; and nobody has more staked than
\* deposited, in this epoch or the next.
BooksAgree ==
    /\ \A p \in PoolInfo :
          \/ \E i \in Rows("move") : events[i].at = Start(CurrentEpochId)
          \/ CurrentEpochPoolStats(p).stake =
                SumOver(Staker, LAMBDA s : SumOver({d \in CurrentEpochDelegatorStaked(s).poolData : d.pool = p},
                                                   LAMBDA d : d.stake))
    /\ \A s \in Staker :
          /\ CurrentEpochDelegatorStaked(s).overall <= CurrentEpochDelegatorDeposited(s)
          /\ NextEpochDelegatorStaked(s).overall <= NextEpochDelegatorDeposited(s)

\* A fill outside the transactions that start an epoch is counted in one epoch
\* and for at most one pool; the pools of the current epoch claim no more fees
\* than were paid in it and in the transaction that started it.
FeesAreCountedOnce ==
    LET boundary == {i \in Rows("fill") : \E n \in 1 .. CurrentEpochId : events[i].at = Start(n)}
        paid == Total(Rows("fill") \ boundary)
        n == CurrentEpochId
    IN
    /\ SumOver(1 .. n, LAMBDA e : EpochNWithFees(e).fees) = paid
    /\ SumOver(PoolInfo, PoolTotalProtocolFeesGenerated) <= paid
    /\ SumOver(PoolInfo, SevenDayProtocolFeesGenerated) <= Total(Rows("fill"))
    /\ SumOver(PoolInfo, LAMBDA p : CurrentEpochPoolStats(p).fees) <=
          CurrentEpochWithFees.fees + Total({i \in boundary : events[i].at = Start(n)})

\* The rewards of a pool by epoch add up to its rewards of all time, an epoch
\* is listed once, and the pools' rewards add up to those of the system.
RewardsAddUp ==
    /\ \A p \in PoolInfo :
          /\ SumOver(PoolEpochRewards(p), LAMBDA r : r.total) = AllTimePoolRewards(p)
          /\ \A r, q \in PoolEpochRewards(p) : r.epoch = q.epoch => r = q
    /\ SumOver(PoolInfo, AllTimePoolRewards) = AllTimeStats

\* No amount is lost or counted twice between the queries by pool, by epoch and
\* in total: neither a fee nor a reward.
AmountsAreCountedOnce == FeesAreCountedOnce /\ RewardsAddUp

\* The history of a delegator explains what the next epoch starts with: the
\* deposits less the withdrawals, and for each pool the stake that came less
\* the stake that left.
EventsExplainBalances ==
    \A s \in Staker :
        LET Of(types) == {e.row : e \in {d \in DelegatorEvents(s) : d.type \in types}}
            came(p) == {i \in Of({"staked", "moved_stake"}) : events[i].to = p}
            left(p) == {i \in Of({"removed_stake", "moved_stake"}) : events[i].from = p}
        IN
        /\ NextEpochDelegatorDeposited(s) = Total(Of({"deposited_zrx"})) - Total(Of({"withdrew_zrx"}))
        /\ \A d \in NextEpochDelegatorStaked(s).poolData :
              d.pool # None => d.stake = Total(came(d.pool)) - Total(left(d.pool))

Done(kind) == request.kind = kind /\ Len(request.got) = QueriesOf[kind]

\* The queries of an answer read different states of the log, but while no
\* epoch ended the parts about the current epoch fit together: a delegator has
\* no more staked than deposited, the next epoch follows the current one, and
\* the pools' stake adds up to that of the epoch of the request.
AnswersAreOfOneEpoch ==
    ~request.ended =>
        /\ Done("delegator") => request.got[2].overall <= request.got[1]
        /\ Done("epochs") => request.got[2].epochId = request.got[1].epochId + 1
        /\ Done("pools") => SumOver(DOMAIN request.got[2], LAMBDA p : request.got[2][p].stake) =
                            EpochNWithFees(request.epoch).staked

\* Each listed pool is found in the maps of statistics that are read after the
\* list, whatever happened in between: the answer is built without a check.
ListedPoolsHaveStats ==
    Done("pools") => \A p \in request.got[1], k \in 2 .. 5 : p \in DOMAIN request.got[k]

\* The answer about one pool is read while fees and rewards keep coming, yet
\* its rewards of all time are no less than those by epoch, and its fees of all
\* time no less than those of the current epoch, but for the fills in the
\* transactions that start an epoch.
PoolAnswerAddsUp ==
    Done("pool") =>
        LET boundary == {i \in Rows("fill") : \E n \in 1 .. CurrentEpochId : events[i].at = Start(n)} IN
        /\ SumOver(request.got[6], LAMBDA r : r.total) <= request.got[7]
        /\ request.got[2].fees <= request.got[8] + Total(boundary)

\* The parts of an answer fit together, although each is read from a later
\* state than the one before.
AnswersFitTogether == AnswersAreOfOneEpoch /\ PoolAnswerAddsUp

\* What is announced for the next epoch is what the current epoch is when it
\* has begun, for each pool, each delegator and in total, unless the epoch
\* ends in the transaction of an earlier event.
NextEpochComesTrue ==
    [][CurrentEpochId' # CurrentEpochId /\ Now' # Now =>
         /\ \A p \in PoolInfo : CurrentEpochPoolStats(p)' = NextEpochPoolStats(p)
         /\ \A s \in Staker :
               /\ CurrentEpochDelegatorDeposited(s)' = NextEpochDelegatorDeposited(s)
               /\ CurrentEpochDelegatorStaked(s)' = NextEpochDelegatorStaked(s)
         /\ CurrentEpochWithFees' = NextEpoch]_vars

\* What is reported of an epoch does not change any more: its deposits and its
\* stake once it has started, its fees once it has ended.
EpochsAreSettled ==
    [][\A n \in 1 .. CurrentEpochId :
         LET before == EpochNWithFees(n)
             after == EpochNWithFees(n)'
         IN
         /\ after.deposited = before.deposited
         /\ after.staked = before.staked
         /\ n < CurrentEpochId => after.fees = before.fees]_vars
=============================================================================
