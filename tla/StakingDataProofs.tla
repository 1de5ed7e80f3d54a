-------------------------- MODULE StakingDataProofs --------------------------
(***************************************************************************)
(* Theorems about StakingData, for every log of the chain and any number   *)
(* of pools, stakers and makers.                                           *)
(***************************************************************************)
EXTENDS StakingData, SumTheorems

(***************************************************************************)
(* The log.  It only grows, in the order of the chain.                     *)
(***************************************************************************)

InOrder == \A i, j \in DOMAIN events : i < j => ~Before(events[j].at, events[i].at)

LogInv ==
    /\ events \in Seq(Event) /\ Len(events) <= MaxEvents /\ InOrder
    /\ Rows("epoch") # {}

\* A step writes at most one event, at a position no earlier than the last one's.
Appended(e) ==
    /\ e \in Event /\ ~Before(e.at, Now)
    /\ Len(events) < MaxEvents
    /\ events' = Append(events, e)

LEMMA LastRow ==
    ASSUME LogInv
    PROVE  /\ Len(events) \in Nat \ {0} /\ DOMAIN events = 1 .. Len(events)
           /\ \A i \in 1 .. Len(events) : events[i] \in Event /\ events[i].at \in Position
           /\ Now \in Position
<1>1. Len(events) \in Nat /\ DOMAIN events = 1 .. Len(events)
    BY DEF LogInv
<1>2. Len(events) # 0
    BY <1>1 DEF LogInv, Rows
<1>3. \A i \in 1 .. Len(events) : events[i] \in Event
    BY <1>1 DEF LogInv
<1>4. \A i \in 1 .. Len(events) : events[i].at \in Position
    BY <1>3 DEF Event
<1> QED
    BY <1>1, <1>2, <1>3, <1>4 DEF Now

LEMMA EmitsAppends ==
    ASSUME LogInv, LogGrows, NEW kind \in Kinds, NEW who \in Staker \cup Maker \cup {None},
           NEW from \in Pool \cup {None}, NEW to \in Pool \cup {None}, NEW amount \in Nat,
           Emits(kind, who, from, to, amount)
    PROVE  \E e \in Event : /\ Appended(e)
                            /\ e.kind = kind /\ e.who = who /\ e.from = from /\ e.to = to
                            /\ e.amount = amount
<1>1. Now \in Position
    BY LastRow
<1>2. PICK place \in Places :
          events' = Append(events, [kind |-> kind, who |-> who, from |-> from, to |-> to,
                                    amount |-> amount, at |-> At(place)])
    BY DEF Emits
<1>3. At(place) \in Position /\ ~Before(At(place), Now)
    BY <1>1 DEF Places, At, Position, Before
<1> DEFINE e == [kind |-> kind, who |-> who, from |-> from, to |-> to, amount |-> amount,
                 at |-> At(place)]
<1>4. e \in Event
    BY <1>3 DEF Event
<1>5. Len(events) < MaxEvents
    BY DEF LogGrows
<1> QED
    BY <1>2, <1>3, <1>4, <1>5 DEF Appended

\* What the contracts check before they write an event.
Checked(e) ==
    /\ e.kind = "create" => e.to \in Pool
    /\ e.kind = "move" =>
          /\ e.who \in Staker /\ {e.from, e.to} \subseteq PoolInfo \cup {None} /\ e.from # e.to
          /\ e.amount <= (IF e.from = None THEN Free(e.who, AllRows)
                                           ELSE Staked({e.who}, {e.from}, AllRows))
    /\ e.kind = "unstake" => e.amount <= Free(e.who, AllRows)
    /\ e.kind = "reward" =>
          /\ e.to \in PoolInfo
          /\ \E i \in Rows("fill") : EpochAt(i) = CurrentEpochId - 1
          /\ \A i \in RewardsOf(e.to) : EpochAt(i) < CurrentEpochId

LEMMA EndEpochAppends ==
    ASSUME LogInv, EndEpoch
    PROVE  \E e \in Event : Appended(e) /\ Checked(e) /\ e.kind = "epoch"
<1>1. LogGrows /\ Emits("epoch", None, None, None, 0) /\ "epoch" \in Kinds /\ 0 \in Nat
    BY DEF EndEpoch, Kinds
<1>2. None \in Staker \cup Maker \cup {None} /\ None \in Pool \cup {None}
    OBVIOUS
<1>3. PICK e \in Event : Appended(e) /\ e.kind = "epoch"
    BY <1>1, <1>2, EmitsAppends
<1> QED
    BY <1>3 DEF Checked

\* An event as it is written by a step; an epoch's by EndEpoch alone.
Written(e) == Appended(e) /\ Checked(e) /\ (e.kind = "epoch" => EndEpoch)

LEMMA NextWrites ==
    ASSUME LogInv, [Next]_vars
    PROVE  UNCHANGED events \/ \E e \in Event : Written(e)
<1>1. PoolInfo \subseteq Pool \cup {None}
    BY LastRow DEF PoolInfo, Created, Rows, Event
<1>2. {"create", "join", "stake", "unstake", "move", "fill", "reward", "epoch"} = Kinds
    BY DEF Kinds
<1>3. 0 \in Nat /\ Amounts \subseteq Nat
    BY StakingAssumption
<1>4. ASSUME LogGrows, NEW p \in Pool, CreatePool(p)
      PROVE  \E e \in Event : Appended(e) /\ Checked(e) /\ e.kind # "epoch"
    <2>1. PICK who \in Staker : who = OperatorOf[p]
        BY StakingAssumption
    <2>2. Emits("create", who, None, p, 0) /\ "create" \in Kinds
        BY <1>2, <1>4, <2>1 DEF CreatePool
    <2>3. PICK e \in Event : Appended(e) /\ e.kind = "create" /\ e.to = p
        <3>1. who \in Staker \cup Maker \cup {None} /\ p \in Pool \cup {None}
            OBVIOUS
        <3> QED
            BY <1>3, <1>4, <2>2, <3>1, EmitsAppends
    <2> QED
        BY <2>3 DEF Checked
<1>5. ASSUME LogGrows, NEW m \in Maker, NEW p \in Pool, JoinPool(m, p)
      PROVE  \E e \in Event : Appended(e) /\ Checked(e) /\ e.kind # "epoch"
    BY <1>2, <1>3, <1>5, EmitsAppends DEF JoinPool, Checked
<1>6. ASSUME LogGrows, NEW s \in Staker, NEW amount \in Amounts,
             Stake(s, amount) \/ Unstake(s, amount)
      PROVE  \E e \in Event : Appended(e) /\ Checked(e) /\ e.kind # "epoch"
    <2>1. CASE Stake(s, amount)
        BY <1>2, <1>3, <1>6, <2>1, EmitsAppends DEF Stake, Checked
    <2>2. CASE Unstake(s, amount)
        <3>1. PICK e \in Event : Appended(e) /\ e.kind = "unstake" /\ e.who = s /\ e.amount = amount
            <4>1. Emits("unstake", s, None, None, amount) /\ "unstake" \in Kinds /\ amount \in Nat
                BY <1>2, <1>3, <2>2 DEF Unstake
            <4>2. s \in Staker \cup Maker \cup {None} /\ None \in Pool \cup {None}
                OBVIOUS
            <4> QED
                BY <1>6, <4>1, <4>2, EmitsAppends
        <3>2. amount <= Free(s, AllRows)
            BY <2>2 DEF Unstake
        <3> QED
            BY <3>1, <3>2 DEF Checked
    <2> QED
        BY <1>6, <2>1, <2>2
<1>7. ASSUME LogGrows, NEW s \in Staker, NEW from \in PoolInfo \cup {None},
             NEW to \in PoolInfo \cup {None}, NEW amount \in Amounts,
             MoveStake(s, from, to, amount)
      PROVE  \E e \in Event : Appended(e) /\ Checked(e) /\ e.kind # "epoch"
    <2>1. PICK e \in Event : /\ Appended(e)
                             /\ e.kind = "move" /\ e.who = s /\ e.from = from /\ e.to = to
                             /\ e.amount = amount
        <3>1. Emits("move", s, from, to, amount) /\ "move" \in Kinds
            BY <1>2, <1>7 DEF MoveStake
        <3>2. /\ s \in Staker \cup Maker \cup {None} /\ amount \in Nat
              /\ from \in Pool \cup {None} /\ to \in Pool \cup {None}
            BY <1>1, <1>3
        <3> QED
            BY <1>7, <3>1, <3>2, EmitsAppends, SMTT(30)
    <2>2. /\ from # to
          /\ amount <= (IF from = None THEN Free(s, AllRows) ELSE Staked({s}, {from}, AllRows))
        BY <1>7 DEF MoveStake
    <2> QED
        BY <2>1, <2>2 DEF Checked
<1>8. ASSUME LogGrows, NEW m \in Maker, NEW fee \in Amounts, Fill(m, fee)
      PROVE  \E e \in Event : Appended(e) /\ Checked(e) /\ e.kind # "epoch"
    BY <1>2, <1>3, <1>8, EmitsAppends DEF Fill, Checked
<1>9. ASSUME LogGrows, NEW p \in PoolInfo, NEW amount \in Amounts, PayReward(p, amount)
      PROVE  \E e \in Event : Appended(e) /\ Checked(e) /\ e.kind # "epoch"
    <2>1. PICK e \in Event : Appended(e) /\ e.kind = "reward" /\ e.to = p
        <3>1. Emits("reward", None, None, p, amount) /\ "reward" \in Kinds
            BY <1>2, <1>9 DEF PayReward
        <3>2. p \in Pool \cup {None} /\ amount \in Nat
            BY <1>1, <1>3
        <3> QED
            BY <1>9, <3>1, <3>2, EmitsAppends
    <2>2. /\ \E i \in Rows("fill") : EpochAt(i) = CurrentEpochId - 1
          /\ \A i \in RewardsOf(p) : EpochAt(i) < CurrentEpochId
        BY <1>9 DEF PayReward
    <2> QED
        BY <2>1, <2>2 DEF Checked
<1> DEFINE Goal == \E e \in Event : Written(e)
<1> HIDE DEF Goal
<1>10. ASSUME ChainStep PROVE Goal
    <2>0. LogGrows
        BY <1>10 DEF ChainStep
    <2>1. CASE \E p \in Pool : CreatePool(p)
        BY <1>4, <2>1, <2>0 DEF Goal, Written
    <2>2. CASE \E m \in Maker, p \in Pool : JoinPool(m, p)
        BY <1>5, <2>2, <2>0 DEF Goal, Written
    <2>3. CASE \E s \in Staker, amount \in Amounts : Stake(s, amount) \/ Unstake(s, amount)
        BY <1>6, <2>3, <2>0 DEF Goal, Written
    <2>4. CASE \E s \in Staker, from, to \in PoolInfo \cup {None}, amount \in Amounts :
                  MoveStake(s, from, to, amount)
        BY <1>7, <2>4, <2>0 DEF Goal, Written
    <2>5. CASE \E m \in Maker, fee \in Amounts : Fill(m, fee)
        BY <1>8, <2>5, <2>0 DEF Goal, Written
    <2>6. CASE \E p \in PoolInfo, amount \in Amounts : PayReward(p, amount)
        BY <1>9, <2>6, <2>0 DEF Goal, Written
    <2> QED
        BY <1>10, <2>1, <2>2, <2>3, <2>4, <2>5, <2>6 DEF ChainStep
<1>11. ASSUME EndEpoch PROVE Goal
    BY <1>11, EndEpochAppends DEF Goal, Written
<1>12. ASSUME \/ \E kind, id : Ask(kind, id)
              \/ Query \/ UNCHANGED vars
       PROVE  UNCHANGED events
    BY <1>12 DEF Ask, Query, vars
<1>13. UNCHANGED events \/ Goal
    BY <1>10, <1>11, <1>12 DEF Next
<1> QED
    BY <1>13 DEF Goal

LEMMA NextAppends ==
    ASSUME LogInv, [Next]_vars
    PROVE  UNCHANGED events \/ \E e \in Event : Appended(e) /\ Checked(e)
BY NextWrites DEF Written

\* What an event that is written leaves as it was.
LEMMA RowsAfter ==
    ASSUME LogInv, NEW e, Appended(e)
    PROVE  LET n == Len(events) IN
           /\ n \in Nat /\ Len(events') = n + 1 /\ DOMAIN events' = 1 .. n + 1
           /\ \A i \in 1 .. n : events'[i] = events[i]
           /\ events'[n + 1] = e /\ Now' = e.at
           /\ events' \in Seq(Event)
           /\ \A kind : Rows(kind)' = Rows(kind) \cup (IF e.kind = kind THEN {n + 1} ELSE {})
<1> DEFINE n == Len(events)
<1>1. n \in Nat /\ DOMAIN events = 1 .. n
    BY LastRow
<1>2. /\ Len(events') = n + 1 /\ DOMAIN events' = 1 .. n + 1
      /\ \A i \in 1 .. n : events'[i] = events[i]
      /\ events'[n + 1] = e /\ events' \in Seq(Event)
    BY <1>1 DEF LogInv, Appended
<1>3. \A kind : Rows(kind)' = Rows(kind) \cup (IF e.kind = kind THEN {n + 1} ELSE {})
    BY <1>1, <1>2 DEF Rows
<1> QED
    BY <1>1, <1>2, <1>3 DEF Now

LEMMA LaterRows ==
    ASSUME LogInv, NEW i \in DOMAIN events
    PROVE  ~Before(Now, events[i].at)
<1>1. i \in 1 .. Len(events) /\ Len(events) \in Nat \ {0} /\ DOMAIN events = 1 .. Len(events)
    BY LastRow
<1>2. CASE i = Len(events)
    BY <1>2, LastRow DEF Now, Before, Position
<1>3. CASE i < Len(events)
    BY <1>1, <1>3 DEF LogInv, InOrder, Now
<1> QED
    BY <1>1, <1>2, <1>3

LEMMA BeforeIsTransitive ==
    ASSUME NEW a \in Position, NEW b \in Position, NEW c \in Position
    PROVE  /\ ~Before(a, a)
           /\ ~Before(b, a) /\ ~Before(c, b) => ~Before(c, a)
           /\ Before(a, b) /\ ~Before(c, b) => Before(a, c)
           /\ ~Before(b, a) /\ a # b => Before(a, b)
BY DEF Position, Before

LEMMA InitLogInv == Init => LogInv
<1> SUFFICES ASSUME Init PROVE LogInv
    OBVIOUS
<1>1. Genesis \in Seq(Event) /\ Genesis # <<>>
    BY StakingAssumption
<1>2. Len(Genesis) \in DOMAIN Genesis
    BY <1>1
<1> QED
    BY <1>1, <1>2, StakingAssumption DEF Init, LogInv, InOrder, Rows

LEMMA NextKeepsLogInv == LogInv /\ [Next]_vars => LogInv'
<1> SUFFICES ASSUME LogInv, [Next]_vars PROVE LogInv'
    OBVIOUS
<1>1. CASE UNCHANGED events
    BY <1>1 DEF LogInv, InOrder, Rows
<1>2. ASSUME NEW e \in Event, Appended(e) PROVE LogInv'
    <2> DEFINE n == Len(events)
    <2>1. /\ n \in Nat /\ Len(events') = n + 1 /\ DOMAIN events' = 1 .. n + 1
          /\ \A i \in 1 .. n : events'[i] = events[i]
          /\ events'[n + 1] = e /\ events' \in Seq(Event)
          /\ Rows("epoch") \subseteq Rows("epoch")'
        BY <1>2, RowsAfter
    <2>2. n < MaxEvents /\ MaxEvents \in Nat
        BY <1>2, StakingAssumption DEF Appended
    <2>3. \A i \in 1 .. n : ~Before(e.at, events[i].at)
        <3> TAKE i \in 1 .. n
        <3>1. ~Before(Now, events[i].at) /\ ~Before(e.at, Now)
            BY <1>2, LastRow, LaterRows DEF Appended
        <3>2. e.at \in Position /\ Now \in Position /\ events[i].at \in Position
            BY <1>2, LastRow DEF Event
        <3> QED
            BY <3>1, <3>2, BeforeIsTransitive
    <2>4. InOrder'
        <3> SUFFICES ASSUME NEW i \in 1 .. n + 1, NEW j \in 1 .. n + 1, i < j
                     PROVE  ~Before(events'[j].at, events'[i].at)
            BY <2>1 DEF InOrder
        <3>1. i \in 1 .. n /\ events'[i] = events[i]
            BY <2>1
        <3>2. CASE j = n + 1
            BY <2>1, <2>3, <3>1, <3>2
        <3>3. CASE j # n + 1
            <4>1. j \in 1 .. n /\ events'[j] = events[j] /\ 1 .. n = DOMAIN events
                BY <2>1, <3>3, LastRow
            <4> QED
                BY <3>1, <4>1 DEF LogInv, InOrder
        <3> QED
            BY <3>2, <3>3
    <2> QED
        BY <2>1, <2>2, <2>4 DEF LogInv
<1> QED
    BY <1>1, <1>2, NextAppends

(***************************************************************************)
(* The epochs are numbered in the order of the log, without gaps.          *)
(***************************************************************************)

EpochsCount ==
    /\ IsFiniteSet(Rows("epoch")) /\ CurrentEpochId \in Nat \ {0}
    /\ \A i \in DOMAIN events : EpochAt(i) \in 0 .. CurrentEpochId
    /\ \A i \in Rows("epoch") : EpochAt(i) \in 1 .. CurrentEpochId
    /\ \A i, j \in Rows("epoch") : i < j => EpochAt(i) < EpochAt(j)

\* Each epoch has one row that starts it.
EpochsStart ==
    \A n \in 1 .. CurrentEpochId :
        /\ StartRow(n) \in Rows("epoch") /\ EpochAt(StartRow(n)) = n
        /\ \A i \in Rows("epoch") : EpochAt(i) = n => i = StartRow(n)

LEMMA EpochsAreCounted == LogInv => EpochsCount
<1> SUFFICES ASSUME LogInv PROVE EpochsCount
    OBVIOUS
<1> DEFINE E == Rows("epoch")
           Until(i) == {j \in E : j <= i}
<1>1. E \subseteq 1 .. Len(events) /\ Len(events) \in Nat /\ DOMAIN events = 1 .. Len(events)
    BY LastRow DEF Rows
<1>2. IsFiniteSet(E) /\ E # {}
    <2>1. IsFiniteSet(1 .. Len(events))
        BY <1>1, FS_Interval
    <2> QED
        BY <1>1, <2>1, FS_Subset DEF LogInv
<1>3. Cardinality(E) \in Nat \ {0}
    BY <1>2, FS_CardinalityType, FS_EmptySet
<1>4. \A i : IsFiniteSet(Until(i)) /\ Cardinality(Until(i)) \in Nat
             /\ Cardinality(Until(i)) <= Cardinality(E)
    BY <1>2, FS_Subset, FS_CardinalityType
<1>5. \A i \in E : Cardinality(Until(i)) # 0
    <2> TAKE i \in E
    <2>1. i \in Until(i)
        BY <1>1
    <2>2. IsFiniteSet(Until(i)) /\ Until(i) # {}
        BY <1>4, <2>1
    <2> HIDE DEF Until
    <2> QED
        BY <2>2, FS_EmptySet
<1>6. ASSUME NEW i \in E, NEW j \in E, i < j
      PROVE  Cardinality(Until(i)) < Cardinality(Until(j))
    <2>1. Until(i) \subseteq Until(j) /\ j \in Until(j) /\ j \notin Until(i)
        BY <1>1, <1>6
    <2>2. /\ Cardinality(Until(i)) <= Cardinality(Until(j))
          /\ Cardinality(Until(j)) = Cardinality(Until(i)) => Until(j) = Until(i)
        BY <1>4, <2>1, FS_Subset
    <2> QED
        BY <1>4, <2>1, <2>2
<1>7. /\ CurrentEpochId = Cardinality(E)
      /\ \A i : EpochAt(i) = Cardinality(Until(i))
    BY DEF CurrentEpochId, EpochAt
<1> HIDE DEF E, Until
<1>8. \A i : EpochAt(i) \in 0 .. CurrentEpochId
    BY <1>3, <1>4, <1>7
<1>9. \A i \in E : EpochAt(i) \in 1 .. CurrentEpochId
    BY <1>3, <1>5, <1>7, <1>8
<1>10. \A i, j \in E : i < j => EpochAt(i) < EpochAt(j)
    BY <1>6, <1>7
<1> QED
    BY <1>2, <1>3, <1>7, <1>8, <1>9, <1>10 DEF EpochsCount, E

LEMMA EpochsHaveStarts == LogInv => EpochsStart
<1> SUFFICES ASSUME LogInv PROVE EpochsStart
    OBVIOUS
<1> DEFINE E == Rows("epoch")
           f == [i \in E |-> EpochAt(i)]
<1>1. /\ IsFiniteSet(E) /\ CurrentEpochId \in Nat \ {0}
      /\ \A i \in E : EpochAt(i) \in 1 .. CurrentEpochId
      /\ \A i, j \in E : i < j => EpochAt(i) < EpochAt(j)
      /\ Cardinality(E) = CurrentEpochId
    BY EpochsAreCounted DEF EpochsCount, CurrentEpochId
<1>2. \A i, j \in E : i # j => EpochAt(i) # EpochAt(j)
    <2>1. E \subseteq Nat
        BY LastRow DEF Rows
    <2> SUFFICES ASSUME NEW i \in E, NEW j \in E, i # j
                 PROVE  EpochAt(i) # EpochAt(j)
        OBVIOUS
    <2>2. i < j \/ j < i
        BY <2>1
    <2>3. EpochAt(i) \in Nat /\ EpochAt(j) \in Nat
        BY <1>1
    <2> QED
        BY <1>1, <2>2, <2>3
<1>3. f \in Injection(E, 1 .. CurrentEpochId)
    BY <1>1, <1>2 DEF Injection, IsInjective
<1>4. f \in Surjection(E, 1 .. CurrentEpochId)
    BY <1>1, <1>3, FS_Interval, FS_Injection
<1>5. \A n \in 1 .. CurrentEpochId : \E i \in E : EpochAt(i) = n
    BY <1>4 DEF Surjection
<1> QED
    BY <1>2, <1>5 DEF StartRow, EpochsStart

LEMMA EpochsAfterwards == LogInv' => EpochsCount' /\ EpochsStart'
BY EpochsAreCounted, EpochsHaveStarts, PTL

\* What is known of the epochs does not change when an event is written, and a
\* new epoch starts with its event.
LEMMA EpochsAfter ==
    ASSUME LogInv, LogInv', NEW e \in Event, Appended(e)
    PROVE  /\ CurrentEpochId' = CurrentEpochId + (IF e.kind = "epoch" THEN 1 ELSE 0)
           /\ \A i \in DOMAIN events : EpochAt(i)' = EpochAt(i)
           /\ \A n \in 1 .. CurrentEpochId : StartRow(n)' = StartRow(n) /\ Start(n)' = Start(n)
           /\ \A n : e.kind = "epoch" /\ n = CurrentEpochId + 1 =>
                         StartRow(n)' = Len(events') /\ Start(n)' = Now'
<1> DEFINE N == Len(events)
           E == Rows("epoch")
<1>1. /\ N \in Nat /\ Len(events') = N + 1 /\ DOMAIN events' = 1 .. N + 1
      /\ \A i \in 1 .. N : events'[i] = events[i]
      /\ E' = E \cup (IF e.kind = "epoch" THEN {N + 1} ELSE {})
    BY RowsAfter
<1>2. DOMAIN events = 1 .. N /\ E \subseteq 1 .. N /\ IsFiniteSet(E)
    BY LastRow, EpochsAreCounted DEF Rows, EpochsCount
<1>3. CurrentEpochId \in Nat /\ CurrentEpochId' \in Nat
    BY EpochsAreCounted, EpochsAfterwards DEF EpochsCount
<1>4. CurrentEpochId' = CurrentEpochId + (IF e.kind = "epoch" THEN 1 ELSE 0)
    <2>1. N + 1 \notin E
        BY <1>1, <1>2
    <2>2. Cardinality(E \cup {N + 1}) = Cardinality(E) + 1
        BY <1>2, <2>1, FS_AddElement
    <2>3. CurrentEpochId = Cardinality(E) /\ CurrentEpochId' = Cardinality(E')
        BY DEF CurrentEpochId
    <2>4. CASE e.kind = "epoch"
        <3>1. E' = E \cup {N + 1}
            BY <1>1, <2>4
        <3> QED
            BY <2>2, <2>3, <2>4, <3>1
    <2>5. CASE e.kind # "epoch"
        <3>1. E' = E
            BY <1>1, <2>5
        <3>2. CurrentEpochId' = CurrentEpochId
            BY <2>3, <3>1
        <3> QED
            BY <1>3, <2>5, <3>2
    <2> QED
        BY <2>4, <2>5
<1>5. ASSUME NEW i \in 1 .. N PROVE EpochAt(i)' = EpochAt(i)
    <2>1. {j \in E' : j <= i} = {j \in E : j <= i}
        BY <1>1, <1>2
    <2> QED
        BY <2>1 DEF EpochAt
<1>6. ASSUME NEW m \in 1 .. CurrentEpochId
      PROVE  StartRow(m)' = StartRow(m) /\ Start(m)' = Start(m)
    <2>1. PICK row \in E : row = StartRow(m) /\ EpochAt(row) = m
        BY EpochsHaveStarts DEF EpochsStart
    <2>2. row \in E' /\ EpochAt(row)' = m /\ row \in 1 .. N
        BY <1>1, <1>2, <1>5, <2>1
    <2>3. m \in 1 .. CurrentEpochId'
        BY <1>3, <1>4
    <2>4. StartRow(m)' = row
        BY <2>2, <2>3, EpochsAfterwards DEF EpochsStart
    <2> QED
        BY <1>1, <2>1, <2>2, <2>4 DEF Start
<1>7. ASSUME e.kind = "epoch", NEW n, n = CurrentEpochId + 1
      PROVE  StartRow(n)' = N + 1 /\ Start(n)' = Now'
    <2>1. PICK row \in E' : row = N + 1
        BY <1>1, <1>7
    <2>2. EpochAt(row)' = n
        <3>1. {j \in E' : j <= row} = E'
            BY <1>1, <1>2, <2>1
        <3>2. CurrentEpochId' = n
            BY <1>3, <1>4, <1>7
        <3> QED
            BY <3>1, <3>2 DEF EpochAt, CurrentEpochId
    <2>3. n \in 1 .. CurrentEpochId'
        BY <1>3, <1>4, <1>7
    <2>4. StartRow(n)' = row
        BY <2>1, <2>2, <2>3, EpochsAfterwards DEF EpochsStart
    <2> QED
        BY <1>1, <2>1, <2>4 DEF Start, Now
<1> QED
    BY <1>1, <1>2, <1>4, <1>5, <1>6, <1>7

(***************************************************************************)
(* The history of a delegator.                                             *)
(***************************************************************************)

LEMMA TypesOfEvents ==
    ASSUME NEW e \in Event
    PROVE  /\ EventType(e) = "deposited_zrx" <=> e.kind = "stake"
           /\ EventType(e) = "withdrew_zrx" <=> e.kind = "unstake"
           /\ EventType(e) \in {"staked", "moved_stake"} <=> e.kind = "move" /\ e.to # None
           /\ EventType(e) \in {"removed_stake", "moved_stake"} <=> e.kind = "move" /\ e.from # None
<1>2. None \notin {"deposited_zrx", "withdrew_zrx", "staked", "removed_stake", "moved_stake"}
    BY StakingAssumption DEF EventTypes
<1>3. CASE e.kind = "stake"
    BY <1>3 DEF EventType
<1>4. CASE e.kind = "unstake"
    BY <1>4 DEF EventType
<1>5. CASE e.kind = "move"
    <2>1. CASE e.from = None /\ e.to # None
        BY <1>2, <1>5, <2>1 DEF EventType
    <2>2. CASE e.from # None /\ e.to = None
        BY <1>2, <1>5, <2>2 DEF EventType
    <2>3. CASE e.from # None /\ e.to # None
        BY <1>2, <1>5, <2>3 DEF EventType
    <2>4. CASE e.from = None /\ e.to = None
        BY <1>2, <1>5, <2>4 DEF EventType
    <2> QED
        BY <2>1, <2>2, <2>3, <2>4
<1>6. CASE e.kind \notin {"stake", "unstake", "move"}
    BY <1>2, <1>6 DEF EventType
<1> QED
    BY <1>3, <1>4, <1>5, <1>6

LEMMA HistoryExplains == LogInv => EventsExplainBalances
<1> SUFFICES ASSUME LogInv, NEW s \in Staker
             PROVE  LET Of(types) == {e.row : e \in {d \in DelegatorEvents(s) : d.type \in types}}
                        came(p) == {i \in Of({"staked", "moved_stake"}) : events[i].to = p}
                        left(p) == {i \in Of({"removed_stake", "moved_stake"}) : events[i].from = p}
                    IN
                    /\ NextEpochDelegatorDeposited(s) =
                          Total(Of({"deposited_zrx"})) - Total(Of({"withdrew_zrx"}))
                    /\ \A d \in NextEpochDelegatorStaked(s).poolData :
                          d.pool # None => d.stake = Total(came(d.pool)) - Total(left(d.pool))
    BY DEF EventsExplainBalances
<1> DEFINE Of(types) == {e.row : e \in {d \in DelegatorEvents(s) : d.type \in types}}
           came(p) == {i \in Of({"staked", "moved_stake"}) : events[i].to = p}
           left(p) == {i \in Of({"removed_stake", "moved_stake"}) : events[i].from = p}
<1>1. \A i \in AllRows : events[i] \in Event
    BY LastRow DEF AllRows
<1>2. ASSUME NEW types, None \notin types
      PROVE  Of(types) = {i \in AllRows : events[i].who = s /\ EventType(events[i]) \in types}
    <2> DEFINE mine == {j \in AllRows : events[j].who = s /\ EventType(events[j]) # None}
               row(i) == [type |-> EventType(events[i]), row |-> i]
    <2>1. DelegatorEvents(s) = {row(i) : i \in mine}
        BY DEF DelegatorEvents
    <2>2. \A i : row(i).type = EventType(events[i]) /\ row(i).row = i
        OBVIOUS
    <2> HIDE DEF row
    <2>3. Of(types) = {i \in mine : EventType(events[i]) \in types}
        BY <2>1, <2>2
    <2> QED
        BY <1>2, <2>3
<1>3. \A t \in {"deposited_zrx", "withdrew_zrx", "staked", "removed_stake", "moved_stake"} : None # t
    BY StakingAssumption DEF EventTypes
<1>4. \A i \in AllRows : /\ EventType(events[i]) = "deposited_zrx" <=> events[i].kind = "stake"
                         /\ EventType(events[i]) = "withdrew_zrx" <=> events[i].kind = "unstake"
                         /\ EventType(events[i]) \in {"staked", "moved_stake"}
                            <=> events[i].kind = "move" /\ events[i].to # None
                         /\ EventType(events[i]) \in {"removed_stake", "moved_stake"}
                            <=> events[i].kind = "move" /\ events[i].from # None
    BY <1>1, TypesOfEvents
<1>5. Of({"deposited_zrx"}) = {i \in {j \in AllRows : events[j].who \in {s}} : events[i].kind = "stake"}
    <2>1. Of({"deposited_zrx"}) = {i \in AllRows : events[i].who = s
                                                   /\ EventType(events[i]) \in {"deposited_zrx"}}
        BY <1>2, <1>3
    <2> HIDE DEF Of
    <2> QED
        BY <1>4, <2>1
<1>6. Of({"withdrew_zrx"}) = {i \in {j \in AllRows : events[j].who \in {s}} : events[i].kind = "unstake"}
    <2>1. Of({"withdrew_zrx"}) = {i \in AllRows : events[i].who = s
                                                   /\ EventType(events[i]) \in {"withdrew_zrx"}}
        BY <1>2, <1>3
    <2> HIDE DEF Of
    <2> QED
        BY <1>4, <2>1
<1>7. NextEpochDelegatorDeposited(s) = Total(Of({"deposited_zrx"})) - Total(Of({"withdrew_zrx"}))
    <2> HIDE DEF Of
    <2> QED
        BY <1>5, <1>6 DEF NextEpochDelegatorDeposited, Deposited
<1> DEFINE moves == {i \in AllRows : events[i].kind = "move" /\ events[i].who \in {s}}
<1>8. ASSUME NEW p \in Pool
      PROVE  /\ came(p) = {i \in moves : events[i].to \in {p}}
             /\ left(p) = {i \in moves : events[i].from \in {p}}
    <2>1. p # None
        BY StakingAssumption
    <2>2. Of({"staked", "moved_stake"}) =
             {i \in AllRows : events[i].who = s /\ EventType(events[i]) \in {"staked", "moved_stake"}}
        BY <1>2, <1>3
    <2>3. Of({"removed_stake", "moved_stake"}) =
             {i \in AllRows : events[i].who = s /\ EventType(events[i]) \in {"removed_stake", "moved_stake"}}
        BY <1>2, <1>3
    <2> HIDE DEF Of
    <2> QED
        BY <1>4, <2>1, <2>2, <2>3
<1>9. ASSUME NEW d \in NextEpochDelegatorStaked(s).poolData, d.pool # None
      PROVE  d.stake = Total(came(d.pool)) - Total(left(d.pool))
    <2>1. PICK p \in Pool : d = [pool |-> p, stake |-> Staked({s}, {p}, AllRows)]
        <3> DEFINE pools == {p \in Pool : \E i \in AllRows \cap Rows("move") :
                                events[i].who = s /\ p \in {events[i].from, events[i].to}}
        <3>1. NextEpochDelegatorStaked(s).poolData =
                 IF pools = {} THEN {[pool |-> None, stake |-> 0]}
                 ELSE {[pool |-> p, stake |-> Staked({s}, {p}, AllRows)] : p \in pools}
            BY DEF NextEpochDelegatorStaked, DelegatorStaked
        <3>2. pools \subseteq Pool
            OBVIOUS
        <3> HIDE DEF pools
        <3>3. NextEpochDelegatorStaked(s).poolData # {[pool |-> None, stake |-> 0]}
            BY <1>9
        <3>4. NextEpochDelegatorStaked(s).poolData =
                 {[pool |-> p, stake |-> Staked({s}, {p}, AllRows)] : p \in pools}
            BY <3>1, <3>3
        <3> QED
            BY <1>9, <3>2, <3>4
    <2>2. /\ d.pool = p /\ d.stake = Staked({s}, {p}, AllRows)
          /\ came(p) = {i \in moves : events[i].to \in {p}}
          /\ left(p) = {i \in moves : events[i].from \in {p}}
        BY <1>8, <2>1
    <2> HIDE DEF came, left
    <2> QED
        BY <2>2 DEF Staked
<1> QED
    BY <1>7, <1>9

(***************************************************************************)
(* Requests.                                                               *)
(***************************************************************************)

\* The shape of a request; its answers can be anything.
RequestFits ==
    /\ \E S : request \in [kind : Requests \cup {None}, id : Staker \cup Pool \cup {None},
                           got : Seq(S), epoch : Nat, ended : BOOLEAN]
    /\ request.kind = None <=> request = Idle
    /\ request.kind # None => Len(request.got) <= QueriesOf[request.kind]
    /\ request.kind = "delegator" => request.id \in Staker
    /\ request.kind = "pool" => request.id \in Pool

\* The answer to the next query of the request.
Answers ==
    CASE request.kind = "delegator" -> GetDelegator(request.id)
      [] request.kind = "pools" -> GetStakingPools
      [] request.kind = "pool" -> GetStakingPoolById(request.id)
      [] request.kind = "epochs" -> GetStakingEpochs

LEMMA NoneIsNoKind == None \notin Requests /\ Idle.kind = None /\ Idle.got = <<>>
BY StakingAssumption DEF Idle

LEMMA QueriesAreCounted == \A kind \in Requests : QueriesOf[kind] \in 1 .. 8
<1>1. /\ DOMAIN QueriesOf = Requests
      /\ QueriesOf["delegator"] = 4 /\ QueriesOf["pools"] = 5
      /\ QueriesOf["pool"] = 8 /\ QueriesOf["epochs"] = 2
    BY DEF QueriesOf, Requests
<1> QED
    BY <1>1 DEF Requests

\* What a query does to a request.
LEMMA QueryAnswers ==
    ASSUME RequestFits, Query
    PROVE  LET k == Len(request.got) + 1 IN
           /\ request.kind \in Requests /\ UNCHANGED events
           /\ Len(request.got) \in Nat /\ k <= QueriesOf[request.kind]
           /\ request'.kind = request.kind /\ request'.id = request.id
           /\ request'.epoch = request.epoch /\ request'.ended = request.ended
           /\ Len(request'.got) = k
           /\ \A i \in 1 .. Len(request.got) : request'.got[i] = request.got[i]
           /\ request'.got[k] = Answers[k]
           /\ RequestFits'
<1> DEFINE k == Len(request.got) + 1
<1>1. PICK S : request \in [kind : Requests \cup {None}, id : Staker \cup Pool \cup {None},
                            got : Seq(S), epoch : Nat, ended : BOOLEAN]
    BY DEF RequestFits
<1>2. request # Idle /\ ~Answered /\ UNCHANGED events
      /\ request' = [request EXCEPT !.got = Append(@, Answers[k])]
    BY DEF Query, Answers
<1>3. request.kind \in Requests
    BY <1>1, <1>2 DEF RequestFits
<1>4. Len(request.got) \in Nat /\ k <= QueriesOf[request.kind]
    <2>1. Len(request.got) \in Nat /\ QueriesOf[request.kind] \in 1 .. 8
        BY <1>1, <1>3, QueriesAreCounted
    <2>2. Len(request.got) <= QueriesOf[request.kind] /\ Len(request.got) # QueriesOf[request.kind]
        BY <1>2, <1>3, NoneIsNoKind DEF RequestFits, Answered
    <2> QED
        BY <2>1, <2>2
<1> DEFINE T == S \cup {Answers[k]}
           new == Append(request.got, Answers[k])
<1>5. /\ new \in Seq(T) /\ Len(new) = k /\ new[k] = Answers[k]
      /\ \A i \in 1 .. Len(request.got) : new[i] = request.got[i]
    <2>1. request.got \in Seq(T)
        BY <1>1
    <2>2. Answers[k] \in T
        OBVIOUS
    <2> HIDE DEF T
    <2> QED
        BY <2>1, <2>2
<1>6. request' = [request EXCEPT !.got = new]
    BY <1>2
<1> HIDE DEF new, T
<1>7. /\ request'.kind = request.kind /\ request'.id = request.id
      /\ request'.epoch = request.epoch /\ request'.ended = request.ended
      /\ request'.got = new
      /\ request' \in [kind : Requests \cup {None}, id : Staker \cup Pool \cup {None},
                       got : Seq(T), epoch : Nat, ended : BOOLEAN]
    BY <1>1, <1>5, <1>6
<1>8. RequestFits'
    <2>1. request'.kind # None /\ request' # Idle
        BY <1>3, <1>7, NoneIsNoKind
    <2> QED
        BY <1>4, <1>5, <1>7, <2>1 DEF RequestFits
<1> QED
    BY <1>2, <1>3, <1>4, <1>5, <1>7, <1>8

\* What a request that comes is.
LEMMA AskStarts ==
    ASSUME NEW kind \in Requests, NEW id, Ask(kind, id)
    PROVE  /\ UNCHANGED events /\ request = Idle /\ kind \in Asked
           /\ request'.kind = kind /\ request'.id = id /\ request'.got = <<>>
           /\ request'.epoch = CurrentEpochId /\ request'.ended = FALSE
           /\ request' = [kind |-> kind, id |-> id, got |-> <<>>, epoch |-> CurrentEpochId,
                          ended |-> FALSE]
<1>1. request' = [Idle EXCEPT !.kind = kind, !.id = id, !.epoch = CurrentEpochId]
    BY DEF Ask
<1>2. request' = [kind |-> kind, id |-> id, got |-> <<>>, epoch |-> CurrentEpochId, ended |-> FALSE]
    BY <1>1 DEF Idle
<1>3. /\ request'.kind = kind /\ request'.id = id /\ request'.got = <<>>
      /\ request'.epoch = CurrentEpochId /\ request'.ended = FALSE
    BY <1>2
<1>4. UNCHANGED events /\ request = Idle /\ kind \in Asked
    BY DEF Ask
<1> QED
    BY <1>2, <1>3, <1>4

\* The steps, as far as the request is concerned.
LEMMA RequestSteps ==
    ASSUME RequestFits, LogInv, [Next]_vars
    PROVE  \/ UNCHANGED vars
           \/ /\ request' = request /\ \E e \in Event : Appended(e) /\ Checked(e)
           \/ /\ request'.kind = request.kind /\ request'.id = request.id
              /\ request'.got = request.got /\ request'.epoch = request.epoch
              /\ request.kind # None => request'.ended
              /\ RequestFits'
              /\ EndEpoch /\ \E e \in Event : Appended(e) /\ Checked(e)
           \/ \E kind \in Requests, id \in Staker \cup Pool \cup {None} :
                 /\ Ask(kind, id) /\ RequestFits'
                 /\ kind = "delegator" => id \in Staker
                 /\ kind = "pool" => id \in Pool
           \/ Query
<1>1. CASE ChainStep
    <2>1. UNCHANGED request
        BY <1>1 DEF ChainStep
    <2> QED
        BY <2>1, NextAppends DEF vars
<1>2. CASE EndEpoch
    <2>1. \E e \in Event : Appended(e) /\ Checked(e)
        BY <1>2, EndEpochAppends
    <2>2. PICK S : request \in [kind : Requests \cup {None}, id : Staker \cup Pool \cup {None},
                                got : Seq(S), epoch : Nat, ended : BOOLEAN]
        BY DEF RequestFits
    <2>3. request' = [request EXCEPT !.ended = @ \/ request # Idle]
        BY <1>2 DEF EndEpoch
    <2> DEFINE now == request.ended \/ request # Idle
    <2>4. now \in BOOLEAN /\ request' = [request EXCEPT !.ended = now]
        BY <2>2, <2>3
    <2>5. now = (request.ended \/ request # Idle)
        OBVIOUS
    <2> HIDE DEF now
    <2>6. /\ request'.kind = request.kind /\ request'.id = request.id
          /\ request'.got = request.got /\ request'.epoch = request.epoch
          /\ request'.ended = now
          /\ request' \in [kind : Requests \cup {None}, id : Staker \cup Pool \cup {None},
                           got : Seq(S), epoch : Nat, ended : BOOLEAN]
        BY <2>2, <2>4
    <2>7. request.kind # None => request'.ended
        BY <2>5, <2>6, NoneIsNoKind
    <2>8. request.kind = None => request' = Idle
        <3> SUFFICES ASSUME request.kind = None PROVE request' = Idle
            OBVIOUS
        <3>1. request = Idle /\ Idle.ended = FALSE
            BY DEF RequestFits, Idle
        <3>2. now = FALSE
            BY <2>5, <3>1
        <3>3. request' = [kind |-> request.kind, id |-> request.id, got |-> request.got,
                          epoch |-> request.epoch, ended |-> now]
            BY <2>2, <2>4
        <3>4. /\ Idle.kind = None /\ Idle.id = None /\ Idle.got = <<>> /\ Idle.epoch = 0
            BY DEF Idle
        <3>5. request' = [kind |-> None, id |-> None, got |-> <<>>, epoch |-> 0, ended |-> FALSE]
            BY <3>1, <3>2, <3>3, <3>4
        <3> QED
            BY <3>5 DEF Idle
    <2>9. RequestFits'
        BY <2>6, <2>8, NoneIsNoKind DEF RequestFits
    <2> QED
        BY <1>2, <2>1, <2>6, <2>7, <2>9
<1>3. ASSUME NEW kind \in Requests, NEW id \in Staker \cup Pool \cup {None}, Ask(kind, id),
             kind = "delegator" => id \in Staker, kind = "pool" => id \in Pool
      PROVE  RequestFits'
    <2>1. /\ request' = [kind |-> kind, id |-> id, got |-> <<>>, epoch |-> CurrentEpochId, ended |-> FALSE]
          /\ request'.kind = kind /\ request'.id = id /\ request'.got = <<>>
        BY <1>3, AskStarts
    <2>2. CurrentEpochId \in Nat /\ <<>> \in Seq({}) /\ Len(<<>>) = 0
        BY EpochsAreCounted DEF EpochsCount
    <2>3. request' \in [kind : Requests \cup {None}, id : Staker \cup Pool \cup {None},
                        got : Seq({}), epoch : Nat, ended : BOOLEAN]
        BY <2>1, <2>2
    <2>4. kind # None /\ request' # Idle /\ QueriesOf[kind] \in 1 .. 8
        BY <2>1, NoneIsNoKind, QueriesAreCounted
    <2> QED
        BY <1>3, <2>1, <2>2, <2>3, <2>4 DEF RequestFits
<1>4. /\ "delegator" \in Requests /\ "pool" \in Requests
      /\ "pools" \in Requests /\ "epochs" \in Requests
    BY DEF Requests
<1>5. CASE \E s \in Staker : Ask("delegator", s)
    BY <1>3, <1>4, <1>5
<1>6. CASE \E p \in Pool : Ask("pool", p)
    BY <1>3, <1>4, <1>6
<1>7. CASE \E kind \in {"pools", "epochs"} : Ask(kind, None)
    BY <1>3, <1>4, <1>7
<1> QED
    BY <1>1, <1>2, <1>5, <1>6, <1>7 DEF Next

\* What an event that is written adds to the pools.
LEMMA PoolsAfter ==
    ASSUME LogInv, NEW e, Appended(e)
    PROVE  /\ \A i \in 1 .. Len(events) : Created(i)' = Created(i)
           /\ PoolInfo' = PoolInfo \cup (IF e.kind = "create" THEN {e.to} ELSE {})
<1> DEFINE n == Len(events)
           C == Rows("create")
<1>1. /\ n \in Nat /\ Len(events') = n + 1 /\ events'[n + 1] = e
      /\ \A i \in 1 .. n : events'[i] = events[i]
      /\ C' = C \cup (IF e.kind = "create" THEN {n + 1} ELSE {})
    BY RowsAfter
<1>2. C \subseteq 1 .. n
    BY LastRow DEF Rows
<1>3. ASSUME NEW i \in 1 .. n PROVE Created(i)' = Created(i)
    <2>1. {k \in C' : k <= i} = {k \in C : k <= i}
        BY <1>1, <1>2
    <2>2. \A k \in C : events'[k] = events[k]
        BY <1>1, <1>2
    <2> QED
        BY <2>1, <2>2 DEF Created
<1>4. PoolInfo = {events[j].to : j \in C}
    <2>1. {k \in C : k <= n} = C
        BY <1>1, <1>2
    <2> QED
        BY <2>1 DEF PoolInfo, Created
<1>5. PoolInfo' = {events'[j].to : j \in C'}
    <2>1. {k \in C' : k <= n + 1} = C'
        BY <1>1, <1>2
    <2> QED
        BY <1>1, <2>1 DEF PoolInfo, Created
<1>6. \A j \in C : events'[j].to = events[j].to
    BY <1>1, <1>2
<1>7. PoolInfo' = PoolInfo \cup (IF e.kind = "create" THEN {e.to} ELSE {})
    <2>1. CASE e.kind = "create"
        <3>1. C' = C \cup {n + 1}
            BY <1>1, <2>1
        <3>2. {events'[j].to : j \in C'} = {events'[j].to : j \in C} \cup {events'[n + 1].to}
            BY <3>1
        <3>3. {events'[j].to : j \in C} = {events[j].to : j \in C}
            BY <1>6
        <3> HIDE DEF C
        <3> QED
            BY <1>1, <1>4, <1>5, <2>1, <3>2, <3>3
    <2>2. CASE e.kind # "create"
        <3>1. C' = C
            BY <1>1, <2>2
        <3> QED
            BY <1>4, <1>5, <1>6, <2>2, <3>1
    <2> QED
        BY <2>1, <2>2
<1> QED
    BY <1>3, <1>7

(***************************************************************************)
(* The listing of the pools.                                               *)
(***************************************************************************)

\* The pools that a request has listed keep their rows, which the maps read
\* after the list are made from.
ListedInv ==
    request.kind = "pools" =>
        \A k \in 1 .. Len(request.got) :
            IF k = 1 THEN request.got[1] \subseteq PoolInfo
                     ELSE request.got[1] \subseteq DOMAIN request.got[k]

LEMMA PoolsAnswers ==
    ASSUME request.kind = "pools"
    PROVE  /\ Answers[1] = PoolInfo
           /\ \A k \in 2 .. 5 : DOMAIN Answers[k] = PoolInfo
           /\ Answers[2] = [p \in PoolInfo |-> CurrentEpochPoolStats(p)]
<1>1. Answers = << PoolInfo,
                   [p \in PoolInfo |-> CurrentEpochPoolStats(p)],
                   [p \in PoolInfo |-> NextEpochPoolStats(p)],
                   [p \in PoolInfo |-> SevenDayProtocolFeesGenerated(p)],
                   [p \in PoolInfo |-> PoolAvgRewards(p)] >>
    BY DEF Answers, GetStakingPools, PoolsWithRows
<1> DEFINE f2 == [p \in PoolInfo |-> CurrentEpochPoolStats(p)]
           f3 == [p \in PoolInfo |-> NextEpochPoolStats(p)]
           f4 == [p \in PoolInfo |-> SevenDayProtocolFeesGenerated(p)]
           f5 == [p \in PoolInfo |-> PoolAvgRewards(p)]
<1>2. Answers = << PoolInfo, f2, f3, f4, f5 >>
    BY <1>1
<1>3. DOMAIN f2 = PoolInfo /\ DOMAIN f3 = PoolInfo /\ DOMAIN f4 = PoolInfo /\ DOMAIN f5 = PoolInfo
    OBVIOUS
<1> HIDE DEF f2, f3, f4, f5
<1>4. /\ Answers[1] = PoolInfo /\ Answers[2] = f2 /\ Answers[3] = f3
      /\ Answers[4] = f4 /\ Answers[5] = f5
    BY <1>2
<1>5. \A k \in 2 .. 5 : k = 2 \/ k = 3 \/ k = 4 \/ k = 5
    OBVIOUS
<1>6. \A k \in 2 .. 5 : DOMAIN Answers[k] = PoolInfo
    BY <1>3, <1>4, <1>5
<1> QED
    BY <1>4, <1>6 DEF f2

LEMMA NextKeepsListedInv ==
    ASSUME RequestFits, LogInv, ListedInv, [Next]_vars
    PROVE  ListedInv'
<1> SUFFICES ASSUME request'.kind = "pools", NEW k \in 1 .. Len(request'.got)
             PROVE  IF k = 1 THEN request'.got[1] \subseteq PoolInfo'
                             ELSE request'.got[1] \subseteq DOMAIN request'.got[k]
    BY DEF ListedInv
<1>1. CASE UNCHANGED vars
    BY <1>1 DEF ListedInv, PoolInfo, Created, Rows, vars
<1>2. ASSUME NEW e \in Event, Appended(e),
             request'.kind = request.kind, request'.got = request.got
      PROVE  IF k = 1 THEN request'.got[1] \subseteq PoolInfo'
                      ELSE request'.got[1] \subseteq DOMAIN request'.got[k]
    <2>1. PoolInfo \subseteq PoolInfo'
        BY <1>2, PoolsAfter
    <2> QED
        BY <1>2, <2>1 DEF ListedInv
<1>3. ASSUME NEW kind \in Requests, NEW id, Ask(kind, id) PROVE FALSE
    <2>1. request'.got = <<>>
        BY <1>3, AskStarts
    <2> QED
        BY <2>1
<1>4. CASE Query
    <2> DEFINE n == Len(request.got)
    <2>1. /\ request.kind = "pools" /\ UNCHANGED events /\ n \in Nat /\ n + 1 <= 5
          /\ Len(request'.got) = n + 1 /\ request'.got[n + 1] = Answers[n + 1]
          /\ \A i \in 1 .. n : request'.got[i] = request.got[i]
        BY <1>4, QueryAnswers DEF QueriesOf
    <2>2. PoolInfo' = PoolInfo
        BY <2>1 DEF PoolInfo, Created, Rows
    <2>3. /\ Answers[1] = PoolInfo
          /\ \A i \in 2 .. 5 : DOMAIN Answers[i] = PoolInfo
        BY <2>1, PoolsAnswers
    <2> HIDE DEF n
    <2>4. request'.got[1] \subseteq PoolInfo
        <3>1. CASE n = 0
            BY <2>1, <2>3, <3>1
        <3>2. CASE n # 0
            <4>1. 1 \in 1 .. n
                BY <2>1, <3>2
            <4> QED
                BY <2>1, <4>1 DEF ListedInv, n
        <3> QED
            BY <3>1, <3>2
    <2>5. CASE k = 1
        BY <2>2, <2>4, <2>5
    <2>6. CASE k # 1 /\ k \in 1 .. n
        <3>1. 1 \in 1 .. n
            BY <2>1, <2>6
        <3> QED
            BY <2>1, <2>6, <3>1 DEF ListedInv, n
    <2>7. CASE k # 1 /\ k = n + 1
        <3>1. k \in 2 .. 5
            BY <2>1, <2>7
        <3> QED
            BY <2>1, <2>3, <2>4, <2>7, <3>1
    <2> QED
        BY <2>1, <2>5, <2>6, <2>7
<1> QED
    BY <1>1, <1>2, <1>3, <1>4, RequestSteps

LEMMA InitRequestFits == Init => RequestFits
<1> SUFFICES ASSUME Init PROVE RequestFits
    OBVIOUS
<1>1. request = [kind |-> None, id |-> None, got |-> <<>>, epoch |-> 0, ended |-> FALSE]
    BY DEF Init, Idle
<1>2. request \in [kind : Requests \cup {None}, id : Staker \cup Pool \cup {None},
                   got : Seq({}), epoch : Nat, ended : BOOLEAN]
    BY <1>1
<1>3. request.kind = None /\ request = Idle
    BY <1>1 DEF Init
<1>4. None # "delegator" /\ None # "pool"
    BY NoneIsNoKind DEF Requests
<1> QED
    BY <1>2, <1>3, <1>4 DEF RequestFits

\* The log and the request of every behaviour.
StakingBase == LogInv /\ RequestFits

LEMMA NextKeepsBase == StakingBase /\ [Next]_vars => StakingBase'
<1> SUFFICES ASSUME LogInv, RequestFits, [Next]_vars PROVE LogInv' /\ RequestFits'
    BY DEF StakingBase
<1>1. LogInv'
    BY NextKeepsLogInv
<1>2. CASE UNCHANGED request
    BY <1>1, <1>2 DEF RequestFits
<1>3. CASE Query
    BY <1>1, <1>3, QueryAnswers
<1> QED
    BY <1>1, <1>2, <1>3, RequestSteps DEF vars

LEMMA BaseHolds == Spec => []StakingBase
<1>1. Init => StakingBase
    BY InitLogInv, InitRequestFits DEF StakingBase
<1> QED
    BY <1>1, NextKeepsBase, PTL DEF Spec

\* The balances that a delegator is shown are those that the events of its
\* history add up to.
THEOREM HistoryExplainsBalances == Spec => []EventsExplainBalances
<1>1. StakingBase => EventsExplainBalances
    BY HistoryExplains DEF StakingBase
<1> QED
    BY <1>1, BaseHolds, PTL

\* Each pool of the list that a request reads first has a row in each of the
\* four maps of statistics that it reads after it, whatever is written in
\* between: pools are never removed.
THEOREM ListsAreCovered == Spec => []ListedPoolsHaveStats
<1>1. Init => ListedInv
    <2> SUFFICES ASSUME Init PROVE ListedInv
        OBVIOUS
    <2>1. request.kind = None /\ None # "pools"
        BY NoneIsNoKind DEF Init, Requests
    <2> QED
        BY <2>1 DEF ListedInv
<1>2. StakingBase /\ ListedInv /\ [Next]_vars => ListedInv'
    BY NextKeepsListedInv DEF StakingBase
<1>3. StakingBase /\ ListedInv => ListedPoolsHaveStats
    <2> SUFFICES ASSUME StakingBase, ListedInv, request.kind = "pools",
                        Len(request.got) = QueriesOf["pools"],
                        NEW p \in request.got[1], NEW k \in 2 .. 5
                 PROVE  p \in DOMAIN request.got[k]
        BY DEF ListedPoolsHaveStats, Done
    <2>1. k \in 1 .. Len(request.got) /\ k # 1
        BY DEF QueriesOf
    <2> QED
        BY <2>1 DEF ListedInv
<1> QED
    BY <1>1, <1>2, <1>3, BaseHolds, PTL DEF Spec

(***************************************************************************)
(* Amounts.                                                                *)
(***************************************************************************)

LEMMA LastOfRows ==
    ASSUME NEW N \in Nat, NEW rows \in SUBSET (1 .. N), rows # {}
    PROVE  Max(rows) \in rows /\ \A i \in rows : i <= Max(rows)
<1>1. IsFiniteSet(rows) /\ rows \subseteq Int
    <2>1. IsFiniteSet(1 .. N) /\ rows \subseteq 1 .. N
        BY FS_Interval
    <2>2. IsFiniteSet(rows)
        BY <2>1, FS_Subset
    <2> QED
        BY <2>1, <2>2
<1>2. \E x \in rows : \A y \in rows : x >= y
    BY <1>1, HasGreatest
<1>3. Max(rows) \in rows /\ \A y \in rows : Max(rows) >= y
    BY <1>2 DEF Max
<1> QED
    BY <1>1, <1>3

LEMMA TotalIsSum ==
    ASSUME LogInv, NEW rows \in SUBSET AllRows
    PROVE  /\ IsFiniteSet(rows) /\ \A i \in rows : events[i].amount \in Nat
           /\ Total(rows) = SumFunctionOnSet([i \in AllRows |-> events[i].amount], rows)
<1> DEFINE f == [i \in AllRows |-> events[i].amount]
           g == [i \in rows |-> events[i].amount]
<1>1. IsFiniteSet(rows)
    <2>1. IsFiniteSet(1 .. Len(events)) /\ AllRows = 1 .. Len(events)
        BY LastRow, FS_Interval DEF AllRows
    <2> QED
        BY <2>1, FS_Subset
<1>2. \A i \in rows : events[i].amount \in Nat
    BY LastRow DEF AllRows, Event
<1>3. DOMAIN g = rows /\ \A i \in rows : g[i] = f[i]
    OBVIOUS
<1>4. Total(rows) = SumFunction(g)
    BY DEF Total
<1> HIDE DEF f, g
<1>5. SumFunction(g) = SumFunctionOnSet(f, rows)
    BY <1>1, <1>3, SumOverDomain
<1> QED
    BY <1>1, <1>2, <1>4, <1>5 DEF f

LEMMA Totals ==
    ASSUME LogInv
    PROVE  /\ Total({}) = 0
           /\ \A rows \in SUBSET AllRows : Total(rows) \in Nat
           /\ \A i \in AllRows : Total({i}) = events[i].amount
           /\ \A rows, more \in SUBSET AllRows :
                 /\ rows \cap more = {} => Total(rows \cup more) = Total(rows) + Total(more)
                 /\ rows \subseteq more => Total(rows) <= Total(more)
<1> DEFINE f == [i \in AllRows |-> events[i].amount]
<1>1. \A i \in AllRows : f[i] \in Nat /\ f[i] = events[i].amount
    BY TotalIsSum
<1>2. ASSUME NEW rows \in SUBSET AllRows
      PROVE  IsFiniteSet(rows) /\ Total(rows) = SumFunctionOnSet(f, rows)
    BY TotalIsSum
<1> HIDE DEF f
<1>3. Total({}) = 0
    BY <1>2, SumOfNothing
<1>4. ASSUME NEW rows \in SUBSET AllRows PROVE Total(rows) \in Nat
    <2>1. \A x \in rows : f[x] \in Nat
        BY <1>1
    <2> QED
        BY <1>2, <2>1, SumIsNatural
<1>5. ASSUME NEW i \in AllRows PROVE Total({i}) = events[i].amount
    <2>1. {i} \in SUBSET AllRows /\ f[i] \in Int
        BY <1>1
    <2>2. SumFunctionOnSet(f, {i}) = f[i]
        BY <2>1, SumOfOne
    <2> QED
        BY <1>1, <1>2, <2>1, <2>2
<1>6. ASSUME NEW rows \in SUBSET AllRows, NEW more \in SUBSET AllRows, rows \cap more = {}
      PROVE  Total(rows \cup more) = Total(rows) + Total(more)
    <2>1. \A x \in rows \cup more : f[x] \in Int
        BY <1>1
    <2>2. SumFunctionOnSet(f, rows \cup more) = SumFunctionOnSet(f, rows) + SumFunctionOnSet(f, more)
        BY <1>2, <1>6, <2>1, SumOfUnion
    <2>3. rows \cup more \in SUBSET AllRows
        OBVIOUS
    <2> QED
        BY <1>2, <2>2, <2>3
<1>7. ASSUME NEW rows \in SUBSET AllRows, NEW more \in SUBSET AllRows, rows \subseteq more
      PROVE  Total(rows) <= Total(more)
    <2>1. \A x \in more : f[x] \in Nat
        BY <1>1
    <2> QED
        BY <1>2, <1>7, <2>1, SumOfPart
<1> QED
    BY <1>3, <1>4, <1>5, <1>6, <1>7

\* Amounts of rows that were there do not change.
LEMMA TotalsAfter ==
    ASSUME LogInv, NEW e, UNCHANGED events \/ Appended(e)
    PROVE  /\ AllRows \subseteq AllRows' /\ \A i \in AllRows : events'[i] = events[i]
           /\ \A rows \in SUBSET AllRows :
                 /\ Total(rows)' = Total(rows)
                 /\ \A who, pools : Staked(who, pools, rows)' = Staked(who, pools, rows)
                 /\ \A who : Deposited(who, rows)' = Deposited(who, rows)
<1>1. AllRows \subseteq AllRows' /\ \A i \in AllRows : events'[i] = events[i]
    BY LastRow, RowsAfter DEF AllRows
<1>2. ASSUME NEW rows \in SUBSET AllRows PROVE Total(rows)' = Total(rows)
    <2>1. [i \in rows |-> events'[i].amount] = [i \in rows |-> events[i].amount]
        BY <1>1
    <2> QED
        BY <2>1 DEF Total
<1>3. ASSUME NEW rows \in SUBSET AllRows, NEW who, NEW pools
      PROVE  Staked(who, pools, rows)' = Staked(who, pools, rows)
    <2> DEFINE moves == {i \in rows : events[i].kind = "move" /\ events[i].who \in who}
               to == {i \in moves : events[i].to \in pools}
               from == {i \in moves : events[i].from \in pools}
    <2>1. to' = to /\ from' = from
        BY <1>1
    <2>2. to \in SUBSET AllRows /\ from \in SUBSET AllRows
        OBVIOUS
    <2>3. /\ Staked(who, pools, rows) = Total(to) - Total(from)
          /\ Staked(who, pools, rows)' = Total(to)' - Total(from)'
        BY DEF Staked
    <2> HIDE DEF to, from
    <2>4. PICK t \in SUBSET AllRows, f \in SUBSET AllRows : t = to /\ f = from
        BY <2>2
    <2>5. /\ Staked(who, pools, rows)' = Total(t)' - Total(f)'
          /\ Staked(who, pools, rows) = Total(t) - Total(f)
        BY <2>1, <2>3, <2>4
    <2> QED
        BY <1>2, <2>5
<1>4. ASSUME NEW rows \in SUBSET AllRows, NEW who
      PROVE  Deposited(who, rows)' = Deposited(who, rows)
    <2> DEFINE ofThem == {i \in rows : events[i].who \in who}
               in == {i \in ofThem : events[i].kind = "stake"}
               out == {i \in ofThem : events[i].kind = "unstake"}
    <2>1. in' = in /\ out' = out
        BY <1>1
    <2>2. in \in SUBSET AllRows /\ out \in SUBSET AllRows
        OBVIOUS
    <2>3. /\ Deposited(who, rows) = Total(in) - Total(out)
          /\ Deposited(who, rows)' = Total(in)' - Total(out)'
        BY DEF Deposited
    <2> HIDE DEF in, out
    <2>4. PICK t \in SUBSET AllRows, f \in SUBSET AllRows : t = in /\ f = out
        BY <2>2
    <2>5. /\ Deposited(who, rows)' = Total(t)' - Total(f)'
          /\ Deposited(who, rows) = Total(t) - Total(f)
        BY <2>1, <2>3, <2>4
    <2> QED
        BY <1>2, <2>5
<1> QED
    BY <1>1, <1>2, <1>3, <1>4

LEMMA DelegatorsAfter ==
    ASSUME LogInv, NEW e, UNCHANGED events \/ Appended(e), NEW s, NEW rows \in SUBSET AllRows
    PROVE  DelegatorStaked(s, rows)' = DelegatorStaked(s, rows)
<1> DEFINE pools == {p \in Pool : \E i \in rows \cap Rows("move") :
                        events[i].who = s /\ p \in {events[i].from, events[i].to}}
<1>1. \A i \in rows : i \in AllRows /\ i \in AllRows' /\ events'[i] = events[i]
    BY TotalsAfter
<1>2. \A i \in rows : i \in Rows("move")' <=> i \in Rows("move")
    BY <1>1 DEF Rows, AllRows
<1>3. pools' = pools
    BY <1>1, <1>2
<1>4. \A qs : Staked({s}, qs, rows)' = Staked({s}, qs, rows)
    BY TotalsAfter
<1>5. DelegatorStaked(s, rows) =
         [overall |-> Staked({s}, Pool, rows),
          poolData |-> IF pools = {} THEN {[pool |-> None, stake |-> 0]}
                       ELSE {[pool |-> p, stake |-> Staked({s}, {p}, rows)] : p \in pools}]
    BY DEF DelegatorStaked
<1>6. DelegatorStaked(s, rows)' =
         [overall |-> Staked({s}, Pool, rows)',
          poolData |-> IF pools' = {} THEN {[pool |-> None, stake |-> 0]}
                       ELSE {[pool |-> p, stake |-> Staked({s}, {p}, rows)'] : p \in pools'}]
    BY DEF DelegatorStaked
<1>7. PICK qs : qs = pools
    OBVIOUS
<1> HIDE DEF pools
<1>8. {[pool |-> p, stake |-> Staked({s}, {p}, rows)'] : p \in qs}
         = {[pool |-> p, stake |-> Staked({s}, {p}, rows)] : p \in qs}
    BY <1>4
<1>9. Staked({s}, Pool, rows)' = Staked({s}, Pool, rows)
    BY <1>4
<1> DEFINE empty == {[pool |-> None, stake |-> 0]}
           new == {[pool |-> p, stake |-> Staked({s}, {p}, rows)'] : p \in qs}
           old == {[pool |-> p, stake |-> Staked({s}, {p}, rows)] : p \in qs}
<1>10. DelegatorStaked(s, rows) = [overall |-> Staked({s}, Pool, rows),
                                   poolData |-> IF qs = {} THEN empty ELSE old]
    BY <1>5, <1>7
<1>11. DelegatorStaked(s, rows)' = [overall |-> Staked({s}, Pool, rows)',
                                    poolData |-> IF qs = {} THEN empty ELSE new]
    BY <1>3, <1>6, <1>7, Zenon
<1>12. new = old
    BY <1>8
<1> HIDE DEF empty, new, old
<1> QED
    BY <1>9, <1>10, <1>11, <1>12

\* What is known of an epoch that has started.
LEMMA EpochsHaveBegun ==
    ASSUME LogInv, NEW n \in 1 .. CurrentEpochId
    PROVE  /\ StartRow(n) \in Rows("epoch") /\ StartRow(n) \in AllRows
           /\ AtStart(n) = 1 .. StartRow(n) /\ AtStart(n) \subseteq AllRows
           /\ Start(n) \in Position /\ Start(n) = events[StartRow(n)].at
           /\ ~Before(Now, Start(n)) /\ Start(n) # None
<1>1. StartRow(n) \in Rows("epoch")
    BY EpochsHaveStarts DEF EpochsStart
<1>2. StartRow(n) \in 1 .. Len(events) /\ Len(events) \in Nat /\ AllRows = 1 .. Len(events)
    BY <1>1, LastRow DEF Rows, AllRows
<1>3. AtStart(n) = 1 .. StartRow(n) /\ AtStart(n) \subseteq AllRows
    BY <1>2 DEF AtStart
<1>4. Start(n) = events[StartRow(n)].at /\ Start(n) \in Position
    BY <1>2, LastRow DEF Start
<1>5. ~Before(Now, Start(n))
    BY <1>2, <1>4, LaterRows DEF AllRows
<1> QED
    BY <1>1, <1>2, <1>3, <1>4, <1>5, StakingAssumption

\* The rows that the queries of an epoch read do not change any more: those
\* before its start, once it has started, and its fills, once it has ended.
LEMMA EpochRowsAfter ==
    ASSUME LogInv, LogInv', NEW e, UNCHANGED events \/ (Appended(e) /\ e \in Event),
           NEW n \in 1 .. CurrentEpochId
    PROVE  /\ BeforeEpoch(n)' = BeforeEpoch(n) /\ BeforeEpoch(n) \in SUBSET AllRows
           /\ AtStart(n)' = AtStart(n) /\ AtStart(n) \in SUBSET AllRows
           /\ n < CurrentEpochId => FillsIn(n)' = FillsIn(n)
           /\ FillsIn(n) \in SUBSET AllRows
           /\ n \in 1 .. CurrentEpochId' /\ CurrentEpochId <= CurrentEpochId'
           /\ StartRow(n)' = StartRow(n) /\ Start(n)' = Start(n)
<1> DEFINE N == Len(events)
<1>1. /\ AllRows \subseteq AllRows' /\ \A i \in AllRows : events'[i] = events[i]
      /\ CurrentEpochId \in Nat /\ CurrentEpochId' \in Nat
    BY TotalsAfter, EpochsAreCounted, EpochsAfterwards DEF EpochsCount
<1>2. \A i \in AllRows' \ AllRows : events'[i].at \in Position /\ ~Before(events'[i].at, Now)
    <2>1. CASE UNCHANGED events
        BY <2>1 DEF AllRows
    <2>2. CASE Appended(e) /\ e \in Event
        <3>1. AllRows' \ AllRows = {N + 1} /\ events'[N + 1] = e
            BY <2>2, RowsAfter, LastRow DEF AllRows
        <3>2. e.at \in Position /\ ~Before(e.at, Now)
            BY <2>2 DEF Appended, Event
        <3> QED
            BY <3>1, <3>2
    <2> QED
        BY <2>1, <2>2
<1>3. /\ CurrentEpochId <= CurrentEpochId'
      /\ \A m \in 1 .. CurrentEpochId : StartRow(m)' = StartRow(m) /\ Start(m)' = Start(m)
    <2>1. CASE UNCHANGED events
        <3>1. CurrentEpochId' = CurrentEpochId
            BY <2>1 DEF CurrentEpochId, Rows
        <3>2. \A i : EpochAt(i)' = EpochAt(i) /\ Rows("epoch")' = Rows("epoch")
            BY <2>1 DEF EpochAt, Rows
        <3>3. ASSUME NEW m \in 1 .. CurrentEpochId
              PROVE  StartRow(m)' = StartRow(m) /\ Start(m)' = Start(m)
            <4>1. PICK row \in Rows("epoch") : row = StartRow(m) /\ EpochAt(row) = m
                BY EpochsHaveStarts DEF EpochsStart
            <4>2. row \in Rows("epoch")' /\ EpochAt(row)' = m /\ m \in 1 .. CurrentEpochId'
                BY <3>1, <3>2, <4>1
            <4>3. StartRow(m)' = row
                BY <4>2, EpochsAfterwards DEF EpochsStart
            <4> QED
                BY <2>1, <4>1, <4>3 DEF Start
        <3> QED
            BY <1>1, <3>1, <3>3
    <2>2. CASE Appended(e) /\ e \in Event
        <3>1. /\ CurrentEpochId' = CurrentEpochId + (IF e.kind = "epoch" THEN 1 ELSE 0)
              /\ \A m \in 1 .. CurrentEpochId : StartRow(m)' = StartRow(m) /\ Start(m)' = Start(m)
            BY <2>2, EpochsAfter
        <3> QED
            BY <1>1, <3>1
    <2> QED
        BY <2>1, <2>2
<1>4. \A m \in 1 .. CurrentEpochId : Start(m) \in Position /\ ~Before(Now, Start(m))
                                     /\ Start(m) # None
    BY EpochsHaveBegun
<1>5. \A i \in AllRows' \ AllRows, m \in 1 .. CurrentEpochId : ~Before(events'[i].at, Start(m))
    BY <1>2, <1>4, LastRow, BeforeIsTransitive
<1>6. BeforeEpoch(n)' = BeforeEpoch(n)
    <2>1. /\ BeforeEpoch(n) = {i \in AllRows : Before(events[i].at, Start(n))}
          /\ BeforeEpoch(n)' = {i \in AllRows' : Before(events'[i].at, Start(n)')}
        BY <1>1, <1>3, <1>4 DEF BeforeEpoch, RowsBefore
    <2> QED
        BY <1>1, <1>3, <1>5, <2>1
<1>7. AtStart(n)' = AtStart(n)
    BY <1>3 DEF AtStart
<1>8. ASSUME n < CurrentEpochId PROVE FillsIn(n)' = FillsIn(n)
    <2>1. n + 1 \in 1 .. CurrentEpochId
        BY <1>1, <1>8
    <2>2. PICK m \in 1 .. CurrentEpochId : m = n + 1
        BY <2>1
    <2>3. n < CurrentEpochId'
        BY <1>1, <1>3, <1>8
    <2>4. FillsIn(n) = {i \in Rows("fill") : Before(Start(n), events[i].at) /\ Before(events[i].at, Start(m))}
        BY <1>4, <1>8, <2>2 DEF FillsIn
    <2>5. FillsIn(n)' = {i \in Rows("fill")' : /\ Before(Start(n)', events'[i].at)
                                               /\ Before(events'[i].at, Start(m)')}
        BY <1>3, <1>4, <2>2, <2>3 DEF FillsIn
    <2>6. \A i \in AllRows : i \in Rows("fill")' <=> i \in Rows("fill")
        BY <1>1 DEF Rows, AllRows
    <2>7. Rows("fill") \subseteq AllRows /\ Rows("fill")' \subseteq AllRows'
        BY DEF Rows, AllRows
    <2> QED
        BY <1>1, <1>3, <1>5, <2>4, <2>5, <2>6, <2>7
<1>9. /\ BeforeEpoch(n) \in SUBSET AllRows /\ AtStart(n) \in SUBSET AllRows
      /\ FillsIn(n) \in SUBSET AllRows
    BY EpochsHaveBegun DEF BeforeEpoch, RowsBefore, FillsIn, Rows, AllRows
<1> QED
    BY <1>1, <1>3, <1>6, <1>7, <1>8, <1>9

(***************************************************************************)
(* What is reported of the epochs.                                         *)
(***************************************************************************)

LEMMA SettledEpochs ==
    ASSUME LogInv, LogInv', NEW e, UNCHANGED events \/ (Appended(e) /\ e \in Event),
           NEW n \in 1 .. CurrentEpochId
    PROVE  /\ EpochNWithFees(n)'.deposited = EpochNWithFees(n).deposited
           /\ EpochNWithFees(n)'.staked = EpochNWithFees(n).staked
           /\ n < CurrentEpochId => EpochNWithFees(n)'.fees = EpochNWithFees(n).fees
<1>1. PICK b \in SUBSET AllRows, a \in SUBSET AllRows, f \in SUBSET AllRows :
          b = BeforeEpoch(n) /\ a = AtStart(n) /\ f = FillsIn(n)
    BY EpochRowsAfter
<1>2. /\ BeforeEpoch(n)' = b /\ AtStart(n)' = a
      /\ n < CurrentEpochId => FillsIn(n)' = f
    BY <1>1, EpochRowsAfter
<1>3. /\ EpochNWithFees(n).deposited = Deposited(Staker, b)
      /\ EpochNWithFees(n).staked = Staked(Staker, Pool, a)
      /\ EpochNWithFees(n).fees = Total(f)
    BY <1>1 DEF EpochNWithFees
<1>4. /\ EpochNWithFees(n)'.deposited = Deposited(Staker, b)'
      /\ EpochNWithFees(n)'.staked = Staked(Staker, Pool, a)'
      /\ n < CurrentEpochId => EpochNWithFees(n)'.fees = Total(f)'
    BY <1>2 DEF EpochNWithFees
<1>5. /\ Deposited(Staker, b)' = Deposited(Staker, b)
      /\ Staked(Staker, Pool, a)' = Staked(Staker, Pool, a)
      /\ Total(f)' = Total(f)
    BY TotalsAfter
<1> QED
    BY <1>3, <1>4, <1>5

\* What the next epoch is announced with is read from all rows; the epoch's
\* own row adds nothing to it.
LEMMA EpochRowAddsNothing ==
    ASSUME LogInv, NEW e \in Event, Appended(e), e.kind = "epoch"
    PROVE  /\ \A who, pools, all : all = 1 .. Len(events) + 1 =>
                  Staked(who, pools, all)' = Staked(who, pools, AllRows)
           /\ \A p, n : n = Len(events) + 1 => MakersOf(p, n)' = MakersOf(p, Len(events))
<1> DEFINE N == Len(events)
<1>1. /\ N \in Nat /\ Len(events') = N + 1 /\ AllRows' = 1 .. N + 1 /\ AllRows = 1 .. N
      /\ \A i \in 1 .. N : events'[i] = events[i]
      /\ events'[N + 1] = e
    BY RowsAfter, LastRow DEF AllRows
<1>2. ASSUME NEW who, NEW pools, NEW all, all = 1 .. N + 1
      PROVE  Staked(who, pools, all)' = Staked(who, pools, AllRows)
    <2> DEFINE moves(rows) == {i \in rows : events[i].kind = "move" /\ events[i].who \in who}
               to(rows) == {i \in moves(rows) : events[i].to \in pools}
               from(rows) == {i \in moves(rows) : events[i].from \in pools}
    <2>1. {i \in all : events'[i].kind = "move" /\ events'[i].who \in who} = moves(AllRows)
        BY <1>1, <1>2
    <2>2. /\ {i \in moves(AllRows) : events'[i].to \in pools} = to(AllRows)
          /\ {i \in moves(AllRows) : events'[i].from \in pools} = from(AllRows)
        BY <1>1
    <2>3. PICK t \in SUBSET AllRows, f \in SUBSET AllRows : t = to(AllRows) /\ f = from(AllRows)
        OBVIOUS
    <2>4. Staked(who, pools, all)' = Total(t)' - Total(f)'
        BY <2>1, <2>2, <2>3 DEF Staked
    <2>5. Staked(who, pools, AllRows) = Total(t) - Total(f)
        BY <2>3 DEF Staked
    <2>6. Total(t)' = Total(t) /\ Total(f)' = Total(f)
        BY TotalsAfter
    <2> QED
        BY <2>4, <2>5, <2>6
<1>3. ASSUME NEW p, NEW n, n = N + 1 PROVE MakersOf(p, n)' = MakersOf(p, N)
    <2>1. Rows("join")' = Rows("join") /\ Rows("join") \subseteq 1 .. N
        BY <1>1, RowsAfter DEF Rows, AllRows
    <2> DEFINE joins(m) == {j \in Rows("join") : j <= N /\ events[j].who = m}
    <2>2. \A m : {j \in Rows("join")' : j <= n /\ events'[j].who = m} = joins(m)
        BY <1>1, <1>3, <2>1
    <2>3. \A m : joins(m) \subseteq 1 .. N
        BY <2>1
    <2>4. MakersOf(p, N) = {m \in Maker : joins(m) # {} /\ events[Max(joins(m))].to = p}
        BY DEF MakersOf
    <2>5. MakersOf(p, n)' = {m \in Maker : joins(m) # {} /\ events'[Max(joins(m))].to = p}
        BY <2>2 DEF MakersOf
    <2>6. ASSUME NEW m, joins(m) # {} PROVE events'[Max(joins(m))] = events[Max(joins(m))]
        <3> HIDE DEF joins
        <3>1. Max(joins(m)) \in 1 .. N
            BY <1>1, <2>3, <2>6, LastOfRows
        <3> QED
            BY <1>1, <3>1
    <2> HIDE DEF joins
    <2> QED
        BY <2>4, <2>5, <2>6
<1> QED
    BY <1>1, <1>2, <1>3

\* The epoch that an event starts is what was announced before it.
LEMMA AnnouncedEpochs ==
    ASSUME LogInv, LogInv', NEW e \in Event, Appended(e), e.kind = "epoch", Now' # Now
    PROVE  /\ \A p \in PoolInfo : CurrentEpochPoolStats(p)' = NextEpochPoolStats(p)
           /\ \A s \in Staker :
                 /\ CurrentEpochDelegatorDeposited(s)' = NextEpochDelegatorDeposited(s)
                 /\ CurrentEpochDelegatorStaked(s)' = NextEpochDelegatorStaked(s)
           /\ CurrentEpochWithFees' = NextEpoch
<1> DEFINE N == Len(events)
<1>1. /\ N \in Nat /\ Len(events') = N + 1 /\ AllRows' = 1 .. N + 1 /\ AllRows = 1 .. N
      /\ \A i \in 1 .. N : events'[i] = events[i]
      /\ events'[N + 1] = e /\ Now' = e.at
      /\ Rows("fill")' = Rows("fill") /\ Rows("fill") \subseteq 1 .. N
    BY RowsAfter, LastRow DEF AllRows, Rows
<1>2. PICK n, at, all : n = CurrentEpochId + 1 /\ at = 1 .. N + 1 /\ all = AllRows
    OBVIOUS
<1>3. CurrentEpochId' = n /\ StartRow(n)' = N + 1 /\ Start(n)' = e.at
    BY <1>1, <1>2, EpochsAfter
<1>4. \A i \in 1 .. N : Before(events[i].at, e.at) /\ ~Before(e.at, events[i].at)
    <2> TAKE i \in 1 .. N
    <2>1. /\ events[i].at \in Position /\ Now \in Position /\ e.at \in Position
          /\ ~Before(Now, events[i].at) /\ ~Before(e.at, Now) /\ e.at # Now
        BY <1>1, LastRow, LaterRows DEF Appended, Event
    <2>2. Before(Now, e.at)
        BY <2>1, BeforeIsTransitive
    <2> QED
        BY <2>1, <2>2 DEF Position, Before
<1>5. ~Before(e.at, e.at)
    BY DEF Before, Event, Position
<1>6. BeforeEpoch(n)' = all /\ all \in SUBSET AllRows
    <2>1. BeforeEpoch(n)' = {i \in AllRows' : Before(events'[i].at, Start(n)')}
        BY <1>3 DEF BeforeEpoch, RowsBefore, Event
    <2>2. BeforeEpoch(n)' = {i \in 1 .. N + 1 : Before(events'[i].at, e.at)}
        BY <1>1, <1>3, <2>1
    <2>3. \A i \in 1 .. N + 1 : Before(events'[i].at, e.at) <=> i \in 1 .. N
        BY <1>1, <1>4, <1>5
    <2>4. {i \in 1 .. N + 1 : i \in 1 .. N} = 1 .. N
        BY <1>1
    <2> QED
        BY <1>1, <1>2, <2>2, <2>3, <2>4
<1>7. AtStart(n)' = at
    BY <1>2, <1>3 DEF AtStart
<1>8. \A who, pools : Staked(who, pools, at)' = Staked(who, pools, AllRows)
    BY <1>2, EpochRowAddsNothing
<1>9. Total({}) = 0 /\ Total({})' = 0
    BY Totals, TotalsAfter
<1>10. ASSUME NEW p \in PoolInfo PROVE CurrentEpochPoolStats(p)' = NextEpochPoolStats(p)
    <2>1. StartMakers(n, p)' = MakersOf(p, N)
        <3>1. PICK m : m = N + 1
            OBVIOUS
        <3>2. MakersOf(p, m)' = MakersOf(p, N)
            BY <3>1, EpochRowAddsNothing
        <3>3. StartMakers(n, p)' = MakersOf(p, m)'
            BY <1>3, <3>1 DEF StartMakers
        <3> QED
            BY <3>2, <3>3
    <2> DEFINE fills == {i \in Rows("fill")' : ~Before(events'[i].at, Start(n)')
                                               /\ events'[i].who \in StartMakers(n, p)'}
    <2>2. fills = {}
        <3>1. \A i \in Rows("fill")' : i \in 1 .. N /\ Before(events'[i].at, Start(n)')
            BY <1>1, <1>3, <1>4
        <3> QED
            BY <3>1
    <2>3. CurrentEpochPoolStats(p)' =
             [stake |-> Staked(Staker, {p}, at)', operatorStake |-> Staked({OperatorOf[p]}, {p}, at)',
              memberStake |-> Staked(Staker \ {OperatorOf[p]}, {p}, at)',
              makers |-> StartMakers(n, p)', fees |-> Total({})']
        <3>1. CurrentEpochPoolStats(p)' =
             [stake |-> Staked(Staker, {p}, AtStart(n))',
              operatorStake |-> Staked({OperatorOf[p]}, {p}, AtStart(n))',
              memberStake |-> Staked(Staker \ {OperatorOf[p]}, {p}, AtStart(n))',
              makers |-> StartMakers(n, p)',
              fees |-> Total({i \in Rows("fill") : ~Before(events[i].at, Start(n))
                                                  /\ events[i].who \in StartMakers(n, p)})']
            BY <1>3 DEF CurrentEpochPoolStats, PoolStats
        <3> QED
            BY <1>7, <2>2, <3>1
    <2>4. NextEpochPoolStats(p) =
             [stake |-> Staked(Staker, {p}, AllRows),
              operatorStake |-> Staked({OperatorOf[p]}, {p}, AllRows),
              memberStake |-> Staked(Staker \ {OperatorOf[p]}, {p}, AllRows),
              makers |-> MakersOf(p, N), fees |-> 0]
        BY DEF NextEpochPoolStats, PoolStats
    <2> QED
        BY <1>8, <1>9, <2>1, <2>3, <2>4

<1>11. ASSUME NEW s \in Staker
       PROVE  /\ CurrentEpochDelegatorDeposited(s)' = NextEpochDelegatorDeposited(s)
              /\ CurrentEpochDelegatorStaked(s)' = NextEpochDelegatorStaked(s)
    <2>1. CurrentEpochDelegatorDeposited(s)' = Deposited({s}, all)'
        BY <1>3, <1>6 DEF CurrentEpochDelegatorDeposited
    <2>2. CurrentEpochDelegatorStaked(s)' = DelegatorStaked(s, all)'
        BY <1>3, <1>6 DEF CurrentEpochDelegatorStaked
    <2>3. /\ NextEpochDelegatorDeposited(s) = Deposited({s}, all)
          /\ NextEpochDelegatorStaked(s) = DelegatorStaked(s, all)
        BY <1>2 DEF NextEpochDelegatorDeposited, NextEpochDelegatorStaked
    <2>4. DelegatorStaked(s, all)' = DelegatorStaked(s, all)
        BY <1>6, DelegatorsAfter
    <2>5. Deposited({s}, all)' = Deposited({s}, all)
        BY <1>6, TotalsAfter
    <2> QED
        BY <2>1, <2>2, <2>3, <2>4, <2>5
<1>12. CurrentEpochWithFees' = NextEpoch
    <2> DEFINE fills == {i \in Rows("fill")' : Before(Start(n)', events'[i].at)}
    <2>1. fills = {}
        <3>1. \A i \in Rows("fill")' : i \in 1 .. N /\ ~Before(Start(n)', events'[i].at)
            BY <1>1, <1>3, <1>4
        <3> QED
            BY <3>1
    <2>2. CurrentEpochWithFees' =
             [epochId |-> n, deposited |-> Deposited(Staker, BeforeEpoch(n))',
              staked |-> Staked(Staker, Pool, AtStart(n))',
              fees |-> Total({i \in Rows("fill") : Before(Start(n), events[i].at)})']
        BY <1>3 DEF CurrentEpochWithFees
    <2>3. CurrentEpochWithFees' =
             [epochId |-> n, deposited |-> Deposited(Staker, all)',
              staked |-> Staked(Staker, Pool, at)', fees |-> Total({})']
        BY <1>6, <1>7, <2>1, <2>2
    <2>4. Deposited(Staker, all)' = Deposited(Staker, AllRows)
        BY <1>2, <1>6, TotalsAfter
    <2> QED
        BY <1>2, <1>8, <1>9, <2>3, <2>4 DEF NextEpoch
<1> QED
    BY <1>10, <1>11, <1>12

\* What the next epoch is announced with, for each pool, each delegator and in
\* total, is what it starts with, whatever events came before: the queries of
\* the current epoch then read exactly the rows that those of the next one
\* read, unless the epoch ends in the transaction of the last event.
THEOREM AnnouncementsComeTrue == Spec => NextEpochComesTrue
<1> DEFINE ComesTrue ==
              CurrentEpochId' # CurrentEpochId /\ Now' # Now =>
                 /\ \A p \in PoolInfo : CurrentEpochPoolStats(p)' = NextEpochPoolStats(p)
                 /\ \A s \in Staker :
                       /\ CurrentEpochDelegatorDeposited(s)' = NextEpochDelegatorDeposited(s)
                       /\ CurrentEpochDelegatorStaked(s)' = NextEpochDelegatorStaked(s)
                 /\ CurrentEpochWithFees' = NextEpoch
<1>1. ASSUME StakingBase, StakingBase', [Next]_vars, CurrentEpochId' # CurrentEpochId, Now' # Now
      PROVE  ComesTrue
    <2>1. LogInv /\ LogInv'
        BY <1>1 DEF StakingBase
    <2>2. ~UNCHANGED events
        BY <1>1 DEF Now
    <2>3. PICK e \in Event : Appended(e)
        BY <1>1, <2>1, <2>2, NextAppends
    <2>4. e.kind = "epoch"
        BY <1>1, <2>1, <2>3, EpochsAfter, EpochsAreCounted DEF EpochsCount
    <2> QED
        BY <1>1, <2>1, <2>3, <2>4, AnnouncedEpochs
<1>2. StakingBase /\ StakingBase' /\ [Next]_vars => [ComesTrue]_vars
    BY <1>1
<1> QED
    BY <1>2, BaseHolds, PTL DEF Spec, NextEpochComesTrue

\* The deposits and the stake of an epoch that has started, and the fees of one
\* that has ended, are reported the same ever after.
THEOREM ReportsAreSettled == Spec => EpochsAreSettled
<1> DEFINE Settled ==
              \A n \in 1 .. CurrentEpochId :
                 LET before == EpochNWithFees(n)
                     after == EpochNWithFees(n)'
                 IN
                 /\ after.deposited = before.deposited
                 /\ after.staked = before.staked
                 /\ n < CurrentEpochId => after.fees = before.fees
<1>1. ASSUME StakingBase, StakingBase', [Next]_vars PROVE Settled
    <2>1. LogInv /\ LogInv'
        BY <1>1 DEF StakingBase
    <2>2. \E e : UNCHANGED events \/ (Appended(e) /\ e \in Event)
        BY <1>1, <2>1, NextAppends
    <2>3. PICK e : UNCHANGED events \/ (Appended(e) /\ e \in Event)
        BY <2>2
    <2> TAKE n \in 1 .. CurrentEpochId
    <2> QED
        BY <2>1, <2>3, SettledEpochs
<1>2. StakingBase /\ StakingBase' /\ [Next]_vars => [Settled]_vars
    BY <1>1
<1> QED
    BY <1>2, BaseHolds, PTL DEF Spec, EpochsAreSettled

(***************************************************************************)
(* What an event adds to the balances.                                     *)
(***************************************************************************)

TotalsAdd ==
    /\ Total({}) = 0
    /\ \A rows \in SUBSET AllRows : Total(rows) \in Nat
    /\ \A i \in AllRows : Total({i}) = events[i].amount
    /\ \A rows, more \in SUBSET AllRows :
          /\ rows \cap more = {} => Total(rows \cup more) = Total(rows) + Total(more)
          /\ rows \subseteq more => Total(rows) <= Total(more)

LEMMA TotalsAlwaysAdd == LogInv => TotalsAdd
BY Totals DEF TotalsAdd

LEMMA TotalsAddAfterwards == LogInv' => TotalsAdd'
BY TotalsAlwaysAdd, PTL

LEMMA TotalWithNew ==
    ASSUME LogInv, LogInv', NEW e \in Event, Appended(e), NEW new, new = Len(events) + 1,
           NEW rows \in SUBSET AllRows
    PROVE  Total(rows \cup {new})' = Total(rows) + e.amount
<1>1. /\ new \in AllRows' /\ new \notin AllRows /\ events'[new] = e /\ AllRows \subseteq AllRows'
      /\ new \in Nat
    BY RowsAfter, LastRow DEF AllRows
<1>2. rows \in SUBSET AllRows' /\ {new} \in SUBSET AllRows' /\ rows \cap {new} = {}
    BY <1>1
<1>3. Total(rows \cup {new})' = Total(rows)' + Total({new})'
    BY <1>2, TotalsAddAfterwards DEF TotalsAdd
<1>4. Total({new})' = e.amount
    BY <1>1, TotalsAddAfterwards DEF TotalsAdd
<1>5. Total(rows)' = Total(rows)
    BY TotalsAfter
<1> QED
    BY <1>3, <1>4, <1>5

MovesTo(who, pools, rows) ==
    {i \in rows : events[i].kind = "move" /\ events[i].who \in who /\ events[i].to \in pools}
MovesFrom(who, pools, rows) ==
    {i \in rows : events[i].kind = "move" /\ events[i].who \in who /\ events[i].from \in pools}
StakesOf(who, rows) == {i \in rows : events[i].kind = "stake" /\ events[i].who \in who}
UnstakesOf(who, rows) == {i \in rows : events[i].kind = "unstake" /\ events[i].who \in who}

LEMMA BalancesAreTotals ==
    ASSUME NEW who, NEW rows
    PROVE  /\ \A pools : Staked(who, pools, rows) = Total(MovesTo(who, pools, rows))
                                                    - Total(MovesFrom(who, pools, rows))
           /\ Deposited(who, rows) = Total(StakesOf(who, rows)) - Total(UnstakesOf(who, rows))
<1>1. ASSUME NEW pools
      PROVE  Staked(who, pools, rows) = Total(MovesTo(who, pools, rows))
                                        - Total(MovesFrom(who, pools, rows))
    <2> DEFINE moves == {i \in rows : events[i].kind = "move" /\ events[i].who \in who}
    <2>1. /\ {i \in moves : events[i].to \in pools} = MovesTo(who, pools, rows)
          /\ {i \in moves : events[i].from \in pools} = MovesFrom(who, pools, rows)
        BY DEF MovesTo, MovesFrom
    <2> QED
        BY <2>1 DEF Staked
<1>2. Deposited(who, rows) = Total(StakesOf(who, rows)) - Total(UnstakesOf(who, rows))
    <2> DEFINE ofThem == {i \in rows : events[i].who \in who}
    <2>1. /\ {i \in ofThem : events[i].kind = "stake"} = StakesOf(who, rows)
          /\ {i \in ofThem : events[i].kind = "unstake"} = UnstakesOf(who, rows)
        BY DEF StakesOf, UnstakesOf
    <2> QED
        BY <2>1 DEF Deposited
<1> QED
    BY <1>1, <1>2

LEMMA BalancesAreTotalsAfter ==
    ASSUME NEW who, NEW rows
    PROVE  /\ \A pools : Staked(who, pools, rows)' = Total(MovesTo(who, pools, rows))'
                                                     - Total(MovesFrom(who, pools, rows))'
           /\ Deposited(who, rows)' = Total(StakesOf(who, rows))' - Total(UnstakesOf(who, rows))'
<1>1. ASSUME NEW pools
      PROVE  Staked(who, pools, rows)' = Total(MovesTo(who, pools, rows))'
                                         - Total(MovesFrom(who, pools, rows))'
    <2> DEFINE moves == {i \in rows : events'[i].kind = "move" /\ events'[i].who \in who}
    <2>1. /\ {i \in moves : events'[i].to \in pools} = MovesTo(who, pools, rows)'
          /\ {i \in moves : events'[i].from \in pools} = MovesFrom(who, pools, rows)'
        BY DEF MovesTo, MovesFrom
    <2> QED
        BY <2>1 DEF Staked
<1>2. Deposited(who, rows)' = Total(StakesOf(who, rows))' - Total(UnstakesOf(who, rows))'
    <2> DEFINE ofThem == {i \in rows : events'[i].who \in who}
    <2>1. /\ {i \in ofThem : events'[i].kind = "stake"} = StakesOf(who, rows)'
          /\ {i \in ofThem : events'[i].kind = "unstake"} = UnstakesOf(who, rows)'
        BY DEF StakesOf, UnstakesOf
    <2> QED
        BY <2>1 DEF Deposited
<1> QED
    BY <1>1, <1>2

LEMMA BalancesAfter ==
    ASSUME LogInv, LogInv', NEW e \in Event, Appended(e), NEW all, all = 1 .. Len(events) + 1
    PROVE  /\ \A who, pools :
                 Staked(who, pools, all)' =
                    Staked(who, pools, AllRows)
                    + (IF e.kind = "move" /\ e.who \in who /\ e.to \in pools THEN e.amount ELSE 0)
                    - (IF e.kind = "move" /\ e.who \in who /\ e.from \in pools THEN e.amount ELSE 0)
           /\ \A who :
                 Deposited(who, all)' =
                    Deposited(who, AllRows)
                    + (IF e.kind = "stake" /\ e.who \in who THEN e.amount ELSE 0)
                    - (IF e.kind = "unstake" /\ e.who \in who THEN e.amount ELSE 0)
<1>1. PICK new : new = Len(events) + 1
    OBVIOUS
<1>2. /\ all = AllRows \cup {new} /\ new \notin AllRows /\ events'[new] = e
      /\ \A i \in AllRows : events'[i] = events[i]
    BY <1>1, RowsAfter, LastRow DEF AllRows
<1>3. e.amount \in Nat
    BY DEF Event
<1>4. ASSUME NEW rows \in SUBSET AllRows
      PROVE  /\ Total(rows \cup {new})' = Total(rows) + e.amount
             /\ Total(rows)' = Total(rows) /\ Total(rows) \in Nat
    BY <1>1, TotalWithNew, TotalsAfter, TotalsAlwaysAdd DEF TotalsAdd
<1>5. ASSUME NEW who, NEW pools
      PROVE  Staked(who, pools, all)' =
                Staked(who, pools, AllRows)
                + (IF e.kind = "move" /\ e.who \in who /\ e.to \in pools THEN e.amount ELSE 0)
                - (IF e.kind = "move" /\ e.who \in who /\ e.from \in pools THEN e.amount ELSE 0)
    <2>1. PICK t \in SUBSET AllRows, f \in SUBSET AllRows :
              t = MovesTo(who, pools, AllRows) /\ f = MovesFrom(who, pools, AllRows)
        BY DEF MovesTo, MovesFrom
    <2>2. MovesTo(who, pools, all)' =
             IF e.kind = "move" /\ e.who \in who /\ e.to \in pools THEN t \cup {new} ELSE t
        BY <1>2, <2>1 DEF MovesTo
    <2>3. MovesFrom(who, pools, all)' =
             IF e.kind = "move" /\ e.who \in who /\ e.from \in pools THEN f \cup {new} ELSE f
        BY <1>2, <2>1 DEF MovesFrom
    <2>4. Total(MovesTo(who, pools, all))' =
             Total(t) + (IF e.kind = "move" /\ e.who \in who /\ e.to \in pools THEN e.amount ELSE 0)
        <3>1. CASE e.kind = "move" /\ e.who \in who /\ e.to \in pools
            <4>1. MovesTo(who, pools, all)' = t \cup {new}
                BY <2>2, <3>1
            <4>2. Total(MovesTo(who, pools, all))' = Total(t \cup {new})'
                BY <4>1 DEF Total
            <4> QED
                BY <3>1, <4>2, <1>4
        <3>2. CASE ~(e.kind = "move" /\ e.who \in who /\ e.to \in pools)
            <4>1. MovesTo(who, pools, all)' = t
                BY <2>2, <3>2
            <4>2. Total(MovesTo(who, pools, all))' = Total(t)'
                BY <4>1 DEF Total
            <4>3. Total(t)' = Total(t) /\ Total(t) \in Nat
                BY <1>4
            <4> QED
                BY <3>2, <4>2, <4>3, <1>4
        <3> QED
            BY <3>1, <3>2
    <2>5. Total(MovesFrom(who, pools, all))' =
             Total(f) + (IF e.kind = "move" /\ e.who \in who /\ e.from \in pools THEN e.amount ELSE 0)
        <3>1. CASE e.kind = "move" /\ e.who \in who /\ e.from \in pools
            <4>1. MovesFrom(who, pools, all)' = f \cup {new}
                BY <2>3, <3>1
            <4>2. Total(MovesFrom(who, pools, all))' = Total(f \cup {new})'
                BY <4>1 DEF Total
            <4> QED
                BY <3>1, <4>2, <1>4
        <3>2. CASE ~(e.kind = "move" /\ e.who \in who /\ e.from \in pools)
            <4>1. MovesFrom(who, pools, all)' = f
                BY <2>3, <3>2
            <4>2. Total(MovesFrom(who, pools, all))' = Total(f)'
                BY <4>1 DEF Total
            <4>3. Total(f)' = Total(f) /\ Total(f) \in Nat
                BY <1>4
            <4> QED
                BY <3>2, <4>2, <4>3, <1>4
        <3> QED
            BY <3>1, <3>2
    <2>6. /\ Staked(who, pools, all)' = Total(MovesTo(who, pools, all))' - Total(MovesFrom(who, pools, all))'
          /\ Staked(who, pools, AllRows) = Total(t) - Total(f)
        BY <2>1, BalancesAreTotals, BalancesAreTotalsAfter
    <2>7. Total(t) \in Nat /\ Total(f) \in Nat
        BY <1>4
    <2> QED
        BY <1>3, <2>4, <2>5, <2>6, <2>7
<1>6. ASSUME NEW who
      PROVE  Deposited(who, all)' =
                Deposited(who, AllRows)
                + (IF e.kind = "stake" /\ e.who \in who THEN e.amount ELSE 0)
                - (IF e.kind = "unstake" /\ e.who \in who THEN e.amount ELSE 0)
    <2>1. PICK t \in SUBSET AllRows, f \in SUBSET AllRows :
              t = StakesOf(who, AllRows) /\ f = UnstakesOf(who, AllRows)
        BY DEF StakesOf, UnstakesOf
    <2>2. StakesOf(who, all)' = IF e.kind = "stake" /\ e.who \in who THEN t \cup {new} ELSE t
        BY <1>2, <2>1 DEF StakesOf
    <2>3. UnstakesOf(who, all)' = IF e.kind = "unstake" /\ e.who \in who THEN f \cup {new} ELSE f
        BY <1>2, <2>1 DEF UnstakesOf
    <2>4. Total(StakesOf(who, all))' =
             Total(t) + (IF e.kind = "stake" /\ e.who \in who THEN e.amount ELSE 0)
        <3>1. CASE e.kind = "stake" /\ e.who \in who
            <4>1. StakesOf(who, all)' = t \cup {new}
                BY <2>2, <3>1
            <4>2. Total(StakesOf(who, all))' = Total(t \cup {new})'
                BY <4>1 DEF Total
            <4> QED
                BY <3>1, <4>2, <1>4
        <3>2. CASE ~(e.kind = "stake" /\ e.who \in who)
            <4>1. StakesOf(who, all)' = t
                BY <2>2, <3>2
            <4>2. Total(StakesOf(who, all))' = Total(t)'
                BY <4>1 DEF Total
            <4>3. Total(t)' = Total(t) /\ Total(t) \in Nat
                BY <1>4
            <4> QED
                BY <3>2, <4>2, <4>3, <1>4
        <3> QED
            BY <3>1, <3>2
    <2>5. Total(UnstakesOf(who, all))' =
             Total(f) + (IF e.kind = "unstake" /\ e.who \in who THEN e.amount ELSE 0)
        <3>1. CASE e.kind = "unstake" /\ e.who \in who
            <4>1. UnstakesOf(who, all)' = f \cup {new}
                BY <2>3, <3>1
            <4>2. Total(UnstakesOf(who, all))' = Total(f \cup {new})'
                BY <4>1 DEF Total
            <4> QED
                BY <3>1, <4>2, <1>4
        <3>2. CASE ~(e.kind = "unstake" /\ e.who \in who)
            <4>1. UnstakesOf(who, all)' = f
                BY <2>3, <3>2
            <4>2. Total(UnstakesOf(who, all))' = Total(f)'
                BY <4>1 DEF Total
            <4>3. Total(f)' = Total(f) /\ Total(f) \in Nat
                BY <1>4
            <4> QED
                BY <3>2, <4>2, <4>3, <1>4
        <3> QED
            BY <3>1, <3>2
    <2>6. /\ Deposited(who, all)' = Total(StakesOf(who, all))' - Total(UnstakesOf(who, all))'
          /\ Deposited(who, AllRows) = Total(t) - Total(f)
        BY <2>1, BalancesAreTotals, BalancesAreTotalsAfter
    <2>7. Total(t) \in Nat /\ Total(f) \in Nat
        BY <1>4
    <2> QED
        BY <1>3, <2>4, <2>5, <2>6, <2>7
<1> QED
    BY <1>5, <1>6

-----------------------------------------------------------------------------
(* Lawful logs.  The staking contracts refuse to move stake that is not     *)
(* there and to withdraw ZRX that is staked; a behaviour keeps their rules  *)
(* if the log that it starts from was written under them.                   *)

LawfulStakes ==
    /\ \A i \in Rows("create") : events[i].to \in Pool
    /\ \A i \in Rows("move") : {events[i].from, events[i].to} \subseteq Created(i) \cup {None}
    /\ \A t \in 0 .. Len(events) : \A s \in Staker :
          /\ \A p \in Pool : Staked({s}, {p}, 1 .. t) >= 0
          /\ Staked({s}, Pool, 1 .. t) <= Deposited({s}, 1 .. t)

LEMMA BalancesAreIntegers ==
    ASSUME LogInv, NEW who, NEW pools, NEW rows \in SUBSET AllRows
    PROVE  Staked(who, pools, rows) \in Int /\ Deposited(who, rows) \in Int
<1>1. /\ MovesTo(who, pools, rows) \in SUBSET AllRows /\ MovesFrom(who, pools, rows) \in SUBSET AllRows
      /\ StakesOf(who, rows) \in SUBSET AllRows /\ UnstakesOf(who, rows) \in SUBSET AllRows
    BY DEF MovesTo, MovesFrom, StakesOf, UnstakesOf
<1>2. /\ Total(MovesTo(who, pools, rows)) \in Nat /\ Total(MovesFrom(who, pools, rows)) \in Nat
      /\ Total(StakesOf(who, rows)) \in Nat /\ Total(UnstakesOf(who, rows)) \in Nat
    BY <1>1, TotalsAlwaysAdd DEF TotalsAdd
<1> QED
    BY <1>2, BalancesAreTotals

LEMMA NextKeepsBalances ==
    ASSUME LogInv, LogInv', LawfulStakes, NEW e \in Event, Appended(e), Checked(e),
           NEW s \in Staker, NEW all, all = 1 .. Len(events) + 1
    PROVE  /\ \A p \in Pool : Staked({s}, {p}, all)' >= 0
           /\ Staked({s}, Pool, all)' <= Deposited({s}, all)'
<1>1. AllRows = 1 .. Len(events) /\ Len(events) \in 0 .. Len(events)
    BY LastRow DEF AllRows
<1>2. /\ \A p \in Pool : Staked({s}, {p}, AllRows) >= 0
      /\ Staked({s}, Pool, AllRows) <= Deposited({s}, AllRows)
    BY <1>1 DEF LawfulStakes
<1>3. /\ \A pools : Staked({s}, pools, AllRows) \in Int
      /\ Deposited({s}, AllRows) \in Int
      /\ e.amount \in Nat
    BY BalancesAreIntegers DEF Event
<1>4. /\ e.kind = "move" => /\ {e.from, e.to} \subseteq Pool \cup {None} /\ e.from # e.to
                            /\ e.amount <= (IF e.from = None
                                            THEN Deposited({e.who}, AllRows) - Staked({e.who}, Pool, AllRows)
                                            ELSE Staked({e.who}, {e.from}, AllRows))
      /\ e.kind = "unstake" => e.amount <= Deposited({e.who}, AllRows) - Staked({e.who}, Pool, AllRows)
    BY DEF Checked, Free, Event
<1>5. None \notin Pool
    BY StakingAssumption
<1>6. ASSUME NEW p \in Pool PROVE Staked({s}, {p}, all)' >= 0
    <2>1. PICK x \in Int : x = Staked({s}, {p}, AllRows) /\ x >= 0
        BY <1>2, <1>3
    <2>2. Staked({s}, {p}, all)' =
             x + (IF e.kind = "move" /\ e.who = s /\ e.to = p THEN e.amount ELSE 0)
               - (IF e.kind = "move" /\ e.who = s /\ e.from = p THEN e.amount ELSE 0)
        <3>1. /\ e.who \in {s} <=> e.who = s
              /\ e.to \in {p} <=> e.to = p
              /\ e.from \in {p} <=> e.from = p
            OBVIOUS
        <3> QED
            BY <2>1, <3>1, BalancesAfter
    <2>3. CASE e.kind = "move" /\ e.who = s /\ e.from = p
        <3>1. e.amount <= x /\ e.to # p
            BY <1>4, <1>5, <2>1, <2>3
        <3> QED
            BY <2>1, <2>2, <2>3, <3>1, <1>3
    <2>4. CASE ~(e.kind = "move" /\ e.who = s /\ e.from = p)
        <3>1. CASE e.kind = "move" /\ e.who = s /\ e.to = p
            BY <2>1, <2>2, <2>4, <3>1, <1>3
        <3>2. CASE ~(e.kind = "move" /\ e.who = s /\ e.to = p)
            BY <2>1, <2>2, <2>4, <3>2
        <3> QED
            BY <3>1, <3>2
    <2> QED
        BY <2>3, <2>4
<1>7. Staked({s}, Pool, all)' <= Deposited({s}, all)'
    <2>1. PICK x \in Int, d \in Int :
              x = Staked({s}, Pool, AllRows) /\ d = Deposited({s}, AllRows) /\ x <= d
        BY <1>2, <1>3
    <2>2. /\ Staked({s}, Pool, all)' =
                x + (IF e.kind = "move" /\ e.who = s /\ e.to \in Pool THEN e.amount ELSE 0)
                  - (IF e.kind = "move" /\ e.who = s /\ e.from \in Pool THEN e.amount ELSE 0)
          /\ Deposited({s}, all)' =
                d + (IF e.kind = "stake" /\ e.who = s THEN e.amount ELSE 0)
                  - (IF e.kind = "unstake" /\ e.who = s THEN e.amount ELSE 0)
        <3>1. e.who \in {s} <=> e.who = s
            OBVIOUS
        <3> QED
            BY <2>1, <3>1, BalancesAfter
    <2>3. CASE e.kind = "move" /\ e.who = s
        <3>1. Deposited({s}, all)' = d
            BY <2>1, <2>2, <2>3
        <3>2. CASE e.from = None
            <4>1. e.amount <= d - x /\ e.from \notin Pool
                BY <1>4, <1>5, <2>1, <2>3, <3>2
            <4>2. Staked({s}, Pool, all)' \in {x, x + e.amount}
                BY <1>3, <2>1, <2>2, <2>3, <4>1
            <4> QED
                BY <1>3, <2>1, <3>1, <4>1, <4>2
        <3>3. CASE e.from # None
            <4>1. e.from \in Pool
                BY <2>3, <3>3, <1>4
            <4>2. Staked({s}, Pool, all)' \in {x - e.amount, x}
                BY <1>3, <2>1, <2>2, <2>3, <4>1
            <4> QED
                BY <1>3, <2>1, <3>1, <4>2
        <3> QED
            BY <3>2, <3>3
    <2>4. CASE e.kind = "unstake" /\ e.who = s
        <3>1. e.amount <= d - x
            BY <1>4, <2>1, <2>4
        <3>2. Staked({s}, Pool, all)' = x /\ Deposited({s}, all)' = d - e.amount
            BY <1>3, <2>1, <2>2, <2>4
        <3> QED
            BY <1>3, <2>1, <3>1, <3>2
    <2>5. CASE ~(e.kind = "move" /\ e.who = s) /\ ~(e.kind = "unstake" /\ e.who = s)
        <3>1. Staked({s}, Pool, all)' = x /\ Deposited({s}, all)' \in {d, d + e.amount}
            BY <1>3, <2>1, <2>2, <2>5
        <3> QED
            BY <1>3, <2>1, <3>1
    <2> QED
        BY <2>3, <2>4, <2>5
<1> QED
    BY <1>6, <1>7

LEMMA NextKeepsStakesLawful == LogInv /\ LogInv' /\ LawfulStakes /\ [Next]_vars => LawfulStakes'
<1> SUFFICES ASSUME LogInv, LogInv', LawfulStakes, [Next]_vars PROVE LawfulStakes'
    OBVIOUS
<1>1. CASE UNCHANGED events
    <2>1. /\ \A kind : Rows(kind)' = Rows(kind)
          /\ \A i : Created(i)' = Created(i)
          /\ Len(events)' = Len(events) /\ AllRows = 1 .. Len(events) /\ Len(events) \in Nat
        BY <1>1, LastRow DEF Rows, Created, AllRows
    <2>2. ASSUME NEW t \in 0 .. Len(events), NEW s
          PROVE  /\ \A pools : Staked({s}, pools, 1 .. t)' = Staked({s}, pools, 1 .. t)
                 /\ Deposited({s}, 1 .. t)' = Deposited({s}, 1 .. t)
        <3>1. 1 .. t \in SUBSET AllRows
            BY <2>1
        <3> QED
            BY <1>1, <3>1, TotalsAfter
    <2>3. /\ (\A i \in Rows("create") : events[i].to \in Pool)'
          /\ (\A i \in Rows("move") : {events[i].from, events[i].to} \subseteq Created(i) \cup {None})'
        BY <1>1, <2>1 DEF LawfulStakes
    <2>4. (\A t \in 0 .. Len(events) : \A s \in Staker :
              /\ \A p \in Pool : Staked({s}, {p}, 1 .. t) >= 0
              /\ Staked({s}, Pool, 1 .. t) <= Deposited({s}, 1 .. t))'
        <3>1. ASSUME NEW t \in 0 .. Len(events), NEW s \in Staker
              PROVE  /\ \A p \in Pool : Staked({s}, {p}, 1 .. t)' >= 0
                     /\ Staked({s}, Pool, 1 .. t)' <= Deposited({s}, 1 .. t)'
            <4>1. /\ \A p \in Pool : Staked({s}, {p}, 1 .. t) >= 0
                  /\ Staked({s}, Pool, 1 .. t) <= Deposited({s}, 1 .. t)
                BY DEF LawfulStakes
            <4> QED
                BY <4>1, <2>2
        <3> QED
            BY <2>1, <3>1
    <2> QED
        BY <2>3, <2>4 DEF LawfulStakes
<1>2. ASSUME NEW e \in Event, Appended(e), Checked(e) PROVE LawfulStakes'
    <2>1. PICK n : n = Len(events)
        OBVIOUS
    <2>2. /\ n \in Nat \ {0} /\ Len(events') = n + 1 /\ AllRows = 1 .. n
          /\ \A i \in 1 .. n : events'[i] = events[i]
          /\ events'[n + 1] = e
          /\ \A kind : Rows(kind)' = Rows(kind) \cup (IF e.kind = kind THEN {n + 1} ELSE {})
          /\ \A kind : Rows(kind) \subseteq 1 .. n
        BY <1>2, <2>1, RowsAfter, LastRow DEF AllRows, Rows
    <2>3. /\ \A i \in 1 .. n : Created(i)' = Created(i)
          /\ PoolInfo' = PoolInfo \cup (IF e.kind = "create" THEN {e.to} ELSE {})
        BY <1>2, <2>1, PoolsAfter
    <2>4. (\A i \in Rows("create") : events[i].to \in Pool)'
        <3>1. ASSUME NEW i \in Rows("create")' PROVE events'[i].to \in Pool
            <4>1. CASE i \in Rows("create")
                BY <4>1, <2>2 DEF LawfulStakes
            <4>2. CASE i = n + 1
                BY <4>2, <1>2, <2>2, <3>1 DEF Checked, Rows
            <4> QED
                BY <4>1, <4>2, <2>2
        <3> QED
            BY <3>1
    <2>5. (\A i \in Rows("move") : {events[i].from, events[i].to} \subseteq Created(i) \cup {None})'
        <3>1. ASSUME NEW i \in Rows("move")'
              PROVE  {events'[i].from, events'[i].to} \subseteq Created(i)' \cup {None}
            <4>1. CASE i \in Rows("move")
                BY <4>1, <2>2, <2>3 DEF LawfulStakes
            <4>2. CASE i = n + 1
                <5>1. e.kind = "move"
                    BY <4>2, <2>2, <3>1 DEF Rows
                <5>2. {e.from, e.to} \subseteq PoolInfo \cup {None} /\ PoolInfo' = PoolInfo
                    BY <5>1, <1>2, <2>3 DEF Checked
                <5>3. Created(i)' = PoolInfo'
                    BY <4>2, <2>2 DEF PoolInfo, Created
                <5> QED
                    BY <4>2, <2>2, <5>2, <5>3
            <4> QED
                BY <4>1, <4>2, <2>2
        <3> QED
            BY <3>1
    <2>6. ASSUME NEW t \in 0 .. n + 1, NEW s \in Staker
          PROVE  /\ \A p \in Pool : Staked({s}, {p}, 1 .. t)' >= 0
                 /\ Staked({s}, Pool, 1 .. t)' <= Deposited({s}, 1 .. t)'
        <3>1. CASE t \in 0 .. n
            <4>1. 1 .. t \in SUBSET AllRows
                BY <2>2, <3>1
            <4>2. /\ \A pools : Staked({s}, pools, 1 .. t)' = Staked({s}, pools, 1 .. t)
                  /\ Deposited({s}, 1 .. t)' = Deposited({s}, 1 .. t)
                BY <1>2, <4>1, TotalsAfter
            <4> QED
                BY <2>1, <3>1, <4>2 DEF LawfulStakes
        <3>2. CASE t = n + 1
            BY <1>2, <2>1, <3>2, NextKeepsBalances
        <3>3. t \in 0 .. n \/ t = n + 1
            BY <2>2
        <3> QED
            BY <3>1, <3>2, <3>3
    <2>7. (\A t \in 0 .. Len(events) : \A s \in Staker :
              /\ \A p \in Pool : Staked({s}, {p}, 1 .. t) >= 0
              /\ Staked({s}, Pool, 1 .. t) <= Deposited({s}, 1 .. t))'
        BY <2>2, <2>6
    <2> QED
        BY <2>4, <2>5, <2>7 DEF LawfulStakes
<1> QED
    BY <1>1, <1>2, NextAppends

LEMMA LawfulStakesHold == Spec /\ LawfulStakes => [](LogInv /\ LawfulStakes)
<1>1. LogInv /\ LawfulStakes /\ [Next]_vars => (LogInv /\ LawfulStakes)'
    BY NextKeepsLogInv, NextKeepsStakesLawful
<1> QED
    BY <1>1, InitLogInv, PTL DEF Spec

\* Stake adds up over stakers and over pools.
LEMMA StakedSplits ==
    ASSUME LogInv, NEW rows \in SUBSET AllRows
    PROVE  /\ \A who, more, pools : who \cap more = {} =>
                 Staked(who \cup more, pools, rows) = Staked(who, pools, rows) + Staked(more, pools, rows)
           /\ \A who, pools, more : pools \cap more = {} =>
                 Staked(who, pools \cup more, rows) = Staked(who, pools, rows) + Staked(who, more, rows)
           /\ \A pools : Staked({}, pools, rows) = 0
           /\ \A who : Staked(who, {}, rows) = 0
<1>1. ASSUME NEW t \in SUBSET AllRows, NEW u \in SUBSET AllRows, t \cap u = {}
      PROVE  Total(t \cup u) = Total(t) + Total(u) /\ Total(t) \in Nat /\ Total(u) \in Nat
    BY <1>1, TotalsAlwaysAdd DEF TotalsAdd
<1>2. ASSUME NEW who, NEW more, NEW pools, who \cap more = {}
      PROVE  Staked(who \cup more, pools, rows) = Staked(who, pools, rows) + Staked(more, pools, rows)
    <2>1. /\ MovesTo(who \cup more, pools, rows) = MovesTo(who, pools, rows) \cup MovesTo(more, pools, rows)
          /\ MovesFrom(who \cup more, pools, rows) =
                MovesFrom(who, pools, rows) \cup MovesFrom(more, pools, rows)
          /\ MovesTo(who, pools, rows) \cap MovesTo(more, pools, rows) = {}
          /\ MovesFrom(who, pools, rows) \cap MovesFrom(more, pools, rows) = {}
        BY <1>2 DEF MovesTo, MovesFrom
    <2>2. PICK t1 \in SUBSET AllRows, t2 \in SUBSET AllRows, f1 \in SUBSET AllRows, f2 \in SUBSET AllRows :
              /\ t1 = MovesTo(who, pools, rows) /\ t2 = MovesTo(more, pools, rows)
              /\ f1 = MovesFrom(who, pools, rows) /\ f2 = MovesFrom(more, pools, rows)
        BY DEF MovesTo, MovesFrom
    <2>3. /\ Staked(who \cup more, pools, rows) = Total(t1 \cup t2) - Total(f1 \cup f2)
          /\ Staked(who, pools, rows) = Total(t1) - Total(f1)
          /\ Staked(more, pools, rows) = Total(t2) - Total(f2)
        BY <2>1, <2>2, BalancesAreTotals
    <2>4. t1 \cap t2 = {} /\ f1 \cap f2 = {}
        BY <2>1, <2>2
    <2> QED
        BY <2>3, <2>4, <1>1
<1>3. ASSUME NEW who, NEW pools, NEW more, pools \cap more = {}
      PROVE  Staked(who, pools \cup more, rows) = Staked(who, pools, rows) + Staked(who, more, rows)
    <2>1. /\ MovesTo(who, pools \cup more, rows) = MovesTo(who, pools, rows) \cup MovesTo(who, more, rows)
          /\ MovesFrom(who, pools \cup more, rows) =
                MovesFrom(who, pools, rows) \cup MovesFrom(who, more, rows)
          /\ MovesTo(who, pools, rows) \cap MovesTo(who, more, rows) = {}
          /\ MovesFrom(who, pools, rows) \cap MovesFrom(who, more, rows) = {}
        BY <1>3 DEF MovesTo, MovesFrom
    <2>2. PICK t1 \in SUBSET AllRows, t2 \in SUBSET AllRows, f1 \in SUBSET AllRows, f2 \in SUBSET AllRows :
              /\ t1 = MovesTo(who, pools, rows) /\ t2 = MovesTo(who, more, rows)
              /\ f1 = MovesFrom(who, pools, rows) /\ f2 = MovesFrom(who, more, rows)
        BY DEF MovesTo, MovesFrom
    <2>3. /\ Staked(who, pools \cup more, rows) = Total(t1 \cup t2) - Total(f1 \cup f2)
          /\ Staked(who, pools, rows) = Total(t1) - Total(f1)
          /\ Staked(who, more, rows) = Total(t2) - Total(f2)
        BY <2>1, <2>2, BalancesAreTotals
    <2>4. t1 \cap t2 = {} /\ f1 \cap f2 = {}
        BY <2>1, <2>2
    <2> QED
        BY <2>3, <2>4, <1>1
<1>4. ASSUME NEW who, NEW pools, who = {} \/ pools = {}
      PROVE  Staked(who, pools, rows) = 0
    <2>1. MovesTo(who, pools, rows) = {} /\ MovesFrom(who, pools, rows) = {}
        BY <1>4 DEF MovesTo, MovesFrom
    <2>2. Staked(who, pools, rows) =
             Total(MovesTo(who, pools, rows)) - Total(MovesFrom(who, pools, rows))
        BY BalancesAreTotals
    <2>3. Total({}) = 0
        BY TotalsAlwaysAdd DEF TotalsAdd
    <2> QED
        BY <2>1, <2>2, <2>3
<1> QED
    BY <1>2, <1>3, <1>4

LEMMA StakeOfEach ==
    ASSUME LogInv, NEW who, IsFiniteSet(who), NEW pools, NEW rows \in SUBSET AllRows
    PROVE  SumFunctionOnSet([s \in who |-> Staked({s}, pools, rows)], who) = Staked(who, pools, rows)
<1> DEFINE F == [W \in SUBSET who |-> Staked(W, pools, rows)]
           g == [s \in who |-> Staked({s}, pools, rows)]
<1>1. /\ F[{}] = 0 /\ F[who] = Staked(who, pools, rows)
      /\ \A W \in SUBSET who : F[W] \in Int
      /\ \A s \in who : g[s] = F[{s}]
    BY StakedSplits, BalancesAreIntegers
<1>2. \A s \in who : \A W \in SUBSET who : s \notin W => F[W \cup {s}] = F[W] + F[{s}]
    <2>1. ASSUME NEW s \in who, NEW W \in SUBSET who, s \notin W
          PROVE  F[W \cup {s}] = F[W] + F[{s}]
        <3>1. W \cap {s} = {} /\ W \cup {s} \in SUBSET who /\ {s} \in SUBSET who
            BY <2>1
        <3>2. Staked(W \cup {s}, pools, rows) = Staked(W, pools, rows) + Staked({s}, pools, rows)
            BY <3>1, StakedSplits
        <3> QED
            BY <3>1, <3>2
    <2> QED
        BY <2>1
<1>3. SumFunctionOnSet(g, who) = F[who]
    <2> HIDE DEF F, g
    <2> QED
        BY <1>1, <1>2, SumOfAdditive
<1> QED
    BY <1>1, <1>3

LEMMA StakeInEach ==
    ASSUME LogInv, NEW pools, IsFiniteSet(pools), NEW who, NEW rows \in SUBSET AllRows
    PROVE  SumFunctionOnSet([p \in pools |-> Staked(who, {p}, rows)], pools) = Staked(who, pools, rows)
<1> DEFINE F == [P \in SUBSET pools |-> Staked(who, P, rows)]
           g == [p \in pools |-> Staked(who, {p}, rows)]
<1>1. /\ F[{}] = 0 /\ F[pools] = Staked(who, pools, rows)
      /\ \A P \in SUBSET pools : F[P] \in Int
      /\ \A p \in pools : g[p] = F[{p}]
    BY StakedSplits, BalancesAreIntegers
<1>2. \A p \in pools : \A P \in SUBSET pools : p \notin P => F[P \cup {p}] = F[P] + F[{p}]
    <2>1. ASSUME NEW p \in pools, NEW P \in SUBSET pools, p \notin P
          PROVE  F[P \cup {p}] = F[P] + F[{p}]
        <3>1. P \cap {p} = {} /\ P \cup {p} \in SUBSET pools /\ {p} \in SUBSET pools
            BY <2>1
        <3>2. Staked(who, P \cup {p}, rows) = Staked(who, P, rows) + Staked(who, {p}, rows)
            BY <3>1, StakedSplits
        <3> QED
            BY <3>1, <3>2
    <2> QED
        BY <2>1
<1>3. SumFunctionOnSet(g, pools) = F[pools]
    <2> HIDE DEF F, g
    <2> QED
        BY <1>1, <1>2, SumOfAdditive
<1> QED
    BY <1>1, <1>3

\* At each moment the stakers of a group have not taken more from a pool than they brought.
LEMMA PrefixStakes ==
    ASSUME LogInv, LawfulStakes, NEW W \in SUBSET Staker, NEW p \in Pool, NEW t \in 0 .. Len(events)
    PROVE  Staked(W, {p}, 1 .. t) \in Nat
<1>1. 1 .. t \in SUBSET AllRows
    BY LastRow DEF AllRows
<1>2. IsFiniteSet(W)
    BY StakingAssumption, FS_Subset
<1> DEFINE g == [s \in W |-> Staked({s}, {p}, 1 .. t)]
<1>3. \A s \in W : g[s] \in Nat
    <2>1. ASSUME NEW s \in W PROVE Staked({s}, {p}, 1 .. t) >= 0 /\ Staked({s}, {p}, 1 .. t) \in Int
        BY <1>1, BalancesAreIntegers DEF LawfulStakes
    <2> QED
        BY <2>1
<1>4. SumFunctionOnSet(g, W) \in Nat
    <2> HIDE DEF g
    <2> QED
        BY <1>2, <1>3, SumIsNatural
<1> QED
    BY <1>1, <1>2, <1>4, StakeOfEach

LEMMA CreatedPools ==
    ASSUME LogInv, LawfulStakes
    PROVE  /\ PoolInfo \subseteq Pool /\ IsFiniteSet(PoolInfo)
           /\ \A i : Created(i) \subseteq PoolInfo
<1>1. \A i \in Rows("create") : events[i].to \in Pool
    BY DEF LawfulStakes
<1>2. IsFiniteSet(Rows("create")) /\ DOMAIN events = 1 .. Len(events)
    <2>1. /\ Rows("create") \subseteq 1 .. Len(events) /\ Len(events) \in Nat
          /\ DOMAIN events = 1 .. Len(events)
        BY LastRow DEF Rows
    <2>2. IsFiniteSet(1 .. Len(events))
        BY <2>1, FS_Interval
    <2> QED
        BY <2>1, <2>2, FS_Subset
<1>3. PoolInfo = {events[i].to : i \in Rows("create")}
    BY <1>2 DEF PoolInfo, Created, Rows
<1>4. IsFiniteSet(PoolInfo)
    <2> DEFINE made == [i \in Rows("create") |-> events[i].to]
    <2>1. made \in [Rows("create") -> PoolInfo]
        BY <1>3
    <2>2. \A p \in PoolInfo : \E i \in Rows("create") : made[i] = p
        BY <1>3
    <2>3. made \in Surjection(Rows("create"), PoolInfo)
        BY <2>1, <2>2 DEF Surjection
    <2> HIDE DEF made
    <2> QED
        BY <1>2, <2>3, FS_Surjection
<1>5. \A i : Created(i) \subseteq PoolInfo
    BY <1>3 DEF Created
<1> QED
    BY <1>1, <1>3, <1>4, <1>5

LEMMA StatisticsFit ==
    ASSUME LogInv, LawfulStakes, NEW p \in Pool, NEW t \in 0 .. Len(events), NEW fees \in Nat,
           NEW makers \in SUBSET Maker
    PROVE  PoolStats(p, 1 .. t, makers, fees) \in PoolStatistics
<1>1. OperatorOf[p] \in Staker
    BY StakingAssumption
<1>2. {OperatorOf[p]} \in SUBSET Staker /\ Staker \ {OperatorOf[p]} \in SUBSET Staker
    BY <1>1
<1> QED
    BY <1>2, PrefixStakes DEF PoolStats, PoolStatistics

LEMMA StatisticsAreWellFormed ==
    LogInv /\ LawfulStakes =>
        \A p \in PoolInfo : {CurrentEpochPoolStats(p), NextEpochPoolStats(p)} \subseteq PoolStatistics
<1> SUFFICES ASSUME LogInv, LawfulStakes, NEW p \in PoolInfo
             PROVE  /\ CurrentEpochPoolStats(p) \in PoolStatistics
                    /\ NextEpochPoolStats(p) \in PoolStatistics
    OBVIOUS
<1>1. p \in Pool /\ Len(events) \in Nat \ {0} /\ AllRows = 1 .. Len(events)
    BY CreatedPools, LastRow DEF AllRows
<1>2. \A i : MakersOf(p, i) \in SUBSET Maker
    BY DEF MakersOf
<1>3. PICK n : n = CurrentEpochId /\ n \in 1 .. CurrentEpochId
    BY EpochsAreCounted DEF EpochsCount
<1>4. AtStart(n) = 1 .. StartRow(n) /\ StartRow(n) \in 0 .. Len(events)
    BY <1>1, <1>3, EpochsHaveBegun
<1>5. NextEpochPoolStats(p) \in PoolStatistics
    BY <1>1, <1>2, StatisticsFit DEF NextEpochPoolStats
<1>6. CurrentEpochPoolStats(p) \in PoolStatistics
    <2> DEFINE fills == {i \in Rows("fill") : /\ ~Before(events[i].at, Start(n))
                                              /\ events[i].who \in StartMakers(n, p)}
    <2>1. fills \in SUBSET AllRows /\ StartMakers(n, p) \in SUBSET Maker
        BY <1>2 DEF Rows, AllRows, StartMakers
    <2>2. Total(fills) \in Nat
        BY <2>1, TotalsAlwaysAdd DEF TotalsAdd
    <2>3. CurrentEpochPoolStats(p) = PoolStats(p, AtStart(n), StartMakers(n, p), Total(fills))
        BY <1>3 DEF CurrentEpochPoolStats
    <2> HIDE DEF fills
    <2> QED
        BY <1>1, <1>4, <2>1, <2>2, <2>3, StatisticsFit
<1> QED
    BY <1>5, <1>6

LEMMA RequestsAreTyped == StakingBase => TypeOK
<1> SUFFICES ASSUME StakingBase PROVE TypeOK
    OBVIOUS
<1>1. events \in Seq(Event) /\ Len(events) <= MaxEvents
    BY DEF StakingBase, LogInv
<1>2. PICK S : request \in [kind : Requests \cup {None}, id : Staker \cup Pool \cup {None},
                            got : Seq(S), epoch : Nat, ended : BOOLEAN]
    BY DEF StakingBase, RequestFits
<1>3. \/ request = Idle
      \/ request.kind \in Requests /\ Len(request.got) <= QueriesOf[request.kind]
    BY <1>2 DEF StakingBase, RequestFits
<1> QED
    BY <1>1, <1>2, <1>3 DEF TypeOK

\* The log and the request are well formed, and no statistic of a pool that
\* currentEpochPoolStats and nextEpochPoolStats serve is negative: nobody takes
\* more from a pool than was brought, neither the operator nor the members.
THEOREM StatisticsAreSound == Spec /\ LawfulStakes => []TypeInvariant
<1>1. StakingBase /\ LogInv /\ LawfulStakes => TypeInvariant
    BY RequestsAreTyped, StatisticsAreWellFormed DEF TypeInvariant
<1> QED
    BY <1>1, BaseHolds, LawfulStakesHold, PTL

-----------------------------------------------------------------------------
(* The two books of the stake.                                             *)

\* The rows before an epoch are those up to some row.
LEMMA RowsBeforeEpoch ==
    ASSUME LogInv, NEW n \in 1 .. CurrentEpochId
    PROVE  /\ \E t \in 0 .. Len(events) : BeforeEpoch(n) = 1 .. t
           /\ BeforeEpoch(n) \subseteq AtStart(n)
           /\ \A i \in AtStart(n) \ BeforeEpoch(n) : events[i].at = Start(n)
<1>1. PICK len : len = Len(events) /\ len \in Nat
    BY LastRow
<1>2. /\ AllRows = 1 .. len /\ Start(n) \in Position
      /\ \A i \in 1 .. len : events[i].at \in Position
      /\ StartRow(n) \in 1 .. len /\ AtStart(n) = 1 .. StartRow(n)
      /\ Start(n) = events[StartRow(n)].at
    BY <1>1, LastRow, EpochsHaveBegun DEF AllRows
<1>3. PICK rows : rows = BeforeEpoch(n)
    OBVIOUS
<1>4. rows = {i \in 1 .. len : Before(events[i].at, Start(n))}
    BY <1>2, <1>3 DEF BeforeEpoch, RowsBefore
<1>5. \A i, j \in 1 .. len : i < j => ~Before(events[j].at, events[i].at)
    BY <1>1, <1>2 DEF LogInv, InOrder, AllRows
<1>6. \E t \in 0 .. len : rows = 1 .. t
    <2>1. CASE rows = {}
        BY <1>1, <2>1
    <2>2. CASE rows # {}
        <3>1. IsFiniteSet(rows) /\ rows \subseteq Int
            <4>1. rows \subseteq 1 .. len /\ 1 .. len \subseteq Int
                BY <1>1, <1>4
            <4>2. IsFiniteSet(1 .. len)
                BY <1>1, FS_Interval
            <4> QED
                BY <4>1, <4>2, FS_Subset
        <3>2. PICK t \in rows : \A i \in rows : t >= i
            BY <2>2, <3>1, HasGreatest
        <3>3. ASSUME NEW i \in 1 .. len, i < t PROVE i \in rows
            <4>1. ~Before(events[t].at, events[i].at) /\ Before(events[t].at, Start(n)) /\ t \in 1 .. len
                BY <1>4, <1>5, <3>2, <3>3
            <4>2. Before(events[i].at, Start(n))
                BY <1>2, <4>1, BeforeIsTransitive
            <4> QED
                BY <1>4, <4>2
        <3>4. rows = 1 .. t
            BY <1>1, <1>4, <3>2, <3>3
        <3> QED
            BY <1>1, <1>4, <3>2, <3>4
    <2> QED
        BY <2>1, <2>2
<1>7. \A i \in rows : i < StartRow(n)
    <2>1. ASSUME NEW i \in rows, i >= StartRow(n) PROVE FALSE
        <3>1. i \in 1 .. len /\ Before(events[i].at, Start(n))
            BY <1>4
        <3>2. i # StartRow(n)
            BY <3>1, <1>2, BeforeIsTransitive
        <3>3. ~Before(events[i].at, Start(n))
            BY <1>2, <1>5, <2>1, <3>1, <3>2
        <3> QED
            BY <3>1, <3>3
    <2> QED
        BY <2>1, <1>2, <1>4
<1>8. ASSUME NEW i \in AtStart(n) \ rows PROVE events[i].at = Start(n)
    <2>1. i \in 1 .. len /\ i <= StartRow(n)
        BY <1>1, <1>2
    <2>2. ~Before(events[i].at, Start(n))
        BY <1>4, <2>1
    <2>3. i = StartRow(n) \/ ~Before(Start(n), events[i].at)
        BY <1>2, <1>5, <2>1
    <2> QED
        BY <1>2, <2>1, <2>2, <2>3, BeforeIsTransitive
<1> QED
    BY <1>1, <1>2, <1>3, <1>4, <1>6, <1>7, <1>8

\* Rows without moves of stake change no balance.
LEMMA StillStake ==
    ASSUME LogInv, NEW rows \in SUBSET AllRows, NEW more \in SUBSET AllRows, rows \subseteq more,
           \A i \in Rows("move") : i \in more => i \in rows, NEW who, NEW pools
    PROVE  Staked(who, pools, rows) = Staked(who, pools, more)
<1>1. /\ MovesTo(who, pools, rows) = MovesTo(who, pools, more)
      /\ MovesFrom(who, pools, rows) = MovesFrom(who, pools, more)
    BY DEF MovesTo, MovesFrom, Rows, AllRows
<1> QED
    BY <1>1, BalancesAreTotals

\* What a delegator's list says of a pool is what the delegator has staked with it.
LEMMA DelegatorsRow ==
    ASSUME LogInv, NEW s \in Staker, NEW p \in Pool, NEW rows \in SUBSET AllRows
    PROVE  SumOver({d \in DelegatorStaked(s, rows).poolData : d.pool = p}, LAMBDA d : d.stake) =
              Staked({s}, {p}, rows)
<1> DEFINE pools == {q \in Pool : \E i \in rows \cap Rows("move") :
                        events[i].who = s /\ q \in {events[i].from, events[i].to}}
           mine == {d \in DelegatorStaked(s, rows).poolData : d.pool = p}
           stakes == [d \in mine |-> d.stake]
           row == [pool |-> p, stake |-> Staked({s}, {p}, rows)]
<1>1. SumOver(mine, LAMBDA d : d.stake) = SumFunction(stakes)
    BY DEF SumOver
<1>2. DelegatorStaked(s, rows).poolData =
         IF pools = {} THEN {[pool |-> None, stake |-> 0]}
         ELSE {[pool |-> q, stake |-> Staked({s}, {q}, rows)] : q \in pools}
    BY DEF DelegatorStaked
<1>3. p # None
    BY StakingAssumption
<1>4. CASE p \in pools
    <2>1. mine = {row}
        <3>1. DelegatorStaked(s, rows).poolData =
                 {[pool |-> q, stake |-> Staked({s}, {q}, rows)] : q \in pools}
            BY <1>2, <1>4
        <3>2. \A d : d \in DelegatorStaked(s, rows).poolData <=>
                     \E q \in pools : d = [pool |-> q, stake |-> Staked({s}, {q}, rows)]
            <4> HIDE DEF pools
            <4> QED
                BY ONLY <3>1, Zenon
        <3>3. row \in mine
            <4> HIDE DEF pools
            <4> QED
                BY <3>2, <1>4
        <3>4. ASSUME NEW d \in mine PROVE d = row
            <4> HIDE DEF pools
            <4>1. d \in DelegatorStaked(s, rows).poolData /\ d.pool = p
                OBVIOUS
            <4>2. PICK q \in pools : d = [pool |-> q, stake |-> Staked({s}, {q}, rows)]
                BY <4>1, <3>2
            <4> QED
                BY <4>1, <4>2
        <3> HIDE DEF mine, row
        <3> QED
            BY <3>3, <3>4
    <2>2. stakes[row] = Staked({s}, {p}, rows) /\ Staked({s}, {p}, rows) \in Int
        BY <2>1, BalancesAreIntegers
    <2>3. SumFunctionOnSet(stakes, {row}) = Staked({s}, {p}, rows)
        <3> HIDE DEF stakes, row
        <3> QED
            BY <2>2, SumOfOne
    <2>4. SumFunction(stakes) = SumFunctionOnSet(stakes, {row})
        <3>1. DOMAIN stakes = {row} /\ IsFiniteSet({row})
            BY <2>1, FS_Singleton
        <3> HIDE DEF stakes, row
        <3> QED
            BY <3>1, SumOverDomain
    <2> QED
        BY <1>1, <2>3, <2>4
<1>5. CASE p \notin pools
    <2>1. mine = {}
        <3>1. \A d \in DelegatorStaked(s, rows).poolData : d.pool # p
            <4> HIDE DEF pools
            <4>1. CASE pools = {}
                BY <1>2, <1>3, <4>1
            <4>2. CASE pools # {}
                <5>1. DelegatorStaked(s, rows).poolData =
                         {[pool |-> q, stake |-> Staked({s}, {q}, rows)] : q \in pools}
                    BY <1>2, <4>2
                <5>2. ASSUME NEW d \in DelegatorStaked(s, rows).poolData PROVE d.pool \in pools
                    <6>1. PICK q \in pools : d = [pool |-> q, stake |-> Staked({s}, {q}, rows)]
                        BY <5>1, Zenon
                    <6> QED
                        BY <6>1
                <5> QED
                    BY <1>5, <5>2
            <4> QED
                BY <4>1, <4>2
        <3> QED
            BY <3>1
    <2>2. SumFunction(stakes) = 0
        <3>1. DOMAIN stakes = {} /\ IsFiniteSet({})
            BY <2>1, FS_EmptySet
        <3>2. SumFunction(stakes) = SumFunctionOnSet(stakes, {})
            <4> HIDE DEF stakes
            <4> QED
                BY <3>1, SumOverDomain
        <3> QED
            BY <3>2, SumOfNothing
    <2>3. Staked({s}, {p}, rows) = 0
        <3>1. \A i \in rows : events[i].kind = "move" /\ events[i].who = s =>
                                 events[i].to # p /\ events[i].from # p
            BY <1>5 DEF Rows, AllRows
        <3>2. PICK who, of : who = {s} /\ of = {p}
            OBVIOUS
        <3>3. MovesTo(who, of, rows) = {} /\ MovesFrom(who, of, rows) = {}
            BY <3>1, <3>2 DEF MovesTo, MovesFrom
        <3>4. Staked(who, of, rows) = Total(MovesTo(who, of, rows)) - Total(MovesFrom(who, of, rows))
            BY BalancesAreTotals
        <3>5. Total({}) = 0
            BY TotalsAlwaysAdd DEF TotalsAdd
        <3>6. Staked(who, of, rows) = 0
            BY <3>3, <3>4, <3>5
        <3> QED
            BY <3>2, <3>6
    <2> QED
        BY <1>1, <2>2, <2>3
<1> QED
    BY <1>4, <1>5

LEMMA BooksFit == LogInv /\ LawfulStakes => BooksAgree
<1> SUFFICES ASSUME LogInv, LawfulStakes PROVE BooksAgree
    OBVIOUS
<1>1. PICK n : n = CurrentEpochId /\ n \in 1 .. CurrentEpochId
    BY EpochsAreCounted DEF EpochsCount
<1>2. PICK rows : rows = BeforeEpoch(n)
    OBVIOUS
<1>3. PICK t \in 0 .. Len(events) : rows = 1 .. t
    BY <1>1, <1>2, RowsBeforeEpoch
<1>4. /\ rows \in SUBSET AllRows /\ AtStart(n) \in SUBSET AllRows /\ rows \subseteq AtStart(n)
      /\ AllRows = 1 .. Len(events)
    BY <1>1, <1>2, <1>3, LastRow, EpochsHaveBegun, RowsBeforeEpoch DEF AllRows
<1>5. \A s : /\ CurrentEpochDelegatorStaked(s) = DelegatorStaked(s, rows)
             /\ CurrentEpochDelegatorDeposited(s) = Deposited({s}, rows)
             /\ NextEpochDelegatorStaked(s) = DelegatorStaked(s, AllRows)
             /\ NextEpochDelegatorDeposited(s) = Deposited({s}, AllRows)
    BY <1>1, <1>2 DEF CurrentEpochDelegatorStaked, CurrentEpochDelegatorDeposited,
                      NextEpochDelegatorStaked, NextEpochDelegatorDeposited
<1>6. ASSUME NEW s \in Staker
      PROVE  /\ CurrentEpochDelegatorStaked(s).overall <= CurrentEpochDelegatorDeposited(s)
             /\ NextEpochDelegatorStaked(s).overall <= NextEpochDelegatorDeposited(s)
    <2>1. /\ Staked({s}, Pool, 1 .. t) <= Deposited({s}, 1 .. t)
          /\ Staked({s}, Pool, 1 .. Len(events)) <= Deposited({s}, 1 .. Len(events))
        <3>1. Len(events) \in 0 .. Len(events)
            BY LastRow
        <3> QED
            BY <3>1 DEF LawfulStakes
    <2>2. \A some : DelegatorStaked(s, some).overall = Staked({s}, Pool, some)
        BY DEF DelegatorStaked
    <2> QED
        BY <1>3, <1>4, <1>5, <2>1, <2>2
<1>7. ASSUME NEW p \in PoolInfo,
             ~ \E i \in Rows("move") : events[i].at = Start(CurrentEpochId)
      PROVE  CurrentEpochPoolStats(p).stake =
                SumOver(Staker, LAMBDA s : SumOver({d \in CurrentEpochDelegatorStaked(s).poolData : d.pool = p},
                                                   LAMBDA d : d.stake))
    <2>1. p \in Pool
        BY CreatedPools
    <2> DEFINE Of(s) == SumOver({d \in CurrentEpochDelegatorStaked(s).poolData : d.pool = p},
                                LAMBDA d : d.stake)
               g == [s \in Staker |-> Of(s)]
               f == [s \in Staker |-> Staked({s}, {p}, rows)]
    <2>2. \A s \in Staker : Of(s) = Staked({s}, {p}, rows)
        <3>1. ASSUME NEW s \in Staker PROVE Of(s) = Staked({s}, {p}, rows)
            <4>1. CurrentEpochDelegatorStaked(s) = DelegatorStaked(s, rows)
                BY <1>5
            <4> QED
                BY <1>4, <2>1, <4>1, DelegatorsRow
        <3> QED
            BY <3>1
    <2>3. SumOver(Staker, LAMBDA s : Of(s)) = SumFunction(g)
        BY DEF SumOver
    <2>4. SumFunction(g) = SumFunctionOnSet(f, Staker)
        <3>1. IsFiniteSet(Staker) /\ DOMAIN g = Staker /\ \A s \in Staker : g[s] = f[s]
            BY <2>2, StakingAssumption
        <3> HIDE DEF f, g
        <3> QED
            BY <3>1, SumOverDomain
    <2>5. SumFunctionOnSet(f, Staker) = Staked(Staker, {p}, rows)
        BY <1>4, StakingAssumption, StakeOfEach
    <2>6. Staked(Staker, {p}, rows) = Staked(Staker, {p}, AtStart(n))
        <3>1. \A i \in Rows("move") : i \in AtStart(n) => i \in rows
            BY <1>1, <1>2, <1>7, RowsBeforeEpoch
        <3> QED
            BY <1>4, <3>1, StillStake
    <2>7. CurrentEpochPoolStats(p).stake = Staked(Staker, {p}, AtStart(n))
        BY <1>1 DEF CurrentEpochPoolStats, PoolStats
    <2> HIDE DEF f, g
    <2> QED
        BY <2>3, <2>4, <2>5, <2>6, <2>7
<1> QED
    BY <1>6, <1>7 DEF BooksAgree

\* What the delegators staked with a pool before the epoch, from the changes,
\* is the stake of the pool in the contracts' snapshot, unless stake moved in
\* the transaction that started the epoch, and nobody has more staked than
\* deposited, in this epoch or the next.
THEOREM BothBooksAgree == Spec /\ LawfulStakes => []BooksAgree
BY BooksFit, LawfulStakesHold, PTL

-----------------------------------------------------------------------------
(* Fees and rewards.  A pool is paid at most once in an epoch, for the one  *)
(* before, and no fee is paid before the first epoch.                       *)

LawfulPayments ==
    /\ \A i \in Rows("fill") : EpochAt(i) # 0
    /\ \A i \in Rows("reward") : events[i].to \in PoolInfo /\ EpochAt(i) >= 2
    /\ \A i, j \in Rows("reward") : events[i].to = events[j].to /\ i # j => EpochAt(i) # EpochAt(j)

LEMMA NextKeepsPaymentsLawful ==
    LogInv /\ LogInv' /\ LawfulPayments /\ [Next]_vars => LawfulPayments'
<1> SUFFICES ASSUME LogInv, LogInv', LawfulPayments, [Next]_vars PROVE LawfulPayments'
    OBVIOUS
<1>1. CASE UNCHANGED events
    BY <1>1 DEF LawfulPayments, Rows, EpochAt, PoolInfo, Created
<1>2. ASSUME NEW e \in Event, Appended(e), Checked(e) PROVE LawfulPayments'
    <2>1. PICK n : n = Len(events)
        OBVIOUS
    <2>2. /\ n \in Nat \ {0} /\ AllRows = 1 .. n
          /\ \A i \in 1 .. n : events'[i] = events[i]
          /\ events'[n + 1] = e
          /\ \A kind : Rows(kind)' = Rows(kind) \cup (IF e.kind = kind THEN {n + 1} ELSE {})
          /\ \A kind : Rows(kind) \subseteq 1 .. n
        BY <1>2, <2>1, RowsAfter, LastRow DEF AllRows, Rows
    <2>3. PoolInfo \subseteq PoolInfo'
        BY <1>2, PoolsAfter
    <2>4. PICK c : c = CurrentEpochId /\ c \in Nat \ {0}
        BY EpochsAreCounted DEF EpochsCount
    <2>5. /\ \A i \in 1 .. n : EpochAt(i)' = EpochAt(i) /\ EpochAt(i) \in Nat
          /\ e.kind # "epoch" => CurrentEpochId' = c
        BY <1>2, <2>1, <2>2, <2>4, EpochsAfter, EpochsAreCounted DEF EpochsCount, AllRows
    <2>6. EpochAt(n + 1)' = CurrentEpochId'
        <3>1. {j \in Rows("epoch")' : j <= n + 1} = Rows("epoch")'
            BY <2>2
        <3> QED
            BY <3>1 DEF EpochAt, CurrentEpochId
    <2>7. ASSUME NEW i \in Rows("fill")' PROVE EpochAt(i)' # 0
        <3>1. CASE i \in Rows("fill")
            BY <2>2, <2>5, <3>1 DEF LawfulPayments
        <3>2. CASE i = n + 1
            <4>1. e.kind = "fill"
                BY <2>2, <2>7, <3>2 DEF Rows
            <4> QED
                BY <2>4, <2>5, <2>6, <3>2, <4>1
        <3> QED
            BY <2>2, <3>1, <3>2
    <2>8. e.kind = "reward" =>
             /\ e.to \in PoolInfo /\ c >= 2 /\ EpochAt(n + 1)' = c
             /\ \A i \in Rows("reward") : events[i].to = e.to => EpochAt(i) < c
        <3>1. SUFFICES ASSUME e.kind = "reward"
                       PROVE  /\ e.to \in PoolInfo /\ c >= 2 /\ EpochAt(n + 1)' = c
                              /\ \A i \in Rows("reward") : events[i].to = e.to => EpochAt(i) < c
            OBVIOUS
        <3>2. /\ e.to \in PoolInfo
              /\ \E i \in Rows("fill") : EpochAt(i) = c - 1
              /\ \A i \in RewardsOf(e.to) : EpochAt(i) < c
            BY <1>2, <2>4, <3>1 DEF Checked
        <3>3. c - 1 # 0
            BY <3>2 DEF LawfulPayments
        <3>4. EpochAt(n + 1)' = c
            BY <2>5, <2>6, <3>1
        <3> QED
            BY <2>4, <3>2, <3>3, <3>4 DEF RewardsOf
    <2>9. ASSUME NEW i \in Rows("reward")' PROVE events'[i].to \in PoolInfo' /\ EpochAt(i)' >= 2
        <3>1. CASE i \in Rows("reward")
            BY <2>2, <2>3, <2>5, <3>1 DEF LawfulPayments
        <3>2. CASE i = n + 1
            <4>1. e.kind = "reward"
                BY <2>2, <2>9, <3>2 DEF Rows
            <4> QED
                BY <2>2, <2>3, <2>4, <2>8, <3>2, <4>1
        <3> QED
            BY <2>2, <3>1, <3>2
    <2>10. ASSUME NEW i \in Rows("reward"), NEW j \in Rows("reward")', i # j,
                  events'[i].to = events'[j].to
           PROVE  EpochAt(i)' # EpochAt(j)'
        <3>1. EpochAt(i)' = EpochAt(i) /\ events'[i] = events[i] /\ EpochAt(i) \in Nat
            BY <2>2, <2>5
        <3>2. CASE j \in Rows("reward")
            BY <2>2, <2>5, <2>10, <3>1, <3>2 DEF LawfulPayments
        <3>3. CASE j = n + 1
            <4>1. e.kind = "reward"
                BY <2>2, <2>10, <3>3 DEF Rows
            <4> QED
                BY <2>2, <2>4, <2>8, <2>10, <3>1, <3>3, <4>1
        <3> QED
            BY <2>2, <3>2, <3>3
    <2>11. ASSUME NEW i \in Rows("reward")', NEW j \in Rows("reward")', i # j,
                  events'[i].to = events'[j].to
           PROVE  EpochAt(i)' # EpochAt(j)'
        <3>1. i \in Rows("reward") \/ j \in Rows("reward")
            BY <2>2, <2>11
        <3> QED
            BY <2>10, <2>11, <3>1
    <2> QED
        BY <2>7, <2>9, <2>11 DEF LawfulPayments
<1> QED
    BY <1>1, <1>2, NextAppends

LEMMA LawfulPaymentsHold == Spec /\ LawfulPayments => [](LogInv /\ LawfulPayments)
<1>1. LogInv /\ LawfulPayments /\ [Next]_vars => (LogInv /\ LawfulPayments)'
    BY NextKeepsLogInv, NextKeepsPaymentsLawful
<1> QED
    BY <1>1, InitLogInv, PTL DEF Spec

\* Amounts of disjoint sets of rows add up.
LEMMA TotalOfParts ==
    ASSUME LogInv, NEW S, IsFiniteSet(S), NEW part \in [S -> SUBSET AllRows],
           \A x, y \in S : x # y => part[x] \cap part[y] = {},
           NEW g, DOMAIN g = S, \A x \in S : g[x] = Total(part[x])
    PROVE  SumFunction(g) = Total(UNION {part[x] : x \in S})
<1> DEFINE f == [i \in AllRows |-> events[i].amount]
           U == UNION {part[x] : x \in S}
<1>1. /\ IsFiniteSet(AllRows) /\ \A i \in AllRows : f[i] \in Int
      /\ \A rows \in SUBSET AllRows : Total(rows) = SumFunctionOnSet(f, rows)
    <2>1. IsFiniteSet(AllRows) /\ \A i \in AllRows : events[i].amount \in Nat
        BY TotalIsSum
    <2> QED
        BY <2>1, TotalIsSum
<1>2. U \in SUBSET AllRows
    OBVIOUS
<1>3. SumFunction(g) = SumFunctionOnSet(g, S)
    BY SumOverDomain
<1>4. SumFunctionOnSet(g, S) = SumFunctionOnSet(f, U)
    <2>1. \A x \in S : g[x] = SumFunctionOnSet(f, part[x])
        BY <1>1
    <2> HIDE DEF f
    <2> QED
        BY <1>1, <2>1, SumOfParts
<1> QED
    BY <1>1, <1>2, <1>3, <1>4

LEMMA TotalWithin ==
    ASSUME LogInv, NEW S, IsFiniteSet(S), NEW part \in [S -> SUBSET AllRows],
           \A x, y \in S : x # y => part[x] \cap part[y] = {},
           NEW g, DOMAIN g = S, \A x \in S : g[x] = Total(part[x]),
           NEW within \in SUBSET AllRows, \A x \in S : part[x] \subseteq within
    PROVE  SumFunction(g) <= Total(within)
<1>1. PICK U : U = UNION {part[x] : x \in S}
    OBVIOUS
<1>2. SumFunction(g) = Total(U)
    BY <1>1, TotalOfParts
<1>3. U \subseteq within
    BY <1>1
<1> QED
    BY <1>2, <1>3, TotalsAlwaysAdd DEF TotalsAdd

\* The rewards of a pool by epoch, one of each epoch that has ended.
LEMMA RewardsByEpoch ==
    ASSUME LogInv, LawfulPayments, NEW p \in PoolInfo
    PROVE  /\ IsFiniteSet(PoolEpochRewards(p)) /\ \A r \in PoolEpochRewards(p) : r.total \in Nat
           /\ SumOver(PoolEpochRewards(p), LAMBDA r : r.total) = AllTimePoolRewards(p)
           /\ \A r, q \in PoolEpochRewards(p) : r.epoch = q.epoch => r = q
<1>1. PICK past, c : past = 1 .. c - 1 /\ c = CurrentEpochId /\ c \in Nat \ {0}
    BY EpochsAreCounted DEF EpochsCount
<1>2. PICK R : R = RewardsOf(p)
    OBVIOUS
<1>3. /\ R \in SUBSET AllRows /\ R \subseteq Rows("reward") /\ IsFiniteSet(R)
      /\ \A i \in R : events[i].amount \in Nat /\ EpochAt(i) \in 2 .. c /\ PaidFor(i) \in past
      /\ \A i, j \in R : i # j => PaidFor(i) # PaidFor(j)
    <2>1. R \in SUBSET AllRows /\ R \subseteq Rows("reward") /\ \A i \in R : events[i].to = p
        BY <1>2 DEF RewardsOf, Rows, AllRows
    <2>2. IsFiniteSet(R) /\ \A i \in R : events[i].amount \in Nat
        BY <2>1, TotalIsSum
    <2>3. \A i \in R : EpochAt(i) \in 2 .. c
        BY <2>1, <1>1, EpochsAreCounted DEF EpochsCount, LawfulPayments, AllRows
    <2>4. \A i, j \in R : i # j => EpochAt(i) # EpochAt(j)
        BY <2>1 DEF LawfulPayments
    <2> QED
        BY <2>1, <2>2, <2>3, <2>4, <1>1 DEF PaidFor
<1> DEFINE row(i) == [epoch |-> PaidFor(i), total |-> events[i].amount]
           gap(n) == [epoch |-> n, total |-> 0]
           rows == {row(i) : i \in R}
           K == {k \in past : \A i \in Rows("reward") : PaidFor(i) # k}
           gaps == {gap(n) : n \in K}
           totals == [r \in PoolEpochRewards(p) |-> r.total]
<1>4. PoolEpochRewards(p) = rows \cup gaps
    <2>1. {j \in R : PaidFor(j) \in past} = R
        BY <1>3
    <2>2. PoolEpochRewards(p) =
             {row(i) : i \in {j \in RewardsOf(p) : PaidFor(j) \in past}} \cup gaps
        BY <1>1 DEF PoolEpochRewards
    <2> QED
        BY <1>2, <2>1, <2>2
<1>5. IsFiniteSet(rows) /\ IsFiniteSet(gaps)
    <2>1. IsFiniteSet(K)
        <3>1. IsFiniteSet(past)
            BY <1>1, FS_Interval
        <3> QED
            BY <3>1, FS_Subset
    <2> DEFINE h == [i \in R |-> row(i)]
               u == [n \in K |-> gap(n)]
    <2>2. h \in Surjection(R, rows) /\ u \in Surjection(K, gaps)
        BY DEF Surjection
    <2> HIDE DEF h, u, rows, gaps, K
    <2> QED
        BY <1>3, <2>1, <2>2, FS_Surjection
<1>6. /\ \A r \in rows : \E i \in R : r = row(i)
      /\ \A r \in gaps : \E n \in K : r = gap(n)
    BY Zenon
<1>7. /\ \A r \in rows : r.total \in Nat /\ totals[r] = r.total
      /\ \A r \in gaps : r.total = 0 /\ totals[r] = 0
    <2>1. \A r \in rows : r.total \in Nat
        BY <1>3, <1>6
    <2>2. \A r \in gaps : r.total = 0
        BY <1>6
    <2>3. \A r \in rows \cup gaps : totals[r] = r.total
        BY <1>4
    <2> HIDE DEF rows, gaps, totals
    <2> QED
        BY <2>1, <2>2, <2>3
<1>8. rows \cap gaps = {}
    <2>1. ASSUME NEW r \in rows, r \in gaps PROVE FALSE
        <3>1. PICK i \in R, n \in K : r = row(i) /\ r = gap(n)
            BY <2>1, <1>6
        <3>2. PaidFor(i) = n
            BY <3>1
        <3> QED
            BY <3>2, <1>3
    <2> QED
        BY <2>1
<1>9. \A r, q \in rows \cup gaps : r.epoch = q.epoch => r = q
    <2>1. ASSUME NEW r \in rows, NEW q \in rows, r.epoch = q.epoch PROVE r = q
        <3>1. PICK i \in R, j \in R : r = row(i) /\ q = row(j)
            BY <1>6
        <3>2. PaidFor(i) = PaidFor(j)
            BY <2>1, <3>1
        <3> QED
            BY <3>1, <3>2, <1>3
    <2>2. ASSUME NEW r \in gaps, NEW q \in gaps, r.epoch = q.epoch PROVE r = q
        BY <1>6, <2>2
    <2>3. ASSUME NEW r \in rows, NEW q \in gaps PROVE r.epoch # q.epoch
        <3>1. PICK i \in R, n \in K : r = row(i) /\ q = gap(n)
            BY <1>6
        <3> QED
            BY <3>1, <1>3
    <2> HIDE DEF rows, gaps
    <2> QED
        BY <2>1, <2>2, <2>3
<1>10. SumFunctionOnSet(totals, rows) = Total(R)
    <2> DEFINE f == [i \in AllRows |-> events[i].amount]
               h == [i \in R |-> row(i)]
    <2>1. /\ \A i, j \in R : i # j => h[i] # h[j]
          /\ \A i \in R : totals[h[i]] \in Int /\ f[i] = totals[h[i]]
          /\ rows = {h[i] : i \in R}
        <3>1. \A i, j \in R : i # j => h[i] # h[j]
            <4>1. ASSUME NEW i \in R, NEW j \in R, h[i] = h[j] PROVE i = j
                <5>1. row(i).epoch = row(j).epoch
                    BY <4>1
                <5> QED
                    BY <5>1, <1>3
            <4> QED
                BY <4>1
        <3>2. \A i \in R : h[i] = row(i) /\ h[i] \in rows
            OBVIOUS
        <3>3. \A i \in R : f[i] = h[i].total
            BY <1>3
        <3>4. ASSUME NEW i \in R PROVE totals[h[i]] \in Int /\ f[i] = totals[h[i]]
            <4>1. PICK r \in rows : r = h[i]
                BY <3>2
            <4>2. totals[r] = r.total /\ r.total \in Nat
                <5> HIDE DEF rows, totals, gaps
                <5> QED
                    BY <1>7
            <4>3. f[i] = r.total
                <5> HIDE DEF f, h
                <5> QED
                    BY <3>3, <4>1
            <4> HIDE DEF f, h, totals
            <4> QED
                BY <4>1, <4>2, <4>3
        <3>5. rows = {h[i] : i \in R}
            OBVIOUS
        <3> QED
            BY <3>1, <3>4, <3>5
    <2>2. SumFunctionOnSet(totals, {h[i] : i \in R}) = SumFunctionOnSet(f, R)
        <3> HIDE DEF f, h, totals, rows
        <3> QED
            BY <1>3, <2>1, SumOverValues
    <2>3. Total(R) = SumFunctionOnSet(f, R)
        BY <1>3, TotalIsSum
    <2> QED
        BY <2>1, <2>2, <2>3
<1>11. SumFunctionOnSet(totals, gaps) = 0
    <2> DEFINE zero == [r \in gaps |-> 0]
    <2>1. SumFunctionOnSet(totals, gaps) = SumFunctionOnSet(zero, gaps)
        <3>1. \A r \in gaps : totals[r] = zero[r]
            BY <1>7
        <3> HIDE DEF totals, gaps, zero
        <3> QED
            BY <1>5, <3>1, SumOfEquals
    <2>2. SumFunctionOnSet(zero, gaps) = SumFunctionOnSet(zero, gaps) - SumFunctionOnSet(zero, gaps)
        <3>1. \A r \in gaps : zero[r] \in Int /\ zero[r] = zero[r] - zero[r]
            OBVIOUS
        <3> HIDE DEF gaps, zero
        <3> QED
            BY <1>5, <3>1, SumOfDifferences
    <2>3. SumFunctionOnSet(zero, gaps) \in Int
        <3>1. \A r \in gaps : zero[r] \in Int
            OBVIOUS
        <3> HIDE DEF gaps, zero
        <3> QED
            BY <1>5, <3>1, SumIsInteger
    <2> HIDE DEF zero, gaps, totals
    <2> QED
        BY <2>1, <2>2, <2>3
<1>12. SumFunctionOnSet(totals, rows \cup gaps) = Total(R)
    <2>1. \A r \in rows \cup gaps : totals[r] \in Int
        BY <1>7
    <2>2. SumFunctionOnSet(totals, rows \cup gaps) =
             SumFunctionOnSet(totals, rows) + SumFunctionOnSet(totals, gaps)
        <3> HIDE DEF totals, rows, gaps
        <3> QED
            BY <1>5, <1>8, <2>1, SumOfUnion
    <2>3. Total(R) \in Nat
        BY <1>3, TotalsAlwaysAdd DEF TotalsAdd
    <2> HIDE DEF totals, rows, gaps
    <2> QED
        BY <1>10, <1>11, <2>2, <2>3
<1>13. SumOver(PoolEpochRewards(p), LAMBDA r : r.total) = SumFunctionOnSet(totals, rows \cup gaps)
    <2>1. SumOver(PoolEpochRewards(p), LAMBDA r : r.total) = SumFunction(totals)
        BY DEF SumOver
    <2>2. DOMAIN totals = rows \cup gaps /\ IsFiniteSet(rows \cup gaps)
        <3>1. DOMAIN totals = rows \cup gaps
            BY <1>4
        <3> HIDE DEF rows, gaps, totals
        <3> QED
            BY <3>1, <1>5, FS_Union
    <2>3. SumFunction(totals) = SumFunctionOnSet(totals, rows \cup gaps)
        <3> HIDE DEF rows, gaps, totals
        <3> QED
            BY <2>2, SumOverDomain
    <2> QED
        BY <2>1, <2>3
<1>14. IsFiniteSet(PoolEpochRewards(p)) /\ \A r \in PoolEpochRewards(p) : r.total \in Nat
    <2> HIDE DEF rows, gaps, totals
    <2>1. \A r \in rows \cup gaps : r.total \in Nat
        BY <1>7
    <2> QED
        BY <1>4, <1>5, <2>1, FS_Union
<1>15. AllTimePoolRewards(p) = Total(R)
    BY <1>2 DEF AllTimePoolRewards
<1> HIDE DEF rows, gaps, totals
<1> QED
    BY <1>4, <1>9, <1>12, <1>13, <1>14, <1>15

LEMMA RewardsFit == LogInv /\ LawfulStakes /\ LawfulPayments => RewardsAddUp
<1> SUFFICES ASSUME LogInv, LawfulStakes, LawfulPayments PROVE RewardsAddUp
    OBVIOUS
<1> DEFINE part == [p \in PoolInfo |-> RewardsOf(p)]
           g == [p \in PoolInfo |-> AllTimePoolRewards(p)]
<1>1. IsFiniteSet(PoolInfo)
    BY CreatedPools
<1>2. /\ part \in [PoolInfo -> SUBSET AllRows]
      /\ \A p, q \in PoolInfo : p # q => part[p] \cap part[q] = {}
      /\ DOMAIN g = PoolInfo /\ \A p \in PoolInfo : g[p] = Total(part[p])
    BY DEF RewardsOf, Rows, AllRows, AllTimePoolRewards
<1>3. UNION {part[p] : p \in PoolInfo} = Rows("reward")
    <2>1. ASSUME NEW i \in Rows("reward") PROVE \E p \in PoolInfo : i \in part[p]
        <3>1. events[i].to \in PoolInfo /\ i \in RewardsOf(events[i].to)
            BY DEF LawfulPayments, RewardsOf
        <3> QED
            BY <3>1
    <2>2. \A p \in PoolInfo : part[p] \subseteq Rows("reward")
        BY DEF RewardsOf
    <2> HIDE DEF part
    <2> QED
        BY <2>1, <2>2
<1>4. SumFunction(g) = Total(Rows("reward"))
    <2> HIDE DEF part, g
    <2>1. SumFunction(g) = Total(UNION {part[p] : p \in PoolInfo})
        BY <1>1, <1>2, TotalOfParts
    <2> QED
        BY <1>3, <2>1
<1>5. SumOver(PoolInfo, AllTimePoolRewards) = AllTimeStats
    BY <1>4 DEF SumOver, AllTimeStats
<1> QED
    BY <1>5, RewardsByEpoch DEF RewardsAddUp

\* The starts of the epochs are in order.
LEMMA StartsInOrder ==
    ASSUME LogInv
    PROVE  /\ \A n \in 1 .. CurrentEpochId : Start(n) \in Position
           /\ \A n, m \in 1 .. CurrentEpochId :
                 n <= m => StartRow(n) <= StartRow(m) /\ ~Before(Start(m), Start(n))
<1>1. PICK c : c = CurrentEpochId /\ c \in Nat \ {0}
    BY EpochsAreCounted DEF EpochsCount
<1>2. \A n \in 1 .. c : /\ StartRow(n) \in Rows("epoch") /\ EpochAt(StartRow(n)) = n
                        /\ Start(n) \in Position /\ Start(n) = events[StartRow(n)].at
    BY <1>1, EpochsHaveStarts, EpochsHaveBegun DEF EpochsStart
<1>3. Rows("epoch") \subseteq DOMAIN events /\ DOMAIN events = 1 .. Len(events) /\ Len(events) \in Nat
    BY LastRow DEF Rows
<1>4. ASSUME NEW n \in 1 .. c, NEW m \in 1 .. c, n < m
      PROVE  StartRow(n) <= StartRow(m) /\ ~Before(Start(m), Start(n))
    <2>1. PICK i \in Rows("epoch"), j \in Rows("epoch") : i = StartRow(n) /\ j = StartRow(m)
        BY <1>2
    <2>2. i < j
        <3>1. EpochAt(i) = n /\ EpochAt(j) = m
            BY <1>2, <2>1
        <3>2. i # j /\ ~(j < i)
            BY <1>1, <1>4, <3>1, EpochsAreCounted DEF EpochsCount
        <3>3. i \in Int /\ j \in Int
            BY <1>3, <2>1
        <3> QED
            BY <3>2, <3>3
    <2>3. ~Before(events[j].at, events[i].at)
        BY <1>3, <2>1, <2>2 DEF LogInv, InOrder
    <2> QED
        BY <1>2, <1>3, <2>1, <2>2, <2>3
<1>5. ASSUME NEW n \in 1 .. c PROVE StartRow(n) <= StartRow(n) /\ ~Before(Start(n), Start(n))
    <2>1. StartRow(n) \in Int
        BY <1>2, <1>3
    <2> QED
        BY <1>2, <2>1, BeforeIsTransitive
<1>6. \A n, m \in 1 .. c : n <= m => n < m \/ n = m
    BY <1>1
<1> QED
    BY <1>1, <1>2, <1>4, <1>5, <1>6

\* The rows of fills in the transactions that start an epoch.
Boundary == {i \in Rows("fill") : \E n \in 1 .. CurrentEpochId : events[i].at = Start(n)}

LEMMA FillsOf ==
    ASSUME LogInv, NEW n \in 1 .. CurrentEpochId
    PROVE  FillsIn(n) = {i \in Rows("fill") : /\ Before(Start(n), events[i].at)
                                              /\ n < CurrentEpochId => Before(events[i].at, Start(n + 1))}
<1>1. PICK c : c = CurrentEpochId /\ c \in Nat \ {0} /\ n \in 1 .. c
    BY EpochsAreCounted DEF EpochsCount
<1>2. CASE n < c
    <2>1. n + 1 \in 1 .. c
        BY <1>1, <1>2
    <2>2. Start(n + 1) # None
        BY <1>1, <2>1, EpochsHaveBegun
    <2> QED
        BY <1>1, <1>2, <2>2 DEF FillsIn
<1>3. CASE ~(n < c)
    BY <1>1, <1>3 DEF FillsIn
<1> QED
    BY <1>2, <1>3

\* A row is after the start of its epoch and before that of each later one.
LEMMA EpochOfLaterRow ==
    ASSUME LogInv, NEW i \in DOMAIN events, NEW m \in 1 .. CurrentEpochId, i # StartRow(m)
    PROVE  /\ m = EpochAt(i) => StartRow(m) < i
           /\ m = EpochAt(i) + 1 => i < StartRow(m)
<1>1. PICK j : j = StartRow(m) /\ j \in Rows("epoch") /\ EpochAt(j) = m /\ j \in DOMAIN events
    BY EpochsHaveStarts DEF EpochsStart, Rows
<1>2. DOMAIN events \subseteq Nat /\ i \in Nat /\ j \in Nat /\ IsFiniteSet(Rows("epoch"))
    BY <1>1, LastRow, EpochsAreCounted DEF EpochsCount
<1> DEFINE upto(k) == {l \in Rows("epoch") : l <= k}
<1>3. \A k : IsFiniteSet(upto(k)) /\ EpochAt(k) = Cardinality(upto(k)) /\ Cardinality(upto(k)) \in Nat
    BY <1>2, FS_Subset, FS_CardinalityType DEF EpochAt
<1>4. ASSUME i < j PROVE EpochAt(i) < m
    <2>1. upto(i) \subseteq upto(j) /\ j \in upto(j) /\ j \notin upto(i)
        BY <1>1, <1>2, <1>4, LastRow DEF Rows
    <2>2. Cardinality(upto(i)) < Cardinality(upto(j))
        <3>1. upto(i) # upto(j)
            BY <2>1
        <3> HIDE DEF upto
        <3> QED
            BY <1>3, <2>1, <3>1, FS_Subset
    <2> QED
        BY <1>1, <1>3, <2>2
<1>5. ASSUME j < i PROVE m <= EpochAt(i)
    <2>1. upto(j) \subseteq upto(i)
        BY <1>1, <1>2, <1>5, LastRow DEF Rows
    <2>2. Cardinality(upto(j)) <= Cardinality(upto(i))
        <3> HIDE DEF upto
        <3> QED
            BY <1>3, <2>1, FS_Subset
    <2> QED
        BY <1>1, <1>3, <2>2
<1>6. EpochAt(i) \in Nat /\ m \in Nat
    <2>1. CurrentEpochId \in Nat
        BY EpochsAreCounted DEF EpochsCount
    <2>2. EpochAt(i) = Cardinality(upto(i)) /\ Cardinality(upto(i)) \in Nat
        BY <1>3
    <2> QED
        BY <2>1, <2>2
<1> QED
    BY <1>1, <1>2, <1>4, <1>5, <1>6

\* Each fill outside the boundaries is in one epoch.
LEMMA EpochsPartitionFills ==
    ASSUME LogInv, LawfulPayments
    PROVE  /\ \A n \in 1 .. CurrentEpochId : FillsIn(n) \subseteq Rows("fill") \ Boundary
           /\ \A n, m \in 1 .. CurrentEpochId : n # m => FillsIn(n) \cap FillsIn(m) = {}
           /\ \A i \in Rows("fill") \ Boundary : \E n \in 1 .. CurrentEpochId : i \in FillsIn(n)
<1>1. PICK c : c = CurrentEpochId /\ c \in Nat \ {0}
    BY EpochsAreCounted DEF EpochsCount
<1>2. /\ Rows("fill") \subseteq DOMAIN events /\ DOMAIN events = 1 .. Len(events)
      /\ \A i \in Rows("fill") : events[i].at \in Position
      /\ Len(events) \in Nat
    BY LastRow DEF Rows
<1>3. /\ \A n \in 1 .. c : Start(n) \in Position
      /\ \A n, m \in 1 .. c : n <= m => ~Before(Start(m), Start(n))
    BY <1>1, StartsInOrder
<1>4. \A n \in 1 .. c : \A i : i \in FillsIn(n) <=>
         /\ i \in Rows("fill")
         /\ Before(Start(n), events[i].at) /\ (n < c => Before(events[i].at, Start(n + 1)))
    BY <1>1, FillsOf
<1>5. ASSUME NEW n \in 1 .. c, NEW m \in 1 .. c, n < m, NEW i \in FillsIn(n)
      PROVE  Before(events[i].at, Start(m))
    <2>1. n + 1 \in 1 .. c /\ n + 1 <= m /\ n < c
        BY <1>1, <1>5
    <2>2. Before(events[i].at, Start(n + 1)) /\ events[i].at \in Position
        BY <1>2, <1>4, <2>1
    <2> QED
        BY <1>3, <2>1, <2>2, BeforeIsTransitive
<1>6. ASSUME NEW n \in 1 .. c, NEW m \in 1 .. c, m <= n, NEW i \in FillsIn(n)
      PROVE  Before(Start(m), events[i].at)
    <2>1. Before(Start(n), events[i].at) /\ events[i].at \in Position
        BY <1>2, <1>4
    <2>2. ~Before(Start(n), Start(m))
        BY <1>3, <1>6
    <2>3. Start(n) \in Position /\ Start(m) \in Position
        BY <1>3
    <2>4. Before(Start(m), events[i].at)
        BY <2>1, <2>2, <2>3 DEF Before, Position
    <2> QED
        BY <2>4
<1>7. ASSUME NEW n \in 1 .. c, NEW i \in FillsIn(n) PROVE i \in Rows("fill") \ Boundary
    <2>1. i \in Rows("fill") /\ events[i].at \in Position
        BY <1>2, <1>4
    <2>2. ASSUME NEW m \in 1 .. c PROVE events[i].at # Start(m)
        <3>1. n < m \/ m <= n
            BY <1>1
        <3> QED
            BY <1>3, <1>5, <1>6, <2>1, <3>1, BeforeIsTransitive
    <2> QED
        BY <1>1, <2>1, <2>2 DEF Boundary
<1>8. ASSUME NEW n \in 1 .. c, NEW m \in 1 .. c, n < m PROVE FillsIn(n) \cap FillsIn(m) = {}
    <2>1. ASSUME NEW i \in FillsIn(n), i \in FillsIn(m) PROVE FALSE
        <3>1. Before(events[i].at, Start(m)) /\ events[i].at \in Position
            BY <1>2, <1>4, <1>5, <1>8
        <3>2. Before(Start(m), events[i].at) /\ Start(m) \in Position
            BY <1>3, <1>4, <2>1
        <3> QED
            BY <3>1, <3>2 DEF Before, Position
    <2> QED
        BY <2>1
<1>9. ASSUME NEW i \in Rows("fill") \ Boundary PROVE \E n \in 1 .. c : i \in FillsIn(n)
    <2>1. PICK n : n = EpochAt(i) /\ n \in 1 .. c
        <3>1. i \in DOMAIN events
            BY <1>2
        <3> QED
            BY <1>1, <3>1, EpochsAreCounted DEF EpochsCount, LawfulPayments
    <2>2. events[i].at \in Position /\ \A m \in 1 .. c : events[i].at # Start(m)
        BY <1>1, <1>2 DEF Boundary
    <2>3. \A m \in 1 .. c : /\ StartRow(m) \in Rows("epoch") /\ Start(m) = events[StartRow(m)].at
                            /\ EpochAt(StartRow(m)) = m /\ StartRow(m) \in DOMAIN events
        BY <1>1, EpochsHaveStarts, EpochsHaveBegun DEF EpochsStart, Rows
    <2>4. \A m \in 1 .. c : StartRow(m) # i
        BY <2>2, <2>3
    <2>5. Before(Start(n), events[i].at)
        <3>1. StartRow(n) < i
            BY <1>1, <1>2, <2>1, <2>3, <2>4, EpochOfLaterRow
        <3>2. ~Before(events[i].at, Start(n))
            BY <1>2, <2>1, <2>3, <3>1 DEF LogInv, InOrder
        <3> QED
            BY <1>3, <2>1, <2>2, <3>2, BeforeIsTransitive
    <2>6. n < c => Before(events[i].at, Start(n + 1))
        <3>1. SUFFICES ASSUME n < c PROVE Before(events[i].at, Start(n + 1))
            OBVIOUS
        <3>2. n + 1 \in 1 .. c
            BY <1>1, <2>1, <3>1
        <3>3. i < StartRow(n + 1)
            BY <1>1, <1>2, <2>1, <2>3, <2>4, <3>2, EpochOfLaterRow
        <3>4. ~Before(Start(n + 1), events[i].at)
            BY <1>2, <2>3, <3>2, <3>3 DEF LogInv, InOrder
        <3> QED
            BY <1>3, <2>2, <3>2, <3>4, BeforeIsTransitive
    <2> QED
        BY <1>4, <2>1, <2>5, <2>6
<1>10. \A n, m \in 1 .. c : n # m => n < m \/ m < n
    BY <1>1
<1>11. \A n, m \in 1 .. c : n # m => FillsIn(n) \cap FillsIn(m) = {}
    BY <1>8, <1>10
<1> QED
    BY <1>1, <1>7, <1>9, <1>11

LEMMA MakersAreInOnePool ==
    \A p, q, i : p # q => MakersOf(p, i) \cap MakersOf(q, i) = {}
BY DEF MakersOf

LEMMA FeesFit == LogInv /\ LawfulStakes /\ LawfulPayments => FeesAreCountedOnce
<1> SUFFICES ASSUME LogInv, LawfulStakes, LawfulPayments PROVE FeesAreCountedOnce
    OBVIOUS
<1>1. PICK n : n = CurrentEpochId /\ n \in Nat \ {0} /\ n \in 1 .. CurrentEpochId
    BY EpochsAreCounted DEF EpochsCount
<1>2. PICK paid : paid = Rows("fill") \ Boundary
    OBVIOUS
<1>3. /\ paid \in SUBSET AllRows /\ Rows("fill") \in SUBSET AllRows /\ Boundary \in SUBSET AllRows
      /\ IsFiniteSet(PoolInfo) /\ IsFiniteSet(1 .. n)
    BY <1>1, <1>2, CreatedPools, FS_Interval DEF Boundary, Rows, AllRows
<1>4. /\ \A e \in 1 .. n : FillsIn(e) \subseteq paid
      /\ \A e, d \in 1 .. n : e # d => FillsIn(e) \cap FillsIn(d) = {}
      /\ \A i \in paid : \E e \in 1 .. n : i \in FillsIn(e)
    BY <1>1, <1>2, EpochsPartitionFills
<1>5. SumOver(1 .. n, LAMBDA e : EpochNWithFees(e).fees) = Total(paid)
    <2>1. PICK E : E = 1 .. n /\ IsFiniteSet(E)
        BY <1>3
    <2> DEFINE part == [e \in E |-> FillsIn(e)]
               g == [e \in E |-> EpochNWithFees(e).fees]
    <2>2. /\ part \in [E -> SUBSET AllRows]
          /\ \A e, d \in E : e # d => part[e] \cap part[d] = {}
          /\ DOMAIN g = E /\ \A e \in E : g[e] = Total(part[e])
        BY <1>3, <1>4, <2>1 DEF EpochNWithFees
    <2>3. UNION {part[e] : e \in E} = paid
        BY <1>4, <2>1
    <2>4. SumFunction(g) = Total(UNION {part[e] : e \in E})
        <3>1. IsFiniteSet(E)
            BY <2>1
        <3> HIDE DEF part, g
        <3> QED
            BY <3>1, <2>2, TotalOfParts
    <2>5. SumOver(1 .. n, LAMBDA e : EpochNWithFees(e).fees) = SumFunction(g)
        BY <2>1 DEF SumOver
    <2> HIDE DEF part, g
    <2> QED
        BY <2>3, <2>4, <2>5
<1>6. SumOver(PoolInfo, PoolTotalProtocolFeesGenerated) <= Total(paid)
    <2> DEFINE of(p, e) == {i \in FillsIn(e) : events[i].who \in StartMakers(e, p)}
               part == [p \in PoolInfo |-> UNION {of(p, e) : e \in 1 .. n}]
               g == [p \in PoolInfo |-> PoolTotalProtocolFeesGenerated(p)]
    <2>1. \A p \in PoolInfo : part[p] \subseteq paid
        BY <1>4
    <2>2. ASSUME NEW p \in PoolInfo, NEW q \in PoolInfo, p # q PROVE part[p] \cap part[q] = {}
        <3>1. ASSUME NEW i \in part[p], i \in part[q] PROVE FALSE
            <4>1. PICK e \in 1 .. n, d \in 1 .. n : i \in of(p, e) /\ i \in of(q, d)
                BY <3>1
            <4>2. e = d
                BY <1>4, <4>1
            <4>3. events[i].who \in MakersOf(p, StartRow(e)) \cap MakersOf(q, StartRow(e))
                BY <4>1, <4>2 DEF StartMakers
            <4> QED
                BY <2>2, <4>3, MakersAreInOnePool
        <3> QED
            BY <3>1
    <2>3. /\ part \in [PoolInfo -> SUBSET AllRows]
          /\ \A p, q \in PoolInfo : p # q => part[p] \cap part[q] = {}
        <3>1. DOMAIN part = PoolInfo /\ part = [p \in PoolInfo |-> part[p]]
            OBVIOUS
        <3> HIDE DEF part
        <3> QED
            BY <1>3, <2>1, <2>2, <3>1
    <2>4. DOMAIN g = PoolInfo /\ \A p \in PoolInfo : g[p] = Total(part[p])
        BY <1>1 DEF PoolTotalProtocolFeesGenerated
    <2>5. SumFunction(g) <= Total(paid)
        <3> HIDE DEF part, g
        <3> QED
            BY <1>3, <2>1, <2>3, <2>4, TotalWithin
    <2> QED
        BY <2>5 DEF SumOver
<1>7. SumOver(PoolInfo, SevenDayProtocolFeesGenerated) <= Total(Rows("fill"))
    <2> DEFINE part == [p \in PoolInfo |-> {i \in Rows("fill") : /\ events[i].at[1] > Now[1] - RecentBlocks
                                                                 /\ events[i].who \in MakersOf(p, Len(events))}]
               g == [p \in PoolInfo |-> SevenDayProtocolFeesGenerated(p)]
    <2>1. /\ part \in [PoolInfo -> SUBSET AllRows]
          /\ \A p \in PoolInfo : part[p] \subseteq Rows("fill")
          /\ DOMAIN g = PoolInfo /\ \A p \in PoolInfo : g[p] = Total(part[p])
        BY <1>3 DEF SevenDayProtocolFeesGenerated
    <2>2. \A p, q \in PoolInfo : p # q => part[p] \cap part[q] = {}
        BY MakersAreInOnePool
    <2>3. SumFunction(g) <= Total(Rows("fill"))
        <3> HIDE DEF part, g
        <3> QED
            BY <1>3, <2>1, <2>2, TotalWithin
    <2> QED
        BY <2>3 DEF SumOver
<1>8. SumOver(PoolInfo, LAMBDA p : CurrentEpochPoolStats(p).fees) <=
         CurrentEpochWithFees.fees + Total({i \in Boundary : events[i].at = Start(n)})
    <2> DEFINE part == [p \in PoolInfo |-> {i \in Rows("fill") : /\ ~Before(events[i].at, Start(n))
                                                                 /\ events[i].who \in StartMakers(n, p)}]
               g == [p \in PoolInfo |-> CurrentEpochPoolStats(p).fees]
               within == {i \in Rows("fill") : ~Before(events[i].at, Start(n))}
               after == {i \in Rows("fill") : Before(Start(n), events[i].at)}
               first == {i \in Boundary : events[i].at = Start(n)}
    <2>1. /\ part \in [PoolInfo -> SUBSET AllRows]
          /\ \A p \in PoolInfo : part[p] \subseteq within
          /\ DOMAIN g = PoolInfo /\ \A p \in PoolInfo : g[p] = Total(part[p])
        BY <1>1, <1>3 DEF CurrentEpochPoolStats, PoolStats
    <2>2. \A p, q \in PoolInfo : p # q => part[p] \cap part[q] = {}
        BY MakersAreInOnePool DEF StartMakers
    <2>3. within \in SUBSET AllRows /\ after \in SUBSET AllRows /\ first \in SUBSET AllRows
        BY <1>3
    <2>4. SumFunction(g) <= Total(within)
        <3> HIDE DEF part, g, within
        <3> QED
            BY <1>3, <2>1, <2>2, <2>3, TotalWithin
    <2>5. within = after \cup first /\ after \cap first = {}
        <3>1. Start(n) \in Position /\ \A i \in Rows("fill") : events[i].at \in Position
            BY <1>1, EpochsHaveBegun, LastRow DEF Rows
        <3>2. \A i \in Rows("fill") :
                 /\ ~Before(events[i].at, Start(n)) <=>
                       Before(Start(n), events[i].at) \/ events[i].at = Start(n)
                 /\ Before(Start(n), events[i].at) => events[i].at # Start(n)
            BY <3>1 DEF Before, Position
        <3>3. first = {i \in Rows("fill") : events[i].at = Start(n)}
            BY <1>1 DEF Boundary
        <3> QED
            BY <3>2, <3>3
    <2>6. Total(within) = Total(after) + Total(first)
        <3> HIDE DEF within, after, first
        <3> QED
            BY <2>3, <2>5, TotalsAlwaysAdd DEF TotalsAdd
    <2>7. CurrentEpochWithFees.fees = Total(after)
        BY <1>1 DEF CurrentEpochWithFees
    <2>8. SumOver(PoolInfo, LAMBDA p : CurrentEpochPoolStats(p).fees) = SumFunction(g)
        BY DEF SumOver
    <2> HIDE DEF part, g, within, after
    <2> QED
        BY <2>4, <2>6, <2>7, <2>8
<1> QED
    BY <1>1, <1>2, <1>5, <1>6, <1>7, <1>8 DEF FeesAreCountedOnce, Boundary

\* A fee outside the boundary transactions is counted in one epoch and for at
\* most one pool, a reward in one epoch and for one pool, and the epochs and the
\* pools together claim neither more nor, where they should, less than was paid.
THEOREM NothingIsCountedTwice == Spec /\ LawfulStakes /\ LawfulPayments => []AmountsAreCountedOnce
<1>1. LogInv /\ LawfulStakes /\ LawfulPayments => AmountsAreCountedOnce
    BY FeesFit, RewardsFit DEF AmountsAreCountedOnce
<1> QED
    BY <1>1, LawfulStakesHold, LawfulPaymentsHold, PTL

-----------------------------------------------------------------------------
(* The answers to a request.                                               *)

\* The log grows under a request, or the request comes or reads.
LEMMA AnswerSteps ==
    ASSUME StakingBase, [Next]_vars
    PROVE  \/ UNCHANGED vars
           \/ \E e \in Event :
                 /\ Appended(e) /\ Checked(e)
                 /\ request'.kind = request.kind /\ request'.id = request.id
                 /\ request'.got = request.got /\ request'.epoch = request.epoch
                 /\ request.kind # None /\ ~request'.ended => ~request.ended /\ e.kind # "epoch"
           \/ \E kind \in Requests, id \in Staker \cup Pool \cup {None} : Ask(kind, id)
           \/ Query
<1>1. LogInv /\ RequestFits
    BY DEF StakingBase
<1>2. ASSUME request' = request, NEW e \in Event, Appended(e), Checked(e),
             e.kind = "epoch" => EndEpoch
      PROVE  request.kind # None /\ ~request'.ended => ~request.ended /\ e.kind # "epoch"
    <2>1. PICK S : request \in [kind : Requests \cup {None}, id : Staker \cup Pool \cup {None},
                                got : Seq(S), epoch : Nat, ended : BOOLEAN]
        BY <1>1 DEF RequestFits
    <2>2. ASSUME request.kind # None, e.kind = "epoch" PROVE request'.ended
        <3>1. request' = [request EXCEPT !.ended = @ \/ request # Idle] /\ request # Idle
            BY <1>2, <2>2, NoneIsNoKind DEF EndEpoch
        <3>2. (request.ended \/ request # Idle) = TRUE
            BY <2>1, <3>1
        <3>3. request' = [request EXCEPT !.ended = TRUE]
            BY <2>1, <3>1, <3>2
        <3> QED
            BY <2>1, <3>3
    <2> QED
        BY <1>2, <2>2
<1>3. UNCHANGED events \/ \E e \in Event : Written(e)
    BY <1>1, NextWrites
<1>4. ASSUME request' = request, NEW d \in Event, Appended(d)
      PROVE  \E e \in Event :
                 /\ Appended(e) /\ Checked(e)
                 /\ request'.kind = request.kind /\ request'.id = request.id
                 /\ request'.got = request.got /\ request'.epoch = request.epoch
                 /\ request.kind # None /\ ~request'.ended => ~request.ended /\ e.kind # "epoch"
    <2>1. ~ UNCHANGED events
        BY <1>1, <1>4, RowsAfter
    <2>2. PICK e \in Event : Appended(e) /\ Checked(e) /\ (e.kind = "epoch" => EndEpoch)
        BY <1>3, <2>1 DEF Written
    <2>3. request.kind # None /\ ~request'.ended => ~request.ended /\ e.kind # "epoch"
        BY <1>2, <1>4, <2>2
    <2> QED
        BY <1>4, <2>2, <2>3
<1>5. CASE /\ request'.kind = request.kind /\ request'.id = request.id
           /\ request'.got = request.got /\ request'.epoch = request.epoch
           /\ request.kind # None => request'.ended
           /\ EndEpoch /\ \E e \in Event : Appended(e) /\ Checked(e)
    BY <1>5
<1> QED
    BY <1>1, <1>4, <1>5, RequestSteps

\* A request knows the epoch it came in, which is the current one until it ends.
EpochKept ==
    request.kind # None =>
        /\ request.epoch \in 1 .. CurrentEpochId
        /\ ~request.ended => request.epoch = CurrentEpochId

LEMMA NextKeepsEpochKept ==
    ASSUME StakingBase, LogInv', EpochKept, [Next]_vars
    PROVE  EpochKept'
<1>1. /\ LogInv /\ RequestFits
      /\ CurrentEpochId \in Nat \ {0}
    BY EpochsAreCounted DEF StakingBase, EpochsCount
<1>2. UNCHANGED events => CurrentEpochId' = CurrentEpochId
    BY DEF CurrentEpochId, Rows
<1>3. CASE UNCHANGED vars
    BY <1>2, <1>3 DEF EpochKept, vars
<1>4. ASSUME NEW e \in Event, Appended(e),
             request'.kind = request.kind, request'.epoch = request.epoch,
             request.kind # None /\ ~request'.ended => ~request.ended /\ e.kind # "epoch"
      PROVE  EpochKept'
    <2>1. CurrentEpochId' = CurrentEpochId + (IF e.kind = "epoch" THEN 1 ELSE 0)
        BY <1>1, <1>4, EpochsAfter
    <2>2. /\ CurrentEpochId' >= CurrentEpochId /\ CurrentEpochId' \in Nat
          /\ e.kind # "epoch" => CurrentEpochId' = CurrentEpochId
        BY <1>1, <2>1
    <2> QED
        BY <1>1, <1>4, <2>2 DEF EpochKept
<1>5. ASSUME NEW kind \in Requests, NEW id \in Staker \cup Pool \cup {None}, Ask(kind, id)
      PROVE  EpochKept'
    <2>1. request'.epoch = CurrentEpochId /\ UNCHANGED events
        BY <1>5, AskStarts
    <2> QED
        BY <1>1, <1>2, <2>1 DEF EpochKept
<1>6. CASE Query
    <2>1. /\ UNCHANGED events /\ request'.kind = request.kind
          /\ request'.epoch = request.epoch /\ request'.ended = request.ended
        BY <1>1, <1>6, QueryAnswers
    <2> QED
        BY <1>2, <2>1 DEF EpochKept
<1> QED
    BY <1>3, <1>4, <1>5, <1>6, AnswerSteps

\* What the queries of a request about the current epoch have answered, while
\* that epoch lasts.
DelegatorPart ==
    request.kind = "delegator" =>
        LET s == request.id
            rows == BeforeEpoch(request.epoch)
        IN
        /\ Len(request.got) >= 1 => request.got[1] = Deposited({s}, rows)
        /\ Len(request.got) >= 2 => request.got[2].overall = Staked({s}, Pool, rows)
EpochsPart ==
    request.kind = "epochs" =>
        /\ Len(request.got) >= 1 => request.got[1].epochId = request.epoch
        /\ Len(request.got) >= 2 => request.got[2].epochId = request.epoch + 1
PoolsPart ==
    request.kind = "pools" /\ Len(request.got) >= 2 =>
        LET stats == request.got[2] IN
        /\ DOMAIN stats \subseteq PoolInfo /\ Created(StartRow(request.epoch)) \subseteq DOMAIN stats
        /\ \A p \in DOMAIN stats : stats[p].stake = Staked(Staker, {p}, AtStart(request.epoch))
OneEpochInv == EpochKept /\ (~request.ended => DelegatorPart /\ EpochsPart /\ PoolsPart)

LEMMA DelegatorAnswers ==
    ASSUME request.kind = "delegator", NEW s, s = request.id, NEW n, n = CurrentEpochId
    PROVE  /\ Answers[1] = Deposited({s}, BeforeEpoch(n))
           /\ Answers[2].overall = Staked({s}, Pool, BeforeEpoch(n))
<1>1. PICK a, b, c, d : /\ a = CurrentEpochDelegatorDeposited(s) /\ b = CurrentEpochDelegatorStaked(s)
                        /\ c = NextEpochDelegatorDeposited(s) /\ d = NextEpochDelegatorStaked(s)
    OBVIOUS
<1>2. Answers = << a, b, c, d >>
    BY <1>1 DEF Answers, GetDelegator
<1>3. Answers[1] = a /\ Answers[2] = b
    BY <1>2
<1>4. a = Deposited({s}, BeforeEpoch(n)) /\ b.overall = Staked({s}, Pool, BeforeEpoch(n))
    BY <1>1 DEF CurrentEpochDelegatorDeposited, CurrentEpochDelegatorStaked, DelegatorStaked
<1> QED
    BY <1>3, <1>4

LEMMA EpochsAnswers ==
    ASSUME request.kind = "epochs"
    PROVE  Answers[1].epochId = CurrentEpochId /\ Answers[2].epochId = CurrentEpochId + 1
<1>1. PICK a, b : a = CurrentEpochWithFees /\ b = NextEpoch
    OBVIOUS
<1>2. Answers = << a, b >>
    BY <1>1 DEF Answers, GetStakingEpochs
<1>3. a.epochId = CurrentEpochId /\ b.epochId = CurrentEpochId + 1
    BY <1>1 DEF CurrentEpochWithFees, NextEpoch
<1> QED
    BY <1>2, <1>3

\* What was read of an epoch stays as it was read.
LEMMA EpochFactsStay ==
    ASSUME LogInv, LogInv', NEW e, UNCHANGED events \/ (Appended(e) /\ e \in Event),
           NEW n \in 1 .. CurrentEpochId
    PROVE  /\ \A s : /\ Deposited({s}, BeforeEpoch(n))' = Deposited({s}, BeforeEpoch(n))
                     /\ Staked({s}, Pool, BeforeEpoch(n))' = Staked({s}, Pool, BeforeEpoch(n))
           /\ \A p : Staked(Staker, {p}, AtStart(n))' = Staked(Staker, {p}, AtStart(n))
           /\ Created(StartRow(n))' = Created(StartRow(n)) /\ PoolInfo \subseteq PoolInfo'
<1>1. PICK b \in SUBSET AllRows, a \in SUBSET AllRows, r \in 1 .. Len(events) :
          b = BeforeEpoch(n) /\ a = AtStart(n) /\ r = StartRow(n)
    BY EpochRowsAfter, EpochsHaveBegun, LastRow DEF AllRows
<1>2. b = BeforeEpoch(n)' /\ a = AtStart(n)' /\ r = StartRow(n)'
    BY <1>1, EpochRowsAfter
<1>3. \A s : /\ Deposited({s}, BeforeEpoch(n))' = Deposited({s}, b)'
             /\ Staked({s}, Pool, BeforeEpoch(n))' = Staked({s}, Pool, b)'
    BY <1>2 DEF Deposited, Staked
<1>4. \A p : Staked(Staker, {p}, AtStart(n))' = Staked(Staker, {p}, a)'
    BY <1>2 DEF Staked
<1>5. Created(StartRow(n))' = Created(r)'
    BY <1>2 DEF Created
<1>6. /\ \A s : /\ Deposited({s}, b)' = Deposited({s}, b)
                /\ Staked({s}, Pool, b)' = Staked({s}, Pool, b)
      /\ \A p : Staked(Staker, {p}, a)' = Staked(Staker, {p}, a)
    BY TotalsAfter
<1>7. Created(r)' = Created(r) /\ PoolInfo \subseteq PoolInfo'
    <2>1. CASE UNCHANGED events
        BY <2>1 DEF Created, PoolInfo, Rows
    <2>2. CASE Appended(e)
        BY <1>1, <2>2, PoolsAfter
    <2> QED
        BY <2>1, <2>2
<1> QED
    BY <1>1, <1>3, <1>4, <1>5, <1>6, <1>7

LEMMA GrowthKeepsOneEpoch ==
    ASSUME StakingBase, LogInv', OneEpochInv, NEW e, UNCHANGED events \/ (Appended(e) /\ e \in Event),
           request'.kind = request.kind, request'.id = request.id,
           request'.got = request.got, request'.epoch = request.epoch,
           request.kind # None => ~request.ended
    PROVE  DelegatorPart' /\ EpochsPart' /\ PoolsPart'
<1>1. CASE request.kind = None
    BY <1>1, NoneIsNoKind DEF DelegatorPart, EpochsPart, PoolsPart, Requests
<1>2. CASE request.kind # None
    <2>1. /\ LogInv /\ DelegatorPart /\ EpochsPart /\ PoolsPart
          /\ request.epoch \in 1 .. CurrentEpochId
        BY <1>2 DEF StakingBase, OneEpochInv, EpochKept
    <2>2. PICK n \in 1 .. CurrentEpochId : n = request.epoch /\ n = request'.epoch
        BY <2>1
    <2>0. PICK s, got : /\ s = request.id /\ got = request.got
                        /\ s = request'.id /\ got = request'.got
        BY <2>1
    <2>3. /\ Deposited({s}, BeforeEpoch(n))' = Deposited({s}, BeforeEpoch(n))
          /\ Staked({s}, Pool, BeforeEpoch(n))' = Staked({s}, Pool, BeforeEpoch(n))
          /\ \A p : Staked(Staker, {p}, AtStart(n))' = Staked(Staker, {p}, AtStart(n))
          /\ Created(StartRow(n))' = Created(StartRow(n)) /\ PoolInfo \subseteq PoolInfo'
        BY <2>1, EpochFactsStay
    <2>4. DelegatorPart'
        BY <2>0, <2>1, <2>2, <2>3 DEF DelegatorPart
    <2>5. EpochsPart'
        BY <2>0, <2>1, <2>2 DEF EpochsPart
    <2>6. PoolsPart'
        <3>1. SUFFICES ASSUME request.kind = "pools", Len(got) >= 2
                       PROVE  /\ DOMAIN got[2] \subseteq PoolInfo'
                              /\ Created(StartRow(n))' \subseteq DOMAIN got[2]
                              /\ \A p \in DOMAIN got[2] : got[2][p].stake = Staked(Staker, {p}, AtStart(n))'
            BY <2>0, <2>2 DEF PoolsPart
        <3>2. /\ DOMAIN got[2] \subseteq PoolInfo
              /\ Created(StartRow(n)) \subseteq DOMAIN got[2]
              /\ \A p \in DOMAIN got[2] : got[2][p].stake = Staked(Staker, {p}, AtStart(n))
            BY <2>0, <2>1, <2>2, <3>1 DEF PoolsPart
        <3> QED
            BY <2>3, <3>2
    <2> QED
        BY <2>4, <2>5, <2>6
<1> QED
    BY <1>1, <1>2

LEMMA QueryKeepsOneEpoch ==
    ASSUME StakingBase, LogInv', OneEpochInv, Query, ~request.ended
    PROVE  DelegatorPart' /\ EpochsPart' /\ PoolsPart'
<1> DEFINE k == Len(request.got) + 1
<1>1. /\ LogInv /\ RequestFits
    BY DEF StakingBase
<1>2. /\ request.kind \in Requests /\ UNCHANGED events
      /\ Len(request.got) \in Nat
      /\ request'.kind = request.kind /\ request'.id = request.id
      /\ request'.epoch = request.epoch
      /\ Len(request'.got) = k
      /\ \A i \in 1 .. Len(request.got) : request'.got[i] = request.got[i]
      /\ request'.got[k] = Answers[k]
    BY <1>1, QueryAnswers
<1>3. /\ DelegatorPart /\ EpochsPart /\ PoolsPart
      /\ request.epoch = CurrentEpochId /\ request.epoch \in 1 .. CurrentEpochId
    BY <1>2, NoneIsNoKind DEF OneEpochInv, EpochKept
<1>m. PICK m \in Nat : m = Len(request.got) /\ Len(request'.got) = m + 1 /\ k = m + 1
    BY <1>2
<1>n. PICK n \in 1 .. CurrentEpochId : n = request.epoch /\ n = CurrentEpochId /\ n = request'.epoch
    BY <1>2, <1>3
<1>s. PICK s : s = request.id /\ s = request'.id
    BY <1>2
<1>4. /\ s = request.id /\ n = request.epoch /\ n = CurrentEpochId /\ m = Len(request.got)
      /\ s = request'.id /\ n = request'.epoch /\ Len(request'.got) = m + 1 /\ k = m + 1
    BY <1>m, <1>n, <1>s
<1>5. /\ Deposited({s}, BeforeEpoch(n))' = Deposited({s}, BeforeEpoch(n))
      /\ Staked({s}, Pool, BeforeEpoch(n))' = Staked({s}, Pool, BeforeEpoch(n))
      /\ \A p : Staked(Staker, {p}, AtStart(n))' = Staked(Staker, {p}, AtStart(n))
      /\ Created(StartRow(n))' = Created(StartRow(n)) /\ PoolInfo \subseteq PoolInfo'
    BY <1>1, <1>2, EpochFactsStay
<1>6. /\ m >= 1 => request'.got[1] = request.got[1]
      /\ m >= 2 => request'.got[2] = request.got[2]
      /\ m = 0 => request'.got[1] = Answers[1]
      /\ m = 1 => request'.got[2] = Answers[2]
    <2>1. \A i \in 1 .. m : request'.got[i] = request.got[i]
        BY <1>2, <1>4
    <2>2. request'.got[m + 1] = Answers[m + 1]
        BY <1>2, <1>4
    <2>3. m >= 1 => 1 \in 1 .. m
        BY <1>4
    <2>4. m >= 2 => 2 \in 1 .. m
        BY <1>4
    <2>5. m = 0 => m + 1 = 1
        BY <1>4
    <2>6. m = 1 => m + 1 = 2
        BY <1>4
    <2> QED
        BY <2>1, <2>2, <2>3, <2>4, <2>5, <2>6
<1> HIDE DEF k
<1>7. DelegatorPart'
    <2>1. SUFFICES ASSUME request.kind = "delegator"
                   PROVE  /\ request'.got[1] = Deposited({s}, BeforeEpoch(n))'
                          /\ m >= 1 => request'.got[2].overall = Staked({s}, Pool, BeforeEpoch(n))'
        BY <1>2, <1>4 DEF DelegatorPart
    <2>2. /\ Answers[1] = Deposited({s}, BeforeEpoch(n))
          /\ Answers[2].overall = Staked({s}, Pool, BeforeEpoch(n))
        BY <1>4, <2>1, DelegatorAnswers
    <2>3. /\ m >= 1 => request.got[1] = Deposited({s}, BeforeEpoch(n))
          /\ m >= 2 => request.got[2].overall = Staked({s}, Pool, BeforeEpoch(n))
        BY <1>3, <1>4, <2>1 DEF DelegatorPart
    <2>4. m = 0 \/ m = 1 \/ m >= 2
        OBVIOUS
    <2> QED
        BY <1>5, <1>6, <2>2, <2>3, <2>4
<1>8. EpochsPart'
    <2>1. SUFFICES ASSUME request.kind = "epochs"
                   PROVE  /\ request'.got[1].epochId = n
                          /\ m >= 1 => request'.got[2].epochId = n + 1
        BY <1>2, <1>4 DEF EpochsPart
    <2>2. Answers[1].epochId = n /\ Answers[2].epochId = n + 1
        BY <1>4, <2>1, EpochsAnswers
    <2>3. /\ m >= 1 => request.got[1].epochId = n
          /\ m >= 2 => request.got[2].epochId = n + 1
        BY <1>3, <1>4, <2>1 DEF EpochsPart
    <2>4. m = 0 \/ m = 1 \/ m >= 2
        OBVIOUS
    <2> QED
        BY <1>6, <2>2, <2>3, <2>4
<1>9. PoolsPart'
    <2>1. SUFFICES ASSUME request.kind = "pools", m >= 1
                   PROVE  LET stats == request'.got[2] IN
                          /\ DOMAIN stats \subseteq PoolInfo' /\ Created(StartRow(n))' \subseteq DOMAIN stats
                          /\ \A p \in DOMAIN stats : stats[p].stake = Staked(Staker, {p}, AtStart(n))'
        BY <1>2, <1>4 DEF PoolsPart
    <2>2. CASE m = 1
        <3>1. request'.got[2] = [p \in PoolInfo |-> CurrentEpochPoolStats(p)]
            BY <1>6, <2>1, <2>2, PoolsAnswers
        <3>2. \A p : CurrentEpochPoolStats(p).stake = Staked(Staker, {p}, AtStart(n))
            BY <1>4 DEF CurrentEpochPoolStats, PoolStats
        <3>3. Created(StartRow(n)) \subseteq PoolInfo
            <4>1. StartRow(n) <= Len(events) /\ StartRow(n) \in Nat
                BY <1>1, EpochsHaveBegun, LastRow DEF AllRows
            <4>2. Rows("create") \subseteq 1 .. Len(events) /\ Len(events) \in Nat
                BY <1>1, LastRow DEF Rows
            <4> QED
                BY <4>1, <4>2 DEF PoolInfo, Created
        <3> QED
            BY <1>5, <3>1, <3>2, <3>3
    <2>3. CASE m >= 2
        <3>1. PICK stats : stats = request.got[2] /\ stats = request'.got[2]
            BY <1>6, <2>3
        <3>2. /\ DOMAIN stats \subseteq PoolInfo
              /\ Created(StartRow(n)) \subseteq DOMAIN stats
              /\ \A p \in DOMAIN stats : stats[p].stake = Staked(Staker, {p}, AtStart(n))
            BY <1>3, <1>4, <2>1, <2>3, <3>1 DEF PoolsPart
        <3> QED
            BY <1>5, <3>1, <3>2
    <2>4. m = 1 \/ m >= 2
        BY <2>1
    <2> QED
        BY <2>2, <2>3, <2>4
<1> QED
    BY <1>7, <1>8, <1>9

LEMMA NextKeepsOneEpoch ==
    ASSUME StakingBase, LogInv', OneEpochInv, [Next]_vars
    PROVE  OneEpochInv'
<1>1. EpochKept'
    BY NextKeepsEpochKept DEF OneEpochInv
<1>2. ASSUME ~request'.ended PROVE DelegatorPart' /\ EpochsPart' /\ PoolsPart'
    <2>1. CASE UNCHANGED vars
        <3>1. PICK e : e = 0
            OBVIOUS
        <3>2. UNCHANGED events /\ UNCHANGED request
            BY <2>1 DEF vars
        <3> QED
            BY <1>2, <3>2, GrowthKeepsOneEpoch
    <2>2. ASSUME NEW e \in Event, Appended(e),
                 request'.kind = request.kind, request'.id = request.id,
                 request'.got = request.got, request'.epoch = request.epoch,
                 request.kind # None /\ ~request'.ended => ~request.ended /\ e.kind # "epoch"
          PROVE  DelegatorPart' /\ EpochsPart' /\ PoolsPart'
        BY <1>2, <2>2, GrowthKeepsOneEpoch
    <2>3. ASSUME NEW kind \in Requests, NEW id \in Staker \cup Pool \cup {None}, Ask(kind, id)
          PROVE  DelegatorPart' /\ EpochsPart' /\ PoolsPart'
        <3>1. request'.got = <<>> /\ Len(<<>>) = 0
            BY <2>3, AskStarts
        <3>2. ~(Len(request'.got) >= 1) /\ ~(Len(request'.got) >= 2)
            BY <3>1
        <3> QED
            BY <3>2 DEF DelegatorPart, EpochsPart, PoolsPart
    <2>4. CASE Query
        <3>1. request'.ended = request.ended
            BY <2>4, QueryAnswers DEF StakingBase
        <3> QED
            BY <1>2, <2>4, <3>1, QueryKeepsOneEpoch
    <2> QED
        BY <2>1, <2>2, <2>3, <2>4, AnswerSteps
<1> QED
    BY <1>1, <1>2 DEF OneEpochInv

\* The stake of the pools that were listed is that of all pools, if each pool
\* that had been created by then is among them.
LEMMA StakeOfListed ==
    ASSUME LogInv, LawfulStakes, NEW D, NEW row \in AllRows, D \subseteq PoolInfo, Created(row) \subseteq D
    PROVE  Staked(Staker, D, 1 .. row) = Staked(Staker, Pool, 1 .. row)
<1>1. PoolInfo \subseteq Pool /\ None \notin Pool
    BY CreatedPools, StakingAssumption
<1>2. ASSUME NEW i \in 1 .. row, events[i].kind = "move"
      PROVE  {events[i].from, events[i].to} \subseteq D \cup {None}
    <2>1. i \in Rows("move") /\ i <= row
        BY <1>2, LastRow DEF Rows, AllRows
    <2>2. Created(i) \subseteq Created(row)
        BY <2>1, LastRow DEF Created, Rows, AllRows
    <2> QED
        BY <2>1, <2>2 DEF LawfulStakes
<1>3. /\ MovesTo(Staker, D, 1 .. row) = MovesTo(Staker, Pool, 1 .. row)
      /\ MovesFrom(Staker, D, 1 .. row) = MovesFrom(Staker, Pool, 1 .. row)
    <2>1. \A i \in 1 .. row : events[i].kind = "move" =>
             /\ events[i].to \in D <=> events[i].to \in Pool
             /\ events[i].from \in D <=> events[i].from \in Pool
        BY <1>1, <1>2
    <2> QED
        BY <2>1 DEF MovesTo, MovesFrom
<1>4. \A pools : Staked(Staker, pools, 1 .. row) = Total(MovesTo(Staker, pools, 1 .. row))
                                                   - Total(MovesFrom(Staker, pools, 1 .. row))
    BY BalancesAreTotals
<1> QED
    BY <1>3, <1>4

LEMMA OneEpochFits == StakingBase /\ LawfulStakes /\ OneEpochInv => AnswersAreOfOneEpoch
<1> SUFFICES ASSUME StakingBase, LawfulStakes, OneEpochInv, ~request.ended
             PROVE  /\ Done("delegator") => request.got[2].overall <= request.got[1]
                    /\ Done("epochs") => request.got[2].epochId = request.got[1].epochId + 1
                    /\ Done("pools") => SumOver(DOMAIN request.got[2], LAMBDA p : request.got[2][p].stake) =
                                        EpochNWithFees(request.epoch).staked
    BY DEF AnswersAreOfOneEpoch
<1>1. LogInv /\ RequestFits /\ EpochKept /\ DelegatorPart /\ EpochsPart /\ PoolsPart
    BY DEF StakingBase, OneEpochInv
<1>2. \A kind \in Requests : Done(kind) =>
         /\ request.kind = kind /\ kind # None /\ Len(request.got) >= 1 /\ Len(request.got) >= 2
    BY NoneIsNoKind DEF Done, QueriesOf, Requests
<1>3. ASSUME Done("delegator") PROVE request.got[2].overall <= request.got[1]
    <2>1. request.kind = "delegator" /\ Len(request.got) >= 1 /\ Len(request.got) >= 2 /\ request.kind # None
        BY <1>2, <1>3 DEF Requests
    <2>2. PICK s, n : s = request.id /\ n = request.epoch /\ s \in Staker /\ n \in 1 .. CurrentEpochId
        BY <1>1, <2>1 DEF EpochKept, RequestFits
    <2>3. PICK t \in 0 .. Len(events) : BeforeEpoch(n) = 1 .. t
        BY <1>1, <2>2, RowsBeforeEpoch
    <2>4. Staked({s}, Pool, BeforeEpoch(n)) <= Deposited({s}, BeforeEpoch(n))
        BY <2>2, <2>3 DEF LawfulStakes
    <2>5. /\ request.got[1] = Deposited({s}, BeforeEpoch(n))
          /\ request.got[2].overall = Staked({s}, Pool, BeforeEpoch(n))
        BY <1>1, <2>1, <2>2 DEF DelegatorPart
    <2> QED
        BY <2>4, <2>5
<1>4. ASSUME Done("epochs") PROVE request.got[2].epochId = request.got[1].epochId + 1
    <2>1. request.kind = "epochs" /\ Len(request.got) >= 1 /\ Len(request.got) >= 2
        BY <1>2, <1>4 DEF Requests
    <2> QED
        BY <1>1, <2>1 DEF EpochsPart
<1>5. ASSUME Done("pools")
      PROVE  SumOver(DOMAIN request.got[2], LAMBDA p : request.got[2][p].stake) =
             EpochNWithFees(request.epoch).staked
    <2>1. request.kind = "pools" /\ Len(request.got) >= 2 /\ request.kind # None
        BY <1>2, <1>5 DEF Requests
    <2>2. PICK stats, n, D : /\ stats = request.got[2] /\ n = request.epoch /\ n \in 1 .. CurrentEpochId
                             /\ D = DOMAIN stats
        BY <1>1, <2>1 DEF EpochKept
    <2>3. /\ D \subseteq PoolInfo /\ Created(StartRow(n)) \subseteq D
          /\ \A p \in D : stats[p].stake = Staked(Staker, {p}, AtStart(n))
        BY <1>1, <2>1, <2>2 DEF PoolsPart
    <2>4. PICK rows \in SUBSET AllRows, row \in AllRows :
             /\ rows = AtStart(n) /\ row = StartRow(n) /\ rows = 1 .. row
        BY <1>1, <2>2, EpochsHaveBegun
    <2>5. IsFiniteSet(D)
        BY <1>1, <2>3, CreatedPools, FS_Subset
    <2> DEFINE f == [p \in D |-> Staked(Staker, {p}, rows)]
               g == [p \in D |-> stats[p].stake]
    <2>6. DOMAIN g = D /\ \A p \in D : g[p] = f[p]
        BY <2>3, <2>4
    <2>7. SumFunctionOnSet(f, D) = Staked(Staker, D, rows)
        BY <1>1, <2>5, StakeInEach
    <2>8. SumFunction(g) = SumFunctionOnSet(f, D)
        <3> HIDE DEF f, g
        <3> QED
            BY <2>5, <2>6, SumOverDomain
    <2>9. Staked(Staker, D, rows) = Staked(Staker, Pool, rows)
        BY <1>1, <2>3, <2>4, StakeOfListed
    <2>10. SumOver(D, LAMBDA p : stats[p].stake) = SumFunction(g)
        BY DEF SumOver
    <2>11. EpochNWithFees(n).staked = Staked(Staker, Pool, rows)
        BY <2>4 DEF EpochNWithFees
    <2> HIDE DEF f, g
    <2> QED
        BY <2>2, <2>7, <2>8, <2>9, <2>10, <2>11
<1> QED
    BY <1>3, <1>4, <1>5

-----------------------------------------------------------------------------
(* The answer about one pool.  What it is made of only grows: the fills and *)
(* the rewards that were counted for the pool stay counted for it, but for  *)
(* the fills of the transaction in which an epoch starts.                   *)

PoolRows(p) == UNION {{i \in FillsIn(n) : events[i].who \in StartMakers(n, p)} : n \in 1 .. CurrentEpochId}

LEMMA MakersAfter ==
    ASSUME LogInv, NEW e, UNCHANGED events \/ Appended(e), NEW row \in AllRows, NEW p
    PROVE  MakersOf(p, row)' = MakersOf(p, row)
<1>1. /\ Len(events) \in Nat /\ AllRows = 1 .. Len(events) /\ AllRows \subseteq AllRows'
      /\ \A i \in AllRows : events'[i] = events[i]
    BY LastRow, TotalsAfter DEF AllRows
<1> DEFINE joins(m) == {j \in Rows("join") : j <= row /\ events[j].who = m}
<1>2. \A m : {j \in Rows("join")' : j <= row /\ events'[j].who = m} = joins(m)
    <2>1. \A i \in AllRows : i \in Rows("join")' <=> i \in Rows("join")
        BY <1>1 DEF Rows, AllRows
    <2>2. Rows("join") \subseteq AllRows /\ \A i \in Rows("join")' : i <= row => i \in AllRows
        <3>1. CASE UNCHANGED events
            BY <3>1 DEF Rows, AllRows
        <3>2. CASE Appended(e)
            BY <1>1, <3>2, RowsAfter DEF Rows, AllRows
        <3> QED
            BY <3>1, <3>2
    <2> QED
        BY <1>1, <2>1, <2>2
<1>3. \A m : joins(m) \subseteq 1 .. Len(events)
    BY <1>1 DEF Rows, AllRows
<1>4. MakersOf(p, row) = {m \in Maker : joins(m) # {} /\ events[Max(joins(m))].to = p}
    BY DEF MakersOf
<1>5. MakersOf(p, row)' = {m \in Maker : joins(m) # {} /\ events'[Max(joins(m))].to = p}
    BY <1>2 DEF MakersOf
<1>6. ASSUME NEW m, joins(m) # {} PROVE events'[Max(joins(m))] = events[Max(joins(m))]
    <2> HIDE DEF joins
    <2>1. Max(joins(m)) \in 1 .. Len(events)
        BY <1>1, <1>3, <1>6, LastOfRows
    <2> QED
        BY <1>1, <2>1
<1> HIDE DEF joins
<1> QED
    BY <1>4, <1>5, <1>6

FillsHave ==
    \A n \in 1 .. CurrentEpochId : \A i : i \in FillsIn(n) <=>
        /\ i \in Rows("fill")
        /\ Before(Start(n), events[i].at) /\ (n < CurrentEpochId => Before(events[i].at, Start(n + 1)))

LEMMA FillsAreKnown == LogInv => FillsHave
BY FillsOf DEF FillsHave

LEMMA FillsAreKnownAfterwards == LogInv' => FillsHave'
BY FillsAreKnown, PTL

LEMMA CountedRowsStay ==
    ASSUME LogInv, LogInv', NEW e, UNCHANGED events \/ (Appended(e) /\ e \in Event), NEW p
    PROVE  /\ Boundary \subseteq Boundary' /\ Boundary' \subseteq AllRows'
           /\ PoolRows(p) \subseteq PoolRows(p)' \cup Boundary' /\ PoolRows(p)' \subseteq AllRows'
           /\ RewardsOf(p) \subseteq RewardsOf(p)' /\ RewardsOf(p)' \subseteq AllRows'
           /\ Boundary \subseteq AllRows /\ PoolRows(p) \subseteq AllRows /\ RewardsOf(p) \subseteq AllRows
<1>1. PICK c, d : /\ c = CurrentEpochId /\ d = CurrentEpochId' /\ c \in Nat \ {0} /\ d \in Nat \ {0}
    BY EpochsAreCounted, EpochsAfterwards DEF EpochsCount
<1>2. /\ AllRows \subseteq AllRows' /\ \A i \in AllRows : events'[i] = events[i]
    BY TotalsAfter
<1>3. \A kind : /\ Rows(kind) \subseteq AllRows /\ Rows(kind)' \subseteq AllRows'
                /\ Rows(kind) \subseteq Rows(kind)'
    BY <1>2 DEF Rows, AllRows
<1>4. \A n \in 1 .. c : /\ n \in 1 .. d /\ c <= d /\ Start(n)' = Start(n)
                        /\ StartRow(n)' = StartRow(n) /\ StartRow(n) \in AllRows
    BY <1>1, EpochRowsAfter, EpochsHaveBegun
<1>5. \A n \in 1 .. c : StartMakers(n, p)' = StartMakers(n, p)
    <2> TAKE n \in 1 .. c
    <2>1. PICK row \in AllRows : row = StartRow(n) /\ row = StartRow(n)'
        BY <1>4
    <2>2. StartMakers(n, p)' = MakersOf(p, row)'
        BY <2>1 DEF StartMakers
    <2>3. MakersOf(p, row)' = MakersOf(p, row)
        BY MakersAfter
    <2> QED
        BY <2>1, <2>2, <2>3 DEF StartMakers
<1>6. Boundary \subseteq Boundary' /\ Boundary \subseteq AllRows /\ Boundary' \subseteq AllRows'
    BY <1>1, <1>2, <1>3, <1>4 DEF Boundary
<1>7. RewardsOf(p) \subseteq RewardsOf(p)' /\ RewardsOf(p) \subseteq AllRows /\ RewardsOf(p)' \subseteq AllRows'
    BY <1>2, <1>3 DEF RewardsOf
<1>8. ASSUME NEW n \in 1 .. c, NEW i \in FillsIn(n), i \notin Boundary' PROVE i \in FillsIn(n)'
    <2>1. /\ i \in Rows("fill") /\ Before(Start(n), events[i].at)
          /\ n < c => Before(events[i].at, Start(n + 1))
        BY <1>1, <1>8, FillsAreKnown DEF FillsHave
    <2>2. /\ i \in Rows("fill")' /\ events'[i] = events[i] /\ i \in AllRows
          /\ n \in 1 .. d /\ c <= d /\ Start(n)' = Start(n)
        BY <1>2, <1>3, <1>4, <2>1
    <2>3. n < d => Before(events[i].at, Start(n + 1)')
        <3>1. CASE n < c
            <4>1. n + 1 \in 1 .. c
                BY <1>1, <3>1
            <4> QED
                BY <1>4, <2>1, <3>1, <4>1
        <3>2. CASE n = c /\ n < d
            <4>1. Appended(e) /\ e \in Event /\ e.kind = "epoch"
                <5>1. CASE UNCHANGED events
                    <6>1. d = c
                        BY <1>1, <5>1 DEF CurrentEpochId, Rows
                    <6> QED
                        BY <1>1, <3>2, <6>1
                <5>2. CASE Appended(e) /\ e \in Event
                    <6>1. d = c + (IF e.kind = "epoch" THEN 1 ELSE 0)
                        BY <1>1, <5>2, EpochsAfter
                    <6> QED
                        BY <1>1, <3>2, <5>2, <6>1
                <5> QED
                    BY <5>1, <5>2
            <4>2. d = c + 1 /\ Now' = e.at /\ e.at \in Position /\ ~Before(e.at, Now)
                <5>1. d = c + (IF e.kind = "epoch" THEN 1 ELSE 0)
                    BY <1>1, <4>1, EpochsAfter
                <5> QED
                    BY <1>1, <4>1, <5>1, RowsAfter DEF Appended, Event
            <4>3. PICK m : m = n + 1 /\ m = c + 1 /\ m = d /\ m \in 1 .. d
                BY <1>1, <3>2, <4>2
            <4>4. Start(m)' = e.at
                BY <1>1, <4>1, <4>2, <4>3, EpochsAfter
            <4>5. /\ events[i].at \in Position /\ Now \in Position
                  /\ ~Before(Now, events[i].at)
                BY <2>2, LastRow, LaterRows DEF AllRows
            <4>6. events[i].at # e.at
                <5>1. events'[i].at # Start(m)'
                    BY <1>1, <1>8, <2>2, <4>3 DEF Boundary
                <5> QED
                    BY <2>2, <4>4, <5>1
            <4>7. Before(events[i].at, e.at)
                BY <4>2, <4>5, <4>6, BeforeIsTransitive
            <4> QED
                BY <4>3, <4>4, <4>7
        <3> QED
            BY <1>1, <3>1, <3>2
    <2> QED
        BY <1>1, <2>1, <2>2, <2>3, FillsAreKnownAfterwards DEF FillsHave
<1>9. PoolRows(p) \subseteq PoolRows(p)' \cup Boundary'
    <2>1. ASSUME NEW i \in PoolRows(p), i \notin Boundary' PROVE i \in PoolRows(p)'
        <3>1. PICK n \in 1 .. c : i \in FillsIn(n) /\ events[i].who \in StartMakers(n, p)
            BY <1>1, <2>1 DEF PoolRows
        <3>2. i \in FillsIn(n)' /\ n \in 1 .. d /\ StartMakers(n, p)' = StartMakers(n, p)
            BY <1>4, <1>5, <1>8, <2>1, <3>1
        <3>3. i \in AllRows /\ events'[i] = events[i]
            BY <1>1, <1>2, <1>3, <3>1, FillsAreKnown DEF FillsHave
        <3> QED
            BY <1>1, <3>1, <3>2, <3>3 DEF PoolRows
    <2> QED
        BY <2>1
<1>10. PoolRows(p) \subseteq AllRows /\ PoolRows(p)' \subseteq AllRows'
    BY <1>1, <1>3, FillsAreKnown, FillsAreKnownAfterwards DEF FillsHave, PoolRows
<1> QED
    BY <1>6, <1>7, <1>9, <1>10

\* The totals of what was counted for a pool, and how they grow.
LEMMA CountedAmountsGrow ==
    ASSUME LogInv, LogInv', NEW e, UNCHANGED events \/ (Appended(e) /\ e \in Event), NEW p
    PROVE  /\ Total(PoolRows(p) \cup Boundary) \in Nat /\ Total(PoolRows(p) \cup Boundary)' \in Nat
           /\ Total(PoolRows(p) \cup Boundary) <= Total(PoolRows(p) \cup Boundary)'
           /\ Total(Boundary) \in Nat /\ Total(Boundary)' \in Nat /\ Total(Boundary) <= Total(Boundary)'
           /\ AllTimePoolRewards(p) \in Nat /\ AllTimePoolRewards(p)' \in Nat
           /\ AllTimePoolRewards(p) <= AllTimePoolRewards(p)'
<1>1. PICK fees, edge, paid : /\ fees = PoolRows(p) \cup Boundary /\ edge = Boundary /\ paid = RewardsOf(p)
                              /\ fees \in SUBSET AllRows /\ edge \in SUBSET AllRows
                              /\ paid \in SUBSET AllRows
    BY CountedRowsStay
<1>2. PICK fees2, edge2, paid2 : /\ fees2 = (PoolRows(p) \cup Boundary)' /\ edge2 = Boundary'
                                 /\ paid2 = RewardsOf(p)'
                                 /\ fees2 \in SUBSET AllRows' /\ edge2 \in SUBSET AllRows'
                                 /\ paid2 \in SUBSET AllRows'
    <2>1. /\ PoolRows(p)' \cup Boundary' \in SUBSET AllRows' /\ Boundary' \in SUBSET AllRows'
          /\ RewardsOf(p)' \in SUBSET AllRows'
        BY CountedRowsStay
    <2> QED
        BY <2>1
<1>3. fees \subseteq fees2 /\ edge \subseteq edge2 /\ paid \subseteq paid2
    BY <1>1, <1>2, CountedRowsStay
<1>4. /\ Total(PoolRows(p) \cup Boundary)' = Total(fees2)' /\ Total(Boundary)' = Total(edge2)'
      /\ AllTimePoolRewards(p)' = Total(paid2)'
    BY <1>2 DEF Total, AllTimePoolRewards
<1>5. /\ Total(PoolRows(p) \cup Boundary) = Total(fees) /\ Total(Boundary) = Total(edge)
      /\ AllTimePoolRewards(p) = Total(paid)
    BY <1>1 DEF AllTimePoolRewards
<1>6. /\ Total(fees)' = Total(fees) /\ Total(edge)' = Total(edge) /\ Total(paid)' = Total(paid)
      /\ AllRows \subseteq AllRows'
    BY <1>1, TotalsAfter
<1>7. /\ Total(fees) \in Nat /\ Total(edge) \in Nat /\ Total(paid) \in Nat
    BY <1>1, TotalsAlwaysAdd DEF TotalsAdd
<1>8. /\ Total(fees2)' \in Nat /\ Total(edge2)' \in Nat /\ Total(paid2)' \in Nat
      /\ Total(fees)' <= Total(fees2)' /\ Total(edge)' <= Total(edge2)' /\ Total(paid)' <= Total(paid2)'
    BY <1>1, <1>2, <1>3, <1>6, TotalsAddAfterwards DEF TotalsAdd
<1> QED
    BY <1>4, <1>5, <1>6, <1>7, <1>8

\* The fees of a pool in the current epoch are among those of all time, but
\* for the boundary.
LEMMA CurrentFeesAreCounted ==
    ASSUME LogInv, NEW p
    PROVE  /\ CurrentEpochPoolStats(p).fees \in Nat
           /\ CurrentEpochPoolStats(p).fees <= Total(PoolRows(p) \cup Boundary)
           /\ Total(PoolRows(p) \cup Boundary) <= PoolTotalProtocolFeesGenerated(p) + Total(Boundary)
           /\ PoolTotalProtocolFeesGenerated(p) \in Nat
<1>1. PICK n : n = CurrentEpochId /\ n \in Nat \ {0} /\ n \in 1 .. CurrentEpochId
    BY EpochsAreCounted DEF EpochsCount
<1>2. PICK fills : fills = {i \in Rows("fill") : /\ ~Before(events[i].at, Start(n))
                                                 /\ events[i].who \in StartMakers(n, p)}
    OBVIOUS
<1>3. CurrentEpochPoolStats(p).fees = Total(fills)
    BY <1>1, <1>2 DEF CurrentEpochPoolStats, PoolStats
<1>4. PICK own, edge : /\ own = PoolRows(p) /\ edge = Boundary
                       /\ own \in SUBSET AllRows /\ edge \in SUBSET AllRows
    <2>1. Boundary \in SUBSET AllRows /\ Rows("fill") \subseteq AllRows
        BY DEF Boundary, Rows, AllRows
    <2>2. PoolRows(p) \in SUBSET AllRows
        BY <2>1, FillsAreKnown DEF FillsHave, PoolRows
    <2> QED
        BY <2>1, <2>2
<1>5. fills \in SUBSET AllRows /\ fills \subseteq own \cup edge
    <2>1. ASSUME NEW i \in fills PROVE i \in AllRows /\ i \in own \cup edge
        <3>1. /\ i \in Rows("fill") /\ i \in AllRows /\ events[i].who \in StartMakers(n, p)
              /\ ~Before(events[i].at, Start(n))
              /\ events[i].at \in Position /\ Start(n) \in Position
            BY <1>1, <1>2, <2>1, LastRow, EpochsHaveBegun DEF Rows, AllRows
        <3>2. CASE events[i].at = Start(n)
            BY <1>1, <1>4, <3>1, <3>2 DEF Boundary
        <3>3. CASE events[i].at # Start(n)
            <4>1. Before(Start(n), events[i].at)
                BY <3>1, <3>3, BeforeIsTransitive
            <4>2. i \in FillsIn(n)
                BY <1>1, <3>1, <4>1, FillsAreKnown DEF FillsHave
            <4> QED
                BY <1>1, <1>4, <3>1, <4>2 DEF PoolRows
        <3> QED
            BY <3>1, <3>2, <3>3
    <2> QED
        BY <2>1
<1>6. PICK rest : /\ rest \in SUBSET AllRows /\ own \cap rest = {} /\ rest \subseteq edge
                  /\ own \cup rest = own \cup edge /\ own \cup edge \in SUBSET AllRows
    <2>1. /\ edge \ own \in SUBSET AllRows /\ own \cap (edge \ own) = {}
          /\ own \cup (edge \ own) = own \cup edge /\ own \cup edge \in SUBSET AllRows
        BY <1>4
    <2> QED
        BY <2>1
<1>7. /\ Total(fills) \in Nat /\ Total(own) \in Nat /\ Total(edge) \in Nat /\ Total(rest) \in Nat
      /\ Total(fills) <= Total(own \cup edge) /\ Total(rest) <= Total(edge)
      /\ Total(own \cup rest) = Total(own) + Total(rest)
    BY <1>4, <1>5, <1>6, TotalsAlwaysAdd DEF TotalsAdd
<1>8. PoolTotalProtocolFeesGenerated(p) = Total(own)
    BY <1>4 DEF PoolTotalProtocolFeesGenerated, PoolRows
<1>9. PICK all : /\ all = Total(own \cup edge) /\ all = Total(PoolRows(p) \cup Boundary)
                 /\ all = Total(own) + Total(rest)
    BY <1>4, <1>6, <1>7
<1>10. Total(Boundary) = Total(edge)
    BY <1>4
<1> QED
    BY <1>3, <1>7, <1>8, <1>9, <1>10

LEMMA PoolAnswers ==
    ASSUME request.kind = "pool", NEW p, p = request.id
    PROVE  /\ Answers[1] = (p \in PoolInfo) /\ Answers[2] = CurrentEpochPoolStats(p)
           /\ Answers[6] = PoolEpochRewards(p) /\ Answers[7] = AllTimePoolRewards(p)
           /\ Answers[8] = PoolTotalProtocolFeesGenerated(p)
<1>1. PICK a1, a2, a3, a4, a5, a6, a7, a8 :
         /\ a1 = (p \in PoolInfo) /\ a2 = CurrentEpochPoolStats(p) /\ a3 = NextEpochPoolStats(p)
         /\ a4 = SevenDayProtocolFeesGenerated(p) /\ a5 = PoolAvgRewards(p)
         /\ a6 = PoolEpochRewards(p) /\ a7 = AllTimePoolRewards(p)
         /\ a8 = PoolTotalProtocolFeesGenerated(p)
    OBVIOUS
<1>2. Answers = << a1, a2, a3, a4, a5, a6, a7, a8 >>
    BY <1>1 DEF Answers, GetStakingPoolById
<1>3. /\ Answers[1] = a1 /\ Answers[2] = a2 /\ Answers[6] = a6 /\ Answers[7] = a7 /\ Answers[8] = a8
    BY <1>2
<1> QED
    BY <1>1, <1>3

RewardsIn(answer) == SumOver(answer, LAMBDA r : r.total)

\* What the queries of a request about one pool have answered is still bounded
\* by what is counted for the pool, and by each other.
PoolPart ==
    request.kind = "pool" =>
        LET p == request.id
            got == request.got
        IN
        /\ Len(got) >= 1 /\ got[1] => p \in PoolInfo
        /\ Len(got) >= 2 => got[1] /\ got[2].fees \in 0 .. Total(PoolRows(p) \cup Boundary)
        /\ Len(got) >= 6 => RewardsIn(got[6]) \in 0 .. AllTimePoolRewards(p)
        /\ Len(got) >= 7 => RewardsIn(got[6]) <= got[7]
        /\ Len(got) >= 8 => got[8] \in Nat /\ got[2].fees <= got[8] + Total(Boundary)

LEMMA GrowthKeepsPoolPart ==
    ASSUME LogInv, LogInv', PoolPart, NEW e, UNCHANGED events \/ (Appended(e) /\ e \in Event),
           request'.kind = request.kind, request'.id = request.id, request'.got = request.got
    PROVE  PoolPart'
<1>1. PICK p, got : p = request.id /\ p = request'.id /\ got = request.got /\ got = request'.got
    OBVIOUS
<1>2. SUFFICES ASSUME request.kind = "pool"
      PROVE  /\ Len(got) >= 1 /\ got[1] => p \in PoolInfo'
             /\ Len(got) >= 2 => got[1] /\ got[2].fees \in 0 .. Total(PoolRows(p) \cup Boundary)'
             /\ Len(got) >= 6 => RewardsIn(got[6]) \in 0 .. AllTimePoolRewards(p)'
             /\ Len(got) >= 7 => RewardsIn(got[6]) <= got[7]
             /\ Len(got) >= 8 => got[8] \in Nat /\ got[2].fees <= got[8] + Total(Boundary)'
    BY <1>1 DEF PoolPart
<1>3. /\ Len(got) >= 1 /\ got[1] => p \in PoolInfo
      /\ Len(got) >= 2 => got[1] /\ got[2].fees \in 0 .. Total(PoolRows(p) \cup Boundary)
      /\ Len(got) >= 6 => RewardsIn(got[6]) \in 0 .. AllTimePoolRewards(p)
      /\ Len(got) >= 7 => RewardsIn(got[6]) <= got[7]
      /\ Len(got) >= 8 => got[8] \in Nat /\ got[2].fees <= got[8] + Total(Boundary)
    BY <1>1, <1>2 DEF PoolPart
<1>4. PoolInfo \subseteq PoolInfo'
    <2>1. CASE UNCHANGED events
        BY <2>1 DEF PoolInfo, Created, Rows
    <2>2. CASE Appended(e)
        BY <2>2, PoolsAfter
    <2> QED
        BY <2>1, <2>2
<1>5. PICK f, g, b, c, a, d \in Nat :
         /\ f = Total(PoolRows(p) \cup Boundary) /\ g = Total(PoolRows(p) \cup Boundary)' /\ f <= g
         /\ b = Total(Boundary) /\ c = Total(Boundary)' /\ b <= c
         /\ a = AllTimePoolRewards(p) /\ d = AllTimePoolRewards(p)' /\ a <= d
    BY CountedAmountsGrow
<1>6. Len(got) >= 2 => got[2].fees \in 0 .. g
    BY <1>3, <1>5
<1>7. Len(got) >= 6 => RewardsIn(got[6]) \in 0 .. d
    BY <1>3, <1>5
<1>8. Len(got) >= 8 => got[2].fees <= got[8] + c
    <2>1. SUFFICES ASSUME Len(got) >= 8 PROVE got[2].fees <= got[8] + c
        OBVIOUS
    <2>2. got[2].fees \in 0 .. f /\ got[8] \in Nat /\ got[2].fees <= got[8] + b
        <3>1. Len(got) >= 2 \/ ~(Len(got) >= 8)
            <4>1. Len(got) \in Nat
                OBVIOUS
            <4> QED
                BY <4>1
        <3> QED
            BY <1>3, <1>5, <2>1, <3>1
    <2> QED
        BY <1>5, <2>2
<1> QED
    BY <1>3, <1>4, <1>5, <1>6, <1>7, <1>8

LEMMA QueryKeepsPoolPart ==
    ASSUME StakingBase, LogInv', LawfulPayments, PoolPart, Query
    PROVE  PoolPart'
<1>1. LogInv /\ RequestFits
    BY DEF StakingBase
<1>2. SUFFICES ASSUME request.kind = "pool" PROVE PoolPart'
    BY <1>1, QueryAnswers DEF PoolPart
<1>3. PICK m \in Nat : m = Len(request.got) /\ Len(request'.got) = m + 1
    BY <1>1, QueryAnswers
<1>4. PICK p : p = request.id /\ p = request'.id
    BY <1>1, QueryAnswers
<1>5. PICK got, new : /\ got = request.got /\ new = request'.got
                      /\ Len(got) = m /\ Len(new) = m + 1
    BY <1>3
<1>6. UNCHANGED events /\ request'.kind = "pool"
    BY <1>1, <1>2, QueryAnswers
<1>7. PICK g, b, a \in Nat :
         /\ g = Total(PoolRows(p) \cup Boundary) /\ g <= Total(PoolRows(p) \cup Boundary)'
         /\ b = Total(Boundary) /\ b <= Total(Boundary)'
         /\ a = AllTimePoolRewards(p) /\ a <= AllTimePoolRewards(p)'
    BY <1>1, <1>6, CountedAmountsGrow
<1>8. PICK G, B, A \in Nat :
         /\ G = Total(PoolRows(p) \cup Boundary)' /\ g <= G
         /\ B = Total(Boundary)' /\ b <= B
         /\ A = AllTimePoolRewards(p)' /\ a <= A
    BY <1>1, <1>6, <1>7, CountedAmountsGrow
<1>9. /\ PoolInfo' = PoolInfo
    BY <1>6 DEF PoolInfo, Created, Rows
<1>10. SUFFICES
         /\ new[1] => p \in PoolInfo
         /\ m >= 1 => new[1] /\ new[2].fees \in 0 .. G
         /\ m >= 5 => RewardsIn(new[6]) \in 0 .. A
         /\ m >= 6 => RewardsIn(new[6]) <= new[7]
         /\ m >= 7 => new[8] \in Nat /\ new[2].fees <= new[8] + B
    BY <1>4, <1>5, <1>6, <1>8, <1>9 DEF PoolPart
<1>11. /\ m >= 1 /\ got[1] => p \in PoolInfo
       /\ m >= 2 => got[1] /\ got[2].fees \in 0 .. g
       /\ m >= 6 => RewardsIn(got[6]) \in 0 .. a
       /\ m >= 7 => RewardsIn(got[6]) <= got[7]
       /\ m >= 8 => got[8] \in Nat /\ got[2].fees <= got[8] + b
    BY <1>2, <1>4, <1>5, <1>7 DEF PoolPart
<1>12. m >= 1 => got[1]
    <2>1. SUFFICES ASSUME m >= 1 PROVE got[1]
        OBVIOUS
    <2>2. got # <<>>
        BY <1>5, <2>1
    <2>3. ~NotFound
        BY DEF Query, Answered
    <2> QED
        BY <1>2, <1>5, <2>2, <2>3 DEF NotFound
<1>13. /\ \A i \in 1 .. m : new[i] = got[i]
       /\ new[m + 1] = Answers[m + 1]
    BY <1>1, <1>3, <1>5, QueryAnswers
<1>14. /\ Answers[1] = (p \in PoolInfo) /\ Answers[2] = CurrentEpochPoolStats(p)
       /\ Answers[6] = PoolEpochRewards(p) /\ Answers[7] = AllTimePoolRewards(p)
       /\ Answers[8] = PoolTotalProtocolFeesGenerated(p)
    BY <1>2, <1>4, PoolAnswers
<1>15. new[1] => p \in PoolInfo
    <2>1. CASE m = 0
        <3>1. m + 1 = 1
            BY <2>1
        <3>2. new[1] = Answers[1]
            BY <1>13, <3>1
        <3>3. new[1] = (p \in PoolInfo)
            BY <1>14, <3>2
        <3> QED
            BY <3>3, Zenon
    <2>2. CASE m >= 1
        BY <1>11, <1>12, <2>2
    <2> QED
        BY <2>1, <2>2
<1>16. ASSUME m >= 1 PROVE new[1] /\ new[2].fees \in 0 .. G /\ new[2].fees \in 0 .. g
    <2>1. new[1] = got[1] /\ got[1]
        BY <1>12, <1>13, <1>16
    <2>2. CASE m = 1
        <3>1. new[2] = CurrentEpochPoolStats(p)
            BY <1>13, <1>14, <2>2
        <3>2. CurrentEpochPoolStats(p).fees \in Nat /\ CurrentEpochPoolStats(p).fees <= g
            BY <1>1, <1>7, CurrentFeesAreCounted
        <3>3. CurrentEpochPoolStats(p).fees \in 0 .. G /\ CurrentEpochPoolStats(p).fees \in 0 .. g
            BY <1>8, <3>2
        <3> QED
            BY <2>1, <3>1, <3>3
    <2>3. CASE m >= 2
        <3>1. new[2] = got[2] /\ got[2].fees \in 0 .. g
            BY <1>11, <1>13, <2>3
        <3> QED
            BY <1>8, <2>1, <3>1
    <2> QED
        BY <1>16, <2>2, <2>3
<1>17. ASSUME m >= 5 PROVE RewardsIn(new[6]) \in 0 .. A /\ RewardsIn(new[6]) \in 0 .. a
    <2>1. CASE m = 5
        <3>1. new[6] = PoolEpochRewards(p)
            BY <1>13, <1>14, <2>1
        <3>2. p \in PoolInfo
            BY <1>11, <1>12, <1>17
        <3>3. RewardsIn(PoolEpochRewards(p)) = a
            BY <1>1, <1>7, <3>2, RewardsByEpoch DEF RewardsIn
        <3> QED
            BY <1>8, <3>1, <3>3
    <2>2. CASE m >= 6
        <3>1. new[6] = got[6] /\ RewardsIn(got[6]) \in 0 .. a
            BY <1>11, <1>13, <2>2
        <3> QED
            BY <1>8, <3>1
    <2> QED
        BY <1>17, <2>1, <2>2
<1>18. ASSUME m >= 6 PROVE RewardsIn(new[6]) <= new[7]
    <2>1. RewardsIn(new[6]) \in 0 .. a
        BY <1>17, <1>18
    <2>2. CASE m = 6
        <3>1. new[7] = a
            BY <1>7, <1>13, <1>14, <2>2
        <3> QED
            BY <2>1, <3>1
    <2>3. CASE m >= 7
        BY <1>11, <1>13, <2>3
    <2> QED
        BY <1>18, <2>2, <2>3
<1>19. ASSUME m >= 7 PROVE new[8] \in Nat /\ new[2].fees <= new[8] + B
    <2>1. PICK fees \in 0 .. g : fees = new[2].fees
        BY <1>16, <1>19
    <2>2. CASE m = 7
        <3>1. new[8] = PoolTotalProtocolFeesGenerated(p)
            BY <1>13, <1>14, <2>2
        <3>2. PoolTotalProtocolFeesGenerated(p) \in Nat /\ g <= PoolTotalProtocolFeesGenerated(p) + b
            BY <1>1, <1>7, CurrentFeesAreCounted
        <3> QED
            BY <1>8, <2>1, <3>1, <3>2
    <2>3. CASE m >= 8
        <3>1. new[8] = got[8] /\ new[2] = got[2] /\ got[8] \in Nat /\ fees <= got[8] + b
            BY <1>11, <1>13, <2>1, <2>3
        <3> QED
            BY <1>8, <2>1, <3>1
    <2> QED
        BY <1>19, <2>2, <2>3
<1> QED
    BY <1>15, <1>16, <1>17, <1>18, <1>19

LEMMA NextKeepsPoolPart ==
    ASSUME StakingBase, LogInv', LawfulPayments, PoolPart, [Next]_vars
    PROVE  PoolPart'
<1>1. LogInv /\ RequestFits
    BY DEF StakingBase
<1>2. CASE UNCHANGED vars
    <2>1. UNCHANGED events /\ UNCHANGED request
        BY <1>2 DEF vars
    <2>2. PICK e : e = 0
        OBVIOUS
    <2> QED
        BY <1>1, <2>1, GrowthKeepsPoolPart
<1>3. ASSUME NEW e \in Event, Appended(e),
             request'.kind = request.kind, request'.id = request.id, request'.got = request.got
      PROVE  PoolPart'
    BY <1>1, <1>3, GrowthKeepsPoolPart
<1>4. ASSUME NEW kind \in Requests, NEW id \in Staker \cup Pool \cup {None}, Ask(kind, id)
      PROVE  PoolPart'
    <2>1. request'.got = <<>> /\ Len(<<>>) = 0
        BY <1>4, AskStarts
    <2>2. \A k \in 1 .. 8 : ~(Len(request'.got) >= k)
        BY <2>1
    <2>3. /\ ~(Len(request'.got) >= 1) /\ ~(Len(request'.got) >= 2) /\ ~(Len(request'.got) >= 6)
          /\ ~(Len(request'.got) >= 7) /\ ~(Len(request'.got) >= 8)
        BY <2>2
    <2> QED
        BY <2>3 DEF PoolPart
<1>5. CASE Query
    BY <1>5, QueryKeepsPoolPart
<1> QED
    BY <1>2, <1>3, <1>4, <1>5, AnswerSteps

LEMMA PoolPartFits == LogInv /\ PoolPart => PoolAnswerAddsUp
<1> SUFFICES ASSUME LogInv, PoolPart, request.kind = "pool", Len(request.got) = 8
             PROVE  /\ RewardsIn(request.got[6]) <= request.got[7]
                    /\ request.got[2].fees <= request.got[8] + Total(Boundary)
    BY DEF PoolAnswerAddsUp, Done, QueriesOf, RewardsIn, Boundary
<1>1. Len(request.got) >= 7 /\ Len(request.got) >= 8
    OBVIOUS
<1> QED
    BY <1>1 DEF PoolPart

\* A log in which nothing has happened before its first epoch is lawful, so that
\* what is proved of lawful logs holds of each one that begins with an epoch.
LEMMA FirstEpochIsLawful ==
    ASSUME Len(Genesis) = 1
    PROVE  Init => LawfulStakes /\ LawfulPayments
<1> SUFFICES ASSUME Init PROVE LawfulStakes /\ LawfulPayments
    OBVIOUS
<1>1. LogInv /\ Len(events) = 1 /\ DOMAIN events = 1 .. 1 /\ events[1].kind = "epoch"
    BY InitLogInv, LastRow, StakingAssumption DEF Init
<1>2. \A i \in DOMAIN events : events[i].kind = "epoch"
    BY <1>1
<1>3. \A kind : kind # "epoch" => Rows(kind) = {}
    BY <1>2 DEF Rows
<1>4. /\ Rows("create") = {} /\ Rows("move") = {} /\ Rows("fill") = {} /\ Rows("reward") = {}
    BY <1>3
<1>5. ASSUME NEW t \in 0 .. Len(events), NEW who
      PROVE  /\ \A pools : Staked(who, pools, 1 .. t) = 0
             /\ Deposited(who, 1 .. t) = 0
    <2>1. PICK rows : rows = 1 .. t /\ \A i \in rows : events[i].kind = "epoch"
        BY <1>1, <1>2
    <2>2. /\ \A pools : MovesTo(who, pools, rows) = {} /\ MovesFrom(who, pools, rows) = {}
          /\ StakesOf(who, rows) = {} /\ UnstakesOf(who, rows) = {}
        BY <2>1 DEF MovesTo, MovesFrom, StakesOf, UnstakesOf
    <2>3. Total({}) = 0
        BY <1>1, TotalsAlwaysAdd DEF TotalsAdd
    <2>4. ASSUME NEW pools PROVE Staked(who, pools, rows) = 0
        <3>1. Staked(who, pools, rows) = Total(MovesTo(who, pools, rows))
                                         - Total(MovesFrom(who, pools, rows))
            BY BalancesAreTotals
        <3>2. Total(MovesTo(who, pools, rows)) = 0 /\ Total(MovesFrom(who, pools, rows)) = 0
            BY <2>2, <2>3
        <3> QED
            BY <3>1, <3>2
    <2>5. Deposited(who, rows) = 0
        <3>1. Deposited(who, rows) = Total(StakesOf(who, rows)) - Total(UnstakesOf(who, rows))
            BY BalancesAreTotals
        <3>2. Total(StakesOf(who, rows)) = 0 /\ Total(UnstakesOf(who, rows)) = 0
            BY <2>2, <2>3
        <3> QED
            BY <3>1, <3>2
    <2> QED
        BY <2>1, <2>4, <2>5
<1>6. LawfulStakes
    <2>1. ASSUME NEW t \in 0 .. Len(events), NEW s
          PROVE  /\ \A p \in Pool : Staked({s}, {p}, 1 .. t) >= 0
                 /\ Staked({s}, Pool, 1 .. t) <= Deposited({s}, 1 .. t)
        <3>1. PICK who : who = {s}
            OBVIOUS
        <3>2. ASSUME NEW pools PROVE Staked(who, pools, 1 .. t) = 0
            BY <1>5
        <3>3. Deposited(who, 1 .. t) = 0
            BY <1>5
        <3>4. \A p \in Pool : Staked(who, {p}, 1 .. t) >= 0
            <4>1. ASSUME NEW p PROVE Staked(who, {p}, 1 .. t) >= 0
                <5>1. PICK pools : pools = {p}
                    OBVIOUS
                <5>2. Staked(who, pools, 1 .. t) >= 0
                    BY <3>2
                <5> QED
                    BY <5>1, <5>2
            <4> QED
                BY <4>1
        <3>5. Staked(who, Pool, 1 .. t) <= Deposited(who, 1 .. t)
            BY <3>2, <3>3
        <3> QED
            BY <3>1, <3>4, <3>5
    <2> QED
        BY <1>4, <2>1 DEF LawfulStakes
<1>7. LawfulPayments
    BY <1>4 DEF LawfulPayments
<1> QED
    BY <1>6, <1>7

\* The parts of an answer fit together although each is read from a later state
\* of the log than the one before: those about the current epoch as long as no
\* epoch ended in between, and the amounts of one pool always, since what was
\* counted for it stays counted.
THEOREM AnswersAreCoherent == Spec /\ LawfulStakes /\ LawfulPayments => []AnswersFitTogether
<1>1. Init => OneEpochInv /\ PoolPart
    <2> SUFFICES ASSUME Init PROVE OneEpochInv /\ PoolPart
        OBVIOUS
    <2>1. request.kind = None /\ None \notin {"delegator", "pools", "pool", "epochs"}
        BY NoneIsNoKind DEF Init, Requests
    <2> QED
        BY <2>1 DEF OneEpochInv, EpochKept, DelegatorPart, EpochsPart, PoolsPart, PoolPart
<1>2. StakingBase /\ LogInv' /\ OneEpochInv /\ [Next]_vars => OneEpochInv'
    BY NextKeepsOneEpoch
<1>3. StakingBase /\ LogInv' /\ LawfulPayments /\ PoolPart /\ [Next]_vars => PoolPart'
    BY NextKeepsPoolPart
<1>4. StakingBase /\ LawfulStakes /\ OneEpochInv /\ PoolPart => AnswersFitTogether
    BY OneEpochFits, PoolPartFits DEF AnswersFitTogether, StakingBase
<1> QED
    BY <1>1, <1>2, <1>3, <1>4, BaseHolds, LawfulStakesHold, LawfulPaymentsHold, PTL DEF Spec
=============================================================================
