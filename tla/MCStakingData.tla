---------------------------- MODULE MCStakingData ----------------------------
EXTENDS StakingData, TLC

CONSTANTS p1, p2, operator, member, maker

Pools == {p1, p2}
Stakers == {operator, member}
Operators == (p1 :> operator @@ p2 :> operator)
Makers == {maker}
One == {1}
Row(kind, who, from, to, at) ==
    [kind |-> kind, who |-> who, from |-> from, to |-> to, at |-> at,
     amount |-> IF kind \in {"stake", "move", "fill"} THEN 1 ELSE 0]
\* One pool with a maker and the operator's stake; the member has deposited.
Log ==
    << Row("create", operator, None, p1, <<0, 0>>), Row("join", maker, None, p1, <<0, 0>>),
       Row("stake", operator, None, None, <<0, 1>>), Row("stake", member, None, None, <<0, 1>>),
       Row("move", operator, None, p1, <<0, 2>>), Row("epoch", None, None, None, <<1, 1>>) >>
\* In the first epoch the maker pays a fee and moves to the operator's other pool.
TwoEpochs ==
    Log \o << Row("fill", maker, None, None, <<1, 2>>), Row("create", operator, None, p2, <<1, 3>>),
              Row("join", maker, None, p2, <<1, 3>>), Row("epoch", None, None, None, <<2, 1>>) >>
AllRequests == {"delegator", "pools", "pool", "epochs"}
NoRequests == {}
=============================================================================
