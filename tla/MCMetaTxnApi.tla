---------------------------- MODULE MCMetaTxnApi ----------------------------
EXTENDS MetaTxnApi, TLC

CONSTANTS r1, r2, r3, m1, m2, k1, k2, alice, bob

Requests == {r1, r2, r3}
Txns == {m1, m2}
Keys == {k1, k2}
OneKey == {k1}
Submits == (r1 :> m1 @@ r2 :> m1 @@ r3 :> m2)
Carries == (r1 :> k1 @@ r2 :> k1 @@ r3 :> k1)
Signs == (m1 :> alice @@ m2 :> bob)
DailyAndRolling ==
    << [kind |-> "daily", field |-> "api_key", limit |-> 1, interval |-> 0],
       [kind |-> "rolling", field |-> "taker_address", limit |-> 1, interval |-> 2] >>
=============================================================================
