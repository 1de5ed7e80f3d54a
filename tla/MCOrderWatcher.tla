--------------------------- MODULE MCOrderWatcher ---------------------------
EXTENDS OrderWatcher, TLC

CONSTANTS o1, o2, c1, c2, s1

TwoOrders == {o1, o2}
OneOrder == {o1}
OtherOrder == {o2}
NoOrder == {}
TwoCallbacks == {c1, c2}
OneSync == {s1}
SomeEndStates == {"Added", "Unexpired", "Filled", "FillabilityIncreased", "FullyFilled"}
=============================================================================
