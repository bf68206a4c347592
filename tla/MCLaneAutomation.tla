-------------------------- MODULE MCLaneAutomation --------------------------
EXTENDS LaneAutomation

TwoAndOne == [lane \in Lanes |-> IF lane = "dev" THEN 2 ELSE 1]
TwoEach == [lane \in Lanes |-> 2]
Ahead == {<<"todo", "dev">>, <<"dev", "done">>, <<"dev", "blocked">>, <<"blocked", "dev">>}
=============================================================================
