------------------------------ MODULE MCGameUI ------------------------------
EXTENDS GameUI
Farmer == [guest |-> FALSE, land |-> 3, posts |-> 1, contracts |-> 0]
Contractor == [guest |-> FALSE, land |-> 1, posts |-> 1, contracts |-> 2]
Visitor == [guest |-> TRUE, land |-> 1, posts |-> 0, contracts |-> 0]
ManySaves == {Farmer, Contractor, Visitor}
=============================================================================
