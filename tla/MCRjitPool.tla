------------------------------ MODULE MCRjitPool ------------------------------
EXTENDS RjitPool

CONSTANTS v1, v2

MCValues == {v1, v2}

MaxAdds == 3

StateBound == \A p \in Pools : Len(added[p]) <= MaxAdds
=============================================================================
