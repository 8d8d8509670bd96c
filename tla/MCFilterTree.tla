---------------------------- MODULE MCFilterTree ----------------------------
EXTENDS FilterTree

N(k, d) == [cell |-> Null, kind |-> k, prop |-> 0, depth |-> d, cache |-> <<>>]

\* A file with two roots, and one with a branch.
MCStateFiles == {<<N("data", 0), N("data", 0)>>, <<N("data", 0), N("other", 1)>>}
MCNoFiles == {}
=============================================================================
