--------------------------- MODULE MCTreeListing ---------------------------
(* A directory with a subdirectory and files on every level.                *)
EXTENDS BridgeListing

MCPaths  == {<<1>>, <<1, 1>>, <<1, 1, 1>>, <<1, 1, 1, 1>>, <<1, 2>>, <<1, 3>>, <<2>>, <<3>>}
MCWalks  == {[root |-> << >>, depth |-> 2, page |-> 2],
             [root |-> <<1>>, depth |-> 2, page |-> 1],
             [root |-> <<1>>, depth |-> 0, page |-> 1],
             [root |-> << >>, depth |-> 1, page |-> 1],
             [root |-> <<1>>, depth |-> 1, page |-> 3]}
MCHidden == {<<1, 2>>, <<1, 3>>}
MCBroken == {<<3>>, <<1, 1, 1>>}
=============================================================================
