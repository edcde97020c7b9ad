------------------------- MODULE MCTCPSpongeSocket --------------------------
EXTENDS TCPSpongeSocket

MCScenarios == {[typed |-> 1, peer |-> 4, useless |-> 0, resets |-> 1],
                [typed |-> 4, peer |-> 0, useless |-> 0, resets |-> 1],
                [typed |-> 2, peer |-> 1, useless |-> 1, resets |-> 0]}
=============================================================================
