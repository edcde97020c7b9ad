-------------------------- MODULE MCTCPConnection ---------------------------
EXTENDS TCPConnection

MCISN == [a |-> 14, b |-> 5]

MCScenarios == {<<{"a", "b"}, [a |-> 2, b |-> 0], 0>>,
                <<{"a"},      [a |-> 1, b |-> 1], 0>>,
                <<{"a", "b"}, [a |-> 0, b |-> 0], 1>>,
                <<{"a"},      [a |-> 1, b |-> 0], 1>>,
                <<{"a"},      [a |-> 3, b |-> 0], 0>>}
=============================================================================
