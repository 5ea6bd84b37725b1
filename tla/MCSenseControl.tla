--------------------------- MODULE MCSenseControl ---------------------------
(* One gated output, one bus read per round of the slow callback, a *)
(* threshold of one failure per window on each bus (10 and 1000 in the code *)
(* for spi0 and i2c), timeouts of one tick, and of no multiple of it.       *)
EXTENDS SenseControl, TLC

CONSTANT heater

MCOneCpu  == [t \in Timer |-> 0]
MCTwoCpus == [t \in Timer |-> IF t = "fast" THEN 0 ELSE 1]
MCVisit   == <<"spi0", heater>>
MCTooMany == [b \in Bus |-> 1]
MCTimeouts == {-1, 5, 7}
=============================================================================
