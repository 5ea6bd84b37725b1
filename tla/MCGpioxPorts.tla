---------------------------- MODULE MCGpioxPorts ----------------------------
(* The three ports of the code.  Port 2A with two axis enables, port 2B     *)
(* with one microstep field, port 1B with none, as nothing ever stores in   *)
(* gpiox1b_reg.                                                             *)
EXTENDS GpioxPorts, TLC

CONSTANTS p1b, p2a, p2b, xEnable, yEnable, microstepY

MCPortOf == (xEnable :> p2a) @@ (yEnable :> p2a) @@ (microstepY :> p2b)
MCAxis   == <<xEnable, yEnable>>

(* A round of five ticks; ctr has nine values, four more than a multiple of *)
(* the round, as 2^32 has 16 more than a multiple of 20.                    *)
MCPosition == (p1b :> 1) @@ (p2a :> 2) @@ (p2b :> 3)
=============================================================================
