------------------------------ MODULE MCRgbLamp ------------------------------
(* One user; a steady and a beating colour that differ in every field, one *)
(* with a pattern out of range and one with a colour out of range; memcpy   *)
(* goes upwards through the structure, as that of the kernel does.          *)
EXTENDS RgbLamp

MCAsks ==
    {[red |-> 1, green |-> 0, blue |-> 1, pattern |-> "on"],
     [red |-> 0, green |-> 1, blue |-> 0, pattern |-> "heartbeat"],
     [red |-> 1, green |-> 1, blue |-> 0, pattern |-> "other"],
     [red |-> 2, green |-> 0, blue |-> 0, pattern |-> "off"]}

MCRank == [red |-> 1, green |-> 2, blue |-> 3, pattern |-> 4]
=============================================================================
