--------------------------- MODULE MCPwmChannels ---------------------------
(* Two heaters, the hooter, the head supply and one lamp channel; duties of *)
(* two bytes with two values each.                                          *)
EXTENDS PwmChannels

CONSTANTS bed, chamber, red

MCHeaters == <<bed, chamber>>
MCLeds    == <<red>>
MCVisit   == <<HOOTER, AC220, chamber, bed, red>>
MCByte    == {0, 1}
MCZero    == [lo |-> 0, hi |-> 0]
MCFull    == [lo |-> 1, hi |-> 1]
MCAsked   == {MCZero, [lo |-> 1, hi |-> 0], [lo |-> 0, hi |-> 1]}
=============================================================================
