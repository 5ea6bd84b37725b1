----------------------------- MODULE MCI2cXfer -----------------------------
(* The two calls data_getter makes: write_i2c sends a register number and a *)
(* byte, read_i2c sends a register number and reads a byte.                 *)
EXTENDS I2cXfer

MCWrite == <<[read |-> FALSE, len |-> 2]>>
MCRead  == <<[read |-> FALSE, len |-> 1], [read |-> TRUE, len |-> 1]>>
MCCalls == {MCWrite, MCRead}
=============================================================================
