------------------------------ MODULE MCPtsChannel ------------------------------
(* A small instance of PtsChannel for TLC.                                          *)
EXTENDS PtsChannel
CONSTANTS p0, p1
TwoPrograms == {p0, p1}
=====================================================================================
