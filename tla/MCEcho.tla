-------------------------------- MODULE MCEcho --------------------------------
(* Instances of Echo for TLC: three lines typed, three answers. *)
EXTENDS Echo

CONSTANTS t1, t2, t3, a1, a2, a3

MCTyped == <<t1, t2, t3>>

MCAnswers == <<a1, a2, a3>>
=============================================================================
