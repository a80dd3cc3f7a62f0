------------------------------- MODULE MCPrograms -------------------------------
(* An instance of Programs for TLC.  The numbers of LogLine are the real   *)
(* ones; a line of 33 characters before and 20 behind the statement.       *)
EXTENDS Programs, Integers, Sequences

(* Lengths around each of the places where a piece stops to fit.           *)
MCStrLens == {0, 11, 4010, 4029, 4030, 4031, 4042, 4061, 4062, 4063}

MCInts == {0, 105, -42, -2147483647}

MCNames == {<<81>>, <<65, 110>>}
MCOtherNames == {<<88>>}
MCPayloads == {<< >>, <<0>>, <<8, 1, 18, 0>>}
=============================================================================
