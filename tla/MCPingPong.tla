------------------------------ MODULE MCPingPong ------------------------------
(* An instance of PingPong for TLC: the traffic of s1 goes several rounds, *)
(* that of any other session ends with its first block.                    *)
EXTENDS PingPong

CONSTANTS s1, Rounds

MCMaxWritten ==
  [s \in Sessions |-> block_size + (IF s = s1 THEN Rounds * ReadSize ELSE 0)]
=============================================================================
