---------------------------- MODULE MCPCacheFiles ----------------------------
(* One message, one ack and a list of two tokens out of three. *)
EXTENDS PCacheFiles, TLC
CONSTANTS m1, a1, t1, t2, t3
TokenSymmetry == Permutations(Token)
=============================================================================
