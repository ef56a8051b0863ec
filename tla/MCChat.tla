------------------------------- MODULE MCChat -------------------------------
(* Two programs that write to each other, and all ids in one slot.            *)
EXTENDS Chat
CONSTANTS a, r
Pair == {<<a, r>>, <<r, a>>}
OneWay == [k \in Pair |-> IF k = <<a, r>> THEN 2 ELSE 0]
Receiver == {<<r, a>>}
OneSlot(id) == 1
=============================================================================
