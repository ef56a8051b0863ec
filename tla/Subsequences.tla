---------------------------- MODULE Subsequences ----------------------------
(***************************************************************************)
(* Arrays that are compacted in place: the elements that are left keep     *)
(* their order.  (SelectSeq of the standard modules takes the test as an   *)
(* operator, which theorems cannot be instantiated with.)                  *)
(***************************************************************************)
EXTENDS Integers, Sequences

\* The elements of s that are in K.
Only(s, K) ==
  LET kept[i \in 0 .. Len(s)] ==
        IF i = 0 THEN <<>>
        ELSE IF s[i] \in K THEN Append(kept[i - 1], s[i]) ELSE kept[i - 1]
  IN kept[Len(s)]
=============================================================================
