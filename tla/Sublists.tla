-------------------------------- MODULE Sublists --------------------------------
(***************************************************************************)
(* What a filter over a list gives.  It is SelectSeq with a set for the    *)
(* test, as a recursive function, which proofs can unfold.                 *)
(***************************************************************************)
EXTENDS Naturals, Sequences

\* Those of s that are in T, in their order.
Those(s, T) ==
  LET kept[i \in 0 .. Len(s)] ==
        IF i = 0 THEN <<>>
        ELSE IF s[i] \in T THEN Append(kept[i - 1], s[i]) ELSE kept[i - 1]
  IN kept[Len(s)]
=============================================================================
