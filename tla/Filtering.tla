------------------------------ MODULE Filtering ------------------------------
(***************************************************************************)
(* Rust's retain and filter, as SimpleLruCache and the Migrator use them.  *)
(* A recursive function, not SelectSeq, so that proofs can look into it.   *)
(***************************************************************************)
EXTENDS Naturals, Sequences

\* The elements of s that are not in S, in their order.
Retain(s, S) ==
  LET kept[n \in 0..Len(s)] ==
        IF n = 0 THEN <<>>
        ELSE IF s[n] \in S THEN kept[n - 1] ELSE Append(kept[n - 1], s[n])
  IN  kept[Len(s)]
==============================================================================
