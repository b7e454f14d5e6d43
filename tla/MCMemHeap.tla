----------------------------- MODULE MCMemHeap -----------------------------
(* MemHeap with words of 2 bytes and two arenas, the first one not aligned. *)
EXTENDS MemHeap

MCArenas == {[base |-> 1, size |-> 21], [base |-> 40, size |-> 11]}
Symmetry == Permutations(Tasks)
=============================================================================
