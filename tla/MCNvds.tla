------------------------------- MODULE MCNvds -------------------------------
EXTENDS Nvds, TLC
CONSTANTS s, m
MCPages == 1..3
MCDataLen == [v \in Values |-> IF v = m THEN 1 ELSE 0]
MCLooks == [v \in Values |-> IF v = m THEN 1 ELSE 0]
Symmetry == Permutations(Keys)
\* What the pages hold that a step can still depend on: of an entry out of use
\* its length and whether it is erased, of an unreadable page nothing.
Live(p, i) ==
    CASE pst[p] = "bad" /\ hst[p] = "bad" -> "unread"
      [] i < nfi[p] /\ est[p][i] = "updated" /\ rst[p][i] = "updated" ->
           <<Skip(ent[p][i]), ent[p][i] = Erased>>
      [] OTHER -> ent[p][i]
\* No step depends on rc, gone or skipped.
View == <<pst, seq, est, ram, pc, op, pos, before, touched, worn, hurts,
          [p \in Pages |-> [i \in Idx |-> Live(p, i)]]>>
=============================================================================
