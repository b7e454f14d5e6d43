--------------------------- MODULE MemHeapProofs ---------------------------
(***************************************************************************)
(* Proofs about MemHeap, for any number of tasks, heaps and requests, any  *)
(* arenas, word size, smallest block and depth of search: what clients     *)
(* hold never meets a header, a tag or what somebody else holds, the free  *)
(* counts are exact, no byte of a heap being lost, and the walk of the     *)
(* diagnosis finds every heap valid.                                       *)
(***************************************************************************)
EXTENDS MemHeap, SequenceTheorems, WellFoundedInduction, FiniteSetTheorems, TLAPS

(* Sums of a function over a finite set.  What holds of them by induction  *)
(* on the set is shown by looking at a smallest set for which it fails.    *)

(* A set of numbers has a least one.                                       *)
LEMMA Least ==
    ASSUME NEW T, T \subseteq Nat, T # {}
    PROVE  \E x \in T : \A y \in T : x <= y
  <1> DEFINE R == OpToRel(<, Nat)
  <1>1. IsWellFoundedOn(R, Nat)
    BY NatLessThanWellFounded
  <1>2. \A x, y \in Nat : x < y => <<x, y>> \in R
    BY DEF OpToRel
  <1> HIDE DEF R
  <1>3. PICK x \in T : \A y \in T : ~(<<y, x>> \in R)
    BY <1>1, WFMin
  <1>4. \A y \in T : ~(y < x)
    BY <1>2, <1>3, Zenon
  <1> QED BY <1>3, <1>4

(* The smallest of the finite subsets of S in a set of them.               *)
LEMMA Smallest ==
    ASSUME NEW S, IsFiniteSet(S), NEW B, B \subseteq SUBSET S, B # {}
    PROVE  \E s \in B : \A r \in B : Cardinality(s) <= Cardinality(r)
  <1> DEFINE T == {Cardinality(s) : s \in B}
  <1>1. \A s \in B : IsFiniteSet(s) /\ Cardinality(s) \in Nat
    BY FS_Subset, FS_CardinalityType
  <1>2. T \subseteq Nat /\ T # {}
    BY <1>1
  <1>3. PICK n \in T : \A m \in T : n <= m
    BY <1>2, Least
  <1>4. PICK s \in B : n = Cardinality(s)
    BY <1>3
  <1> QED BY <1>3, <1>4

(* g is the sum of w over each subset of S.                                *)
Adds(g, w, S) ==
    /\ g \in [SUBSET S -> Int] /\ g[{}] = 0
    /\ \A s \in SUBSET S : \A x \in s : g[s] = w[x] + g[s \ {x}]

LEMMA SmallerSet ==
    ASSUME NEW s, IsFiniteSet(s), NEW x \in s
    PROVE  IsFiniteSet(s \ {x}) /\ Cardinality(s \ {x}) < Cardinality(s)
  <1>1. Cardinality(s) \in Nat
    BY FS_CardinalityType
  <1>2. IsFiniteSet(s \ {x}) /\ Cardinality(s \ {x}) = Cardinality(s) - 1
    BY FS_RemoveElement
  <1> QED BY <1>1, <1>2

LEMMA AddsMore ==
    ASSUME NEW w, NEW S, NEW y, y \notin S, \A x \in S \cup {y} : w[x] \in Int, NEW g, Adds(g, w, S)
    PROVE  \E f : Adds(f, w, S \cup {y})
  <1> DEFINE T == S \cup {y}
             f == [s \in SUBSET T |-> IF y \in s THEN w[y] + g[s \ {y}] ELSE g[s]]
  <1>1. \A s \in SUBSET T : s \ {y} \in SUBSET S /\ (y \notin s => s \in SUBSET S)
    OBVIOUS
  <1>2. g \in [SUBSET S -> Int] /\ g[{}] = 0
    BY DEF Adds
  <1>3. \A s \in SUBSET T : s \ {y} \in SUBSET S /\ g[s \ {y}] \in Int
    BY <1>1, <1>2
  <1>4. f \in [SUBSET T -> Int]
    <2>1. \A s \in SUBSET T : (IF y \in s THEN w[y] + g[s \ {y}] ELSE g[s]) \in Int
      BY <1>1, <1>2, <1>3
    <2> QED BY <2>1
  <1>5. \A s \in SUBSET T : f[s] = IF y \in s THEN w[y] + g[s \ {y}] ELSE g[s]
    OBVIOUS
  <1> HIDE DEF f
  <1>6. f[{}] = 0
    BY <1>2, <1>5
  <1>7. ASSUME NEW s \in SUBSET T, NEW x \in s PROVE f[s] = w[x] + f[s \ {x}]
    <2>1. s \ {x} \in SUBSET T
      OBVIOUS
    <2>2. CASE x = y
      <3>1. f[s] = w[y] + g[s \ {y}] /\ f[s \ {x}] = g[s \ {x}]
        BY <1>5, <2>1, <2>2
      <3> QED BY <2>2, <3>1
    <2>3. CASE x # y /\ y \notin s
      <3>1. f[s] = g[s] /\ f[s \ {x}] = g[s \ {x}] /\ s \in SUBSET S
        BY <1>1, <1>5, <2>1, <2>3
      <3> QED BY <3>1 DEF Adds
    <2>4. CASE x # y /\ y \in s
      <3>1. PICK r : r = s \ {y}
        OBVIOUS
      <3>2. r \in SUBSET S /\ x \in r /\ r \ {x} \in SUBSET S /\ (s \ {x}) \ {y} = r \ {x}
        BY <1>1, <2>4, <3>1
      <3>3. g[r] = w[x] + g[r \ {x}]
        BY <3>2 DEF Adds
      <3>4. f[s] = w[y] + g[r] /\ f[s \ {x}] = w[y] + g[r \ {x}]
        BY <1>5, <2>1, <2>4, <3>1, <3>2
      <3>5. g[r] \in Int /\ g[r \ {x}] \in Int
        BY <1>2, <3>2
      <3>6. PICK a \in Int, b \in Int, c \in Int : a = g[r] /\ b = g[r \ {x}] /\ c = w[y]
        BY <3>5
      <3>7. a = w[x] + b
        BY <3>3, <3>6
      <3>8. c + (w[x] + b) = w[x] + (c + b)
        <4>1. PICK d \in Int : d = w[x]
          BY <3>2
        <4>2. c + (d + b) = d + (c + b)
          BY <3>6
        <4> QED BY <4>1, <4>2
      <3> QED BY <3>4, <3>6, <3>7, <3>8
    <2> QED BY <2>2, <2>3, <2>4
  <1>8. Adds(f, w, T)
    BY <1>4, <1>6, <1>7 DEF Adds
  <1> QED BY <1>8

LEMMA AddsExist ==
    ASSUME NEW w, NEW S, IsFiniteSet(S), \A x \in S : w[x] \in Int
    PROVE  \E g : Adds(g, w, S)
  <1> DEFINE B == {s \in SUBSET S : ~\E g : Adds(g, w, s)}
  <1> SUFFICES ASSUME B # {} PROVE FALSE
    OBVIOUS
  <1>1. PICK s \in B : \A r \in B : Cardinality(s) <= Cardinality(r)
    <2>1. B \subseteq SUBSET S
      OBVIOUS
    <2> HIDE DEF B
    <2> QED BY <2>1, Smallest
  <1>2. s \in SUBSET S /\ IsFiniteSet(s) /\ ~\E g : Adds(g, w, s)
    BY <1>1, FS_Subset
  <1>3. s # {}
    <2>1. Adds([r \in SUBSET {} |-> 0], w, {})
      <3>1. \A r \in SUBSET {} : r = {}
        OBVIOUS
      <3> QED BY <3>1 DEF Adds
    <2> QED BY <1>2, <2>1
  <1>4. PICK y \in s : TRUE
    BY <1>3
  <1>5. IsFiniteSet(s \ {y}) /\ Cardinality(s \ {y}) < Cardinality(s)
    BY <1>2, <1>4, SmallerSet
  <1>6. Cardinality(s) \in Nat /\ Cardinality(s \ {y}) \in Nat
    BY <1>2, <1>5, FS_CardinalityType
  <1>7. s \ {y} \notin B
    BY <1>1, <1>5, <1>6
  <1>8. PICK g : Adds(g, w, s \ {y})
    BY <1>2, <1>7
  <1>a. s = (s \ {y}) \cup {y} /\ y \notin s \ {y}
    BY <1>4
  <1>9. PICK r : r = s \ {y} /\ s = r \cup {y} /\ y \notin r
    BY <1>a, Zenon
  <1>10. \A x \in r \cup {y} : w[x] \in Int
    BY <1>2, <1>9
  <1>11. \E f : Adds(f, w, r \cup {y})
    BY <1>8, <1>9, <1>10, AddsMore
  <1> QED BY <1>2, <1>9, <1>11

(* The recursion of SumFunctionOnSet.                                      *)
Unfold(w, S, f) ==
    [s \in SUBSET S |-> IF s = {} THEN 0
                        ELSE LET x == CHOOSE x \in s : TRUE IN w[x] + f[s \ {x}]]

LEMMA SumIsFixpoint ==
    ASSUME NEW w, NEW S
    PROVE  SumFunctionOnSet(w, S) = (CHOOSE f : f = Unfold(w, S, f))[S]
  BY DEF SumFunctionOnSet, FoldFunctionOnSet, MapThenFoldSet, Unfold

LEMMA FixpointUnique ==
    ASSUME NEW w, NEW S, IsFiniteSet(S), NEW g, Adds(g, w, S), NEW f, f = Unfold(w, S, f)
    PROVE  \A s \in SUBSET S : f[s] = g[s]
  <1> DEFINE B == {s \in SUBSET S : f[s] # g[s]}
  <1> SUFFICES ASSUME B # {} PROVE FALSE
    OBVIOUS
  <1>1. PICK s \in B : \A r \in B : Cardinality(s) <= Cardinality(r)
    <2>1. B \subseteq SUBSET S
      OBVIOUS
    <2> HIDE DEF B
    <2> QED BY <2>1, Smallest
  <1>2. s \in SUBSET S /\ IsFiniteSet(s) /\ f[s] # g[s]
    BY <1>1, FS_Subset
  <1>3. \A r \in SUBSET S : f[r] = IF r = {} THEN 0
                                   ELSE LET x == CHOOSE x \in r : TRUE IN w[x] + f[r \ {x}]
    BY DEF Unfold
  <1>4. s # {}
    BY <1>2, <1>3 DEF Adds
  <1>5. PICK y \in s : y = CHOOSE x \in s : TRUE
    BY <1>4
  <1>6. f[s] = w[y] + f[s \ {y}] /\ g[s] = w[y] + g[s \ {y}]
    BY <1>2, <1>3, <1>4, <1>5 DEF Adds
  <1>7. IsFiniteSet(s \ {y}) /\ Cardinality(s \ {y}) < Cardinality(s)
    BY <1>2, <1>5, SmallerSet
  <1>8. Cardinality(s) \in Nat /\ Cardinality(s \ {y}) \in Nat
    BY <1>2, <1>7, FS_CardinalityType
  <1>9. f[s \ {y}] = g[s \ {y}]
    BY <1>1, <1>2, <1>7, <1>8
  <1> QED BY <1>2, <1>6, <1>9

LEMMA AddsIsFixpoint ==
    ASSUME NEW w, NEW S, NEW g, Adds(g, w, S)
    PROVE  g = Unfold(w, S, g)
  <1>1. \A s \in SUBSET S : s # {} => g[s] = w[CHOOSE x \in s : TRUE] + g[s \ {CHOOSE x \in s : TRUE}]
    BY DEF Adds
  <1> QED BY <1>1 DEF Adds, Unfold

LEMMA SumIsAdds ==
    ASSUME NEW w, NEW S, IsFiniteSet(S), NEW g, Adds(g, w, S)
    PROVE  SumFunctionOnSet(w, S) = g[S]
  <1> DEFINE f == CHOOSE f : f = Unfold(w, S, f)
  <1>1. f = Unfold(w, S, f)
    BY AddsIsFixpoint
  <1>2. SumFunctionOnSet(w, S) = f[S]
    BY SumIsFixpoint
  <1> HIDE DEF f
  <1> QED BY <1>1, <1>2, FixpointUnique

(* Lemma: sums, one element at a time.                                     *)
LEMMA SumOfNone ==
    ASSUME NEW w PROVE SumFunctionOnSet(w, {}) = 0
  <1>1. IsFiniteSet({})
    BY FS_EmptySet
  <1>2. PICK g : Adds(g, w, {})
    BY <1>1, AddsExist
  <1> QED BY <1>1, <1>2, SumIsAdds DEF Adds

LEMMA SumOfMore ==
    ASSUME NEW w, NEW S, IsFiniteSet(S), NEW y, y \notin S, \A x \in S \cup {y} : w[x] \in Int
    PROVE  /\ SumFunctionOnSet(w, S \cup {y}) = w[y] + SumFunctionOnSet(w, S)
           /\ SumFunctionOnSet(w, S) \in Int
  <1>a. S = (S \cup {y}) \ {y} /\ S \in SUBSET (S \cup {y}) /\ IsFiniteSet(S \cup {y})
    BY FS_AddElement
  <1>1. PICK T : T = S \cup {y} /\ IsFiniteSet(T) /\ S = T \ {y} /\ S \in SUBSET T
    BY <1>a, Zenon
  <1>2. PICK g : Adds(g, w, T)
    BY <1>1, AddsExist
  <1>3. PICK f : Adds(f, w, S)
    BY AddsExist
  <1>4. SumFunctionOnSet(w, T) = g[T] /\ SumFunctionOnSet(w, S) = f[S]
    BY <1>1, <1>2, <1>3, SumIsAdds
  <1>5. g[T] = w[y] + g[S]
    BY <1>1, <1>2 DEF Adds
  <1>6. g[S] = f[S]
    <2> DEFINE h == [s \in SUBSET S |-> g[s]]
    <2>1. Adds(h, w, S)
      BY <1>1, <1>2 DEF Adds
    <2>2. SumFunctionOnSet(w, S) = h[S]
      BY <2>1, SumIsAdds
    <2> QED BY <1>4, <2>2
  <1>7. f[S] \in Int
    BY <1>3 DEF Adds
  <1> QED BY <1>1, <1>4, <1>5, <1>6, <1>7

(* What there is to know of w on S, of the sum over S but for y, and of a  *)
(* change at y.                                                            *)
IntsOn(w, S) == IsFiniteSet(S) /\ \A x \in S : w[x] \in Int

SumSplits(w, S, y) ==
    /\ SumFunctionOnSet(w, S) = w[y] + SumFunctionOnSet(w, S \ {y})
    /\ SumFunctionOnSet(w, S \ {y}) \in Int

SameBut(v, w, S, y) == v[y] \in Int /\ \A x \in S : x # y => v[x] = w[x]

SumMoves(v, w, S, y) ==
    /\ SumFunctionOnSet(v, S) = (SumFunctionOnSet(w, S) - w[y]) + v[y]
    /\ SumFunctionOnSet(w, S) \in Int

LEMMA SumSame ==
    ASSUME NEW w, NEW v, NEW S, IsFiniteSet(S), \A x \in S : w[x] \in Int, \A x \in S : v[x] = w[x]
    PROVE  SumFunctionOnSet(v, S) = SumFunctionOnSet(w, S) /\ SumFunctionOnSet(w, S) \in Int
  <1>1. PICK g : Adds(g, w, S)
    BY AddsExist
  <1>2. Adds(g, v, S)
    BY <1>1 DEF Adds
  <1>3. g[S] \in Int
    BY <1>1 DEF Adds
  <1> QED BY <1>1, <1>2, <1>3, SumIsAdds

LEMMA SumWithout ==
    ASSUME NEW w, NEW S, NEW y, y \in S, IntsOn(w, S)
    PROVE  SumSplits(w, S, y)
  <1>0. IsFiniteSet(S) /\ \A x \in S : w[x] \in Int
    BY DEF IntsOn
  <1>1. IsFiniteSet(S \ {y}) /\ y \notin S \ {y} /\ S = (S \ {y}) \cup {y}
    BY <1>0, FS_RemoveElement
  <1>2. PICK r : r = S \ {y} /\ IsFiniteSet(r) /\ y \notin r /\ S = r \cup {y}
    BY <1>1, Zenon
  <1>3. \A x \in r \cup {y} : w[x] \in Int
    BY <1>0, <1>2
  <1>4. /\ SumFunctionOnSet(w, r \cup {y}) = w[y] + SumFunctionOnSet(w, r)
        /\ SumFunctionOnSet(w, r) \in Int
    BY <1>2, <1>3, SumOfMore
  <1> QED BY <1>2, <1>4 DEF SumSplits

LEMMA SumChanged ==
    ASSUME NEW w, NEW v, NEW S, NEW y, y \in S, IntsOn(w, S), SameBut(v, w, S, y)
    PROVE  SumMoves(v, w, S, y)
  <1>0. /\ IsFiniteSet(S) /\ (\A x \in S : w[x] \in Int)
        /\ v[y] \in Int /\ \A x \in S : x # y => v[x] = w[x]
    BY DEF IntsOn, SameBut
  <1>1. (\A x \in S : v[x] \in Int) /\ IntsOn(v, S)
    BY <1>0 DEF IntsOn
  <1>2. /\ SumFunctionOnSet(w, S) = w[y] + SumFunctionOnSet(w, S \ {y})
        /\ SumFunctionOnSet(v, S) = v[y] + SumFunctionOnSet(v, S \ {y})
        /\ SumFunctionOnSet(w, S \ {y}) \in Int
    <2>1. SumSplits(w, S, y) /\ SumSplits(v, S, y)
      BY <1>1, SumWithout, Zenon
    <2> QED BY <2>1, Zenon DEF SumSplits
  <1>3. PICK r : r = S \ {y} /\ IsFiniteSet(r) /\ \A x \in r : x \in S /\ x # y
    <2>1. IsFiniteSet(S \ {y}) /\ \A x \in S \ {y} : x \in S /\ x # y
      BY <1>0, FS_RemoveElement
    <2> QED BY <2>1, Zenon
  <1>4. SumFunctionOnSet(v, r) = SumFunctionOnSet(w, r)
    <2>1. (\A x \in r : w[x] \in Int) /\ \A x \in r : v[x] = w[x]
      BY <1>0, <1>3
    <2> QED BY <1>3, <2>1, SumSame
  <1>5. PICK a \in Int, b \in Int, c \in Int : a = w[y] /\ b = v[y] /\ c = SumFunctionOnSet(w, r)
    BY <1>0, <1>1, <1>2, <1>3
  <1>6. SumFunctionOnSet(w, S) = a + c /\ SumFunctionOnSet(v, S) = b + c
    BY <1>2, <1>3, <1>4, <1>5
  <1>7. b + c = ((a + c) - a) + b /\ a + c \in Int
    BY <1>5
  <1> QED BY <1>5, <1>6, <1>7 DEF SumMoves

-----------------------------------------------------------------------------
(* The inductive invariant.                                                *)

Pcs == {"idle", "look", "get", "copy", "free", "put"}
Heap == [base : Nat, size : Nat, list : Seq(Nat), free : Int]
Op == [pc : Pcs, slot : Nat, all : BOOLEAN, len : Nat,
       old : Nat \cup {Null}, new : Nat \cup {Null}]

(* What the variables can be.                                              *)
Shapes ==
    /\ heaps \in [Slots -> Heap]
    /\ word \in [DOMAIN word -> Nat]
    /\ tag = [a \in DOMAIN tag |-> tag[a]]
    /\ live \in [DOMAIN live -> Nat] /\ DOMAIN live \subseteq Nat
    /\ freed \in Nat \cup {Null}
    /\ op \in [Tasks -> Op]

(* Block b, of size w[b], lies in the aligned part of heap h.              *)
Within(w, b, h) == heaps[h].size > 0 /\ Start(h) <= b /\ b + w[b] <= Top(h)

(* Heaps do not share memory, and a slot that is not used has no blocks.   *)
ArenasApart ==
    /\ \A h \in Slots : /\ heaps[h].base + heaps[h].size <= Uint
                        /\ heaps[h].size > 0 => heaps[h].size >= W
                        /\ heaps[h].size = 0 => heaps[h].list = <<>>
    /\ \A h, k \in Slots : h # k /\ heaps[h].size > 0 /\ heaps[k].size > 0 =>
          \/ heaps[h].base + heaps[h].size <= heaps[k].base
          \/ heaps[k].base + heaps[k].size <= heaps[h].base

(* The free blocks of a heap are different blocks inside it, tagged free.  *)
FreeBlock(b, h) ==
    /\ b \in DOMAIN word /\ word[b] > 0 /\ Within(word, b, h)
    /\ Dog(b) \in DOMAIN tag /\ tag[Dog(b)] = "free"

FreeListed ==
    \A h \in Slots :
        /\ \A b \in ToSet(heaps[h].list) : FreeBlock(b, h)
        /\ \A i, j \in DOMAIN heaps[h].list : heaps[h].list[i] = heaps[h].list[j] => i = j

(* A block of m bytes has room for a header, n bytes and the tag, unless   *)
(* the size of a block for n bytes wraps.                                  *)
Fits(n, m) == m > W /\ (~Overflows(n) => W + n + 1 <= m)

(* What a client holds is a block of some heap with room for it, tagged so.*)
HeldFits ==
    \A p \in DOMAIN live :
        /\ Block(p) \in DOMAIN word /\ Fits(live[p], word[Block(p)])
        /\ Dog(Block(p)) \in DOMAIN tag /\ tag[Dog(Block(p))] = "use"
        /\ \E h \in Slots : Within(word, Block(p), h)

Held == {Block(p) : p \in DOMAIN live}
Blocks == Held \cup Frees

(* No two blocks of a set of blocks with these sizes meet.                 *)
AllApart(B, w) == \A b, c \in B : b # c => b + w[b] <= c \/ c + w[c] <= b

BlocksApart == AllApart(Blocks, word) /\ Held \cap Frees = {}

(* What each task works on is held, and by no other task.                  *)
Working(t) ==
    /\ op[t].pc \in {"look", "get", "copy", "free", "put"} => op[t].slot > 0
    /\ op[t].pc \in {"get", "put"} => op[t].slot \in Slots
    /\ op[t].pc = "look" => op[t].all
    /\ op[t].pc = "idle" => op[t].old = Null
    /\ op[t].pc # "copy" => op[t].new = Null
    /\ op[t].pc \in {"copy", "free", "put"} => op[t].old # Null
    /\ op[t].old # Null =>
          /\ op[t].old \in DOMAIN live
          /\ ~op[t].all \/ op[t].pc = "put" => op[t].slot \in Slots /\ InHeap(op[t].old, op[t].slot)
          /\ op[t].pc \in {"look", "get"} => BlockSize(op[t].len) > word[Block(op[t].old)]
    /\ op[t].pc = "copy" =>
          /\ op[t].new \in DOMAIN live /\ op[t].new # op[t].old
          /\ word[Block(op[t].old)] < word[Block(op[t].new)]

OwnPointers ==
    \A t, u \in Tasks : t # u =>
        {op[t].old, op[t].new} \cap {op[u].old, op[u].new} \subseteq {Null}

(* A pointer that was given back is seen to be free.                       *)
FreedSeen ==
    freed # Null =>
        /\ Block(freed) \in DOMAIN word
        /\ Dog(Block(freed)) \in DOMAIN tag /\ tag[Dog(Block(freed))] = "free"
        /\ \E h \in Slots : /\ heaps[h].size > 0
                            /\ Start(h) <= Block(freed) /\ Block(freed) < Top(h)

(* What is lost is nobody's any more.                                      *)
LostAlone == lost \subseteq DOMAIN live /\ \A t \in Tasks : op[t].old \notin lost /\ op[t].new \notin lost

HeapInv ==
    /\ Shapes /\ ArenasApart /\ FreeListed /\ HeldFits /\ BlocksApart
    /\ (\A t \in Tasks : Working(t)) /\ OwnPointers /\ FreedSeen
-----------------------------------------------------------------------------
(* The constants, one fact each.                                           *)
LEMMA Consts ==
    /\ W \in Nat /\ W > 0 /\ BlockMin \in Nat /\ BlockMin >= W
    /\ Uint \in Nat /\ Uint >= 4 * W /\ ListNum \in Nat /\ Null \notin Nat
    /\ \A n \in Sizes : n \in Nat /\ n < Uint
    /\ \A a \in Arenas : /\ a.base \in Nat /\ a.base > 0 /\ a.size \in Nat
                         /\ a.size >= W /\ a.base + a.size <= Uint
    /\ HeapMin \in Nat /\ HeapMin >= 2 * W
  <1>1. W \in Nat /\ W > 0 /\ BlockMin \in Nat /\ BlockMin >= W
    BY HeapAssumption
  <1>2. \A n \in Sizes : n \in Nat /\ n < Uint
    BY HeapAssumption
  <1> QED BY <1>1, <1>2, HeapAssumption DEF HeapMin

LEMMA DivMod ==
    ASSUME NEW a \in Nat, NEW b \in Nat, b > 0
    PROVE  /\ a \div b \in Nat /\ a % b \in Nat /\ a % b < b
           /\ a % b = a - b * (a \div b)
  <1>1. a \div b \in Int /\ a % b \in Int /\ 0 <= a % b /\ a % b < b /\ a % b = a - b * (a \div b)
    OBVIOUS
  <1>2. PICK q \in Int : q = a \div b
    BY <1>1
  <1>3. a < b * q + b
    BY <1>1, <1>2
  <1>4. q >= 0
    BY <1>3
  <1> QED BY <1>1, <1>2, <1>4

(* Rounding down to whole words.                                           *)
LEMMA RoundDown ==
    ASSUME NEW n \in Nat
    PROVE  /\ AlignDown(n) \in Nat /\ AlignDown(n) <= n /\ n < AlignDown(n) + W
           /\ \E q \in Nat : AlignDown(n) = W * q
  <1>1. n \div W \in Nat /\ n % W \in Nat /\ n % W < W /\ n % W = n - W * (n \div W)
    BY Consts, DivMod
  <1>2. PICK q \in Nat : q = n \div W
    BY <1>1
  <1>3. AlignDown(n) = W * q /\ W * q \in Nat
    BY <1>2, Consts DEF AlignDown
  <1> QED BY <1>1, <1>2, <1>3, Consts

(* Remainders of what is less than twice the modulus.                      *)
LEMMA Wraps ==
    ASSUME NEW a \in Nat
    PROVE  /\ a % Uint \in Nat /\ a % Uint < Uint
           /\ a < Uint => a % Uint = a
           /\ Uint <= a /\ a < 2 * Uint => a % Uint = a - Uint
  <1>0. Uint \in Nat /\ Uint > 0
    BY Consts
  <1>1. a % Uint \in Nat /\ a % Uint < Uint /\ a % Uint = a - Uint * (a \div Uint) /\ a \div Uint \in Nat
    BY <1>0, DivMod
  <1>2. PICK q \in Nat, r \in Nat : q = a \div Uint /\ r = a % Uint
    BY <1>1
  <1>3. Uint * q \in Nat /\ a = Uint * q + r /\ r < Uint
    BY <1>0, <1>1, <1>2
  <1>4. a < Uint => q = 0
    BY <1>0, <1>3
  <1>5. Uint <= a /\ a < 2 * Uint => q = 1
    BY <1>0, <1>3
  <1> QED BY <1>0, <1>1, <1>2, <1>3, <1>4, <1>5

(* Rounding up to whole words, where the sum does not wrap.                *)
LEMMA RoundUp ==
    ASSUME NEW n \in Nat
    PROVE  /\ AlignUp(n) \in Nat
           /\ n + W - 1 < Uint => /\ n <= AlignUp(n) /\ AlignUp(n) < n + W
                                  /\ \E q \in Nat : AlignUp(n) = W * q
           /\ Uint <= n + W - 1 /\ n < Uint => AlignUp(n) = 0
  <1>1. n + W - 1 \in Nat
    BY Consts
  <1>2. PICK m \in Nat : m = n + W - 1
    BY <1>1
  <1>3. AlignUp(n) = AlignDown(m % Uint)
    BY <1>2 DEF AlignUp, AlignDown
  <1>4. m % Uint \in Nat
    BY Wraps
  <1>5. CASE m < Uint
    <2>1. AlignUp(n) = AlignDown(m)
      BY <1>3, <1>5, Wraps
    <2>2. PICK d \in Nat : d = AlignDown(m) /\ d <= m /\ m < d + W /\ \E q \in Nat : d = W * q
      BY RoundDown
    <2>3. n <= d /\ d < n + W
      BY <1>2, <2>2, Consts
    <2>4. ~(Uint <= n + W - 1)
      BY <1>2, <1>5, Consts
    <2>5. \E q \in Nat : AlignUp(n) = W * q
      BY <2>1, <2>2
    <2> QED BY <2>1, <2>2, <2>3, <2>4, <2>5
  <1>6. CASE Uint <= m /\ n < Uint
    <2>1. m < 2 * Uint
      BY <1>2, <1>6, Consts
    <2>2. m % Uint = m - Uint /\ m - Uint < W
      BY <1>2, <1>6, <2>1, Wraps, Consts
    <2>3. PICK q \in Nat : AlignDown(m % Uint) = W * q /\ W * q < W
      <3>1. PICK q \in Nat : AlignDown(m % Uint) = W * q
        BY <1>4, RoundDown
      <3>2. AlignDown(m % Uint) <= m % Uint /\ AlignDown(m % Uint) \in Nat
        BY <1>4, RoundDown
      <3> QED BY <1>4, <2>2, <3>1, <3>2, Consts
    <2>4. q = 0
      BY <2>3, Consts
    <2> QED BY <1>2, <1>3, <1>6, <2>3, <2>4, Consts
  <1>7. AlignUp(n) \in Nat
    BY <1>3, <1>4, RoundDown
  <1> QED BY <1>2, <1>5, <1>6, <1>7, Consts

(* A block that is not refused has room for its header, the bytes asked    *)
(* for and the tag.                                                        *)
LEMMA RoomInBlock ==
    ASSUME NEW n \in Nat
    PROVE  /\ BlockSize(n) \in Nat
           /\ BlockSize(n) >= Clamp(n) \/ BlockSize(n) > n => BlockSize(n) >= n + 1 + W
           /\ Clamp(n) \in Nat /\ BlockSize(Clamp(n)) = BlockSize(n)
  <1>1. PICK c \in Nat : c = Clamp(n) /\ c >= n /\ c >= W /\ (n >= W => c = n) /\ (n < W => c = W)
    BY Consts DEF Clamp
  <1>2. Clamp(c) = c
    BY <1>1, Consts DEF Clamp
  <1>3. c + 1 \in Nat /\ (c + 1) % Uint \in Nat /\ (c + 1) % Uint < Uint
    BY Wraps
  <1>4. PICK x \in Nat : x = (c + 1) % Uint /\ x < Uint
    BY <1>3
  <1>5. PICK u \in Nat : u = AlignUp(x)
    BY RoundUp
  <1>6. u + W \in Nat /\ BlockSize(n) = (u + W) % Uint
    BY <1>1, <1>4, <1>5, Consts DEF BlockSize
  <1>7. PICK s \in Nat : s = BlockSize(n) /\ s < Uint
    BY <1>6, Wraps
  <1>8. ASSUME s >= c \/ s > n PROVE s >= n + 1 + W
    <2>1. s >= c \/ (n < W /\ c = W)
      BY <1>1, <1>8, Consts
    <2>2. c + 1 < Uint
      <3> SUFFICES ASSUME ~(c + 1 < Uint) PROVE FALSE
        OBVIOUS
      <3>1. s >= c /\ c + 1 = Uint
        BY <1>7, <2>1, Consts
      <3>2. x = 0
        BY <1>4, <3>1, Wraps, Consts
      <3>3. u < W
        BY <1>5, <3>2, RoundUp, Consts
      <3>4. s = u + W
        BY <1>6, <1>7, <3>3, Wraps, Consts
      <3> QED BY <3>1, <3>3, <3>4, Consts
    <2>3. x = c + 1
      BY <1>4, <2>2, Wraps
    <2>4. x + W - 1 < Uint
      <3> SUFFICES ASSUME ~(x + W - 1 < Uint) PROVE FALSE
        OBVIOUS
      <3>1. u = 0
        BY <1>4, <1>5, RoundUp, Consts
      <3>2. s = W
        BY <1>6, <1>7, <3>1, Wraps, Consts
      <3> QED BY <1>1, <2>1, <2>3, <3>2, Consts
    <2>5. x <= u /\ u < x + W
      BY <1>5, <2>4, RoundUp
    <2>6. u + W < Uint
      <3> SUFFICES ASSUME ~(u + W < Uint) PROVE FALSE
        OBVIOUS
      <3>1. u + W < 2 * Uint
        BY <2>4, <2>5, Consts
      <3>2. s = u + W - Uint
        BY <1>6, <1>7, <3>1, Wraps, Consts
      <3> QED BY <1>1, <2>1, <2>3, <2>5, <3>2, Consts
    <2>7. s = u + W
      BY <1>6, <1>7, <2>6, Wraps
    <2> QED BY <1>1, <2>3, <2>5, <2>7, Consts
  <1>9. BlockSize(Clamp(n)) = BlockSize(n)
    BY <1>1, <1>2 DEF BlockSize
  <1> QED BY <1>1, <1>7, <1>8, <1>9
-----------------------------------------------------------------------------
(* Sets of blocks.                                                         *)

LEMMA MulMono ==
    ASSUME NEW a \in Nat, NEW b \in Nat
    PROVE  W * a < W * b + W => W * a <= W * b
  <1>1. W * a \in Nat /\ W * b \in Nat
    BY Consts
  <1>2. a <= b => W * a <= W * b
    BY Consts
  <1>3. a > b => W * a >= W * b + W
    BY Consts
  <1> QED BY <1>1, <1>2, <1>3, Consts

(* The first block of a heap fits the arena it is made of.                 *)
LEMMA FirstBlock ==
    ASSUME NEW a \in Arenas
    PROVE  LET start == AlignUp(a.base)
               size == AlignDown((a.size - (start - a.base)) % Uint)
           IN /\ start \in Nat /\ size \in Nat /\ a.base <= start
              /\ start + size = AlignDown(a.base + a.size)
  <1>1. /\ a.base \in Nat /\ a.size \in Nat /\ a.size >= W /\ a.base + a.size <= Uint
        /\ a.base + W - 1 < Uint
    BY Consts
  <1>2. PICK start \in Nat : start = AlignUp(a.base) /\ a.base <= start /\ start < a.base + W
    BY <1>1, RoundUp
  <1>3. PICK k \in Nat : start = W * k
    BY <1>1, <1>2, RoundUp
  <1>15. PICK base \in Nat, all \in Nat : base = a.base /\ all = a.size
    BY <1>1
  <1>16. start - base \in Nat /\ start - base < W
    BY <1>2, <1>15, Consts
  <1>17. all - (start - base) \in Nat /\ all - (start - base) < Uint
    BY <1>1, <1>15, <1>16, Consts
  <1>0. a.size - (start - a.base) \in Nat /\ a.size - (start - a.base) < Uint
    BY <1>15, <1>17
  <1>4. PICK x \in Nat : x = a.size - (start - a.base) /\ x < Uint
    BY <1>0
  <1>5. PICK size \in Nat : size = AlignDown(x % Uint) /\ size <= x /\ x < size + W /\ \E q \in Nat : size = W * q
    BY <1>4, Wraps, RoundDown
  <1>6. PICK q \in Nat : size = W * q
    BY <1>5
  <1>7. a.base + a.size \in Nat
    BY <1>1
  <1>8. PICK top \in Nat : /\ top = AlignDown(a.base + a.size) /\ top <= a.base + a.size
                          /\ a.base + a.size < top + W
    BY <1>7, RoundDown
  <1>9. PICK r \in Nat : top = W * r
    BY <1>7, <1>8, RoundDown
  <1>10. start + size = W * (k + q)
    BY <1>3, <1>6, Consts
  <1>11. start + size < top + W
    BY <1>1, <1>2, <1>4, <1>5, <1>8, Consts
  <1>12. k + q \in Nat
    OBVIOUS
  <1>13. W * (k + q) <= W * r
    BY <1>9, <1>10, <1>11, <1>12, MulMono
  <1>18. top < (start + size) + W
    BY <1>1, <1>2, <1>4, <1>5, <1>8, Consts
  <1>19. W * r <= W * (k + q)
    BY <1>9, <1>10, <1>12, <1>18, MulMono
  <1>14. start + size = top
    BY <1>9, <1>10, <1>13, <1>19
  <1> QED BY <1>2, <1>4, <1>5, <1>8, <1>14

(* A block split in two meets nothing it did not meet before.              *)
LEMMA SplitApart ==
    ASSUME NEW B, NEW w, NEW v, NEW b \in B, NEW rest \in Nat,
           \A x \in B : x \in Int /\ w[x] \in Nat /\ w[x] > 0,
           AllApart(B, w), 0 < rest, rest < w[b],
           v[b] = rest, v[b + rest] = w[b] - rest, \A x \in B : x # b => v[x] = w[x]
    PROVE  b + rest \notin B /\ AllApart(B \cup {b + rest}, v)
  <1>1. PICK n \in Int : n = b + rest
    OBVIOUS
  <1>2. \A x \in B : x # b => x + w[x] <= b \/ b + w[b] <= x
    BY DEF AllApart
  <1>3. n \notin B
    BY <1>1, <1>2
  <1>4. \A x \in B : x # b => x + w[x] <= b \/ n + v[n] <= x
    BY <1>1, <1>2
  <1>5. \A x, y \in B : x # y => x + v[x] <= y \/ y + v[y] <= x
    <2> SUFFICES ASSUME NEW x \in B, NEW y \in B, x # y
                 PROVE  x + v[x] <= y \/ y + v[y] <= x
      OBVIOUS
    <2>1. x + w[x] <= y \/ y + w[y] <= x
      BY DEF AllApart
    <2>2. v[x] <= w[x] /\ v[y] <= w[y] /\ v[x] \in Nat /\ v[y] \in Nat
      OBVIOUS
    <2> QED BY <2>1, <2>2
  <1>6. \A x \in B : x + v[x] <= n \/ n + v[n] <= x
    BY <1>1, <1>4
  <1> QED BY <1>1, <1>3, <1>5, <1>6 DEF AllApart

(* Nor does a block joined with the one right after it.                    *)
LEMMA JoinApart ==
    ASSUME NEW B, NEW w, NEW v, NEW b \in B, NEW n \in B,
           \A x \in B : x \in Int /\ w[x] \in Nat /\ w[x] > 0,
           AllApart(B, w), b + w[b] = n,
           v[b] = w[b] + w[n], \A x \in B \ {b, n} : v[x] = w[x]
    PROVE  AllApart(B \ {n}, v)
  <1>1. \A x \in B \ {b, n} : x + w[x] <= b \/ b + (w[b] + w[n]) <= x
    <2> SUFFICES ASSUME NEW x \in B \ {b, n} PROVE x + w[x] <= b \/ b + (w[b] + w[n]) <= x
      OBVIOUS
    <2>1. (x + w[x] <= b \/ b + w[b] <= x) /\ (x + w[x] <= n \/ n + w[n] <= x)
      BY DEF AllApart
    <2> QED BY <2>1
  <1>2. \A x, y \in B \ {b, n} : x # y => x + w[x] <= y \/ y + w[y] <= x
    BY DEF AllApart
  <1> QED BY <1>1, <1>2 DEF AllApart

(* Fewer blocks, of the same sizes, are apart as well.                     *)
LEMMA FewerApart ==
    ASSUME NEW B, NEW w, NEW v, AllApart(B, w), NEW C, C \subseteq B, \A x \in C : v[x] = w[x]
    PROVE  AllApart(C, v)
  BY DEF AllApart

-----------------------------------------------------------------------------
(* Lists of blocks.                                                        *)

LEMMA Piece ==
    ASSUME NEW s \in Seq(Nat), NEW m \in Nat, NEW n \in Nat, 1 <= m, m <= n + 1, n <= Len(s)
    PROVE  /\ SubSeq(s, m, n) \in Seq(Nat) /\ Len(SubSeq(s, m, n)) = n - m + 1
           /\ \A j \in 1..n - m + 1 : SubSeq(s, m, n)[j] = s[m + j - 1]
  <1>1. m \in Int /\ n \in Int /\ \A i \in m..n : s[i] \in Nat
    <2>1. \A i \in 1..Len(s) : s[i] \in Nat
      OBVIOUS
    <2> QED BY <2>1
  <1>2. /\ SubSeq(s, m, n) \in Seq(Nat)
        /\ Len(SubSeq(s, m, n)) = IF m <= n THEN n - m + 1 ELSE 0
        /\ \A j \in 1..n - m + 1 : SubSeq(s, m, n)[j] = s[m + j - 1]
    BY <1>1, SubSeqProperties
  <1> QED BY <1>2

LEMMA Glued ==
    ASSUME NEW s \in Seq(Nat), NEW t \in Seq(Nat)
    PROVE  /\ s \o t \in Seq(Nat) /\ Len(s \o t) = Len(s) + Len(t)
           /\ \A j \in 1..Len(s) + Len(t) :
                 (s \o t)[j] = IF j <= Len(s) THEN s[j] ELSE t[j - Len(s)]
  BY ConcatProperties, Zenon

LEMMA RemovedAt ==
    ASSUME NEW s \in Seq(Nat), NEW i \in 1..Len(s)
    PROVE  LET r == RemoveAt(s, i)
           IN /\ r \in Seq(Nat) /\ DOMAIN r = 1..Len(s) - 1
              /\ \A j \in 1..Len(s) - 1 : r[j] = IF j < i THEN s[j] ELSE s[j + 1]
  <1>1. Len(s) \in Nat /\ DOMAIN s = 1..Len(s) /\ \A j \in 1..Len(s) : s[j] \in Nat
    OBVIOUS
  <1> DEFINE a == SubSeq(s, 1, i - 1)
             b == SubSeq(s, i + 1, Len(s))
             r == RemoveAt(s, i)
  <1>2. a \in Seq(Nat) /\ Len(a) = i - 1 /\ \A j \in 1..i - 1 : a[j] = s[j]
    BY <1>1, SubSeqProperties
  <1>3. b \in Seq(Nat) /\ Len(b) = Len(s) - i /\ \A j \in 1..Len(s) - i : b[j] = s[i + j]
    <2>1. /\ i + 1 \in Nat /\ 1 <= i + 1 /\ i + 1 <= Len(s) + 1
          /\ Len(s) - (i + 1) + 1 = Len(s) - i /\ \A j \in Nat : i + 1 + j - 1 = i + j
      BY <1>1
    <2>2. /\ b \in Seq(Nat) /\ Len(b) = Len(s) - (i + 1) + 1
          /\ \A j \in 1..Len(s) - (i + 1) + 1 : b[j] = s[i + 1 + j - 1]
      <3>1. PICK m \in Nat, n \in Nat : m = i + 1 /\ n = Len(s)
        BY <1>1, <2>1
      <3>2. /\ SubSeq(s, m, n) \in Seq(Nat) /\ Len(SubSeq(s, m, n)) = n - m + 1
            /\ \A j \in 1..n - m + 1 : SubSeq(s, m, n)[j] = s[m + j - 1]
        <4>1. 1 <= m /\ m <= n + 1 /\ n <= Len(s)
          BY <1>1, <2>1, <3>1
        <4> QED BY <4>1, Piece, Zenon
      <3> QED BY <3>1, <3>2
    <2> HIDE DEF b
    <2> QED BY <1>1, <2>1, <2>2
  <1>4. r = a \o b
    BY DEF RemoveAt
  <1> HIDE DEF a, b, r
  <1>9. /\ r \in Seq(Nat) /\ Len(r) = Len(a) + Len(b)
        /\ \A j \in 1..Len(a) + Len(b) : r[j] = IF j <= Len(a) THEN a[j] ELSE b[j - Len(a)]
    BY <1>2, <1>3, <1>4, Glued, Zenon
  <1>5. r \in Seq(Nat) /\ Len(r) = Len(s) - 1 /\ DOMAIN r = 1..Len(s) - 1
    BY <1>1, <1>2, <1>3, <1>9
  <1>6. \A j \in 1..Len(s) - 1 : r[j] = IF j < i THEN s[j] ELSE s[j + 1]
    <2> SUFFICES ASSUME NEW j \in 1..Len(s) - 1 PROVE r[j] = IF j < i THEN s[j] ELSE s[j + 1]
      OBVIOUS
    <2>1. r[j] = IF j <= Len(a) THEN a[j] ELSE b[j - Len(a)]
      BY <1>1, <1>2, <1>3, <1>9
    <2>2. CASE j < i
      BY <1>1, <1>2, <2>1, <2>2
    <2>3. CASE j >= i
      <3>1. j - Len(a) \in 1..Len(s) - i /\ i + (j - Len(a)) = j + 1
        BY <1>1, <1>2, <2>3
      <3> QED BY <1>1, <1>2, <1>3, <2>1, <2>3, <3>1
    <2> QED BY <1>1, <2>2, <2>3
  <1> QED BY <1>5, <1>6 DEF r

LEMMA Removed ==
    ASSUME NEW s \in Seq(Nat), NEW i \in 1..Len(s),
           \A j, l \in DOMAIN s : s[j] = s[l] => j = l
    PROVE  LET r == RemoveAt(s, i)
           IN /\ r \in Seq(Nat) /\ ToSet(r) = ToSet(s) \ {s[i]}
              /\ \A j, l \in DOMAIN r : r[j] = r[l] => j = l
  <1>1. Len(s) \in Nat /\ DOMAIN s = 1..Len(s) /\ \A j \in 1..Len(s) : s[j] \in Nat
    OBVIOUS
  <1> DEFINE r == RemoveAt(s, i)
  <1>5. r \in Seq(Nat) /\ DOMAIN r = 1..Len(s) - 1
    BY RemovedAt
  <1>6. \A j \in 1..Len(s) - 1 : r[j] = IF j < i THEN s[j] ELSE s[j + 1]
    BY RemovedAt
  <1> HIDE DEF r
  <1>7. \A j, l \in DOMAIN r : r[j] = r[l] => j = l
    <2> SUFFICES ASSUME NEW j \in 1..Len(s) - 1, NEW l \in 1..Len(s) - 1, r[j] = r[l] PROVE j = l
      BY <1>5
    <2>1. PICK x \in 1..Len(s) : x = IF j < i THEN j ELSE j + 1
      BY <1>1
    <2>2. PICK y \in 1..Len(s) : y = IF l < i THEN l ELSE l + 1
      BY <1>1
    <2>3. s[x] = s[y]
      BY <1>6, <2>1, <2>2
    <2>4. x = y
      BY <1>1, <2>3
    <2> QED BY <1>1, <2>1, <2>2, <2>4
  <1>8. ToSet(r) = ToSet(s) \ {s[i]}
    <2>1. ASSUME NEW x \in ToSet(r) PROVE x \in ToSet(s) /\ x # s[i]
      <3>1. PICK j \in 1..Len(s) - 1 : x = r[j]
        BY <1>5 DEF ToSet
      <3>2. PICK y \in 1..Len(s) : y = (IF j < i THEN j ELSE j + 1) /\ y # i
        BY <1>1
      <3>3. x = s[y]
        BY <1>6, <3>1, <3>2
      <3> QED BY <1>1, <3>2, <3>3 DEF ToSet
    <2>2. ASSUME NEW x \in ToSet(s), x # s[i] PROVE x \in ToSet(r)
      <3>1. PICK y \in 1..Len(s) : x = s[y] /\ y # i
        BY <1>1, <2>2 DEF ToSet
      <3>2. PICK j \in 1..Len(s) - 1 : j = IF y < i THEN y ELSE y - 1
        BY <1>1, <3>1
      <3>3. r[j] = x
        BY <1>1, <1>6, <3>1, <3>2
      <3> QED BY <1>5, <3>3 DEF ToSet
    <2> QED BY <2>1, <2>2
  <1> QED BY <1>5, <1>7, <1>8 DEF r

LEMMA InsertParts ==
    ASSUME NEW s, NEW i, NEW e
    PROVE  InsertAt(s, i, e) = (SubSeq(s, 1, i - 1) \o <<e>>) \o SubSeq(s, i, Len(s))
  BY Zenon DEF InsertAt

LEMMA InsertedAt ==
    ASSUME NEW s \in Seq(Nat), NEW k \in 0..Len(s), NEW e \in Nat
    PROVE  LET r == InsertAt(s, k + 1, e)
           IN /\ r \in Seq(Nat) /\ DOMAIN r = 1..Len(s) + 1
              /\ \A j \in 1..Len(s) + 1 :
                    r[j] = IF j <= k THEN s[j] ELSE IF j = k + 1 THEN e ELSE s[j - 1]
  <1>1. Len(s) \in Nat /\ DOMAIN s = 1..Len(s) /\ \A j \in 1..Len(s) : s[j] \in Nat
    OBVIOUS
  <1>0. PICK n \in Nat : n = k + 1
    BY <1>1
  <1> DEFINE a == SubSeq(s, 1, n - 1)
             b == SubSeq(s, n, Len(s))
             c == a \o <<e>>
             r == InsertAt(s, n, e)
  <1>2. a \in Seq(Nat) /\ Len(a) = k /\ \A j \in 1..k : a[j] = s[j]
    BY <1>0, <1>1, SubSeqProperties
  <1>3. b \in Seq(Nat) /\ Len(b) = Len(s) - k /\ \A j \in 1..Len(s) - k : b[j] = s[k + j]
    <2>1. PICK m \in Nat : m = Len(s)
      BY <1>1
    <2>2. 1 <= n /\ n <= m + 1 /\ m <= Len(s)
      BY <1>0, <1>1, <2>1
    <2>3. /\ SubSeq(s, n, m) \in Seq(Nat) /\ Len(SubSeq(s, n, m)) = m - n + 1
          /\ \A j \in 1..m - n + 1 : SubSeq(s, n, m)[j] = s[n + j - 1]
      BY <2>2, Piece, Zenon
    <2>4. b = SubSeq(s, n, m)
      BY <2>1
    <2> HIDE DEF b
    <2>5. m - n + 1 = Len(s) - k /\ \A j \in Nat : n + j - 1 = k + j
      BY <1>0, <1>1, <2>1
    <2>6. \A j \in 1..Len(s) - k : b[j] = s[k + j]
      <3> SUFFICES ASSUME NEW j \in 1..Len(s) - k PROVE b[j] = s[k + j]
        OBVIOUS
      <3>1. b[j] = s[n + j - 1]
        BY <2>3, <2>4, <2>5
      <3>2. n + j - 1 = k + j
        BY <1>0
      <3> QED BY <3>1, <3>2
    <2> QED BY <2>3, <2>4, <2>5, <2>6
  <1>4. r = c \o b
    BY InsertParts, Zenon
  <1> HIDE DEF a
  <1>5. c \in Seq(Nat) /\ Len(c) = k + 1 /\ c[k + 1] = e /\ \A j \in 1..k : c[j] = s[j]
    BY <1>1, <1>2
  <1> HIDE DEF b, c, r
  <1>11. /\ r \in Seq(Nat) /\ Len(r) = Len(c) + Len(b)
         /\ \A j \in 1..Len(c) + Len(b) : r[j] = IF j <= Len(c) THEN c[j] ELSE b[j - Len(c)]
    BY <1>3, <1>4, <1>5, Glued, Zenon
  <1>6. r \in Seq(Nat) /\ Len(r) = Len(s) + 1 /\ DOMAIN r = 1..Len(s) + 1
    BY <1>1, <1>3, <1>5, <1>11
  <1>7. \A j \in 1..Len(s) + 1 : r[j] = IF j <= k THEN s[j] ELSE IF j = k + 1 THEN e ELSE s[j - 1]
    <2> SUFFICES ASSUME NEW j \in 1..Len(s) + 1
                 PROVE  r[j] = IF j <= k THEN s[j] ELSE IF j = k + 1 THEN e ELSE s[j - 1]
      OBVIOUS
    <2>1. r[j] = IF j <= Len(c) THEN c[j] ELSE b[j - Len(c)]
      BY <1>1, <1>3, <1>5, <1>11
    <2>2. CASE j <= k + 1
      BY <1>1, <1>5, <2>1, <2>2
    <2>3. CASE j > k + 1
      <3>1. j - Len(c) \in 1..Len(s) - k /\ k + (j - Len(c)) = j - 1
        BY <1>1, <1>5, <2>3
      <3>2. b[j - Len(c)] = s[j - 1]
        BY <1>3, <3>1
      <3> QED BY <1>1, <1>5, <2>1, <2>3, <3>2
    <2> QED BY <1>1, <2>2, <2>3
  <1> QED BY <1>0, <1>6, <1>7 DEF r

LEMMA Inserted ==
    ASSUME NEW s \in Seq(Nat), NEW k \in 0..Len(s), NEW e \in Nat, e \notin ToSet(s),
           \A j, l \in DOMAIN s : s[j] = s[l] => j = l
    PROVE  LET r == InsertAt(s, k + 1, e)
           IN /\ r \in Seq(Nat) /\ ToSet(r) = ToSet(s) \cup {e}
              /\ \A j, l \in DOMAIN r : r[j] = r[l] => j = l
  <1>1. Len(s) \in Nat /\ DOMAIN s = 1..Len(s) /\ \A j \in 1..Len(s) : s[j] \in Nat
    OBVIOUS
  <1> DEFINE r == InsertAt(s, k + 1, e)
  <1>6. r \in Seq(Nat) /\ DOMAIN r = 1..Len(s) + 1
    BY InsertedAt
  <1>7. \A j \in 1..Len(s) + 1 : r[j] = IF j <= k THEN s[j] ELSE IF j = k + 1 THEN e ELSE s[j - 1]
    BY InsertedAt
  <1> HIDE DEF r
  <1>8. \A j \in 1..Len(s) : s[j] # e
    BY <1>1 DEF ToSet
  <1>9. \A j, l \in DOMAIN r : r[j] = r[l] => j = l
    <2> SUFFICES ASSUME NEW j \in 1..Len(s) + 1, NEW l \in 1..Len(s) + 1, r[j] = r[l] PROVE j = l
      BY <1>6
    <2>1. CASE j = k + 1 \/ l = k + 1
      BY <1>1, <1>7, <1>8, <2>1
    <2>2. CASE j # k + 1 /\ l # k + 1
      <3>1. PICK x \in 1..Len(s) : x = IF j <= k THEN j ELSE j - 1
        BY <1>1, <2>2
      <3>2. PICK y \in 1..Len(s) : y = IF l <= k THEN l ELSE l - 1
        BY <1>1, <2>2
      <3>3. s[x] = s[y]
        BY <1>7, <2>2, <3>1, <3>2
      <3>4. x = y
        BY <1>1, <3>3
      <3> QED BY <1>1, <2>2, <3>1, <3>2, <3>4
    <2> QED BY <2>1, <2>2
  <1>10. ToSet(r) = ToSet(s) \cup {e}
    <2>1. ASSUME NEW x \in ToSet(r) PROVE x \in ToSet(s) \cup {e}
      <3>1. PICK j \in 1..Len(s) + 1 : x = r[j]
        BY <1>6 DEF ToSet
      <3>2. CASE j = k + 1
        BY <1>7, <3>1, <3>2
      <3>3. CASE j # k + 1
        <4>1. PICK y \in 1..Len(s) : y = IF j <= k THEN j ELSE j - 1
          BY <1>1, <3>3
        <4> QED BY <1>1, <1>7, <3>1, <3>3, <4>1 DEF ToSet
      <3> QED BY <3>2, <3>3
    <2>2. ASSUME NEW x \in ToSet(s) PROVE x \in ToSet(r)
      <3>1. PICK y \in 1..Len(s) : x = s[y]
        BY <1>1 DEF ToSet
      <3>2. PICK j \in 1..Len(s) + 1 : j = IF y <= k THEN y ELSE y + 1
        BY <1>1
      <3>3. r[j] = x
        BY <1>1, <1>7, <3>1, <3>2
      <3> QED BY <1>6, <3>3 DEF ToSet
    <2>3. e \in ToSet(r)
      <3>1. k + 1 \in 1..Len(s) + 1 /\ r[k + 1] = e
        BY <1>1, <1>7
      <3> QED BY <1>6, <3>1 DEF ToSet
    <2> QED BY <2>1, <2>2, <2>3
  <1> QED BY <1>6, <1>9, <1>10 DEF r

Put(s, i, e) == [s EXCEPT ![i] = e]

LEMMA Replaced ==
    ASSUME NEW s \in Seq(Nat), NEW i \in 1..Len(s), NEW e \in Nat, e \notin ToSet(s),
           \A j, l \in DOMAIN s : s[j] = s[l] => j = l
    PROVE  LET r == Put(s, i, e)
           IN /\ r \in Seq(Nat) /\ ToSet(r) = (ToSet(s) \ {s[i]}) \cup {e}
              /\ \A j, l \in DOMAIN r : r[j] = r[l] => j = l
  <1>1. Len(s) \in Nat /\ DOMAIN s = 1..Len(s) /\ \A j \in 1..Len(s) : s[j] \in Nat
    OBVIOUS
  <1> DEFINE r == Put(s, i, e)
  <1>2. r \in Seq(Nat) /\ DOMAIN r = 1..Len(s) /\ \A j \in 1..Len(s) : r[j] = IF j = i THEN e ELSE s[j]
    BY <1>1, ExceptSeq DEF Put
  <1> HIDE DEF r
  <1>3. \A j \in 1..Len(s) : s[j] # e
    BY <1>1 DEF ToSet
  <1>4. \A j, l \in DOMAIN r : r[j] = r[l] => j = l
    BY <1>1, <1>2, <1>3
  <1>5. ToSet(r) = (ToSet(s) \ {s[i]}) \cup {e}
    <2>1. ASSUME NEW x \in ToSet(r) PROVE x \in (ToSet(s) \ {s[i]}) \cup {e}
      <3>1. PICK j \in 1..Len(s) : x = r[j]
        BY <1>2 DEF ToSet
      <3> QED BY <1>1, <1>2, <3>1 DEF ToSet
    <2>2. ASSUME NEW x \in ToSet(s), x # s[i] PROVE x \in ToSet(r)
      <3>1. PICK j \in 1..Len(s) : x = s[j] /\ j # i
        BY <1>1, <2>2 DEF ToSet
      <3> QED BY <1>2, <3>1 DEF ToSet
    <2>3. e \in ToSet(r)
      BY <1>2 DEF ToSet
    <2> QED BY <2>1, <2>2, <2>3
  <1> QED BY <1>2, <1>4, <1>5 DEF r
-----------------------------------------------------------------------------
(* Heaps and blocks.                                                       *)

LEMMA Edges ==
    ASSUME Shapes, ArenasApart, NEW h \in Slots, heaps[h].size > 0
    PROVE  /\ Start(h) \in Nat /\ Top(h) \in Nat
           /\ heaps[h].base \in Nat /\ heaps[h].size \in Nat
           /\ heaps[h].base <= Start(h) /\ Top(h) <= heaps[h].base + heaps[h].size
  <1>1. /\ heaps[h].base \in Nat /\ heaps[h].size \in Nat /\ heaps[h].size >= W
        /\ heaps[h].base + heaps[h].size <= Uint
    BY DEF Shapes, Heap, ArenasApart
  <1>2. PICK base \in Nat, size \in Nat : base = heaps[h].base /\ size = heaps[h].size
    BY <1>1
  <1>3. base + W - 1 < Uint /\ base + size \in Nat
    BY <1>1, <1>2, Consts
  <1>4. AlignUp(base) \in Nat /\ base <= AlignUp(base)
    BY <1>3, RoundUp
  <1>5. AlignDown(base + size) \in Nat /\ AlignDown(base + size) <= base + size
    BY <1>3, RoundDown
  <1> QED BY <1>1, <1>2, <1>4, <1>5 DEF Start, Top

LEMMA BlockFacts ==
    ASSUME HeapInv, NEW b \in Blocks
    PROVE  /\ b \in Nat /\ b \in DOMAIN word /\ word[b] \in Nat /\ word[b] > 0
           /\ \E h \in Slots : Within(word, b, h)
  <1>1. b \in DOMAIN word /\ word[b] > 0 /\ \E h \in Slots : Within(word, b, h)
    <2>1. CASE b \in Held
      <3>1. PICK p \in DOMAIN live : b = Block(p)
        BY <2>1 DEF Held
      <3>2. word[b] > W /\ b \in DOMAIN word
        BY <3>1 DEF HeapInv, HeldFits, Fits
      <3>3. word[b] \in Nat
        BY <3>2 DEF HeapInv, Shapes
      <3> QED BY <3>1, <3>2, <3>3, Consts DEF HeapInv, HeldFits
    <2>2. CASE b \in Frees
      <3>1. PICK h \in Slots : b \in ToSet(heaps[h].list)
        BY <2>2 DEF Frees
      <3> QED BY <3>1 DEF HeapInv, FreeListed, FreeBlock
    <2> QED BY <2>1, <2>2 DEF Blocks
  <1>2. word[b] \in Nat
    BY <1>1 DEF HeapInv, Shapes
  <1>3. b \in Int
    <2>1. CASE b \in Held
      BY <2>1, Consts DEF Held, Block, HeapInv, Shapes
    <2>2. CASE b \in Frees
      <3>1. PICK h \in Slots : b \in ToSet(heaps[h].list)
        BY <2>2 DEF Frees
      <3>2. heaps[h].list \in Seq(Nat)
        BY <3>1 DEF HeapInv, Shapes, Heap
      <3> QED BY <3>1, <3>2 DEF ToSet
    <2> QED BY <2>1, <2>2 DEF Blocks
  <1>4. PICK h \in Slots : Within(word, b, h)
    BY <1>1
  <1>5. Start(h) \in Nat /\ Start(h) <= b
    BY <1>4, Edges DEF Within, HeapInv
  <1> QED BY <1>1, <1>2, <1>3, <1>5

(* A pointer in a block of a heap is in the arena of that heap.            *)
LEMMA PointerInHeap ==
    ASSUME HeapInv, NEW p \in DOMAIN live, NEW h \in Slots, Within(word, Block(p), h)
    PROVE  InHeap(p, h)
  <1>1. p \in Nat /\ Block(p) = p - W /\ word[Block(p)] > W
    BY DEF HeapInv, HeldFits, Fits, Shapes, Block
  <1>2. word[Block(p)] \in Nat
    BY DEF HeapInv, HeldFits, Shapes
  <1>3. heaps[h].size > 0 /\ Start(h) <= Block(p) /\ Block(p) + word[Block(p)] <= Top(h)
    BY DEF Within
  <1>4. /\ Start(h) \in Nat /\ Top(h) \in Nat /\ heaps[h].base \in Nat /\ heaps[h].size \in Nat
        /\ heaps[h].base <= Start(h) /\ Top(h) <= heaps[h].base + heaps[h].size
    BY <1>3, Edges DEF HeapInv
  <1> QED BY <1>1, <1>2, <1>3, <1>4, Consts DEF InHeap

-----------------------------------------------------------------------------
(* Steps that change neither heaps nor blocks.                             *)

(* Lemma: such a step keeps the invariant if what is still held fits, and  *)
(* the task that takes it works on what it worked on or on what nobody     *)
(* does.                                                                   *)
LEMMA ClientStep ==
    ASSUME HeapInv, NEW t \in Tasks, UNCHANGED <<mem, freed>>,
           live' \in [DOMAIN live' -> Nat], DOMAIN live' \subseteq DOMAIN live,
           \A p \in DOMAIN live' : Fits(live'[p], word[Block(p)]),
           op' \in [Tasks -> Op], \A u \in Tasks : u # t => op'[u] = op[u],
           Working(t)',
           {op'[t].old, op'[t].new} \subseteq {op[t].old, op[t].new, Null} \cup Mine,
           \A u \in Tasks : u # t => {op[u].old, op[u].new} \subseteq DOMAIN live' \cup {Null}
    PROVE  HeapInv'
  <1>1. UNCHANGED <<heaps, word, tag, total, freed>>
    BY DEF mem
  <1>2. Shapes'
    BY <1>1 DEF HeapInv, Shapes
  <1>3. ArenasApart' /\ FreeListed' /\ FreedSeen'
    BY <1>1 DEF HeapInv, ArenasApart, FreeListed, FreeBlock, FreedSeen, Within, Start, Top, Dog
  <1>4. HeldFits'
    BY <1>1 DEF HeapInv, HeldFits, Within, Start, Top, Dog
  <1>5. BlocksApart'
    <2>1. Held' \subseteq Held /\ Frees' = Frees
      BY <1>1 DEF Held, Frees
    <2>2. Blocks' \subseteq Blocks
      BY <2>1 DEF Blocks
    <2>3. AllApart(Blocks', word)
      BY <2>2, FewerApart DEF HeapInv, BlocksApart
    <2> QED BY <1>1, <2>1, <2>3 DEF HeapInv, BlocksApart
  <1>6. ASSUME NEW u \in Tasks PROVE Working(u)'
    <2>1. CASE u = t
      BY <2>1
    <2>2. CASE u # t
      <3>1. Working(u) /\ op'[u] = op[u]
        BY <2>2 DEF HeapInv
      <3>2. {op[u].old, op[u].new} \subseteq DOMAIN live' \cup {Null}
        BY <2>2
      <3>3. op[u].pc = "copy" => op[u].new # Null
        <4>1. op[u].pc = "copy" => op[u].new \in DOMAIN live
          BY <3>1 DEF Working
        <4> QED BY <4>1, Consts DEF HeapInv, Shapes
      <3> QED BY <1>1, <3>1, <3>2, <3>3 DEF Working, InHeap
    <2> QED BY <2>1, <2>2
  <1>7. OwnPointers'
    <2> SUFFICES ASSUME NEW u \in Tasks, NEW v \in Tasks, u # v
                 PROVE  {op'[u].old, op'[u].new} \cap {op'[v].old, op'[v].new} \subseteq {Null}
      BY DEF OwnPointers
    <2>1. \A x, y \in Tasks : x # y =>
              {op[x].old, op[x].new} \cap {op[y].old, op[y].new} \subseteq {Null}
      BY DEF HeapInv, OwnPointers
    <2>2. \A x \in Tasks : {op[x].old, op[x].new} \cap Mine = {}
      BY DEF Mine, Busy
    <2>3. CASE u = t
      BY <2>1, <2>2, <2>3
    <2>4. CASE v = t
      BY <2>1, <2>2, <2>4
    <2>5. CASE u # t /\ v # t
      BY <2>1, <2>5
    <2> QED BY <2>3, <2>4, <2>5
  <1> QED BY <1>2, <1>3, <1>4, <1>5, <1>6, <1>7 DEF HeapInv
LEMMA OpStep ==
    ASSUME HeapInv, NEW t \in Tasks, UNCHANGED <<mem, live, freed>>,
           NEW o \in Op, op' = [op EXCEPT ![t] = o], Working(t)',
           {o.old, o.new} \subseteq {op[t].old, op[t].new, Null} \cup Mine
    PROVE  HeapInv'
  <1>1. op \in [Tasks -> Op] /\ live \in [DOMAIN live -> Nat] /\ DOMAIN live \subseteq Nat
    BY DEF HeapInv, Shapes
  <1>2. op' \in [Tasks -> Op] /\ op'[t] = o /\ \A u \in Tasks : u # t => op'[u] = op[u]
    BY <1>1
  <1>3. \A p \in DOMAIN live' : Fits(live'[p], word[Block(p)])
    BY DEF HeapInv, HeldFits
  <1>4. \A u \in Tasks : {op[u].old, op[u].new} \subseteq DOMAIN live' \cup {Null}
    BY DEF HeapInv, Working
  <1>5. UNCHANGED <<mem, freed>> /\ live' \in [DOMAIN live' -> Nat] /\ DOMAIN live' \subseteq DOMAIN live
    BY <1>1
  <1> QED BY <1>2, <1>3, <1>4, <1>5, ClientStep

LEMMA IdleOp == Idle \in Op /\ Idle.pc = "idle" /\ Idle.old = Null /\ Idle.new = Null
  BY DEF Idle, Op, Pcs

(* A task that is done works on nothing.                                   *)
LEMMA GoIdle ==
    ASSUME HeapInv, NEW t \in Tasks, UNCHANGED <<mem, live, freed>>, op' = [op EXCEPT ![t] = Idle]
    PROVE  HeapInv'
  <1>1. op \in [Tasks -> Op]
    BY DEF HeapInv, Shapes
  <1>2. Working(t)'
    BY <1>1, IdleOp DEF Working
  <1>3. {Idle.old, Idle.new} \subseteq {op[t].old, op[t].new, Null} \cup Mine
    BY IdleOp
  <1> QED BY <1>2, <1>3, IdleOp, OpStep

LEMMA AskOp ==
    ASSUME Shapes, NEW h \in Handles, NEW n \in Nat, NEW p \in Nat \cup {Null}
    PROVE  /\ Asks(h, n, p) \in Op /\ Asks(h, n, p).pc \in {"look", "get"}
           /\ Asks(h, n, p).pc = "get" => Asks(h, n, p).slot \in Slots
           /\ Asks(h, n, p).pc = "look" => Asks(h, n, p).all
           /\ ~Asks(h, n, p).all => h \in Slots /\ Asks(h, n, p).slot = h
           /\ Asks(h, n, p).slot > 0 /\ Asks(h, n, p).len = n
           /\ Asks(h, n, p).old = p /\ Asks(h, n, p).new = Null
  <1>1. h = 0 \/ h \in Slots
    BY DEF Handles
  <1>2. h \in Nat /\ (h \in Slots => h > 0)
    BY <1>1, Consts DEF Slots
  <1>3. CASE h = 0
    <2>1. PICK a : a = [pc |-> "look", slot |-> 1, all |-> TRUE, len |-> n, old |-> p, new |-> Null]
      OBVIOUS
    <2>2. Asks(h, n, p) = a
      BY <1>3, <2>1 DEF Asks
    <2>3. a \in Op
      BY <2>1 DEF Op, Pcs
    <2>4. a.pc = "look" /\ a.slot = 1 /\ a.all = TRUE /\ a.len = n /\ a.old = p /\ a.new = Null
      BY <2>1
    <2> QED BY <2>2, <2>3, <2>4
  <1>4. CASE h \in Slots
    <2>1. PICK a : a = [pc |-> "get", slot |-> h, all |-> FALSE, len |-> n, old |-> p, new |-> Null]
      OBVIOUS
    <2>2. h # 0 /\ (h = 0) = FALSE
      BY <1>2, <1>4
    <2>3. Asks(h, n, p) = a
      BY <2>1, <2>2, Zenon DEF Asks
    <2>4. a \in Op
      BY <1>2, <2>1 DEF Op, Pcs
    <2>5. a.pc = "get" /\ a.slot = h /\ a.all = FALSE /\ a.len = n /\ a.old = p /\ a.new = Null
      BY <2>1
    <2> QED BY <1>2, <1>4, <2>3, <2>4, <2>5
  <1> QED BY <1>1, <1>3, <1>4

LEMMA MallocStep ==
    ASSUME HeapInv, NEW t \in Tasks, Malloc(t)
    PROVE  HeapInv'
  <1>1. PICK h \in Handles, n \in Sizes : op' = [op EXCEPT ![t] = Asks(h, n, Null)]
    BY DEF Malloc
  <1>2. n \in Nat /\ op \in [Tasks -> Op] /\ Shapes
    BY Consts DEF HeapInv, Shapes
  <1>3. PICK o \in Op : /\ o = Asks(h, n, Null) /\ o.pc \in {"look", "get"} /\ o.slot > 0
                        /\ o.pc = "get" => o.slot \in Slots
                        /\ o.pc = "look" => o.all
                        /\ o.old = Null /\ o.new = Null
    <2>1. PICK p \in Nat \cup {Null} : p = Null
      OBVIOUS
    <2>2. PICK o \in Op : /\ o = Asks(h, n, p) /\ o.pc \in {"look", "get"} /\ o.slot > 0
                          /\ o.pc = "get" => o.slot \in Slots
                          /\ o.pc = "look" => o.all
                          /\ o.old = p /\ o.new = Null
      BY <1>2, AskOp
    <2> QED BY <2>1, <2>2
  <1>4. op' = [op EXCEPT ![t] = o] /\ op'[t] = o
    BY <1>1, <1>2, <1>3
  <1>5. Working(t)'
    BY <1>3, <1>4 DEF Working
  <1> QED BY <1>3, <1>4, <1>5, OpStep DEF Malloc

LEMMA LookStep ==
    ASSUME HeapInv, NEW t \in Tasks, LookForHeap(t)
    PROVE  HeapInv'
  <1>0. op \in [Tasks -> Op] /\ op[t] \in Op /\ Working(t) /\ op[t].pc = "look"
    BY DEF HeapInv, Shapes, LookForHeap
  <1>1. PICK h \in Nat : h = op[t].slot /\ h > 0
    BY <1>0 DEF Op, Working
  <1>2. CASE h > ListNum \/ heaps[h].size = 0
    BY <1>1, <1>2, GoIdle DEF LookForHeap
  <1>3. CASE h \in Slots
    <2>1. PICK o \in Op : /\ \/ o = [op[t] EXCEPT !.pc = "get"]
                             \/ o = [op[t] EXCEPT !.slot = h + 1]
                             \/ o = Idle
                          /\ op' = [op EXCEPT ![t] = o]
      <3>1. [op[t] EXCEPT !.pc = "get"] \in Op /\ [op[t] EXCEPT !.slot = h + 1] \in Op
        BY <1>0, <1>1 DEF Op, Pcs
      <3> QED BY <1>1, <3>1, IdleOp DEF LookForHeap
    <2>2. op'[t] = o
      BY <1>0, <2>1
    <2>3. CASE o = Idle
      BY <2>1, <2>3, GoIdle DEF LookForHeap
    <2>4. CASE o = [op[t] EXCEPT !.pc = "get"] \/ o = [op[t] EXCEPT !.slot = h + 1]
      <3>1. /\ o.pc \in {"look", "get"} /\ o.slot > 0 /\ (o.pc = "get" => o.slot \in Slots)
            /\ o.old = op[t].old /\ o.new = op[t].new /\ o.all = op[t].all /\ o.len = op[t].len
            /\ o.pc = "get" => o.slot = op[t].slot
        BY <1>0, <1>1, <1>3, <2>4 DEF Op
      <3>2. Working(t)'
        BY <1>0, <2>2, <3>1 DEF Working, LookForHeap, mem
      <3> QED BY <2>1, <3>1, <3>2, OpStep DEF LookForHeap
    <2> QED BY <2>1, <2>3, <2>4
  <1> QED BY <1>1, <1>2, <1>3, Consts DEF Slots

LEMMA AllocateFailsStep ==
    ASSUME HeapInv, NEW t \in Tasks, AllocateFails(t)
    PROVE  HeapInv'
  <1>0. op \in [Tasks -> Op] /\ op[t] \in Op /\ Working(t) /\ op[t].pc = "get"
    BY DEF HeapInv, Shapes, AllocateFails
  <1>1. CASE ~op[t].all
    BY <1>1, GoIdle DEF AllocateFails
  <1>2. CASE op[t].all
    <2>1. op[t].slot \in Nat /\ op[t].slot > 0
      BY <1>0 DEF Op, Working
    <2>2. PICK o \in Op : o = [op[t] EXCEPT !.pc = "look", !.slot = op[t].slot + 1]
      <3>1. PICK n \in Nat : n = op[t].slot + 1
        BY <2>1
      <3>2. [op[t] EXCEPT !.pc = "look", !.slot = n] \in Op
        BY <1>0 DEF Op, Pcs
      <3> QED BY <3>1, <3>2
    <2>3. op' = [op EXCEPT ![t] = o] /\ op'[t] = o
      <3>1. op' = [op EXCEPT ![t] = [op[t] EXCEPT !.pc = "look", !.slot = op[t].slot + 1]]
        BY <1>2 DEF AllocateFails
      <3> QED BY <1>0, <2>2, <3>1
    <2>4. /\ o.pc = "look" /\ o.slot > 0 /\ o.old = op[t].old /\ o.new = op[t].new
          /\ o.all /\ o.len = op[t].len
      BY <1>0, <1>2, <2>1, <2>2 DEF Op
    <2>5. Working(t)'
      BY <1>0, <2>3, <2>4 DEF Working, AllocateFails, mem
    <2> QED BY <2>3, <2>4, <2>5, OpStep DEF AllocateFails
  <1> QED BY <1>1, <1>2

LEMMA FreeStep ==
    ASSUME HeapInv, NEW t \in Tasks, Free(t)
    PROVE  HeapInv'
  <1>1. PICK p \in Mine, h \in Handles :
            /\ h # 0 => InHeap(p, h)
            /\ op' = [op EXCEPT ![t] = [Asks(h, 0, p) EXCEPT !.pc = "free"]]
    BY DEF Free
  <1>2. op \in [Tasks -> Op] /\ Shapes /\ p \in DOMAIN live /\ p \in Nat /\ p # Null
    BY <1>1, Consts DEF HeapInv, Shapes, Mine
  <1>3. PICK a \in Op : /\ a = Asks(h, 0, p) /\ a.slot > 0 /\ a.old = p /\ a.new = Null
                        /\ ~a.all => h \in Slots /\ a.slot = h
    BY <1>2, AskOp
  <1>4. PICK o \in Op : o = [a EXCEPT !.pc = "free"]
    BY <1>3 DEF Op, Pcs
  <1>5. /\ o.pc = "free" /\ o.slot > 0 /\ o.old = p /\ o.new = Null
        /\ ~o.all => h \in Slots /\ o.slot = h
    BY <1>3, <1>4 DEF Op
  <1>6. op' = [op EXCEPT ![t] = o] /\ op'[t] = o
    BY <1>1, <1>2, <1>3, <1>4
  <1>7. h \in Slots => h # 0
    BY DEF Slots
  <1>8. Working(t)'
    BY <1>1, <1>2, <1>5, <1>6, <1>7 DEF Working, InHeap, Free, mem
  <1> QED BY <1>1, <1>5, <1>6, <1>8, OpStep DEF Free

LEMMA FreeAgainStep ==
    ASSUME HeapInv, NEW t \in Tasks, FreeAgain(t)
    PROVE  HeapInv'
  <1>1. tag[Dog(Block(freed))] # "use"
    BY DEF HeapInv, FreedSeen, FreeAgain
  <1> QED BY <1>1, GoIdle DEF FreeAgain

LEMMA ReallocCopyStep ==
    ASSUME HeapInv, NEW t \in Tasks, ReallocCopy(t)
    PROVE  HeapInv'
  <1>0. op \in [Tasks -> Op] /\ op[t] \in Op /\ Working(t) /\ op[t].pc = "copy"
    BY DEF HeapInv, Shapes, ReallocCopy
  <1>1. PICK o \in Op : o = [op[t] EXCEPT !.pc = "free", !.new = Null,
                                       !.slot = IF op[t].all THEN 1 ELSE op[t].slot]
    <2>1. PICK n \in Nat : n = IF op[t].all THEN 1 ELSE op[t].slot
      BY <1>0 DEF Op
    <2>2. [op[t] EXCEPT !.pc = "free", !.new = Null, !.slot = n] \in Op
      BY <1>0 DEF Op, Pcs
    <2> QED BY <2>1, <2>2
  <1>2. op' = [op EXCEPT ![t] = o] /\ op'[t] = o
    <2>1. op' = [op EXCEPT ![t] = [op[t] EXCEPT !.pc = "free", !.new = Null,
                                       !.slot = IF op[t].all THEN 1 ELSE op[t].slot]]
      BY <1>0 DEF ReallocCopy, Op
    <2> QED BY <1>0, <1>1, <2>1
  <1>3. /\ o.pc = "free" /\ o.new = Null /\ o.old = op[t].old
        /\ o.slot > 0 /\ (o.all <=> op[t].all) /\ (~o.all => o.slot = op[t].slot)
    BY <1>0, <1>1 DEF Op, Working
  <1>4. Working(t)'
    BY <1>0, <1>2, <1>3 DEF Working, InHeap, ReallocCopy, mem
  <1> QED BY <1>2, <1>3, <1>4, OpStep DEF ReallocCopy
LEMMA FreeCheckStep ==
    ASSUME HeapInv, NEW t \in Tasks, FreeCheck(t)
    PROVE  HeapInv'
  <1>0. op \in [Tasks -> Op] /\ op[t] \in Op /\ Working(t) /\ op[t].pc = "free"
    BY DEF HeapInv, Shapes, FreeCheck
  <1>1. PICK p \in Nat : p = op[t].old /\ p \in DOMAIN live
    BY <1>0 DEF Working, HeapInv, Shapes
  <1>2. PICK found : found = IF op[t].all THEN Owner(p) ELSE {op[t].slot}
    OBVIOUS
  <1>3. \A h \in found : h \in Slots /\ InHeap(p, h) /\ h \in Nat /\ h > 0
    <2>1. \A h \in Slots : h \in Nat /\ h > 0
      BY Consts DEF Slots
    <2>2. p # Null
      BY Consts
    <2> QED BY <1>0, <1>1, <1>2, <2>1, <2>2 DEF Owner, Working
  <1>4. UNCHANGED <<mem, live, freed>>
    BY DEF FreeCheck
  <1>5. CASE \E h \in found : op' = [op EXCEPT ![t].pc = "put", ![t].slot = h]
    <2>1. PICK h \in found : op' = [op EXCEPT ![t].pc = "put", ![t].slot = h]
      BY <1>5
    <2>2. h \in Slots /\ InHeap(p, h) /\ h \in Nat /\ h > 0
      BY <1>3
    <2>3. PICK o \in Op : o = [op[t] EXCEPT !.pc = "put", !.slot = h]
      BY <1>0, <2>2 DEF Op, Pcs
    <2>4. op' = [op EXCEPT ![t] = o] /\ op'[t] = o
      BY <1>0, <2>1, <2>3
    <2>5. o.pc = "put" /\ o.slot = h /\ o.old = p /\ o.new = op[t].new
      BY <1>0, <1>1, <2>3 DEF Op
    <2>6. op[t].new = Null
      BY <1>0 DEF Working
    <2>7. Working(t)'
      BY <1>1, <1>4, <2>2, <2>4, <2>5, <2>6, Consts DEF Working, InHeap, mem
    <2> QED BY <1>1, <1>4, <2>4, <2>5, <2>7, OpStep
  <1>6. CASE op' = [op EXCEPT ![t] = Idle]
    BY <1>4, <1>6, GoIdle
  <1> QED BY <1>1, <1>2, <1>5, <1>6 DEF FreeCheck

LEMMA ReallocStep ==
    ASSUME HeapInv, NEW t \in Tasks, Realloc(t)
    PROVE  HeapInv'
  <1>0. op \in [Tasks -> Op] /\ op[t] \in Op /\ Working(t) /\ op[t].pc = "idle"
    BY DEF HeapInv, Shapes, Realloc
  <1>1. PICK p \in Mine, h \in Handles, n \in Sizes :
            /\ h # 0 => InHeap(p, h)
            /\ \/ /\ StaysPut(p, n)
                  /\ live' = [live EXCEPT ![p] = n] /\ UNCHANGED op
               \/ /\ ~StaysPut(p, n)
                  /\ op' = [op EXCEPT ![t] = Asks(h, Clamp(n), p)] /\ UNCHANGED live
    BY DEF Realloc
  <1>2. /\ p \in DOMAIN live /\ p \in Nat /\ p # Null /\ n \in Nat
        /\ Block(p) \in DOMAIN word /\ word[Block(p)] \in Nat
    BY <1>1, Consts DEF Mine, HeapInv, Shapes, HeldFits
  <1>3. /\ BlockSize(n) \in Nat /\ (BlockSize(n) >= Clamp(n) => BlockSize(n) >= n + 1 + W)
        /\ Clamp(n) \in Nat /\ BlockSize(Clamp(n)) = BlockSize(n)
    BY <1>1, <1>2, RoomInBlock
  <1>4. CASE StaysPut(p, n) /\ live' = [live EXCEPT ![p] = n] /\ UNCHANGED op
    <2>1. BlockSize(n) <= word[Block(p)]
      BY <1>4 DEF StaysPut
    <2>2. /\ DOMAIN live' = DOMAIN live /\ live' \in [DOMAIN live' -> Nat] /\ live'[p] = n
          /\ \A q \in DOMAIN live' : q # p => live'[q] = live[q]
      BY <1>2, <1>4 DEF HeapInv, Shapes
    <2>3. \A q \in DOMAIN live' : Fits(live'[q], word[Block(q)])
      <3>1. Fits(n, word[Block(p)])
        <4>1. PICK m \in Nat, l \in Nat : m = word[Block(p)] /\ l = live[p] /\ Fits(l, m)
          BY <1>2 DEF HeapInv, HeldFits, Shapes
        <4>2. ~Overflows(n) => BlockSize(n) >= n + 1 + W
          BY <1>3 DEF Overflows
        <4>3. m > W
          BY <4>1 DEF Fits
        <4> QED BY <1>2, <1>3, <2>1, <4>1, <4>2, <4>3, Consts DEF Fits
      <3> QED BY <2>2, <3>1 DEF HeapInv, HeldFits
    <2>4. UNCHANGED <<mem, freed>> /\ DOMAIN live' \subseteq DOMAIN live
      BY <2>2 DEF Realloc
    <2>5. op' \in [Tasks -> Op] /\ \A u \in Tasks : op'[u] = op[u]
      BY <1>0, <1>4
    <2>6. Working(t)'
      BY <1>0, <2>5, Consts DEF Working
    <2>7. \A u \in Tasks : {op[u].old, op[u].new} \subseteq DOMAIN live' \cup {Null}
      BY <2>2 DEF HeapInv, Working
    <2>8. {op'[t].old, op'[t].new} \subseteq {op[t].old, op[t].new, Null} \cup Mine
      BY <2>5
    <2> QED BY <2>2, <2>3, <2>4, <2>5, <2>6, <2>7, <2>8, ClientStep
  <1>5. CASE ~StaysPut(p, n) /\ op' = [op EXCEPT ![t] = Asks(h, Clamp(n), p)] /\ UNCHANGED live
    <2>1. BlockSize(n) > word[Block(p)]
      BY <1>2, <1>3, <1>5 DEF StaysPut
    <2>2. PICK c \in Nat : c = Clamp(n)
      BY <1>3
    <2>3. Shapes
      BY DEF HeapInv
    <2>4. PICK o \in Op : /\ o = Asks(h, c, p) /\ o.pc \in {"look", "get"} /\ o.slot > 0
                          /\ o.pc = "get" => o.slot \in Slots
                          /\ o.pc = "look" => o.all
                          /\ ~o.all => h \in Slots /\ o.slot = h
                          /\ o.old = p /\ o.new = Null /\ o.len = c
      BY <1>2, <2>3, AskOp
    <2>5. op' = [op EXCEPT ![t] = o] /\ op'[t] = o
      BY <1>0, <1>5, <2>2, <2>4
    <2>6. BlockSize(o.len) > word[Block(p)]
      BY <1>3, <2>1, <2>2, <2>4
    <2>7. UNCHANGED <<mem, live, freed>>
      BY <1>5 DEF Realloc
    <2>8. h \in Slots => InHeap(p, h)
      <3>1. h \in Slots => h # 0
        BY DEF Slots
      <3> QED BY <1>1, <3>1
    <2>9. Working(t)'
      BY <1>2, <2>4, <2>5, <2>6, <2>7, <2>8 DEF Working, InHeap, mem
    <2>10. {o.old, o.new} \subseteq {op[t].old, op[t].new, Null} \cup Mine
      BY <1>1, <2>4
    <2> QED BY <2>5, <2>7, <2>9, <2>10, OpStep
  <1> QED BY <1>1, <1>4, <1>5
-----------------------------------------------------------------------------
(* Heaps come and go.                                                      *)

(* The blocks there are do not meet an arena that a heap can be made of.   *)
LEMMA NewArena ==
    ASSUME HeapInv, NEW a \in Arenas, \A k \in Slots : ~Overlaps(a, heaps[k]), NEW b \in Blocks
    PROVE  b + word[b] <= a.base \/ a.base + a.size <= b
  <1>1. b \in Nat /\ word[b] \in Nat /\ word[b] > 0
    BY BlockFacts
  <1>2. PICK k \in Slots : heaps[k].size > 0 /\ Start(k) <= b /\ b + word[b] <= Top(k)
    BY BlockFacts DEF Within
  <1>3. /\ Start(k) \in Nat /\ Top(k) \in Nat /\ heaps[k].base \in Nat /\ heaps[k].size \in Nat
        /\ heaps[k].base <= Start(k) /\ Top(k) <= heaps[k].base + heaps[k].size
    BY <1>2, Edges DEF HeapInv
  <1>4. a.base \in Nat /\ a.size \in Nat
    BY Consts
  <1>5. a.base + a.size <= heaps[k].base \/ heaps[k].base + heaps[k].size <= a.base
    BY <1>2, <1>3, <1>4 DEF Overlaps
  <1> QED BY <1>1, <1>2, <1>3, <1>4, <1>5

LEMMA CreateStep ==
    ASSUME HeapInv, HeapCreate
    PROVE  HeapInv'
  <1>1. PICK a \in Arenas, h \in Slots :
          LET start == AlignUp(a.base)
              size == AlignDown((a.size - (start - a.base)) % Uint)
          IN /\ \A k \in Slots : ~Overlaps(a, heaps[k])
             /\ heaps[h].size = 0
             /\ size >= HeapMin
             /\ heaps' = [heaps EXCEPT ![h] =
                  [base |-> a.base, size |-> a.size, list |-> <<start>>, free |-> size]]
             /\ word' = With(word, start, size)
             /\ tag' = With(tag, start + size - 1, "free")
    BY DEF HeapCreate
  <1>2. PICK start \in Nat, size \in Nat :
          /\ start = AlignUp(a.base) /\ size = AlignDown((a.size - (start - a.base)) % Uint)
          /\ a.base <= start /\ start + size <= AlignDown(a.base + a.size)
    BY FirstBlock
  <1>3. PICK base \in Nat, all \in Nat : /\ base = a.base /\ all = a.size /\ all >= W
                                         /\ base + all <= Uint
    BY Consts
  <1>4. /\ heaps' = [heaps EXCEPT ![h] = [base |-> base, size |-> all, list |-> <<start>>, free |-> size]]
        /\ word' = With(word, start, size) /\ tag' = With(tag, start + size - 1, "free")
        /\ size >= HeapMin /\ heaps[h].size = 0 /\ \A k \in Slots : ~Overlaps(a, heaps[k])
    BY <1>1, <1>2, <1>3
  <1>5. UNCHANGED <<live, freed, op>>
    BY DEF HeapCreate
  <1>6. /\ base <= start /\ start + size <= AlignDown(base + all)
        /\ AlignDown(base + all) \in Nat /\ AlignDown(base + all) <= base + all
    <2>1. base + all \in Nat
      OBVIOUS
    <2> QED BY <1>2, <1>3, <2>1, RoundDown
  <1>7. size > 0
    BY <1>4, Consts
  <1>8. heaps \in [Slots -> Heap]
    BY DEF HeapInv, Shapes
  <1>9. heaps' \in [Slots -> Heap] /\ \A k \in Slots : k # h => heaps'[k] = heaps[k]
    BY <1>4, <1>8 DEF Heap
  <1>10. /\ heaps'[h].base = base /\ heaps'[h].size = all /\ heaps'[h].list = <<start>>
    BY <1>4, <1>8
  <1>11. /\ DOMAIN word' = DOMAIN word \cup {start} /\ word'[start] = size
         /\ \A b \in DOMAIN word : b # start => word'[b] = word[b]
    BY <1>4 DEF With
  <1>12. /\ DOMAIN tag' = DOMAIN tag \cup {start + size - 1} /\ tag' = [x \in DOMAIN tag' |-> tag'[x]]
         /\ \A x \in DOMAIN tag : tag[x] = "free" => tag'[x] = "free"
         /\ tag'[start + size - 1] = "free"
    BY <1>4 DEF With
  <1>13. \A k \in Slots : heaps[k].size > 0 =>
            \/ base + all <= heaps[k].base
            \/ heaps[k].base + heaps[k].size <= base
    <2> SUFFICES ASSUME NEW k \in Slots, heaps[k].size > 0
                 PROVE  base + all <= heaps[k].base \/ heaps[k].base + heaps[k].size <= base
      OBVIOUS
    <2>1. heaps[k].base \in Nat /\ heaps[k].size \in Nat
      BY <1>8 DEF Heap
    <2>2. ~Overlaps(a, heaps[k])
      BY <1>4
    <2> QED BY <1>3, <2>1, <2>2 DEF Overlaps
  (* What lies in a heap does not meet the new arena.                      *)
  <1>14. ASSUME NEW k \in Slots, heaps[k].size > 0, NEW x \in Nat, Start(k) <= x, x < Top(k)
         PROVE  x < base \/ base + all <= x
    <2>1. /\ Start(k) \in Nat /\ Top(k) \in Nat /\ heaps[k].base \in Nat /\ heaps[k].size \in Nat
          /\ heaps[k].base <= Start(k) /\ Top(k) <= heaps[k].base + heaps[k].size
      BY <1>14, Edges DEF HeapInv
    <2> QED BY <1>13, <1>14, <2>1
  <1>15. \A b \in Blocks : b + word[b] <= base \/ base + all <= b
    BY <1>3, <1>4, NewArena
  <1>16. \A b \in Blocks : b # start /\ word'[b] = word[b] /\ b \in DOMAIN word'
    <2> SUFFICES ASSUME NEW b \in Blocks PROVE b # start /\ word'[b] = word[b] /\ b \in DOMAIN word'
      OBVIOUS
    <2>1. b \in Nat /\ word[b] \in Nat /\ word[b] > 0 /\ b \in DOMAIN word
      BY BlockFacts
    <2>2. b # start
      BY <1>6, <1>7, <1>15, <2>1
    <2> QED BY <1>11, <2>1, <2>2
  <1>17. \A k \in Slots : heaps[k].size > 0 => k # h /\ Start(k)' = Start(k) /\ Top(k)' = Top(k)
    BY <1>4, <1>9 DEF Start, Top
  <1>18. Start(h)' = start /\ Top(h)' = AlignDown(base + all)
    BY <1>2, <1>3, <1>10 DEF Start, Top
  <1>19. heaps[h].list = <<>>
    BY <1>4 DEF HeapInv, ArenasApart
  <1>20. Shapes'
    <2>1. word' \in [DOMAIN word' -> Nat]
      BY <1>4 DEF With, HeapInv, Shapes
    <2> QED BY <1>5, <1>9, <1>12, <2>1 DEF HeapInv, Shapes
  <1>21. ArenasApart'
    <2>1. \A k \in Slots : /\ heaps'[k].base + heaps'[k].size <= Uint
                           /\ heaps'[k].size > 0 => heaps'[k].size >= W
                           /\ heaps'[k].size = 0 => heaps'[k].list = <<>>
      BY <1>3, <1>9, <1>10, Consts DEF HeapInv, ArenasApart
    <2>2. ASSUME NEW i \in Slots, NEW k \in Slots, i # k, heaps'[i].size > 0, heaps'[k].size > 0
          PROVE  \/ heaps'[i].base + heaps'[i].size <= heaps'[k].base
                 \/ heaps'[k].base + heaps'[k].size <= heaps'[i].base
      <3>1. CASE i = h
        BY <1>9, <1>10, <1>13, <2>2, <3>1
      <3>2. CASE k = h
        BY <1>9, <1>10, <1>13, <2>2, <3>2
      <3>3. CASE i # h /\ k # h
        BY <1>9, <2>2, <3>3 DEF HeapInv, ArenasApart
      <3> QED BY <3>1, <3>2, <3>3
    <2> QED BY <2>1, <2>2 DEF ArenasApart
  <1>22. Held' = Held /\ Frees' = Frees \cup {start}
    <2>1. Held' = Held
      BY <1>5 DEF Held
    <2>2. ToSet(heaps'[h].list) = {start} /\ ToSet(heaps[h].list) = {}
      BY <1>10, <1>19 DEF ToSet
    <2> QED BY <1>9, <2>1, <2>2 DEF Frees
  <1>23. FreeListed'
    <2>1. ASSUME NEW k \in Slots, NEW b \in ToSet(heaps'[k].list)
          PROVE  FreeBlock(b, k)'
      <3>1. CASE k = h
        <4>1. b = start
          BY <1>10, <2>1, <3>1 DEF ToSet
        <4>2. Within(word, b, h)'
          BY <1>3, <1>6, <1>10, <1>11, <1>18, <4>1, Consts DEF Within
        <4>3. Dog(b)' = start + size - 1
          BY <1>11, <4>1 DEF Dog
        <4> QED BY <1>7, <1>11, <1>12, <3>1, <4>1, <4>2, <4>3 DEF FreeBlock
      <3>2. CASE k # h
        <4>1. b \in ToSet(heaps[k].list)
          BY <1>9, <2>1, <3>2
        <4>2. b \in Blocks /\ FreeBlock(b, k)
          BY <4>1 DEF Blocks, Frees, HeapInv, FreeListed
        <4>3. word'[b] = word[b] /\ b \in DOMAIN word' /\ Dog(b)' = Dog(b)
          BY <1>16, <4>2 DEF Dog
        <4>4. Within(word, b, k)'
          BY <1>9, <1>17, <3>2, <4>2, <4>3 DEF Within, FreeBlock
        <4> QED BY <1>12, <4>2, <4>3, <4>4 DEF FreeBlock
      <3> QED BY <3>1, <3>2
    <2>2. ASSUME NEW k \in Slots, NEW i \in DOMAIN heaps'[k].list, NEW j \in DOMAIN heaps'[k].list,
                 heaps'[k].list[i] = heaps'[k].list[j]
          PROVE  i = j
      <3>1. CASE k = h
        BY <1>10, <2>2, <3>1
      <3>2. CASE k # h
        BY <1>9, <2>2, <3>2 DEF HeapInv, FreeListed
      <3> QED BY <3>1, <3>2
    <2> QED BY <2>1, <2>2 DEF FreeListed
  <1>24. HeldFits'
    <2> SUFFICES ASSUME NEW p \in DOMAIN live
                 PROVE  /\ Block(p) \in DOMAIN word' /\ Fits(live[p], word'[Block(p)])
                        /\ Dog(Block(p))' \in DOMAIN tag' /\ tag'[Dog(Block(p))'] = "use"
                        /\ \E k \in Slots : Within(word, Block(p), k)'
      BY <1>5 DEF HeldFits, Block, Dog
    <2>1. Block(p) \in Blocks
      BY DEF Blocks, Held
    <2>2. PICK b : b = Block(p)
      OBVIOUS
    <2>3. PICK k \in Slots : Within(word, b, k)
      BY <2>1, <2>2, BlockFacts
    <2>4. word'[b] = word[b] /\ b \in DOMAIN word'
      BY <1>16, <2>1, <2>2
    <2>5. Within(word, b, k)'
      BY <1>9, <1>17, <2>3, <2>4 DEF Within
    <2>6. Dog(b) \in DOMAIN tag /\ tag[Dog(b)] = "use" /\ Dog(b)' = Dog(b)
      BY <2>2, <2>4 DEF HeapInv, HeldFits, Dog
    <2>7. Dog(b) # start + size - 1
      <3>1. b \in Nat /\ word[b] \in Nat /\ word[b] > 0
        BY <2>1, <2>2, BlockFacts
      <3>2. b + word[b] <= base \/ base + all <= b
        BY <1>15, <2>1, <2>2
      <3> QED BY <1>6, <1>7, <3>1, <3>2 DEF Dog
    <2>8. Dog(b) \in DOMAIN tag' /\ tag'[Dog(b)] = "use"
      BY <1>4, <2>6, <2>7 DEF With
    <2> QED BY <2>2, <2>4, <2>5, <2>6, <2>8 DEF HeapInv, HeldFits, Block, Dog
  <1>25. BlocksApart'
    <2>1. Blocks' = Blocks \cup {start}
      BY <1>22 DEF Blocks
    <2>2. start \notin Blocks
      BY <1>16
    <2>3. \A b, c \in Blocks : b # c => b + word'[b] <= c \/ c + word'[c] <= b
      BY <1>16 DEF HeapInv, BlocksApart, AllApart
    <2>4. \A b \in Blocks : b + word'[b] <= start \/ start + word'[start] <= b
      <3> SUFFICES ASSUME NEW b \in Blocks PROVE b + word[b] <= start \/ start + size <= b
        BY <1>11, <1>16
      <3>1. b \in Nat /\ word[b] \in Nat
        BY BlockFacts
      <3>2. AlignDown(base + all) \in Nat
        BY RoundDown
      <3> QED BY <1>6, <1>15, <3>1, <3>2
    <2>5. AllApart(Blocks, word)'
      BY <2>1, <2>3, <2>4 DEF AllApart
    <2>6. Held' \cap Frees' = {}
      BY <1>22, <2>2 DEF HeapInv, BlocksApart, Blocks
    <2> QED BY <2>5, <2>6 DEF BlocksApart
  <1>26. ASSUME NEW t \in Tasks PROVE Working(t)'
    <2>1. Working(t) /\ op'[t] = op[t]
      BY <1>5 DEF HeapInv
    <2>2. \A k \in Slots, p \in Nat : InHeap(p, k) => InHeap(p, k)'
      <3>1. \A p \in Nat : ~InHeap(p, h)
        BY <1>4, <1>8 DEF InHeap, Heap
      <3> QED BY <1>9, <3>1 DEF InHeap
    <2>3. \A p \in DOMAIN live : p \in Nat /\ Block(p) \in Blocks
      BY DEF HeapInv, Shapes, Blocks, Held
    <2>4. \A p \in DOMAIN live : word'[Block(p)] = word[Block(p)]
      BY <1>16, <2>3
    <2> QED BY <1>5, <2>1, <2>2, <2>3, <2>4 DEF Working, Block
  <1>27. OwnPointers'
    BY <1>5 DEF HeapInv, OwnPointers
  <1>28. FreedSeen'
    <2> SUFFICES ASSUME freed # Null
                 PROVE  /\ Block(freed) \in DOMAIN word'
                        /\ Dog(Block(freed))' \in DOMAIN tag' /\ tag'[Dog(Block(freed))'] = "free"
                        /\ \E k \in Slots : /\ heaps'[k].size > 0
                                            /\ Start(k)' <= Block(freed) /\ Block(freed) < Top(k)'
      BY <1>5 DEF FreedSeen, Block, Dog
    <2>1. PICK b : b = Block(freed)
      OBVIOUS
    <2>2. b \in DOMAIN word /\ Dog(b) \in DOMAIN tag /\ tag[Dog(b)] = "free"
      BY <2>1 DEF HeapInv, FreedSeen
    <2>3. PICK k \in Slots : heaps[k].size > 0 /\ Start(k) <= b /\ b < Top(k)
      BY <2>1 DEF HeapInv, FreedSeen
    <2>4. b \in Nat
      <3>1. freed \in Nat
        BY DEF HeapInv, Shapes
      <3>2. Start(k) \in Nat
        BY <2>3, Edges DEF HeapInv
      <3> QED BY <2>1, <2>3, <3>1, <3>2, Consts DEF Block
    <2>5. b # start
      BY <1>6, <1>7, <1>14, <2>3, <2>4, RoundDown
    <2>6. b \in DOMAIN word' /\ word'[b] = word[b] /\ Dog(b)' = Dog(b)
      BY <1>11, <2>2, <2>5 DEF Dog
    <2>7. heaps'[k].size > 0 /\ Start(k)' <= b /\ b < Top(k)'
      BY <1>9, <1>17, <2>3
    <2>8. Dog(Block(freed))' = Dog(b)'
      BY <1>5, <2>1 DEF Block, Dog
    <2> QED BY <1>12, <2>1, <2>2, <2>6, <2>7, <2>8
  <1> QED BY <1>20, <1>21, <1>23, <1>24, <1>25, <1>26, <1>27, <1>28 DEF HeapInv
LEMMA DeleteStep ==
    ASSUME HeapInv, LostAlone, HeapDelete
    PROVE  HeapInv'
  <1>1. PICK h \in Slots : /\ heaps[h].size > 0 /\ \A p \in DOMAIN live \ lost : ~InHeap(p, h)
                           /\ heaps' = [heaps EXCEPT ![h] = NoHeap]
                           /\ live' = Restrict(live, {p \in DOMAIN live : ~InHeap(p, h)})
    BY DEF HeapDelete
  <1>2. UNCHANGED <<word, tag, op>> /\ freed' = Null
    BY DEF HeapDelete
  <1>a. /\ DOMAIN live' = {p \in DOMAIN live : ~InHeap(p, h)}
        /\ live' \in [DOMAIN live' -> Nat] /\ DOMAIN live' \subseteq Nat
        /\ \A p \in DOMAIN live' : live'[p] = live[p]
    BY <1>1 DEF Restrict, HeapInv, Shapes
  <1>3. heaps \in [Slots -> Heap]
    BY DEF HeapInv, Shapes
  <1>4. /\ heaps' \in [Slots -> Heap] /\ \A k \in Slots : k # h => heaps'[k] = heaps[k]
        /\ heaps'[h].base = 0 /\ heaps'[h].size = 0 /\ heaps'[h].list = <<>>
    BY <1>1, <1>3 DEF NoHeap, Heap
  <1>5. \A k \in Slots : k # h => Start(k)' = Start(k) /\ Top(k)' = Top(k)
    BY <1>4 DEF Start, Top
  <1>6. Shapes'
    BY <1>2, <1>4, <1>a DEF HeapInv, Shapes
  <1>7. ArenasApart'
    <2>1. 0 <= Uint
      BY Consts
    <2> QED BY <1>4, <2>1 DEF HeapInv, ArenasApart
  <1>8. FreeListed'
    <2>1. ASSUME NEW k \in Slots, NEW b \in ToSet(heaps'[k].list) PROVE FreeBlock(b, k)'
      <3>1. k # h
        BY <1>4, <2>1 DEF ToSet
      <3>2. FreeBlock(b, k)
        BY <1>4, <2>1, <3>1 DEF HeapInv, FreeListed
      <3> QED BY <1>2, <1>4, <1>5, <3>1, <3>2 DEF FreeBlock, Within, Dog
    <2>2. \A k \in Slots : \A i, j \in DOMAIN heaps'[k].list :
              heaps'[k].list[i] = heaps'[k].list[j] => i = j
      BY <1>4 DEF HeapInv, FreeListed
    <2> QED BY <2>1, <2>2 DEF FreeListed
  <1>9. HeldFits'
    <2> SUFFICES ASSUME NEW p \in DOMAIN live' PROVE \E k \in Slots : Within(word, Block(p), k)'
      BY <1>2, <1>a DEF HeapInv, HeldFits, Block, Dog
    <2>0. p \in DOMAIN live /\ ~InHeap(p, h)
      BY <1>a
    <2>1. PICK k \in Slots : Within(word, Block(p), k)
      BY <2>0 DEF HeapInv, HeldFits
    <2>2. k # h
      BY <2>0, <2>1, PointerInHeap
    <2> QED BY <1>2, <1>4, <1>5, <2>1, <2>2 DEF Within, Block
  <1>10. BlocksApart'
    <2>1. Held' \subseteq Held
      BY <1>a DEF Held, Block
    <2>2. ToSet(heaps'[h].list) = {}
      BY <1>4 DEF ToSet
    <2>3. Frees' \subseteq Frees
      BY <1>4, <2>2 DEF Frees
    <2>4. Blocks' \subseteq Blocks
      BY <2>1, <2>3 DEF Blocks
    <2>5. AllApart(Blocks', word)
      BY <2>4, FewerApart DEF HeapInv, BlocksApart
    <2> QED BY <1>2, <2>1, <2>3, <2>5 DEF HeapInv, BlocksApart
  <1>11. ASSUME NEW t \in Tasks PROVE Working(t)'
    <2>1. Working(t) /\ op'[t] = op[t] /\ word' = word
      BY <1>2 DEF HeapInv
    <2>2. \A p \in DOMAIN live : p \in {op[t].old, op[t].new} => p \in DOMAIN live' /\ ~InHeap(p, h)
      BY <1>1, <1>a DEF LostAlone
    <2>3. \A k \in Slots, p \in Nat : InHeap(p, k) /\ k # h => InHeap(p, k)'
      BY <1>4 DEF InHeap
    <2>4. \A p \in DOMAIN live : p \in Nat /\ p # Null
      BY Consts DEF HeapInv, Shapes
    <2> QED BY <2>1, <2>2, <2>3, <2>4 DEF Working, Block
  <1>12. OwnPointers' /\ FreedSeen'
    BY <1>2 DEF HeapInv, OwnPointers, FreedSeen
  <1> QED BY <1>6, <1>7, <1>8, <1>9, <1>10, <1>11, <1>12 DEF HeapInv

-----------------------------------------------------------------------------
(* Steps that change the blocks of one heap.                               *)

(* Lemma: a task goes on with what it works on if that keeps its blocks.   *)
LEMMA OthersKeep ==
    ASSUME HeapInv, NEW u \in Tasks, op'[u] = op[u],
           \A k \in Slots : heaps'[k].base = heaps[k].base /\ heaps'[k].size = heaps[k].size,
           {op[u].old, op[u].new} \subseteq DOMAIN live' \cup {Null},
           \A p \in DOMAIN live : p \in {op[u].old, op[u].new} => word'[Block(p)] = word[Block(p)]
    PROVE  Working(u)'
  <1>1. Working(u)
    BY DEF HeapInv
  <1>2. \A k \in Slots, p \in Nat : InHeap(p, k) => InHeap(p, k)'
    BY DEF InHeap
  <1>3. \A p \in DOMAIN live : p \in Nat /\ p # Null
    BY Consts DEF HeapInv, Shapes
  <1> QED BY <1>1, <1>2, <1>3 DEF Working, Block

(* What the lists, the sizes ws and the tags ts after a step must satisfy. *)
ListsNow(ws, ts) ==
    /\ heaps' \in [Slots -> Heap]
    /\ \A k \in Slots : /\ heaps'[k].base = heaps[k].base /\ heaps'[k].size = heaps[k].size
                        /\ heaps[k].size = 0 => heaps'[k].list = <<>>
                        /\ \A i, j \in DOMAIN heaps'[k].list :
                              heaps'[k].list[i] = heaps'[k].list[j] => i = j
                        /\ \A b \in ToSet(heaps'[k].list) :
                              Within(ws, b, k) /\ ts[b + ws[b] - 1] = "free"

HoldsNow(ws, ts) ==
    /\ live' \in [DOMAIN live' -> Nat] /\ DOMAIN live' \subseteq Nat
    /\ \A p \in DOMAIN live' : /\ Fits(live'[p], ws[Block(p)])
                              /\ ts[Block(p) + ws[Block(p)] - 1] = "use"
                              /\ \E k \in Slots : Within(ws, Block(p), k)

ApartNow(ws) ==
    /\ \A b \in Blocks' : ws[b] \in Nat /\ ws[b] > 0
    /\ AllApart(Blocks', ws) /\ Held' \cap Frees' = {}

FreedNow(ws, ts) ==
    /\ freed' \in Nat \cup {Null}
    /\ freed' # Null =>
          /\ ws[Block(freed')] \in Nat
          /\ ts[Block(freed') + ws[Block(freed')] - 1] = "free"
          /\ \E k \in Slots : /\ heaps[k].size > 0
                              /\ Start(k) <= Block(freed') /\ Block(freed') < Top(k)

(* Lemma: then the invariant is kept.                                      *)
LEMMA BlocksStep ==
    ASSUME HeapInv, NEW ws, NEW ts, Remember(ws, ts),
           ListsNow(ws, ts), HoldsNow(ws, ts), ApartNow(ws), FreedNow(ws, ts),
           op' \in [Tasks -> Op], \A t \in Tasks : Working(t)', OwnPointers'
    PROVE  HeapInv'
  <1> USE DEF ListsNow, HoldsNow, ApartNow, FreedNow
  <1>0. Starts' = Frees' \cup {Block(p) : p \in DOMAIN live' \cup ({freed'} \ {Null})}
    BY Zenon DEF Starts, Block
  <1>1. PICK starts : /\ starts = Frees' \cup {Block(p) : p \in DOMAIN live' \cup ({freed'} \ {Null})}
                      /\ word' = Restrict(ws, starts)
                      /\ tag' = Restrict(ts, {b + ws[b] - 1 : b \in starts})
    BY <1>0, Zenon DEF Remember
  <1>2. /\ DOMAIN word' = starts /\ word' = [b \in starts |-> ws[b]]
        /\ \A b \in starts : word'[b] = ws[b]
    BY <1>1 DEF Restrict
  <1>3. /\ DOMAIN tag' = {b + ws[b] - 1 : b \in starts} /\ tag' = [a \in DOMAIN tag' |-> tag'[a]]
        /\ \A b \in starts : b + ws[b] - 1 \in DOMAIN tag' /\ tag'[b + ws[b] - 1] = ts[b + ws[b] - 1]
    BY <1>1 DEF Restrict
  <1>4. /\ Frees' = UNION {ToSet(heaps'[k].list) : k \in Slots}
        /\ Held' = {Block(p) : p \in DOMAIN live'} /\ Blocks' = Held' \cup Frees'
    <2>1. Frees' = UNION {ToSet(heaps'[k].list) : k \in Slots}
      BY Zenon DEF Frees
    <2>2. Held' = {Block(p) : p \in DOMAIN live'}
      BY Zenon DEF Held, Block
    <2> QED BY <2>1, <2>2 DEF Blocks
  <1>5. /\ \A b \in Blocks' : b \in starts
        /\ \A b \in starts : b \in Blocks' \/ (freed' # Null /\ b = Block(freed'))
        /\ freed' # Null => Block(freed') \in starts
        /\ \A p \in DOMAIN live' : Block(p) \in starts
    BY <1>1, <1>4
  <1>6. \A b \in starts : ws[b] \in Nat
    BY <1>5
  <1>7. Shapes'
    <2>1. word' \in [DOMAIN word' -> Nat]
      BY <1>2, <1>6
    <2> QED BY <1>3, <2>1 DEF Shapes
  <1>8. \A k \in Slots : Start(k)' = Start(k) /\ Top(k)' = Top(k)
    BY DEF Start, Top
  <1>9. ArenasApart'
    BY DEF HeapInv, ArenasApart
  <1>10. \A b \in starts, k \in Slots : Within(ws, b, k) => Within(word, b, k)'
    BY <1>2, <1>8 DEF Within
  <1>11. FreeListed'
    <2>1. ASSUME NEW k \in Slots, NEW b \in ToSet(heaps'[k].list) PROVE FreeBlock(b, k)'
      <3>1. b \in Blocks' /\ b \in starts
        BY <1>4, <1>5
      <3>2. Within(ws, b, k) /\ ts[b + ws[b] - 1] = "free" /\ ws[b] > 0
        BY <3>1
      <3>3. Dog(b)' = b + ws[b] - 1
        BY <1>2, <3>1 DEF Dog
      <3> QED BY <1>2, <1>3, <1>10, <3>1, <3>2, <3>3 DEF FreeBlock
    <2> QED BY <2>1 DEF FreeListed
  <1>12. HeldFits'
    <2> SUFFICES ASSUME NEW p \in DOMAIN live'
                 PROVE  /\ Block(p) \in DOMAIN word' /\ Fits(live'[p], word'[Block(p)])
                        /\ Dog(Block(p))' \in DOMAIN tag' /\ tag'[Dog(Block(p))'] = "use"
                        /\ \E k \in Slots : Within(word, Block(p), k)'
      BY DEF HeldFits, Block, Dog
    <2>1. PICK b : b = Block(p)
      OBVIOUS
    <2>2. b \in starts
      BY <1>4, <1>5, <2>1
    <2>3. PICK k \in Slots : Within(ws, b, k)
      BY <2>1
    <2>4. Within(word, b, k)'
      BY <1>10, <2>2, <2>3
    <2>5. Dog(b)' = b + ws[b] - 1 /\ ts[b + ws[b] - 1] = "use"
      BY <1>2, <2>1, <2>2 DEF Dog
    <2>6. Dog(b)' \in DOMAIN tag' /\ tag'[Dog(b)'] = "use"
      BY <1>3, <2>2, <2>5
    <2> QED BY <1>2, <2>1, <2>2, <2>4, <2>6 DEF Block, Dog
  <1>13. BlocksApart'
    <2>1. AllApart(Blocks, word)'
      BY <1>2, <1>5 DEF AllApart
    <2> QED BY <2>1 DEF BlocksApart
  <1>14. FreedSeen'
    <2> SUFFICES ASSUME freed' # Null
                 PROVE  LET b == Block(freed')
                        IN /\ b \in DOMAIN word'
                           /\ b + word'[b] - 1 \in DOMAIN tag' /\ tag'[b + word'[b] - 1] = "free"
                           /\ \E k \in Slots : /\ heaps'[k].size > 0
                                               /\ Start(k)' <= b /\ b < Top(k)'
      BY DEF FreedSeen, Block, Dog
    <2>1. PICK b : b = Block(freed')
      OBVIOUS
    <2>2. b \in starts
      BY <1>5, <2>1
    <2>3. PICK k \in Slots : heaps[k].size > 0 /\ Start(k) <= b /\ b < Top(k)
      BY <2>1
    <2>4. ts[b + ws[b] - 1] = "free"
      BY <2>1
    <2> QED BY <1>2, <1>3, <1>8, <2>1, <2>2, <2>3, <2>4
  <1> QED BY <1>7, <1>9, <1>11, <1>12, <1>13, <1>14 DEF HeapInv
LEMMA ChosenFits ==
    ASSUME NEW list, NEW size, NEW i \in Chosen(list, size)
    PROVE  i \in DOMAIN list /\ word[list[i]] >= size
  BY DEF Chosen

(* Blocks that are apart have their tags at different places.              *)
LEMMA TagsApart ==
    ASSUME NEW B, NEW w, NEW b \in B, NEW c \in B, b # c, AllApart(B, w),
           b \in Nat, c \in Nat, w[b] \in Nat, w[c] \in Nat, w[b] > 0, w[c] > 0
    PROVE  b + w[b] - 1 # c + w[c] - 1
  <1>1. b + w[b] <= c \/ c + w[c] <= b
    BY DEF AllApart
  <1> QED BY <1>1

(* Sums over the blocks of a list.                                         *)
LEMMA ListFinite ==
    ASSUME NEW s \in Seq(Nat)
    PROVE  IsFiniteSet(ToSet(s))
  <1>1. DOMAIN s = 1..Len(s) /\ Len(s) \in Nat
    OBVIOUS
  <1>2. IsFiniteSet(1..Len(s))
    BY <1>1, FS_Interval
  <1>3. s \in Surjection(1..Len(s), ToSet(s))
    BY <1>1 DEF Surjection, ToSet
  <1> QED BY <1>2, <1>3, FS_Surjection

(* What mem_chunk_get takes, blk, is not held, large enough, inside the    *)
(* heap and apart from the other blocks; the list loses at most blk.       *)
TakesWell(h, i, size, blk, lst, ws, ts) ==
    /\ Taken(h, i, size) = [block |-> blk, list |-> lst, word |-> ws, tag |-> ts]
    /\ blk \notin Held /\ ToSet(lst) = ToSet(heaps[h].list) \ {blk}
    /\ \A j, l \in DOMAIN lst : lst[j] = lst[l] => j = l
    /\ \A b \in Held : ws[b] = word[b]
    /\ \A b \in Blocks \cup {blk} : ws[b] \in Nat /\ ws[b] > 0
    /\ ws[blk] >= size /\ Within(ws, blk, h)
    /\ \A b \in Held \cup {blk} : ts[b + ws[b] - 1] = "use"
    /\ \A k \in Slots : \A b \in ToSet(heaps[k].list) :
          Within(ws, b, k) /\ (b # blk => ts[b + ws[b] - 1] = "free")
    /\ AllApart(Blocks \cup {blk}, ws)
    /\ \A b \in Blocks : b \notin ToSet(heaps[h].list) => ws[b] = word[b]
    /\ SumFunctionOnSet(ws, ToSet(lst)) = SumFunctionOnSet(word, ToSet(heaps[h].list)) - ws[blk]

LEMMA TakenFits ==
    ASSUME HeapInv, NEW h \in Slots, NEW size \in Nat, size > W, NEW i \in DOMAIN heaps[h].list,
           word[heaps[h].list[i]] >= size
    PROVE  \E blk \in Nat, lst \in Seq(Nat) : \E ws, ts : TakesWell(h, i, size, blk, lst, ws, ts)
  <1>1. PICK list : list = heaps[h].list
    OBVIOUS
  <1>2. list \in Seq(Nat) /\ \A j, l \in DOMAIN list : list[j] = list[l] => j = l
    BY <1>1 DEF HeapInv, Shapes, Heap, FreeListed
  <1>3. PICK b \in Nat : b = list[i] /\ b \in ToSet(list) /\ b \in Frees /\ b \in Blocks /\ b \notin Held
    <2>1. list[i] \in ToSet(list) /\ list[i] \in Nat
      BY <1>1, <1>2 DEF ToSet
    <2>2. list[i] \in Frees
      BY <1>1, <2>1 DEF Frees
    <2> QED BY <2>1, <2>2 DEF Blocks, HeapInv, BlocksApart
  <1>4. /\ word[b] \in Nat /\ word[b] >= size /\ FreeBlock(b, h)
    BY <1>1, <1>3, BlockFacts DEF HeapInv, FreeListed
  <1>5. PICK rest \in Nat : rest = word[b] - size /\ word[b] = rest + size
    BY <1>4
  <1>6. \A x \in Blocks : x \in Nat /\ x \in DOMAIN word /\ word[x] \in Nat /\ word[x] > 0
    BY BlockFacts
  <1>7. AllApart(Blocks, word)
    BY DEF HeapInv, BlocksApart
  <1>8. \A k \in Slots : \A x \in ToSet(heaps[k].list) : x \in Blocks /\ FreeBlock(x, k)
    BY DEF HeapInv, FreeListed, Blocks, Frees
  <1>9. \A x \in Blocks : x # b => Dog(x) # Dog(b)
    BY <1>3, <1>6, <1>7, TagsApart DEF Dog
  <1>10. CASE rest >= HeapMin
    <2>1. PICK blk \in Nat : blk = b + rest
      OBVIOUS
    <2>2. rest > 0 /\ rest < word[b] /\ size > 0
      BY <1>4, <1>5, <1>10, Consts
    <2>17. size = word[b] - rest /\ blk + size = b + word[b] /\ b < blk /\ blk < b + word[b]
      <3>1. PICK w \in Nat : w = word[b]
        BY <1>4
      <3>2. w = rest + size /\ rest > 0 /\ size > 0
        BY <1>5, <2>2, <3>1
      <3>3. size = w - rest /\ blk + size = b + w /\ b < blk /\ blk < b + w
        BY <2>1, <3>2
      <3> QED BY <3>1, <3>3
    <2>3. PICK ws, ts : /\ ws = With(With(word, b, rest), blk, size)
                        /\ ts = With(With(tag, blk - 1, "free"), blk + size - 1, "use")
      OBVIOUS
    <2>4. Taken(h, i, size) = [block |-> blk, list |-> list, word |-> ws, tag |-> ts]
      <3>1. Taken(h, i, size) = [block |-> b + rest, list |-> list,
                                 word |-> With(With(word, b, rest), b + rest, size),
                                 tag |-> With(With(tag, b + rest - 1, "free"), b + rest + size - 1, "use")]
        BY <1>1, <1>3, <1>5, <1>10, Zenon DEF Taken
      <3> QED BY <2>1, <2>3, <3>1
    <2>5. b # blk
      BY <2>1, <2>2
    <2>6. ws[b] = rest /\ ws[blk] = size /\ \A x \in DOMAIN word : x # b /\ x # blk => ws[x] = word[x]
      BY <2>3, <2>5 DEF With
    <2>7. blk \notin Blocks
      <3>1. \A x \in Blocks : x # b => x + word[x] <= b \/ b + word[b] <= x
        BY <1>3, <1>7 DEF AllApart
      <3>2. \A x \in Blocks : x # b => x # blk
        BY <1>3, <1>6, <2>17, <3>1
      <3> QED BY <2>5, <3>2
    <2>8. \A x \in Blocks : x # b => ws[x] = word[x]
      BY <1>6, <2>6, <2>7
    <2>9. AllApart(Blocks \cup {blk}, ws)
      <3>1. ws[b] = rest /\ ws[b + rest] = word[b] - rest
        BY <2>1, <2>6, <2>17
      <3>2. \A x \in Blocks : x \in Int /\ word[x] \in Nat /\ word[x] > 0
        BY <1>6
      <3>3. PICK B, w : B = Blocks /\ w = word
        OBVIOUS
      <3>4. /\ b \in B /\ \A x \in B : x \in Int /\ w[x] \in Nat /\ w[x] > 0
            /\ AllApart(B, w) /\ 0 < rest /\ rest < w[b]
            /\ ws[b] = rest /\ ws[b + rest] = w[b] - rest /\ \A x \in B : x # b => ws[x] = w[x]
        BY <1>3, <1>7, <2>2, <2>8, <3>1, <3>2, <3>3
      <3>5. AllApart(B \cup {b + rest}, ws)
        BY <3>4, SplitApart
      <3> QED BY <2>1, <3>3, <3>5
    <2>10. \A x \in Blocks \cup {blk} : ws[x] \in Nat /\ ws[x] > 0
      BY <1>6, <2>2, <2>6, <2>8
    <2>11. \A x \in Held : ws[x] = word[x]
      BY <1>3, <2>8 DEF Blocks
    <2>12. heaps[h].size > 0 /\ Start(h) <= b /\ b + word[b] <= Top(h) /\ Start(h) \in Nat /\ Top(h) \in Nat
      <3>1. heaps[h].size > 0 /\ Start(h) <= b /\ b + word[b] <= Top(h)
        BY <1>4 DEF FreeBlock, Within
      <3> QED BY <3>1, Edges DEF HeapInv
    <2>13. Within(ws, blk, h) /\ Within(ws, b, h)
      BY <1>4, <2>2, <2>6, <2>12, <2>17 DEF Within
    <2>14. ASSUME NEW k \in Slots, NEW x \in ToSet(heaps[k].list)
           PROVE  Within(ws, x, k) /\ (x # blk => ts[x + ws[x] - 1] = "free")
      <3>1. x \in Blocks /\ FreeBlock(x, k)
        BY <1>8, <2>14
      <3>2. CASE x = b
        <4>1. x + ws[x] - 1 = blk - 1 /\ blk - 1 # blk + size - 1
          BY <2>1, <2>2, <2>6, <3>2
        <4>2. ts[x + ws[x] - 1] = "free"
          BY <2>3, <4>1 DEF With
        <4>3. ws[x] <= word[x] /\ ws[x] \in Nat /\ word[x] \in Nat
          BY <1>4, <2>2, <2>6, <3>2
        <4>4. heaps[k].size > 0 /\ Start(k) <= x /\ x + word[x] <= Top(k) /\ Top(k) \in Nat
          <5>1. heaps[k].size > 0 /\ Start(k) <= x /\ x + word[x] <= Top(k)
            BY <3>1 DEF FreeBlock, Within
          <5> QED BY <5>1, Edges DEF HeapInv
        <4> QED BY <3>2, <4>2, <4>3, <4>4 DEF Within
      <3>3. CASE x # b
        <4>1. ws[x] = word[x] /\ x + ws[x] - 1 = Dog(x)
          BY <2>8, <3>1, <3>3 DEF Dog
        <4>2. Dog(b) = blk + size - 1
          BY <1>4, <2>17 DEF Dog
        <4>3. Dog(x) # blk + size - 1
          BY <1>9, <3>1, <3>3, <4>2
        <4>4. Dog(x) \in DOMAIN tag /\ tag[Dog(x)] = "free"
          BY <3>1 DEF FreeBlock
        <4>5. ts[Dog(x)] = "free"
          BY <2>3, <4>3, <4>4 DEF With
        <4> QED BY <3>1, <4>1, <4>5 DEF FreeBlock, Within
      <3> QED BY <3>2, <3>3
    <2>15. blk \notin Held /\ blk \notin ToSet(list)
      BY <1>1, <2>7 DEF Blocks, Frees
    <2>16. ToSet(list) = ToSet(heaps[h].list) \ {blk}
      BY <1>1, <2>15
    <2>18. ws[blk] >= size
      BY <2>6
    <2>19. \A x \in Held \cup {blk} : ts[x + ws[x] - 1] = "use"
      <3>1. ts[blk + ws[blk] - 1] = "use"
        BY <2>3, <2>6 DEF With
      <3>2. ASSUME NEW x \in Held PROVE ts[x + ws[x] - 1] = "use"
        <4>1. x \in Blocks /\ x # b /\ ws[x] = word[x] /\ x \in Nat /\ word[x] \in Nat /\ word[x] > 0
          BY <1>3, <1>6, <2>11, <3>2 DEF Blocks
        <4>2. x + word[x] <= b \/ b + word[b] <= x
          BY <1>3, <1>7, <4>1 DEF AllApart
        <4>3. x + word[x] - 1 # blk - 1
          BY <1>4, <2>17, <4>1, <4>2
        <4>4. x + word[x] - 1 \in DOMAIN tag /\ tag[x + word[x] - 1] = "use"
          BY DEF HeapInv, HeldFits, Held, Dog
        <4> QED BY <2>3, <4>1, <4>3, <4>4 DEF With
      <3> QED BY <3>1, <3>2
    <2>21. \A x \in Blocks : x \notin ToSet(heaps[h].list) => ws[x] = word[x]
      BY <1>1, <1>3, <2>8
    <2>22. SumFunctionOnSet(ws, ToSet(list)) = SumFunctionOnSet(word, ToSet(heaps[h].list)) - ws[blk]
      <3>1. PICK S : S = ToSet(list) /\ IsFiniteSet(S) /\ b \in S
        BY <1>2, <1>3, ListFinite
      <3>2. \A x \in S : x \in Blocks /\ word[x] \in Int
        BY <1>1, <1>6, <1>8, <3>1
      <3>3. ws[b] \in Int /\ \A x \in S : x # b => ws[x] = word[x]
        BY <2>6, <2>8, <3>2
      <3>w. PICK w : w = word
        OBVIOUS
      <3>4. /\ SumFunctionOnSet(ws, S) = (SumFunctionOnSet(w, S) - w[b]) + ws[b]
            /\ SumFunctionOnSet(w, S) \in Int
        <4>1. IntsOn(w, S) /\ b \in S /\ SameBut(ws, w, S, b)
          BY <3>1, <3>2, <3>3, <3>w DEF IntsOn, SameBut
        <4>2. SumMoves(ws, w, S, b)
          BY <4>1, SumChanged, Zenon
        <4> QED BY <4>2, Zenon DEF SumMoves
      <3>5. PICK s \in Int : s = SumFunctionOnSet(w, S)
        BY <3>4
      <3>6. (s - word[b]) + rest = s - size
        BY <1>4, <1>5, <3>5
      <3> QED BY <1>1, <2>6, <3>1, <3>4, <3>5, <3>6, <3>w
    <2>20. TakesWell(h, i, size, blk, list, ws, ts)
      BY <1>2, <2>4, <2>9, <2>10, <2>11, <2>13, <2>14, <2>15, <2>16, <2>18, <2>19, <2>21, <2>22,
         Zenon DEF TakesWell
    <2> QED BY <1>2, <2>20
  <1>11. CASE ~(rest >= HeapMin)
    <2>1. PICK lst \in Seq(Nat) : /\ lst = RemoveAt(list, i) /\ ToSet(lst) = ToSet(list) \ {b}
                                  /\ \A j, l \in DOMAIN lst : lst[j] = lst[l] => j = l
      <3>1. i \in 1..Len(list)
        BY <1>1, <1>2
      <3> QED BY <1>2, <1>3, <3>1, Removed
    <2>2. PICK ts : ts = With(tag, Dog(b), "use")
      OBVIOUS
    <2>3. Taken(h, i, size) = [block |-> b, list |-> lst, word |-> word, tag |-> ts]
      BY <1>1, <1>3, <1>5, <1>11, <2>1, <2>2 DEF Taken
    <2>4. Within(word, b, h)
      BY <1>4 DEF FreeBlock
    <2>5. ASSUME NEW k \in Slots, NEW x \in ToSet(heaps[k].list)
          PROVE  Within(word, x, k) /\ (x # b => ts[x + word[x] - 1] = "free")
      <3>1. x \in Blocks /\ FreeBlock(x, k)
        BY <1>8, <2>5
      <3>2. ASSUME x # b PROVE ts[Dog(x)] = "free"
        <4>1. Dog(x) # Dog(b) /\ Dog(x) \in DOMAIN tag /\ tag[Dog(x)] = "free"
          BY <1>9, <3>1, <3>2 DEF FreeBlock
        <4> QED BY <2>2, <4>1 DEF With
      <3> QED BY <3>1, <3>2 DEF FreeBlock, Dog
    <2>6. Blocks \cup {b} = Blocks
      BY <1>3
    <2>7. AllApart(Blocks \cup {b}, word)
      BY <1>7, <2>6
    <2>8. ToSet(lst) = ToSet(heaps[h].list) \ {b}
      BY <1>1, <2>1
    <2>9. \A x \in Blocks \cup {b} : word[x] \in Nat /\ word[x] > 0
      BY <1>6, <2>6
    <2>10. \A x \in Held \cup {b} : ts[x + word[x] - 1] = "use"
      <3>1. ts[b + word[b] - 1] = "use"
        BY <2>2 DEF With, Dog
      <3>2. \A x \in Held : x + word[x] - 1 \in DOMAIN tag /\ tag[x + word[x] - 1] = "use"
        BY DEF HeapInv, HeldFits, Held, Dog
      <3> QED BY <2>2, <3>1, <3>2 DEF With
    <2>12. SumFunctionOnSet(word, ToSet(lst)) = SumFunctionOnSet(word, ToSet(heaps[h].list)) - word[b]
      <3>1. PICK S : S = ToSet(list) /\ IsFiniteSet(S) /\ b \in S
        BY <1>2, <1>3, ListFinite
      <3>2. \A x \in S : word[x] \in Int
        BY <1>1, <1>6, <1>8, <3>1
      <3>w. PICK w : w = word
        OBVIOUS
      <3>3. /\ SumFunctionOnSet(w, S) = w[b] + SumFunctionOnSet(w, S \ {b})
            /\ SumFunctionOnSet(w, S \ {b}) \in Int
        <4>1. IntsOn(w, S) /\ b \in S
          BY <3>1, <3>2, <3>w DEF IntsOn
        <4>2. SumSplits(w, S, b)
          BY <4>1, SumWithout, Zenon
        <4> QED BY <4>2, Zenon DEF SumSplits
      <3>4. PICK s \in Int, m \in Int : s = SumFunctionOnSet(w, S \ {b}) /\ m = w[b]
        BY <1>4, <3>3, <3>w
      <3>5. s = (m + s) - m
        BY <3>4
      <3> QED BY <1>1, <2>1, <3>1, <3>3, <3>4, <3>5, <3>w
    <2>11. TakesWell(h, i, size, b, lst, word, ts)
      BY <1>3, <1>4, <2>1, <2>3, <2>4, <2>5, <2>7, <2>8, <2>9, <2>10, <2>12, Zenon DEF TakesWell
    <2> QED BY <2>1, <2>11
  <1> QED BY <1>10, <1>11

(* A block lies in one heap only.                                          *)
LEMMA OneHeap ==
    ASSUME HeapInv, NEW w, NEW b \in Nat, w[b] \in Nat, w[b] > 0,
           NEW h \in Slots, NEW k \in Slots, Within(w, b, h), Within(w, b, k)
    PROVE  h = k
  <1>1. PICK n \in Nat : n = w[b] /\ n > 0
    OBVIOUS
  <1>2. /\ heaps[h].size > 0 /\ Start(h) <= b /\ b + n <= Top(h)
        /\ heaps[k].size > 0 /\ Start(k) <= b /\ b + n <= Top(k)
    BY <1>1 DEF Within
  <1>3. /\ Start(h) \in Nat /\ Top(h) \in Nat /\ heaps[h].base \in Nat /\ heaps[h].size \in Nat
        /\ heaps[h].base <= Start(h) /\ Top(h) <= heaps[h].base + heaps[h].size
    BY <1>2, Edges DEF HeapInv
  <1>4. /\ Start(k) \in Nat /\ Top(k) \in Nat /\ heaps[k].base \in Nat /\ heaps[k].size \in Nat
        /\ heaps[k].base <= Start(k) /\ Top(k) <= heaps[k].base + heaps[k].size
    BY <1>2, Edges DEF HeapInv
  <1>5. h # k => \/ heaps[h].base + heaps[h].size <= heaps[k].base
                 \/ heaps[k].base + heaps[k].size <= heaps[h].base
    BY <1>2 DEF HeapInv, ArenasApart
  <1> QED BY <1>1, <1>2, <1>3, <1>4, <1>5

(* The words of the blocks that are held are remembered.                   *)
LEMMA HeldWords ==
    ASSUME NEW ws, NEW ts, Remember(ws, ts), NEW p \in DOMAIN live'
    PROVE  word'[Block(p)] = ws[Block(p)]
  <1>1. Starts' = Frees' \cup {Block(q) : q \in DOMAIN live' \cup ({freed'} \ {Null})}
    BY Zenon DEF Starts, Block
  <1>2. Block(p) \in Starts'
    BY <1>1
  <1>3. word' = Restrict(ws, Starts')
    BY Zenon DEF Remember
  <1> QED BY <1>2, <1>3 DEF Restrict

(* Tasks work on what is held.                                             *)
LEMMA WorkHeld ==
    ASSUME HeapInv, NEW u \in Tasks
    PROVE  {op[u].old, op[u].new} \subseteq DOMAIN live \cup {Null}
  BY DEF HeapInv, Working

(* How the set of free blocks follows the list of one heap.                *)
LEMMA FreesNow ==
    ASSUME NEW h \in Slots, \A k \in Slots : k # h => heaps'[k].list = heaps[k].list
    PROVE  /\ \A x : x \in Frees' => x \in ToSet(heaps'[h].list) \/ x \in Frees
           /\ \A x : x \in Frees' /\ x \notin ToSet(heaps'[h].list) =>
                 \E k \in Slots : k # h /\ x \in ToSet(heaps[k].list)
  <1>1. /\ Frees' = UNION {ToSet(heaps'[k].list) : k \in Slots}
        /\ Frees = UNION {ToSet(heaps[k].list) : k \in Slots}
    BY Zenon DEF Frees
  <1> QED BY <1>1

LEMMA AllocateStep ==
    ASSUME HeapInv, NEW t \in Tasks, Allocate(t)
    PROVE  HeapInv'
  <1>1. PICK h \in Slots, n \in Nat : h = op[t].slot /\ n = op[t].len /\ ~Refused(n) /\ op[t].pc = "get"
    BY DEF HeapInv, Shapes, Op, Working, Allocate
  <1>2. PICK size \in Nat : size = BlockSize(n) /\ size >= n + 1 + W /\ size > W
    <2>1. BlockSize(n) \in Nat /\ Clamp(n) \in Nat
      BY RoomInBlock
    <2>2. BlockSize(n) >= Clamp(n)
      BY <1>1, <2>1 DEF Refused, Overflows
    <2> QED BY <2>1, <2>2, RoomInBlock, Consts
  <1>3. PICK i \in Chosen(heaps[h].list, size) :
           LET got == Taken(h, i, size)
               took == got.word[got.block]
               ptr == got.block + W
           IN /\ heaps' = [heaps EXCEPT ![h].list = got.list, ![h].free = @ - took]
              /\ live' = With(live, ptr, n)
              /\ freed' = Null
              /\ Remember(got.word, got.tag)
              /\ op' = [op EXCEPT ![t] = IF op[t].old = Null THEN Idle
                                         ELSE [@ EXCEPT !.pc = "copy", !.new = ptr]]
    BY <1>1, <1>2 DEF Allocate
  <1>4. i \in DOMAIN heaps[h].list /\ word[heaps[h].list[i]] >= size
    BY ChosenFits
  <1>b. PICK blk \in Nat, lst \in Seq(Nat) : \E ws, ts : TakesWell(h, i, size, blk, lst, ws, ts)
    BY <1>2, <1>4, TakenFits
  <1>a. PICK ws, ts : TakesWell(h, i, size, blk, lst, ws, ts)
    BY <1>b
  <1>5. /\ Taken(h, i, size) = [block |-> blk, list |-> lst, word |-> ws, tag |-> ts]
        /\ blk \notin Held /\ ToSet(lst) = ToSet(heaps[h].list) \ {blk}
        /\ \A j, l \in DOMAIN lst : lst[j] = lst[l] => j = l
        /\ \A b \in Held : ws[b] = word[b]
        /\ \A b \in Blocks \cup {blk} : ws[b] \in Nat /\ ws[b] > 0
        /\ ws[blk] >= size /\ Within(ws, blk, h)
        /\ \A b \in Held \cup {blk} : ts[b + ws[b] - 1] = "use"
        /\ \A k \in Slots : \A b \in ToSet(heaps[k].list) :
              Within(ws, b, k) /\ (b # blk => ts[b + ws[b] - 1] = "free")
        /\ AllApart(Blocks \cup {blk}, ws)
    BY <1>a, Zenon DEF TakesWell
  <1>6. PICK ptr \in Nat : ptr = blk + W /\ Block(ptr) = blk
    BY Consts DEF Block
  <1>7. /\ heaps' = [heaps EXCEPT ![h].list = lst, ![h].free = @ - ws[blk]]
        /\ live' = With(live, ptr, n) /\ freed' = Null /\ Remember(ws, ts)
        /\ op' = [op EXCEPT ![t] = IF op[t].old = Null THEN Idle
                                   ELSE [@ EXCEPT !.pc = "copy", !.new = ptr]]
    BY <1>3, <1>5, <1>6
  <1>8. /\ heaps' \in [Slots -> Heap] /\ heaps'[h].list = lst
        /\ \A k \in Slots : /\ heaps'[k].base = heaps[k].base /\ heaps'[k].size = heaps[k].size
                            /\ k # h => heaps'[k].list = heaps[k].list
    <2>1. PICK f \in Int : f = heaps[h].free - ws[blk]
      <3>1. heaps[h].free \in Int /\ ws[blk] \in Int
        BY <1>5 DEF HeapInv, Shapes, Heap
      <3> QED BY <3>1
    <2>2. heaps' = [heaps EXCEPT ![h] = [heaps[h] EXCEPT !.list = lst, !.free = f]]
      BY <1>7, <2>1 DEF HeapInv, Shapes, Heap
    <2> QED BY <2>2 DEF HeapInv, Shapes, Heap
  <1>9. /\ DOMAIN live' = DOMAIN live \cup {ptr} /\ live' \in [DOMAIN live' -> Nat]
        /\ DOMAIN live' \subseteq Nat /\ live'[ptr] = n
        /\ \A p \in DOMAIN live : p # ptr /\ live'[p] = live[p]
    <2>1. live \in [DOMAIN live -> Nat] /\ DOMAIN live \subseteq Nat
      BY DEF HeapInv, Shapes
    <2>2. ptr \notin DOMAIN live
      BY <1>5, <1>6 DEF Held
    <2> QED BY <1>7, <2>1, <2>2 DEF With
  <1>10. Held' = Held \cup {blk}
    <2>1. Held' = {Block(p) : p \in DOMAIN live'}
      BY Zenon DEF Held, Block
    <2> QED BY <1>6, <1>9, <2>1 DEF Held
  <1>11. \A k \in Slots : \A b \in ToSet(heaps'[k].list) :
            b # blk /\ b \in ToSet(heaps[k].list)
    <2> SUFFICES ASSUME NEW k \in Slots, NEW b \in ToSet(heaps'[k].list)
                 PROVE  b # blk /\ b \in ToSet(heaps[k].list)
      OBVIOUS
    <2>1. CASE k = h
      BY <1>5, <1>8, <2>1
    <2>2. CASE k # h
      <3>1. b \in ToSet(heaps[k].list)
        BY <1>8, <2>2
      <3>2. Within(ws, b, k)
        BY <1>5, <3>1
      <3>3. ws[blk] \in Nat /\ ws[blk] > 0 /\ Within(ws, blk, h)
        BY <1>5
      <3>4. ASSUME b = blk PROVE FALSE
        <4>1. Within(ws, blk, k)
          BY <3>2, <3>4
        <4> QED BY <2>2, <3>3, <4>1, OneHeap
      <3> QED BY <3>1, <3>4
    <2> QED BY <2>1, <2>2
  <1>12. Frees' \subseteq Frees /\ blk \notin Frees'
    <2>1. /\ Frees' = UNION {ToSet(heaps'[k].list) : k \in Slots}
          /\ Frees = UNION {ToSet(heaps[k].list) : k \in Slots}
      BY Zenon DEF Frees
    <2> QED BY <1>11, <2>1
  <1>13. Blocks' \subseteq Blocks \cup {blk} /\ Held' \cap Frees' = {}
    BY <1>10, <1>12 DEF Blocks, HeapInv, BlocksApart
  <1>14. AllApart(Blocks', ws) /\ \A b \in Blocks' : ws[b] \in Nat /\ ws[b] > 0
    BY <1>5, <1>13 DEF AllApart
  <1>15. ASSUME NEW k \in Slots
         PROVE  /\ heaps[k].size = 0 => heaps'[k].list = <<>>
                /\ \A j, l \in DOMAIN heaps'[k].list : heaps'[k].list[j] = heaps'[k].list[l] => j = l
                /\ \A b \in ToSet(heaps'[k].list) : Within(ws, b, k) /\ ts[b + ws[b] - 1] = "free"
    <2>1. \A b \in ToSet(heaps'[k].list) : Within(ws, b, k) /\ ts[b + ws[b] - 1] = "free"
      BY <1>5, <1>11
    <2>2. CASE k = h
      BY <1>5, <1>8, <2>1, <2>2 DEF Within
    <2>3. CASE k # h
      BY <1>8, <2>1, <2>3 DEF HeapInv, FreeListed, ArenasApart
    <2> QED BY <2>2, <2>3
  <1>16. ASSUME NEW p \in DOMAIN live'
         PROVE  /\ Fits(live'[p], ws[Block(p)])
                /\ ts[Block(p) + ws[Block(p)] - 1] = "use"
                /\ \E k \in Slots : Within(ws, Block(p), k)
    <2>1. CASE p = ptr
      <3>1. Fits(n, ws[blk])
        BY <1>2, <1>5, Consts DEF Fits
      <3> QED BY <1>5, <1>6, <1>9, <2>1, <3>1
    <2>2. CASE p # ptr
      <3>1. p \in DOMAIN live /\ live'[p] = live[p] /\ Block(p) \in Held
        BY <1>9, <2>2 DEF Held
      <3>2. ws[Block(p)] = word[Block(p)]
        BY <1>5, <3>1
      <3>3. ts[Block(p) + ws[Block(p)] - 1] = "use"
        BY <1>5, <3>1
      <3> QED BY <3>1, <3>2, <3>3 DEF HeapInv, HeldFits, Within
    <2> QED BY <2>1, <2>2
  <1>17. \A p \in DOMAIN live : word'[Block(p)] = word[Block(p)]
    BY <1>5, <1>7, <1>9, HeldWords DEF Held
  <1>18. word'[blk] = ws[blk]
    <2>1. ptr \in DOMAIN live'
      BY <1>9
    <2>2. word'[Block(ptr)] = ws[Block(ptr)]
      BY <1>7, <2>1, HeldWords
    <2> QED BY <1>6, <2>2
  <1>19. PICK o \in Op : /\ op' = [op EXCEPT ![t] = o]
                         /\ \/ op[t].old = Null /\ o = Idle
                            \/ op[t].old # Null /\ o = [op[t] EXCEPT !.pc = "copy", !.new = ptr]
    <2>1. op[t] \in Op
      BY DEF HeapInv, Shapes
    <2>2. [op[t] EXCEPT !.pc = "copy", !.new = ptr] \in Op
      BY <2>1 DEF Op, Pcs
    <2> QED BY <1>7, <2>2, IdleOp
  <1>20. op' \in [Tasks -> Op] /\ op'[t] = o /\ \A u \in Tasks : u # t => op'[u] = op[u]
    BY <1>19 DEF HeapInv, Shapes
  <1>21. Working(t)'
    <2>1. CASE op[t].old = Null
      <3>1. op'[t].pc = "idle" /\ op'[t].old = Null /\ op'[t].new = Null
        BY <1>19, <1>20, <2>1, IdleOp
      <3> QED BY <3>1 DEF Working
    <2>2. CASE op[t].old # Null
      <3>1. /\ op'[t].pc = "copy" /\ op'[t].old = op[t].old /\ op'[t].new = ptr
            /\ op'[t].slot = h /\ op'[t].all = op[t].all
        BY <1>1, <1>19, <1>20, <2>2 DEF HeapInv, Shapes, Op
      <3>2. /\ op[t].old \in DOMAIN live /\ BlockSize(n) > word[Block(op[t].old)]
            /\ ~op[t].all => InHeap(op[t].old, h)
        BY <1>1, <2>2 DEF HeapInv, Working
      <3>3. InHeap(op[t].old, h) => InHeap(op[t].old, op[t].slot)'
        BY <1>8, <3>1 DEF InHeap
      <3>4. word[Block(op[t].old)] \in Nat
        BY <3>2 DEF HeapInv, HeldFits, Shapes
      <3>5. word'[Block(op[t].old)] < word'[blk]
        BY <1>2, <1>5, <1>17, <1>18, <3>2, <3>4
      <3>6. word'[Block(op'[t].old)] < word'[Block(op'[t].new)]
        BY <1>6, <3>1, <3>5
      <3>7. h > 0
        BY Consts DEF Slots
      <3> QED BY <1>9, <2>2, <3>1, <3>2, <3>3, <3>6, <3>7 DEF Working, Block, InHeap
    <2> QED BY <2>1, <2>2
  <1>22. ASSUME NEW u \in Tasks PROVE Working(u)'
    <2>1. CASE u # t
      <3>1. {op[u].old, op[u].new} \subseteq DOMAIN live' \cup {Null}
        BY <1>9, WorkHeld
      <3> QED BY <1>8, <1>17, <1>20, <2>1, <3>1, OthersKeep
    <2> QED BY <1>21, <2>1
  <1>23. {o.old, o.new} \subseteq {op[t].old, op[t].new, Null, ptr}
    BY <1>19, IdleOp DEF HeapInv, Shapes, Op
  <1>24. OwnPointers'
    <2> SUFFICES ASSUME NEW u \in Tasks, NEW v \in Tasks, u # v
                 PROVE {op'[u].old, op'[u].new} \cap {op'[v].old, op'[v].new} \subseteq {Null}
      BY DEF OwnPointers
    <2>1. {op[u].old, op[u].new} \cap {op[v].old, op[v].new} \subseteq {Null}
      BY DEF HeapInv, OwnPointers
    <2>2. /\ {op[u].old, op[u].new} \subseteq DOMAIN live \cup {Null}
          /\ {op[v].old, op[v].new} \subseteq DOMAIN live \cup {Null}
      BY WorkHeld
    <2>3. ptr \notin DOMAIN live
      BY <1>9
    <2>4. CASE u = t
      BY <1>20, <1>23, <2>1, <2>2, <2>3, <2>4
    <2>5. CASE v = t
      BY <1>20, <1>23, <2>1, <2>2, <2>3, <2>5
    <2>6. CASE u # t /\ v # t
      BY <1>20, <2>1, <2>6
    <2> QED BY <2>4, <2>5, <2>6
  <1>25. ListsNow(ws, ts)
    BY <1>8, <1>15 DEF ListsNow
  <1>26. HoldsNow(ws, ts) /\ ApartNow(ws) /\ FreedNow(ws, ts)
    BY <1>7, <1>9, <1>13, <1>14, <1>16 DEF HoldsNow, ApartNow, FreedNow
  <1> QED BY <1>7, <1>20, <1>22, <1>24, <1>25, <1>26, BlocksStep

(* What is handed out was nobody's.                                        *)
LEMMA TakenFree ==
    ASSUME HeapInv, NEW t \in Tasks, Allocate(t)
    PROVE  \E blk \in Nat, n \in Nat : /\ blk \notin Held /\ live' = With(live, blk + W, n)
              /\ op' = [op EXCEPT ![t] = IF op[t].old = Null THEN Idle
                                         ELSE [@ EXCEPT !.pc = "copy", !.new = blk + W]]
  <1>1. PICK h \in Slots, n \in Nat : h = op[t].slot /\ n = op[t].len /\ ~Refused(n)
    BY DEF HeapInv, Shapes, Op, Working, Allocate
  <1>2. PICK size \in Nat : size = BlockSize(n) /\ size > W
    <2>1. BlockSize(n) \in Nat /\ Clamp(n) \in Nat
      BY RoomInBlock
    <2>2. BlockSize(n) >= Clamp(n)
      BY <1>1, <2>1 DEF Refused, Overflows
    <2> QED BY <2>1, <2>2, RoomInBlock, Consts
  <1>3. PICK i \in Chosen(heaps[h].list, size) :
           LET got == Taken(h, i, size)
               ptr == got.block + W
           IN /\ live' = With(live, ptr, n)
              /\ op' = [op EXCEPT ![t] = IF op[t].old = Null THEN Idle
                                         ELSE [@ EXCEPT !.pc = "copy", !.new = ptr]]
    BY <1>1, <1>2 DEF Allocate
  <1>4. i \in DOMAIN heaps[h].list /\ word[heaps[h].list[i]] >= size
    BY ChosenFits
  <1>5. PICK blk \in Nat, lst \in Seq(Nat) : \E ws, ts : TakesWell(h, i, size, blk, lst, ws, ts)
    BY <1>2, <1>4, TakenFits
  <1>6. PICK ws, ts : TakesWell(h, i, size, blk, lst, ws, ts)
    BY <1>5
  <1>7. /\ Taken(h, i, size) = [block |-> blk, list |-> lst, word |-> ws, tag |-> ts]
        /\ blk \notin Held
    BY <1>6, Zenon DEF TakesWell
  <1>8. Taken(h, i, size).block = blk
    BY <1>7
  <1>9. /\ live' = With(live, blk + W, n)
        /\ op' = [op EXCEPT ![t] = IF op[t].old = Null THEN Idle
                                   ELSE [op[t] EXCEPT !.pc = "copy", !.new = blk + W]]
    BY <1>3, <1>8, Zenon
  <1> QED BY <1>1, <1>5, <1>7, <1>9, Zenon

-----------------------------------------------------------------------------
(* MEM_Deallocate.                                                         *)

Tagged(b) == [tag EXCEPT ![Dog(b)] = "free"]

(* The blocks there are when heap h has the list lst and b is given back.  *)
Remaining(h, b, lst) == (Blocks \ (ToSet(heaps[h].list) \cup {b})) \cup ToSet(lst)

(* The list names free blocks of the heap, of sizes ws, that are apart     *)
(* from one another and from all others; only their sizes change.          *)
JoinsWell(h, k, b, lst, ws) ==
    /\ Joined(heaps[h].list, k, b) = [list |-> lst, word |-> ws]
    /\ \A i, j \in DOMAIN lst : lst[i] = lst[j] => i = j
    /\ ToSet(lst) \subseteq ToSet(heaps[h].list) \cup {b}
    /\ \A x \in Remaining(h, b, lst) : ws[x] \in Nat /\ ws[x] > 0
    /\ AllApart(Remaining(h, b, lst), ws)
    /\ \A x \in Remaining(h, b, lst) : x \notin ToSet(lst) => ws[x] = word[x]
    /\ \A x \in ToSet(lst) : Within(ws, x, h) /\ Tagged(b)[x + ws[x] - 1] = "free"
    /\ ws[b] \in Nat /\ Tagged(b)[b + ws[b] - 1] = "free"
    /\ SumFunctionOnSet(ws, ToSet(lst)) = SumFunctionOnSet(word, ToSet(heaps[h].list)) + word[b]

(* What is known of a block that is given back.                            *)
GivenBack(h, b) == b \in Held /\ Within(word, b, h)

LEMMA GivenFacts ==
    ASSUME HeapInv, NEW h \in Slots, NEW b, GivenBack(h, b)
    PROVE  /\ b \in Blocks /\ b \in Nat /\ b \in DOMAIN word /\ word[b] \in Nat /\ word[b] > 0
           /\ heaps[h].list \in Seq(Nat) /\ b \notin ToSet(heaps[h].list)
           /\ \A i, j \in DOMAIN heaps[h].list : heaps[h].list[i] = heaps[h].list[j] => i = j
           /\ heaps[h].size > 0 /\ Start(h) \in Nat /\ Top(h) \in Nat
           /\ Start(h) <= b /\ b + word[b] <= Top(h)
           /\ Dog(b) \in DOMAIN tag /\ Tagged(b)[Dog(b)] = "free"
           /\ \A x \in DOMAIN tag : tag[x] = "free" => Tagged(b)[x] = "free"
  <1>1. b \in Blocks /\ b \in Held
    BY DEF GivenBack, Blocks
  <1>2. b \in Nat /\ b \in DOMAIN word /\ word[b] \in Nat /\ word[b] > 0
    BY <1>1, BlockFacts
  <1>3. /\ heaps[h].list \in Seq(Nat)
        /\ \A i, j \in DOMAIN heaps[h].list : heaps[h].list[i] = heaps[h].list[j] => i = j
    BY DEF HeapInv, Shapes, Heap, FreeListed
  <1>4. b \notin ToSet(heaps[h].list)
    BY <1>1 DEF HeapInv, BlocksApart, Frees
  <1>5. heaps[h].size > 0 /\ Start(h) <= b /\ b + word[b] <= Top(h)
    BY DEF GivenBack, Within
  <1>6. Start(h) \in Nat /\ Top(h) \in Nat
    BY <1>5, Edges DEF HeapInv
  <1>7. Dog(b) \in DOMAIN tag
    BY <1>1 DEF Held, HeapInv, HeldFits
  <1>8. \A x \in DOMAIN tag : Tagged(b)[x] = IF x = Dog(b) THEN "free" ELSE tag[x]
    BY DEF Tagged
  <1> QED BY <1>1, <1>2, <1>3, <1>4, <1>5, <1>6, <1>7, <1>8

(* The blocks of the list.                                                 *)
LEMMA Listed ==
    ASSUME HeapInv, NEW h \in Slots, NEW x \in ToSet(heaps[h].list)
    PROVE  /\ x \in Blocks /\ x \in Nat /\ x \in DOMAIN word /\ word[x] \in Nat /\ word[x] > 0
           /\ Within(word, x, h) /\ Start(h) <= x /\ x + word[x] <= Top(h)
           /\ Dog(x) \in DOMAIN tag /\ tag[Dog(x)] = "free"
  <1>1. x \in Blocks /\ FreeBlock(x, h)
    BY DEF Blocks, Frees, HeapInv, FreeListed
  <1> QED BY <1>1, BlockFacts DEF FreeBlock, Within

(* Lemma: it is enough to look at the block that changes its size.         *)
LEMMA JoinCheck ==
    ASSUME HeapInv, NEW h \in Slots, NEW b, GivenBack(h, b), NEW k,
           NEW lst \in Seq(Nat), NEW cur, NEW sz \in Nat, sz > 0, NEW ws, ws = With(word, cur, sz),
           Joined(heaps[h].list, k, b) = [list |-> lst, word |-> ws],
           \A i, j \in DOMAIN lst : lst[i] = lst[j] => i = j,
           ToSet(lst) \subseteq ToSet(heaps[h].list) \cup {b}, cur \in ToSet(lst),
           b # cur => b \notin ToSet(lst),
           AllApart(Remaining(h, b, lst), ws),
           Start(h) <= cur, cur + sz <= Top(h), Tagged(b)[cur + sz - 1] = "free",
           SumFunctionOnSet(ws, ToSet(lst)) = SumFunctionOnSet(word, ToSet(heaps[h].list)) + word[b]
    PROVE  JoinsWell(h, k, b, lst, ws)
  <1>1. ws[cur] = sz /\ \A x \in DOMAIN word : x # cur => ws[x] = word[x]
    BY DEF With
  <1>2. Remaining(h, b, lst) \subseteq Blocks
    <2>1. ToSet(heaps[h].list) \subseteq Blocks /\ b \in Blocks
      BY Listed, GivenFacts
    <2> QED BY <2>1 DEF Remaining
  <1>3. \A x \in Blocks : x \in DOMAIN word /\ word[x] \in Nat /\ word[x] > 0
    BY BlockFacts
  <1>4. \A x \in Remaining(h, b, lst) : ws[x] \in Nat /\ ws[x] > 0
    BY <1>1, <1>2, <1>3
  <1>5. \A x \in Remaining(h, b, lst) : x \notin ToSet(lst) => ws[x] = word[x]
    BY <1>1, <1>2, <1>3
  <1>6. ASSUME NEW x \in ToSet(lst)
        PROVE  Within(ws, x, h) /\ Tagged(b)[x + ws[x] - 1] = "free"
    <2>1. CASE x = cur
      <3>1. heaps[h].size > 0
        BY GivenFacts
      <3> QED BY <1>1, <2>1, <3>1 DEF Within
    <2>2. CASE x # cur
      <3>1. x \in ToSet(heaps[h].list)
        BY <1>6, <2>2
      <3>2. /\ x \in DOMAIN word /\ Within(word, x, h)
            /\ Dog(x) \in DOMAIN tag /\ tag[Dog(x)] = "free"
        BY <3>1, Listed
      <3>3. ws[x] = word[x] /\ x + ws[x] - 1 = Dog(x)
        BY <1>1, <2>2, <3>2 DEF Dog
      <3>4. Tagged(b)[Dog(x)] = "free"
        BY <3>2, GivenFacts
      <3> QED BY <3>2, <3>3, <3>4 DEF Within
    <2> QED BY <2>1, <2>2
  <1>7. ws[b] \in Nat /\ Tagged(b)[b + ws[b] - 1] = "free"
    <2>1. CASE b = cur
      BY <1>1, <2>1
    <2>2. CASE b # cur
      <3>1. b \in DOMAIN word /\ word[b] \in Nat /\ Tagged(b)[Dog(b)] = "free"
        BY GivenFacts
      <3>2. ws[b] = word[b] /\ b + ws[b] - 1 = Dog(b)
        BY <1>1, <2>2, <3>1 DEF Dog
      <3> QED BY <3>1, <3>2
    <2> QED BY <2>1, <2>2
  <1> QED BY <1>4, <1>5, <1>6, <1>7, Zenon DEF JoinsWell

(* Joining two blocks that touch.                                          *)
LEMMA JoinTwo ==
    ASSUME NEW B, NEW w, NEW c \in B, NEW n \in B, c # n, n # c,
           \A x \in B : x \in Nat /\ x \in DOMAIN w /\ w[x] \in Nat /\ w[x] > 0,
           AllApart(B, w), c + w[c] = n, NEW v, v = With(w, c, w[c] + w[n])
    PROVE  /\ AllApart(B \ {n}, v) /\ v[c] = w[c] + w[n]
           /\ \A x \in B \ {n} : x \in Nat /\ x \in DOMAIN v /\ v[x] \in Nat /\ v[x] > 0
  <1>1. v[c] = w[c] + w[n] /\ \A x \in B : x # c => v[x] = w[x]
    BY DEF With
  <1>2. DOMAIN v = DOMAIN w \cup {c}
    BY DEF With
  <1>3. v[c] \in Nat /\ v[c] > 0
    BY <1>1
  <1>4. \A x \in B : x \in Int /\ w[x] \in Nat /\ w[x] > 0
    OBVIOUS
  <1>5. \A x \in B \ {c, n} : v[x] = w[x]
    BY <1>1
  <1>6. AllApart(B \ {n}, v)
    BY <1>1, <1>4, <1>5, JoinApart
  <1> QED BY <1>1, <1>2, <1>3, <1>6

LEMMA WithTwice ==
    ASSUME NEW f, NEW a, NEW u, NEW v
    PROVE  With(With(f, a, u), a, v) = With(f, a, v)
  <1>1. DOMAIN With(f, a, u) = DOMAIN f \cup {a} /\ \A x \in DOMAIN f : x # a => With(f, a, u)[x] = f[x]
    BY DEF With
  <1> QED BY <1>1 DEF With

(* Lemma: the list and the sizes MEM_Deallocate leaves are right, whether  *)
(* the block is joined with the one before, the one after, both or none.   *)
LEMMA JoinedFits ==
    ASSUME HeapInv, NEW h \in Slots, NEW b, GivenBack(h, b), NEW k \in 0..Len(heaps[h].list)
    PROVE  \E lst \in Seq(Nat) : \E ws : JoinsWell(h, k, b, lst, ws)
  <1>1. PICK L \in Seq(Nat) : /\ L = heaps[h].list /\ b \notin ToSet(L)
                              /\ \A i, j \in DOMAIN L : L[i] = L[j] => i = j
    BY GivenFacts
  <1>2. PICK m \in Nat : m = word[b] /\ m > 0
    BY GivenFacts
  <1>3. /\ b \in Blocks /\ b \in Nat /\ Start(h) \in Nat /\ Top(h) \in Nat
        /\ Start(h) <= b /\ b + m <= Top(h)
    BY <1>2, GivenFacts
  <1>4. \A x \in Blocks : x \in Nat /\ x \in DOMAIN word /\ word[x] \in Nat /\ word[x] > 0
    BY BlockFacts
  <1>5. AllApart(Blocks, word)
    BY DEF HeapInv, BlocksApart
  <1>6. \A i \in 1..Len(L) : L[i] \in ToSet(L) /\ L[i] \in Nat /\ L[i] # b
    BY <1>1 DEF ToSet
  <1>7. k \in 0..Len(L) /\ k \in Nat /\ k + 1 \in Nat
    BY <1>1
  <1>8. PICK left \in BOOLEAN : left <=> k > 0 /\ L[k] + word[L[k]] = b
    OBVIOUS
  <1>9. PICK cur, size : /\ cur = IF left THEN L[k] ELSE b
                         /\ size = IF left THEN word[L[k]] + word[b] ELSE word[b]
    OBVIOUS
  <1>10. PICK right \in BOOLEAN : right <=> k < Len(L) /\ cur + size = L[k + 1]
    OBVIOUS
  <1>11. Joined(L, k, b) =
           [list |-> CASE left /\ right   -> RemoveAt(L, k + 1)
                       [] left /\ ~right  -> L
                       [] ~left /\ right  -> [L EXCEPT ![k + 1] = b]
                       [] ~left /\ ~right -> InsertAt(L, k + 1, b),
            word |-> With(word, cur, IF right THEN size + word[L[k + 1]] ELSE size)]
    <2>1. CASE left
      BY <1>8, <1>9, <1>10, <2>1 DEF Joined
    <2>2. CASE ~left
      BY <1>8, <1>9, <1>10, <2>2 DEF Joined
    <2> QED BY <2>1, <2>2
  (* The block before.                                                     *)
  <1>12. ASSUME left
         PROVE  /\ k \in 1..Len(L) /\ cur = L[k] /\ cur \in ToSet(L) /\ cur \in Blocks /\ cur # b
                /\ word[cur] \in Nat /\ word[cur] > 0 /\ cur + word[cur] = b
                /\ size = word[cur] + word[b] /\ size \in Nat /\ cur \in Nat
                /\ Start(h) <= cur /\ cur + size = b + m
    <2>1. k \in 1..Len(L) /\ cur = L[k] /\ cur + word[cur] = b /\ size = word[cur] + word[b]
      BY <1>7, <1>8, <1>9, <1>12
    <2>2. cur \in ToSet(L) /\ cur # b
      BY <1>6, <2>1
    <2>3. cur \in Blocks /\ word[cur] \in Nat /\ word[cur] > 0 /\ Start(h) <= cur /\ cur \in Nat
      BY <1>1, <2>2, Listed
    <2>4. PICK c \in Nat, wc \in Nat : c = cur /\ wc = word[cur]
      BY <2>3
    <2>5. c + wc = b /\ size = wc + m
      BY <1>2, <2>1, <2>4
    <2>6. size \in Nat /\ c + size = b + m
      BY <1>3, <2>5
    <2> QED BY <2>1, <2>2, <2>3, <2>4, <2>6
  <1>13. ASSUME ~left
         PROVE  cur = b /\ size = m /\ cur \in Nat /\ size \in Nat /\ Start(h) <= cur /\ cur + size = b + m
    BY <1>2, <1>3, <1>9, <1>13
  (* The block after.                                                      *)
  <1>14. ASSUME right
         PROVE  \E n \in Nat : /\ k + 1 \in 1..Len(L) /\ n = L[k + 1] /\ n \in ToSet(L) /\ n \in Blocks
                               /\ n # b /\ n # cur /\ word[n] \in Nat /\ word[n] > 0 /\ b + m = n
                               /\ n + word[n] <= Top(h) /\ Tagged(b)[Dog(n)] = "free"
    <2>1. k + 1 \in 1..Len(L) /\ cur + size = L[k + 1]
      BY <1>7, <1>10, <1>14
    <2>2. L[k + 1] \in ToSet(L) /\ L[k + 1] \in Nat /\ L[k + 1] # b
      BY <1>6, <2>1
    <2>3. PICK n \in Nat : n = L[k + 1] /\ n \in ToSet(L) /\ n # b /\ cur + size = n
      BY <2>1, <2>2
    <2>4. /\ n \in Blocks /\ word[n] \in Nat /\ word[n] > 0 /\ n + word[n] <= Top(h)
          /\ Dog(n) \in DOMAIN tag /\ tag[Dog(n)] = "free"
      BY <1>1, <2>3, Listed
    <2>5. Tagged(b)[Dog(n)] = "free"
      BY <2>4, GivenFacts
    <2>6. b + m = n /\ n # cur
      <3>1. CASE left
        <4>1. cur + size = b + m /\ cur \in Nat /\ cur + word[cur] = b /\ word[cur] \in Nat
          BY <1>12, <3>1
        <4>2. PICK c \in Nat, wc \in Nat : c = cur /\ wc = word[cur]
          BY <4>1
        <4>3. c + wc = b /\ b + m = n
          BY <2>3, <4>1, <4>2
        <4>4. n # c
          BY <1>2, <1>3, <4>3
        <4> QED BY <4>2, <4>3, <4>4
      <3>2. CASE ~left
        BY <1>13, <2>3, <3>2
      <3> QED BY <3>1, <3>2
    <2> QED BY <2>1, <2>3, <2>4, <2>5, <2>6
  <1>s. PICK S : /\ S = ToSet(L) /\ IsFiniteSet(S) /\ b \notin S
                 /\ \A x \in S : word[x] \in Nat /\ x \in DOMAIN word
    <2>1. IsFiniteSet(ToSet(L)) /\ \A x \in ToSet(L) : word[x] \in Nat /\ x \in DOMAIN word
      BY <1>1, ListFinite, Listed
    <2> QED BY <1>1, <2>1
  <1>15. CASE left /\ right
    <2>1. PICK n \in Nat : /\ k + 1 \in 1..Len(L) /\ n = L[k + 1] /\ n \in ToSet(L) /\ n \in Blocks
                           /\ n # b /\ n # cur /\ word[n] \in Nat /\ word[n] > 0 /\ b + m = n
                           /\ n + word[n] <= Top(h) /\ Tagged(b)[Dog(n)] = "free"
      BY <1>14, <1>15
    <2>2. /\ cur \in ToSet(L) /\ cur \in Blocks /\ cur # b /\ cur \in Nat
          /\ word[cur] \in Nat /\ word[cur] > 0 /\ cur + word[cur] = b
          /\ size = word[cur] + word[b] /\ size \in Nat /\ Start(h) <= cur /\ cur + size = b + m
      BY <1>12, <1>15
    <2>3. PICK sz \in Nat : sz = size + word[n] /\ sz > 0
      <3>1. PICK wn \in Nat, s \in Nat : wn = word[n] /\ s = size /\ wn > 0
        BY <2>1, <2>2
      <3>2. s + wn \in Nat /\ s + wn > 0
        BY <3>1
      <3> QED BY <3>1, <3>2
    <2>4. PICK lst \in Seq(Nat) : /\ lst = RemoveAt(L, k + 1) /\ ToSet(lst) = ToSet(L) \ {n}
                                  /\ \A i, j \in DOMAIN lst : lst[i] = lst[j] => i = j
      BY <1>1, <2>1, Removed
    <2>5. PICK v, ws : v = With(word, cur, size) /\ ws = With(word, cur, sz)
      OBVIOUS
    <2>6. Joined(L, k, b) = [list |-> lst, word |-> ws]
      BY <1>11, <1>15, <2>1, <2>3, <2>4, <2>5
    <2>7. PICK B : B = Blocks
      OBVIOUS
    <2>8. /\ AllApart(B \ {b}, v) /\ v[cur] = size
          /\ \A x \in B \ {b} : x \in Nat /\ x \in DOMAIN v /\ v[x] \in Nat /\ v[x] > 0
      <3>1. PICK w : w = word
        OBVIOUS
      <3>2. /\ \A x \in B : x \in Nat /\ x \in DOMAIN w /\ w[x] \in Nat /\ w[x] > 0
            /\ AllApart(B, w) /\ cur + w[cur] = b /\ v = With(w, cur, w[cur] + w[b])
            /\ cur \in B /\ b \in B /\ size = w[cur] + w[b]
        BY <1>3, <1>4, <1>5, <2>2, <2>5, <2>7, <3>1
      <3>3. AllApart(B \ {b}, v)
        BY <2>2, <3>2, JoinTwo
      <3>4. v[cur] = w[cur] + w[b]
        BY <3>2 DEF With
      <3>5. v[cur] \in Nat /\ v[cur] > 0
        BY <3>2, <3>4
      <3>6. \A x \in B : x # cur => v[x] = w[x] /\ x \in DOMAIN v
        BY <3>2 DEF With
      <3>7. cur \in DOMAIN v
        BY <3>2 DEF With
      <3> QED BY <2>2, <3>2, <3>3, <3>4, <3>5, <3>6, <3>7
    <2>9. v[n] = word[n] /\ ws = With(v, cur, v[cur] + v[n])
      <3>1. v[n] = word[n]
        BY <1>4, <2>1, <2>5 DEF With
      <3> QED BY <2>3, <2>5, <2>8, <3>1, WithTwice
    <2>10. AllApart((B \ {b}) \ {n}, ws)
      <3>1. PICK C : C = B \ {b}
        OBVIOUS
      <3>2. /\ cur \in C /\ n \in C /\ AllApart(C, v)
            /\ \A x \in C : x \in Nat /\ x \in DOMAIN v /\ v[x] \in Nat /\ v[x] > 0
        BY <2>1, <2>2, <2>7, <2>8, <3>1
      <3>3. cur + v[cur] = n
        BY <2>1, <2>2, <2>8
      <3>4. AllApart(C \ {n}, ws)
        BY <2>1, <2>9, <3>2, <3>3, JoinTwo
      <3> QED BY <3>1, <3>4
    <2>11. Remaining(h, b, lst) \subseteq (B \ {b}) \ {n}
      <3>1. ToSet(L) \subseteq Blocks
        BY <1>1, Listed
      <3> QED BY <1>1, <2>1, <2>4, <2>7, <3>1 DEF Remaining
    <2>12. AllApart(Remaining(h, b, lst), ws)
      BY <2>10, <2>11 DEF AllApart
    <2>13. cur + sz <= Top(h) /\ cur + sz - 1 = Dog(n)
      <3>1. PICK wn \in Nat : wn = word[n]
        BY <2>1
      <3>2. PICK c \in Nat, s \in Nat : c = cur /\ s = size
        BY <2>2
      <3>3. sz = s + wn /\ c + s = n /\ n + wn <= Top(h)
        BY <2>1, <2>2, <2>3, <3>1, <3>2
      <3>4. c + sz <= Top(h) /\ c + sz - 1 = n + wn - 1
        BY <1>3, <3>3
      <3> QED BY <3>1, <3>2, <3>4 DEF Dog
    <2>16. SumFunctionOnSet(ws, ToSet(lst)) = SumFunctionOnSet(word, ToSet(heaps[h].list)) + word[b]
      <3>1. PICK w : w = word
        OBVIOUS
      <3>2. IsFiniteSet(S \ {n}) /\ n \in S /\ cur \in S \ {n} /\ S \ {n} \subseteq S
        BY <1>s, <2>1, <2>2, FS_RemoveElement
      <3>3. PICK R : R = S \ {n} /\ IsFiniteSet(R) /\ cur \in R /\ \A x \in R : x \in S
        BY <3>2, Zenon
      <3>4. /\ SumFunctionOnSet(w, S) = w[n] + SumFunctionOnSet(w, R)
            /\ SumFunctionOnSet(w, R) \in Int
        <4>1. IntsOn(w, S) /\ n \in S
          BY <1>s, <3>1, <3>2 DEF IntsOn
        <4>2. SumSplits(w, S, n)
          BY <4>1, SumWithout, Zenon
        <4> QED BY <3>3, <4>2, Zenon DEF SumSplits
      <3>5. SumFunctionOnSet(ws, R) = (SumFunctionOnSet(w, R) - w[cur]) + sz
        <4>1. (\A x \in R : w[x] \in Int) /\ (\A x \in R : x # cur => ws[x] = w[x]) /\ ws[cur] = sz
          BY <1>s, <2>5, <3>1, <3>3 DEF With
        <4>2. IntsOn(w, R) /\ cur \in R /\ SameBut(ws, w, R, cur)
          BY <3>3, <4>1 DEF IntsOn, SameBut
        <4>3. SumMoves(ws, w, R, cur)
          BY <4>2, SumChanged, Zenon
        <4> QED BY <4>1, <4>3, Zenon DEF SumMoves
      <3>6. PICK r \in Int, c \in Int, e \in Int : r = SumFunctionOnSet(w, R) /\ c = w[cur] /\ e = w[n]
        <4>1. SumFunctionOnSet(w, R) \in Int /\ w[cur] \in Int /\ w[n] \in Int
          BY <2>1, <2>2, <3>1, <3>4
        <4> QED BY <4>1
      <3>7. sz = (c + m) + e
        BY <1>2, <2>2, <2>3, <3>1, <3>6
      <3>8. (r - c) + sz = (e + r) + m
        <4>1. m \in Int /\ r \in Int /\ c \in Int /\ e \in Int
          BY <1>2, <3>6
        <4>2. (r - c) + ((c + m) + e) = (e + r) + m
          BY <4>1
        <4> QED BY <3>7, <4>2
      <3>9. SumFunctionOnSet(ws, R) = SumFunctionOnSet(w, S) + m
        BY <3>4, <3>5, <3>6, <3>8
      <3> QED BY <1>1, <1>2, <1>s, <2>4, <3>1, <3>3, <3>9
    <2>14. JoinsWell(h, k, b, lst, ws)
      BY <1>1, <2>1, <2>2, <2>3, <2>4, <2>5, <2>6, <2>12, <2>13, <2>16, JoinCheck
    <2> QED BY <2>4, <2>14
  <1>16. CASE left /\ ~right
    <2>2. /\ cur \in ToSet(L) /\ cur \in Blocks /\ cur # b /\ cur \in Nat
          /\ word[cur] \in Nat /\ word[cur] > 0 /\ cur + word[cur] = b
          /\ size = word[cur] + word[b] /\ size \in Nat /\ Start(h) <= cur /\ cur + size = b + m
      BY <1>12, <1>16
    <2>3. size > 0
      BY <1>2, <2>2
    <2>5. PICK ws : ws = With(word, cur, size)
      OBVIOUS
    <2>6. Joined(L, k, b) = [list |-> L, word |-> ws]
      BY <1>11, <1>16, <2>5
    <2>7. PICK B : B = Blocks
      OBVIOUS
    <2>8. AllApart(B \ {b}, ws)
      BY <1>3, <1>4, <1>5, <2>2, <2>5, <2>7, JoinTwo
    <2>11. Remaining(h, b, L) \subseteq B \ {b}
      <3>1. ToSet(L) \subseteq Blocks
        BY <1>1, Listed
      <3> QED BY <1>1, <2>7, <3>1 DEF Remaining
    <2>12. AllApart(Remaining(h, b, L), ws)
      BY <2>8, <2>11 DEF AllApart
    <2>13. cur + size <= Top(h) /\ cur + size - 1 = Dog(b) /\ Tagged(b)[Dog(b)] = "free"
      <3>1. Tagged(b)[Dog(b)] = "free"
        BY GivenFacts
      <3>2. PICK c \in Nat, s \in Nat : c = cur /\ s = size
        BY <2>2
      <3>3. c + s = b + m
        BY <2>2, <3>2
      <3>4. c + s <= Top(h) /\ c + s - 1 = b + m - 1
        BY <1>3, <3>3
      <3> QED BY <1>2, <3>1, <3>2, <3>4 DEF Dog
    <2>16. SumFunctionOnSet(ws, ToSet(L)) = SumFunctionOnSet(word, ToSet(heaps[h].list)) + word[b]
      <3>1. PICK w : w = word
        OBVIOUS
      <3>5. /\ SumFunctionOnSet(ws, S) = (SumFunctionOnSet(w, S) - w[cur]) + ws[cur]
            /\ SumFunctionOnSet(w, S) \in Int /\ ws[cur] = size
        <4>1. (\A x \in S : w[x] \in Int) /\ (\A x \in S : x # cur => ws[x] = w[x]) /\ ws[cur] = size
          BY <1>s, <2>5, <3>1 DEF With
        <4>2. IntsOn(w, S) /\ cur \in S /\ SameBut(ws, w, S, cur)
          BY <1>s, <2>2, <4>1 DEF IntsOn, SameBut
        <4>3. SumMoves(ws, w, S, cur)
          BY <4>2, SumChanged, Zenon
        <4> QED BY <4>1, <4>3, Zenon DEF SumMoves
      <3>6. PICK r \in Int, c \in Int : r = SumFunctionOnSet(w, S) /\ c = w[cur]
        BY <2>2, <3>1, <3>5
      <3>7. size = c + m
        BY <1>2, <2>2, <3>1, <3>6
      <3>8. (r - c) + size = r + m
        BY <1>2, <3>6, <3>7
      <3> QED BY <1>1, <1>2, <1>s, <3>1, <3>5, <3>6, <3>8
    <2>14. JoinsWell(h, k, b, L, ws)
      BY <1>1, <2>2, <2>3, <2>5, <2>6, <2>12, <2>13, <2>16, JoinCheck
    <2> QED BY <2>14
  <1>17. CASE ~left /\ right
    <2>1. PICK n \in Nat : /\ k + 1 \in 1..Len(L) /\ n = L[k + 1] /\ n \in ToSet(L) /\ n \in Blocks
                           /\ n # b /\ n # cur /\ word[n] \in Nat /\ word[n] > 0 /\ b + m = n
                           /\ n + word[n] <= Top(h) /\ Tagged(b)[Dog(n)] = "free"
      BY <1>14, <1>17
    <2>2. cur = b /\ size = word[b]
      BY <1>2, <1>13, <1>17
    <2>3. PICK sz \in Nat : sz = word[b] + word[n] /\ sz > 0
      BY <1>2, <2>1
    <2>4. PICK lst \in Seq(Nat) : /\ lst = [L EXCEPT ![k + 1] = b] /\ ToSet(lst) = (ToSet(L) \ {n}) \cup {b}
                                  /\ \A i, j \in DOMAIN lst : lst[i] = lst[j] => i = j
      <3>1. PICK i \in 1..Len(L) : i = k + 1
        BY <2>1
      <3>2. PICK e \in Nat : e = b /\ e \notin ToSet(L)
        BY <1>1, <1>3
      <3>3. PICK lst \in Seq(Nat) : /\ lst = Put(L, i, e) /\ ToSet(lst) = (ToSet(L) \ {L[i]}) \cup {e}
                                    /\ \A j, l \in DOMAIN lst : lst[j] = lst[l] => j = l
        BY <1>1, <3>1, <3>2, Replaced
      <3> QED BY <2>1, <3>1, <3>2, <3>3 DEF Put
    <2>5. PICK ws : ws = With(word, b, sz)
      OBVIOUS
    <2>6. Joined(L, k, b) = [list |-> lst, word |-> ws]
      BY <1>11, <1>17, <2>1, <2>2, <2>3, <2>4, <2>5
    <2>7. PICK B : B = Blocks
      OBVIOUS
    <2>8. AllApart(B \ {n}, ws)
      BY <1>2, <1>3, <1>4, <1>5, <2>1, <2>3, <2>5, <2>7, JoinTwo
    <2>11. Remaining(h, b, lst) \subseteq B \ {n}
      <3>1. ToSet(L) \subseteq Blocks
        BY <1>1, Listed
      <3> QED BY <1>1, <1>3, <2>1, <2>4, <2>7, <3>1 DEF Remaining
    <2>12. AllApart(Remaining(h, b, lst), ws)
      BY <2>8, <2>11 DEF AllApart
    <2>13. b + sz <= Top(h) /\ b + sz - 1 = Dog(n)
      <3>1. PICK wn \in Nat : wn = word[n]
        BY <2>1
      <3>2. sz = m + wn /\ b + m = n /\ n + wn <= Top(h)
        BY <1>2, <2>1, <2>3, <3>1
      <3>3. b + sz <= Top(h) /\ b + sz - 1 = n + wn - 1
        BY <1>3, <3>2
      <3> QED BY <3>1, <3>3 DEF Dog
    <2>14. b \in ToSet(lst) /\ ToSet(lst) \subseteq ToSet(L) \cup {b}
      BY <2>4
    <2>16. SumFunctionOnSet(ws, ToSet(lst)) = SumFunctionOnSet(word, ToSet(heaps[h].list)) + word[b]
      <3>1. PICK w : w = word
        OBVIOUS
      <3>2. IsFiniteSet(S \ {n}) /\ n \in S /\ b \notin S \ {n} /\ S \ {n} \subseteq S
        BY <1>s, <2>1, FS_RemoveElement
      <3>3. PICK R : R = S \ {n} /\ IsFiniteSet(R) /\ b \notin R /\ \A x \in R : x \in S
        BY <3>2, Zenon
      <3>4. /\ SumFunctionOnSet(w, S) = w[n] + SumFunctionOnSet(w, R)
            /\ SumFunctionOnSet(w, R) \in Int
        <4>1. IntsOn(w, S) /\ n \in S
          BY <1>s, <3>1, <3>2 DEF IntsOn
        <4>2. SumSplits(w, S, n)
          BY <4>1, SumWithout, Zenon
        <4> QED BY <3>3, <4>2, Zenon DEF SumSplits
      <3>5. SumFunctionOnSet(ws, R) = SumFunctionOnSet(w, R) /\ ws[b] = sz /\ \A x \in R \cup {b} : ws[x] \in Int
        <4>1. (\A x \in R : w[x] \in Int) /\ (\A x \in R : ws[x] = w[x]) /\ ws[b] = sz
          BY <1>s, <2>5, <3>1, <3>3 DEF With
        <4>2. \A x \in R \cup {b} : ws[x] \in Int
          BY <4>1
        <4> QED BY <3>3, <4>1, <4>2, SumSame
      <3>6. SumFunctionOnSet(ws, R \cup {b}) = ws[b] + SumFunctionOnSet(ws, R)
        BY <3>3, <3>5, SumOfMore
      <3>7. PICK r \in Int, e \in Int : r = SumFunctionOnSet(w, R) /\ e = w[n]
        BY <2>1, <3>1, <3>4
      <3>8. sz + r = (e + r) + m
        BY <1>2, <2>3, <3>1, <3>7
      <3>9. SumFunctionOnSet(ws, R \cup {b}) = SumFunctionOnSet(w, S) + m
        BY <3>4, <3>5, <3>6, <3>7, <3>8
      <3> QED BY <1>1, <1>2, <1>s, <2>4, <3>1, <3>3, <3>9
    <2>15. JoinsWell(h, k, b, lst, ws)
      BY <1>1, <1>3, <2>1, <2>3, <2>4, <2>5, <2>6, <2>12, <2>13, <2>14, <2>16, JoinCheck
    <2> QED BY <2>4, <2>15
  <1>18. CASE ~left /\ ~right
    <2>2. cur = b /\ size = m
      BY <1>13, <1>18
    <2>4. PICK lst \in Seq(Nat) : /\ lst = InsertAt(L, k + 1, b) /\ ToSet(lst) = ToSet(L) \cup {b}
                                  /\ \A i, j \in DOMAIN lst : lst[i] = lst[j] => i = j
      BY <1>1, <1>3, <1>7, Inserted
    <2>5. PICK ws : ws = With(word, b, m)
      OBVIOUS
    <2>6. Joined(L, k, b) = [list |-> lst, word |-> ws]
      BY <1>11, <1>18, <2>2, <2>4, <2>5
    <2>8. \A x \in Blocks : ws[x] = word[x]
      BY <1>2, <1>4, <2>5 DEF With
    <2>11. Remaining(h, b, lst) \subseteq Blocks
      <3>1. ToSet(L) \subseteq Blocks
        BY <1>1, Listed
      <3> QED BY <1>1, <1>3, <2>4, <3>1 DEF Remaining
    <2>12. AllApart(Remaining(h, b, lst), ws)
      BY <1>5, <2>8, <2>11 DEF AllApart
    <2>13. b + m <= Top(h) /\ b + m - 1 = Dog(b) /\ Tagged(b)[Dog(b)] = "free"
      <3>1. Tagged(b)[Dog(b)] = "free"
        BY GivenFacts
      <3> QED BY <1>2, <1>3, <3>1 DEF Dog
    <2>14. b \in ToSet(lst) /\ ToSet(lst) \subseteq ToSet(L) \cup {b}
      BY <2>4
    <2>16. SumFunctionOnSet(ws, ToSet(lst)) = SumFunctionOnSet(word, ToSet(heaps[h].list)) + word[b]
      <3>1. PICK w : w = word
        OBVIOUS
      <3>2. /\ \A x \in S : w[x] \in Int /\ ws[x] = w[x]
            /\ ws[b] = m /\ \A x \in S \cup {b} : ws[x] \in Int
        BY <1>2, <1>s, <2>5, <3>1 DEF With
      <3>3. SumFunctionOnSet(ws, S) = SumFunctionOnSet(w, S) /\ SumFunctionOnSet(w, S) \in Int
        BY <1>s, <3>2, SumSame
      <3>4. SumFunctionOnSet(ws, S \cup {b}) = ws[b] + SumFunctionOnSet(ws, S)
        BY <1>s, <3>2, SumOfMore
      <3>5. PICK r \in Int : r = SumFunctionOnSet(w, S)
        BY <3>3
      <3>6. m + r = r + m
        BY <1>2
      <3> QED BY <1>1, <1>2, <1>s, <2>4, <3>1, <3>2, <3>3, <3>4, <3>5, <3>6
    <2>15. JoinsWell(h, k, b, lst, ws)
      BY <1>1, <1>2, <1>3, <2>4, <2>5, <2>6, <2>12, <2>13, <2>14, <2>16, JoinCheck
    <2> QED BY <2>4, <2>15
  <1> QED BY <1>15, <1>16, <1>17, <1>18

(* A pointer is inside the heap of its block, and inside no other.         *)
LEMMA OneOwner ==
    ASSUME HeapInv, NEW p \in Nat, NEW h \in Slots, NEW k \in Slots, InHeap(p, h), InHeap(p, k)
    PROVE  h = k /\ heaps[h].size > 0
  <1>1. /\ heaps[h].base \in Nat /\ heaps[h].size \in Nat /\ heaps[k].base \in Nat /\ heaps[k].size \in Nat
    BY DEF HeapInv, Shapes, Heap
  <1>2. /\ heaps[h].base < p /\ p < heaps[h].base + heaps[h].size
        /\ heaps[k].base < p /\ p < heaps[k].base + heaps[k].size
    BY <1>1 DEF InHeap
  <1>3. heaps[h].size > 0 /\ heaps[k].size > 0
    BY <1>1, <1>2
  <1>4. h # k => \/ heaps[h].base + heaps[h].size <= heaps[k].base
                 \/ heaps[k].base + heaps[k].size <= heaps[h].base
    BY <1>3 DEF HeapInv, ArenasApart
  <1> QED BY <1>1, <1>2, <1>3, <1>4

LEMMA DeallocateStep ==
    ASSUME HeapInv, NEW t \in Tasks, Deallocate(t)
    PROVE  HeapInv'
  <1>1. PICK h \in Slots, old \in Nat : /\ h = op[t].slot /\ old = op[t].old /\ old \in DOMAIN live
                                        /\ InHeap(old, h) /\ old # Null
    <2>1. op[t].pc = "put" /\ Working(t)
      BY DEF Deallocate, HeapInv
    <2>2. op[t].old \in DOMAIN live /\ op[t].slot \in Slots /\ InHeap(op[t].old, op[t].slot)
      BY <2>1 DEF Working
    <2> QED BY <2>2, Consts DEF HeapInv, Shapes
  <1>2. PICK b : b = Block(old) /\ b \in Held
    BY <1>1 DEF Held
  <1>3. GivenBack(h, b)
    <2>1. PICK k \in Slots : Within(word, b, k)
      BY <1>1, <1>2 DEF HeapInv, HeldFits
    <2>2. InHeap(old, k)
      BY <1>1, <1>2, <2>1, PointerInHeap
    <2>3. h = k
      BY <1>1, <2>2, OneOwner
    <2> QED BY <1>2, <2>1, <2>3 DEF GivenBack
  <1>4. PICK k \in 0..Len(heaps[h].list) :
           LET joined == Joined(heaps[h].list, k, b)
           IN /\ heaps' = [heaps EXCEPT ![h].list = joined.list, ![h].free = @ + word[b]]
              /\ live' = Restrict(live, DOMAIN live \ {old})
              /\ freed' = old
              /\ Remember(joined.word, Tagged(b))
    BY <1>1, <1>2 DEF Deallocate, Place, Tagged
  <1>a. PICK lst \in Seq(Nat) : \E ws : JoinsWell(h, k, b, lst, ws)
    BY <1>3, JoinedFits
  <1>5. PICK ws : JoinsWell(h, k, b, lst, ws)
    BY <1>a
  <1>6. /\ Joined(heaps[h].list, k, b) = [list |-> lst, word |-> ws]
        /\ \A i, j \in DOMAIN lst : lst[i] = lst[j] => i = j
        /\ ToSet(lst) \subseteq ToSet(heaps[h].list) \cup {b}
        /\ \A x \in Remaining(h, b, lst) : ws[x] \in Nat /\ ws[x] > 0
        /\ AllApart(Remaining(h, b, lst), ws)
        /\ \A x \in Remaining(h, b, lst) : x \notin ToSet(lst) => ws[x] = word[x]
        /\ \A x \in ToSet(lst) : Within(ws, x, h) /\ Tagged(b)[x + ws[x] - 1] = "free"
        /\ ws[b] \in Nat /\ Tagged(b)[b + ws[b] - 1] = "free"
    BY <1>5, Zenon DEF JoinsWell
  <1>7. PICK ts : ts = Tagged(b)
    OBVIOUS
  <1>8. /\ heaps' = [heaps EXCEPT ![h].list = lst, ![h].free = @ + word[b]]
        /\ live' = Restrict(live, DOMAIN live \ {old}) /\ freed' = old
        /\ Remember(ws, ts) /\ op' = [op EXCEPT ![t] = Idle]
    <2>1. PICK j : j = Joined(heaps[h].list, k, b)
      OBVIOUS
    <2>2. j.list = lst /\ j.word = ws
      BY <1>6, <2>1
    <2>3. op' = [op EXCEPT ![t] = Idle]
      BY DEF Deallocate
    <2>4. /\ heaps' = [heaps EXCEPT ![h].list = j.list, ![h].free = @ + word[b]]
          /\ live' = Restrict(live, DOMAIN live \ {old}) /\ freed' = old
          /\ Remember(j.word, ts)
      BY <1>4, <1>7, <2>1, Zenon
    <2> QED BY <2>2, <2>3, <2>4, Zenon
  <1>9. /\ b \in Blocks /\ b \in Nat /\ word[b] \in Nat /\ word[b] > 0 /\ heaps[h].size > 0
        /\ Start(h) \in Nat /\ Top(h) \in Nat /\ Start(h) <= b /\ b + word[b] <= Top(h)
        /\ b \notin ToSet(heaps[h].list)
        /\ \A x \in DOMAIN tag : tag[x] = "free" => Tagged(b)[x] = "free"
    BY <1>3, GivenFacts
  <1>10. /\ heaps' \in [Slots -> Heap] /\ heaps'[h].list = lst
         /\ \A i \in Slots : /\ heaps'[i].base = heaps[i].base /\ heaps'[i].size = heaps[i].size
                             /\ i # h => heaps'[i].list = heaps[i].list
    <2>1. PICK f \in Int : f = heaps[h].free + word[b]
      <3>1. heaps[h].free \in Int /\ word[b] \in Int
        BY <1>9 DEF HeapInv, Shapes, Heap
      <3> QED BY <3>1
    <2>2. heaps' = [heaps EXCEPT ![h] = [heaps[h] EXCEPT !.list = lst, !.free = f]]
      BY <1>8, <2>1 DEF HeapInv, Shapes, Heap
    <2> QED BY <2>2 DEF HeapInv, Shapes, Heap
  <1>11. /\ DOMAIN live' = DOMAIN live \ {old} /\ live' \in [DOMAIN live' -> Nat]
         /\ DOMAIN live' \subseteq Nat /\ \A p \in DOMAIN live' : p \in DOMAIN live /\ live'[p] = live[p]
    <2>1. live \in [DOMAIN live -> Nat] /\ DOMAIN live \subseteq Nat
      BY DEF HeapInv, Shapes
    <2> QED BY <1>8, <2>1 DEF Restrict
  <1>12. Held' = Held \ {b}
    <2>1. Held' = {Block(p) : p \in DOMAIN live'}
      BY Zenon DEF Held, Block
    <2>2. \A p \in DOMAIN live : Block(p) = b => p = old
      BY <1>1, <1>2, Consts DEF Block, HeapInv, Shapes
    <2> QED BY <1>2, <1>11, <2>1, <2>2 DEF Held
  (* The blocks of the other heaps.                                        *)
  <1>13. ASSUME NEW i \in Slots, i # h, NEW x \in ToSet(heaps[i].list)
         PROVE  x \in Blocks /\ x # b /\ x \notin ToSet(heaps[h].list)
    <2>1. x \in Blocks /\ x \in Nat /\ word[x] \in Nat /\ word[x] > 0 /\ Within(word, x, i)
      BY <1>13, Listed
    <2>2. x # b
      BY <1>3, <1>9, <1>13, <2>1, OneHeap DEF GivenBack
    <2>3. ASSUME x \in ToSet(heaps[h].list) PROVE FALSE
      <3>1. Within(word, x, h)
        BY <2>3, Listed
      <3> QED BY <1>13, <2>1, <3>1, OneHeap
    <2> QED BY <2>1, <2>2, <2>3
  <1>14. Frees' = (Frees \ ToSet(heaps[h].list)) \cup ToSet(lst)
    <2>1. /\ Frees' = UNION {ToSet(heaps'[i].list) : i \in Slots}
          /\ Frees = UNION {ToSet(heaps[i].list) : i \in Slots}
      BY Zenon DEF Frees
    <2>2. ASSUME NEW x \in Frees' PROVE x \in (Frees \ ToSet(heaps[h].list)) \cup ToSet(lst)
      <3>1. PICK i \in Slots : x \in ToSet(heaps'[i].list)
        BY <2>1, <2>2
      <3>2. CASE i = h
        BY <1>10, <3>1, <3>2
      <3>3. CASE i # h
        BY <1>10, <1>13, <2>1, <3>1, <3>3
      <3> QED BY <3>2, <3>3
    <2>3. ASSUME NEW x \in (Frees \ ToSet(heaps[h].list)) \cup ToSet(lst) PROVE x \in Frees'
      <3>1. CASE x \in ToSet(lst)
        BY <1>10, <2>1, <3>1
      <3>2. CASE x \notin ToSet(lst)
        <4>1. PICK i \in Slots : x \in ToSet(heaps[i].list) /\ i # h
          BY <2>1, <2>3, <3>2
        <4> QED BY <1>10, <2>1, <4>1
      <3> QED BY <3>1, <3>2
    <2> QED BY <2>2, <2>3
  <1>15. Held \cap Frees = {}
    BY DEF HeapInv, BlocksApart
  <1>16. ToSet(heaps[h].list) \subseteq Frees
    BY DEF Frees
  <1>17. Blocks' = Remaining(h, b, lst) /\ Held' \cap Frees' = {}
    <2>1. Held' \cap Frees' = {}
      BY <1>6, <1>12, <1>14, <1>15, <1>16
    <2>2. Blocks' = Held' \cup Frees' /\ Blocks = Held \cup Frees
      BY DEF Blocks
    <2>3. b \notin Frees
      BY <1>2, <1>15
    <2> QED BY <1>2, <1>12, <1>14, <1>15, <1>16, <2>1, <2>2, <2>3 DEF Remaining
  <1>18. ApartNow(ws)
    BY <1>6, <1>17 DEF ApartNow
  <1>19. \A x \in Held' : x \in Blocks /\ ws[x] = word[x] /\ x # b
    <2>1. \A x \in Held' : x \in Remaining(h, b, lst) /\ x \notin ToSet(lst) /\ x \in Held /\ x # b
      BY <1>6, <1>12, <1>15, <1>16, <1>17 DEF Blocks
    <2> QED BY <1>6, <2>1 DEF Blocks
  <1>20. ListsNow(ws, ts)
    <2>1. ASSUME NEW i \in Slots
          PROVE  /\ heaps[i].size = 0 => heaps'[i].list = <<>>
                 /\ \A j, l \in DOMAIN heaps'[i].list : heaps'[i].list[j] = heaps'[i].list[l] => j = l
                 /\ \A x \in ToSet(heaps'[i].list) : Within(ws, x, i) /\ ts[x + ws[x] - 1] = "free"
      <3>1. CASE i = h
        BY <1>6, <1>7, <1>9, <1>10, <3>1
      <3>2. CASE i # h
        <4>1. heaps'[i].list = heaps[i].list
          BY <1>10, <3>2
        <4>2. ASSUME NEW x \in ToSet(heaps[i].list)
              PROVE  Within(ws, x, i) /\ ts[x + ws[x] - 1] = "free"
          <5>1. x \in Blocks /\ x # b /\ x \notin ToSet(heaps[h].list)
            BY <1>13, <3>2
          <5>2. x \in Remaining(h, b, lst) /\ x \notin ToSet(lst)
            BY <1>6, <5>1 DEF Remaining
          <5>3. ws[x] = word[x]
            BY <1>6, <5>2
          <5>4. Within(word, x, i) /\ Dog(x) \in DOMAIN tag /\ tag[Dog(x)] = "free"
            BY Listed
          <5>5. x + ws[x] - 1 = Dog(x) /\ ts[Dog(x)] = "free"
            BY <1>7, <1>9, <5>3, <5>4 DEF Dog
          <5> QED BY <5>3, <5>4, <5>5 DEF Within
        <4> QED BY <4>1, <4>2 DEF HeapInv, FreeListed, ArenasApart
      <3> QED BY <3>1, <3>2
    <2> QED BY <1>10, <2>1 DEF ListsNow
  <1>21. HoldsNow(ws, ts)
    <2>1. ASSUME NEW p \in DOMAIN live'
          PROVE  /\ Fits(live'[p], ws[Block(p)]) /\ ts[Block(p) + ws[Block(p)] - 1] = "use"
                 /\ \E i \in Slots : Within(ws, Block(p), i)
      <3>1. p \in DOMAIN live /\ live'[p] = live[p]
        BY <1>11
      <3>2. PICK x : x = Block(p) /\ x \in Held'
        <4>1. Held' = {Block(q) : q \in DOMAIN live'}
          BY Zenon DEF Held, Block
        <4> QED BY <4>1
      <3>3. x \in Blocks /\ ws[x] = word[x] /\ x # b
        BY <1>19, <3>2
      <3>4. x \in Nat /\ word[x] \in Nat /\ word[x] > 0
        BY <3>3, BlockFacts
      <3>5. AllApart(Blocks, word)
        BY DEF HeapInv, BlocksApart
      <3>6. Dog(x) # Dog(b)
        BY <1>9, <3>3, <3>4, <3>5, TagsApart DEF Dog
      <3>7. /\ Fits(live[p], word[x]) /\ Dog(x) \in DOMAIN tag /\ tag[Dog(x)] = "use"
            /\ \E i \in Slots : Within(word, x, i)
        BY <3>1, <3>2 DEF HeapInv, HeldFits
      <3>8. ts[Dog(x)] = "use"
        BY <1>7, <3>6, <3>7 DEF Tagged
      <3>9. \E i \in Slots : Within(ws, x, i)
        BY <3>3, <3>7 DEF Within
      <3> QED BY <3>1, <3>2, <3>3, <3>7, <3>8, <3>9 DEF Dog
    <2> QED BY <1>11, <2>1 DEF HoldsNow
  <1>22. FreedNow(ws, ts)
    <2>1. freed' = old /\ Block(freed') = b
      BY <1>2, <1>8
    <2>2. ws[b] \in Nat /\ ts[b + ws[b] - 1] = "free"
      BY <1>6, <1>7
    <2>3. heaps[h].size > 0 /\ Start(h) <= b /\ b < Top(h)
      BY <1>9
    <2>4. /\ ws[Block(freed')] \in Nat /\ ts[Block(freed') + ws[Block(freed')] - 1] = "free"
          /\ Start(h) <= Block(freed') /\ Block(freed') < Top(h)
      BY <2>1, <2>2, <2>3
    <2> QED BY <2>1, <2>3, <2>4 DEF FreedNow
  <1>23. /\ op' \in [Tasks -> Op] /\ op'[t] = Idle /\ \A u \in Tasks : u # t => op'[u] = op[u]
    BY <1>8, IdleOp DEF HeapInv, Shapes
  <1>24. \A p \in DOMAIN live' : word'[Block(p)] = word[Block(p)]
    <2>1. Held' = {Block(q) : q \in DOMAIN live'}
      BY Zenon DEF Held, Block
    <2> QED BY <1>8, <1>19, <2>1, HeldWords
  <1>25. ASSUME NEW u \in Tasks PROVE Working(u)'
    <2>1. CASE u = t
      <3>1. op'[t].pc = "idle" /\ op'[t].old = Null /\ op'[t].new = Null
        BY <1>23, IdleOp
      <3> QED BY <2>1, <3>1 DEF Working
    <2>2. CASE u # t
      <3>1. {op[u].old, op[u].new} \subseteq DOMAIN live \cup {Null}
        BY WorkHeld
      <3>2. old \notin {op[u].old, op[u].new}
        BY <1>1, <2>2 DEF HeapInv, OwnPointers
      <3>3. {op[u].old, op[u].new} \subseteq DOMAIN live' \cup {Null}
        BY <1>11, <3>1, <3>2
      <3>4. \A p \in DOMAIN live : p \in {op[u].old, op[u].new} => word'[Block(p)] = word[Block(p)]
        BY <1>11, <1>24, <3>2
      <3> QED BY <1>10, <1>23, <2>2, <3>3, <3>4, OthersKeep
    <2> QED BY <2>1, <2>2
  <1>26. OwnPointers'
    <2>1. op'[t].old = Null /\ op'[t].new = Null
      BY <1>23, IdleOp
    <2> QED BY <1>23, <2>1 DEF HeapInv, OwnPointers
  <1> QED BY <1>8, <1>18, <1>20, <1>21, <1>22, <1>23, <1>25, <1>26, BlocksStep

-----------------------------------------------------------------------------
(* The invariant and what follows from it.                                 *)

LEMMA StutterStep ==
    ASSUME HeapInv, UNCHANGED vars
    PROVE  HeapInv'
  <1>1. UNCHANGED <<heaps, word, tag, live, freed, op>>
    BY DEF vars, mem
  <1>2. Shapes' /\ ArenasApart' /\ OwnPointers'
    BY <1>1 DEF HeapInv, Shapes, ArenasApart, OwnPointers
  <1>3. FreeListed' /\ HeldFits' /\ FreedSeen'
    BY <1>1 DEF HeapInv, FreeListed, FreeBlock, HeldFits, FreedSeen, Within, Start, Top, Dog
  <1>4. BlocksApart'
    <2>1. Held' = Held /\ Frees' = Frees
      BY <1>1 DEF Held, Frees
    <2> QED BY <1>1, <2>1 DEF HeapInv, BlocksApart, AllApart, Blocks
  <1>5. \A t \in Tasks : Working(t)'
    BY <1>1 DEF HeapInv, Working, InHeap
  <1> QED BY <1>2, <1>3, <1>4, <1>5 DEF HeapInv

LEMMA InitInv ==
    ASSUME Init PROVE HeapInv
  <1>1. /\ heaps = [h \in Slots |-> NoHeap] /\ word = <<>> /\ tag = <<>>
        /\ live = <<>> /\ freed = Null /\ op = [t \in Tasks |-> Idle]
    BY DEF Init
  <1>2. /\ \A h \in Slots : heaps[h].size = 0 /\ heaps[h].base = 0 /\ heaps[h].list = <<>>
        /\ NoHeap \in Heap
    BY <1>1 DEF NoHeap, Heap
  <1>3. DOMAIN live = {} /\ DOMAIN word = {} /\ DOMAIN tag = {}
    BY <1>1
  <1>4. Shapes
    BY <1>1, <1>2, <1>3, IdleOp DEF Shapes
  <1>5. ArenasApart
    BY <1>2, Consts DEF ArenasApart
  <1>6. \A h \in Slots : ToSet(heaps[h].list) = {}
    BY <1>2 DEF ToSet
  <1>7. FreeListed /\ HeldFits /\ FreedSeen
    BY <1>1, <1>2, <1>3, <1>6 DEF FreeListed, HeldFits, FreedSeen
  <1>8. Held = {} /\ Frees = {}
    BY <1>3, <1>6 DEF Held, Frees
  <1>9. BlocksApart
    BY <1>8 DEF BlocksApart, AllApart, Blocks
  <1>10. (\A t \in Tasks : Working(t)) /\ OwnPointers
    <2>1. \A t \in Tasks : op[t].pc = "idle" /\ op[t].old = Null /\ op[t].new = Null
      BY <1>1, IdleOp
    <2> QED BY <2>1 DEF Working, OwnPointers
  <1> QED BY <1>4, <1>5, <1>7, <1>9, <1>10 DEF HeapInv

LEMMA NextStep ==
    ASSUME HeapInv, LostAlone, [Next]_vars
    PROVE  HeapInv'
  <1>1. CASE HeapCreate
    BY <1>1, CreateStep
  <1>2. CASE HeapDelete
    BY <1>2, DeleteStep
  <1>3. ASSUME NEW t \in Tasks,
               \/ Malloc(t) \/ LookForHeap(t) \/ AllocateFails(t) \/ Allocate(t)
               \/ Free(t) \/ FreeCheck(t) \/ Deallocate(t) \/ FreeAgain(t)
               \/ Realloc(t) \/ ReallocCopy(t)
        PROVE  HeapInv'
    BY <1>3, MallocStep, LookStep, AllocateFailsStep, AllocateStep, FreeStep, FreeCheckStep,
       DeallocateStep, FreeAgainStep, ReallocStep, ReallocCopyStep
  <1>4. CASE UNCHANGED vars
    BY <1>4, StutterStep
  <1> QED BY <1>1, <1>2, <1>3, <1>4 DEF Next

(* Steps after which the tasks work on what they worked on, or on what was *)
(* not lost.                                                               *)
LEMMA LostStep ==
    ASSUME HeapInv, LostAlone, NEW t \in Tasks, NEW o, op' = [op EXCEPT ![t] = o],
           {o.old, o.new} \cap lost' = {}, lost' \subseteq DOMAIN live',
           \A u \in Tasks : u # t => {op[u].old, op[u].new} \cap lost' = {}
    PROVE  LostAlone'
  <1>1. op'[t] = o /\ \A u \in Tasks : u # t => op'[u] = op[u]
    BY DEF HeapInv, Shapes
  <1> QED BY <1>1 DEF LostAlone

LEMMA InitLost ==
    ASSUME Init PROVE LostAlone
  BY DEF Init, LostAlone

LEMMA NextLost ==
    ASSUME HeapInv, LostAlone, [Next]_vars
    PROVE  LostAlone'
  <1>0. /\ lost \subseteq DOMAIN live /\ Null \notin lost
        /\ \A u \in Tasks : {op[u].old, op[u].new} \cap lost = {}
    BY Consts DEF LostAlone, HeapInv, Shapes
  <1>1. CASE HeapCreate \/ UNCHANGED vars
    <2>1. UNCHANGED <<live, op, lost>>
      BY <1>1 DEF HeapCreate, vars, past
    <2> QED BY <2>1 DEF LostAlone
  <1>2. CASE HeapDelete
    <2>1. PICK h \in Slots : /\ live' = Restrict(live, {p \in DOMAIN live : ~InHeap(p, h)})
                             /\ lost' = {p \in lost : ~InHeap(p, h)}
      BY <1>2 DEF HeapDelete
    <2>2. UNCHANGED op
      BY <1>2 DEF HeapDelete
    <2>3. DOMAIN live' = {p \in DOMAIN live : ~InHeap(p, h)}
      BY <2>1 DEF Restrict
    <2> QED BY <1>0, <2>1, <2>2, <2>3 DEF LostAlone
  <1>3. ASSUME NEW t \in Tasks, NEW o, op' = [op EXCEPT ![t] = o], UNCHANGED lost,
               {o.old, o.new} \subseteq {op[t].old, op[t].new, Null} \cup Mine,
               DOMAIN live \subseteq DOMAIN live'
        PROVE  LostAlone'
    <2>1. {o.old, o.new} \cap lost' = {} /\ lost' \subseteq DOMAIN live'
      BY <1>0, <1>3 DEF Mine
    <2> QED BY <1>0, <1>3, <2>1, LostStep
  <1>4. ASSUME NEW t \in Tasks, op' = [op EXCEPT ![t] = Idle], UNCHANGED lost,
               DOMAIN live \subseteq DOMAIN live'
        PROVE  LostAlone'
    BY <1>3, <1>4, IdleOp
  <1>5. ASSUME NEW t \in Tasks, Malloc(t) PROVE LostAlone'
    <2>1. PICK h \in Handles, n \in Sizes : op' = [op EXCEPT ![t] = Asks(h, n, Null)]
      BY <1>5 DEF Malloc
    <2>0. Asks(h, n, Null).old = Null /\ Asks(h, n, Null).new = Null
      BY DEF Asks
    <2>2. PICK o : o = Asks(h, n, Null) /\ o.old = Null /\ o.new = Null
      BY <2>0, Zenon
    <2> QED BY <1>3, <1>5, <2>1, <2>2 DEF Malloc, past
  <1>6. ASSUME NEW t \in Tasks, LookForHeap(t) PROVE LostAlone'
    <2>1. op[t] \in Op /\ UNCHANGED <<live, lost>>
      BY <1>6 DEF HeapInv, Shapes, LookForHeap, past
    <2>2. PICK h : h = op[t].slot
      OBVIOUS
    <2>3. \/ op' = [op EXCEPT ![t] = Idle]
          \/ op' = [op EXCEPT ![t] = [op[t] EXCEPT !.pc = "get"]]
          \/ op' = [op EXCEPT ![t] = [op[t] EXCEPT !.slot = h + 1]]
      BY <1>6, <2>2 DEF LookForHeap
    <2>4. PICK a, b : a = [op[t] EXCEPT !.pc = "get"] /\ b = [op[t] EXCEPT !.slot = h + 1]
      OBVIOUS
    <2>5. a.old = op[t].old /\ a.new = op[t].new /\ b.old = op[t].old /\ b.new = op[t].new
      BY <2>1, <2>4 DEF Op
    <2> QED BY <1>3, <1>4, <2>1, <2>3, <2>4, <2>5
  <1>7. ASSUME NEW t \in Tasks, AllocateFails(t) PROVE LostAlone'
    <2>1. op[t] \in Op /\ UNCHANGED <<live, lost>>
      BY <1>7 DEF HeapInv, Shapes, AllocateFails, past
    <2>2. PICK a : a = [op[t] EXCEPT !.pc = "look", !.slot = op[t].slot + 1]
      OBVIOUS
    <2>3. a.old = op[t].old /\ a.new = op[t].new
      BY <2>1, <2>2 DEF Op
    <2>4. op' = [op EXCEPT ![t] = Idle] \/ op' = [op EXCEPT ![t] = a]
      BY <1>7, <2>2 DEF AllocateFails
    <2> QED BY <1>3, <1>4, <2>1, <2>3, <2>4
  <1>8. ASSUME NEW t \in Tasks, Allocate(t) PROVE LostAlone'
    <2>1. PICK blk \in Nat, n \in Nat : /\ blk \notin Held /\ live' = With(live, blk + W, n)
                               /\ op' = [op EXCEPT ![t] = IF op[t].old = Null THEN Idle
                                            ELSE [@ EXCEPT !.pc = "copy", !.new = blk + W]]
      BY <1>8, TakenFree
    <2>2. UNCHANGED lost /\ op[t] \in Op
      BY <1>8 DEF Allocate, past, HeapInv, Shapes
    <2>3. PICK ptr \in Nat : ptr = blk + W /\ ptr \notin lost
      <3>1. Block(blk + W) = blk
        BY Consts DEF Block
      <3>2. blk + W \notin DOMAIN live
        BY <2>1, <3>1 DEF Held
      <3> QED BY <1>0, <3>2, Consts
    <2>4. DOMAIN live \subseteq DOMAIN live'
      BY <2>1 DEF With
    <2>5. CASE op[t].old = Null
      BY <1>4, <2>1, <2>2, <2>4, <2>5
    <2>6. CASE op[t].old # Null
      <3>1. PICK o : o = [op[t] EXCEPT !.pc = "copy", !.new = ptr]
        OBVIOUS
      <3>2. o.old = op[t].old /\ o.new = ptr
        BY <2>2, <3>1 DEF Op
      <3>3. op' = [op EXCEPT ![t] = o]
        BY <2>1, <2>3, <2>6, <3>1
      <3>4. {o.old, o.new} \cap lost' = {} /\ lost' \subseteq DOMAIN live'
        BY <1>0, <2>2, <2>3, <2>4, <3>2
      <3> QED BY <1>0, <2>2, <3>3, <3>4, LostStep
    <2> QED BY <2>5, <2>6
  <1>9. ASSUME NEW t \in Tasks, Free(t) PROVE LostAlone'
    <2>1. PICK p \in Mine, h \in Handles : op' = [op EXCEPT ![t] = [Asks(h, 0, p) EXCEPT !.pc = "free"]]
      BY <1>9 DEF Free
    <2>0. /\ [Asks(h, 0, p) EXCEPT !.pc = "free"].old = p
          /\ [Asks(h, 0, p) EXCEPT !.pc = "free"].new = Null
      BY DEF Asks
    <2>2. PICK o : o = [Asks(h, 0, p) EXCEPT !.pc = "free"] /\ o.old = p /\ o.new = Null
      BY <2>0, Zenon
    <2> QED BY <1>3, <1>9, <2>1, <2>2 DEF Free, past
  <1>10. ASSUME NEW t \in Tasks, FreeCheck(t) PROVE LostAlone'
    <2>1. op[t] \in Op /\ Working(t) /\ UNCHANGED live /\ op[t].pc = "free"
      BY <1>10 DEF HeapInv, Shapes, FreeCheck
    <2>2. op[t].old \in DOMAIN live /\ op[t].old # Null
      BY <2>1 DEF Working
    <2>3. CASE op' = [op EXCEPT ![t] = Idle] /\ lost' = lost \cup {op[t].old}
      <3>1. {Idle.old, Idle.new} \cap lost' = {} /\ lost' \subseteq DOMAIN live'
        BY <1>0, <2>1, <2>2, <2>3, IdleOp
      <3>2. \A u \in Tasks : u # t => {op[u].old, op[u].new} \cap lost' = {}
        BY <1>0, <2>2, <2>3 DEF HeapInv, OwnPointers
      <3> QED BY <2>3, <3>1, <3>2, LostStep
    <2>4. CASE UNCHANGED lost /\ \E h : op' = [op EXCEPT ![t].pc = "put", ![t].slot = h]
      <3>1. PICK h : op' = [op EXCEPT ![t].pc = "put", ![t].slot = h]
        BY <2>4
      <3>2. PICK o : o = [op[t] EXCEPT !.pc = "put", !.slot = h]
        OBVIOUS
      <3>3. o.old = op[t].old /\ o.new = op[t].new
        BY <2>1, <3>2 DEF Op
      <3>4. op' = [op EXCEPT ![t] = o]
        BY <3>1, <3>2 DEF HeapInv, Shapes
      <3> QED BY <1>3, <2>1, <2>4, <3>3, <3>4
    <2> QED BY <1>10, <2>3, <2>4 DEF FreeCheck
  <1>11. ASSUME NEW t \in Tasks, Deallocate(t) PROVE LostAlone'
    <2>1. op' = [op EXCEPT ![t] = Idle] /\ live' = Restrict(live, DOMAIN live \ {op[t].old}) /\ UNCHANGED lost
      BY <1>11 DEF Deallocate, past
    <2>2. DOMAIN live' = DOMAIN live \ {op[t].old}
      BY <2>1 DEF Restrict
    <2>3. {Idle.old, Idle.new} \cap lost' = {} /\ lost' \subseteq DOMAIN live'
      BY <1>0, <2>1, <2>2, IdleOp
    <2> QED BY <1>0, <2>1, <2>3, LostStep
  <1>12. ASSUME NEW t \in Tasks, FreeAgain(t) PROVE LostAlone'
    <2>1. op' = [op EXCEPT ![t] = Idle] /\ UNCHANGED <<live, lost>>
      BY <1>12 DEF FreeAgain, past, HeapInv, FreedSeen
    <2> QED BY <1>4, <2>1
  <1>13. ASSUME NEW t \in Tasks, Realloc(t) PROVE LostAlone'
    <2>1. PICK p \in Mine, h \in Handles, n \in Sizes :
             \/ live' = [live EXCEPT ![p] = n] /\ UNCHANGED op
             \/ op' = [op EXCEPT ![t] = Asks(h, Clamp(n), p)] /\ UNCHANGED live
      BY <1>13 DEF Realloc
    <2>2. UNCHANGED lost
      BY <1>13 DEF Realloc, past
    <2>3. CASE live' = [live EXCEPT ![p] = n] /\ UNCHANGED op
      BY <2>2, <2>3 DEF LostAlone
    <2>4. CASE op' = [op EXCEPT ![t] = Asks(h, Clamp(n), p)] /\ UNCHANGED live
      <3>0. Asks(h, Clamp(n), p).old = p /\ Asks(h, Clamp(n), p).new = Null
        BY DEF Asks
      <3>1. PICK o : o = Asks(h, Clamp(n), p) /\ o.old = p /\ o.new = Null
        BY <3>0, Zenon
      <3> QED BY <1>3, <2>2, <2>4, <3>1
    <2> QED BY <2>1, <2>3, <2>4
  <1>14. ASSUME NEW t \in Tasks, ReallocCopy(t) PROVE LostAlone'
    <2>1. op[t] \in Op /\ UNCHANGED <<live, lost>>
      BY <1>14 DEF HeapInv, Shapes, ReallocCopy, past
    <2>2. PICK o : o = [op[t] EXCEPT !.pc = "free", !.new = Null,
                                     !.slot = IF op[t].all THEN 1 ELSE op[t].slot]
      OBVIOUS
    <2>3. o.old = op[t].old /\ o.new = Null
      BY <2>1, <2>2 DEF Op
    <2>4. op' = [op EXCEPT ![t] = o]
      BY <1>14, <2>1, <2>2 DEF ReallocCopy, Op
    <2> QED BY <1>3, <2>1, <2>3, <2>4
  <1> QED BY <1>1, <1>2, <1>5, <1>6, <1>7, <1>8, <1>9, <1>10, <1>11, <1>12, <1>13, <1>14 DEF Next

(* The invariant says what PayloadsApart does.                             *)
LEMMA InvApart ==
    ASSUME HeapInv PROVE PayloadsApart
  <1>1. ASSUME NEW p \in DOMAIN live
        PROVE  /\ Block(p) \in DOMAIN word
               /\ Overflows(live[p]) \/ p + live[p] <= Dog(Block(p))
               /\ \E h \in UsedSlots : Block(p) >= Start(h) /\ Dog(Block(p)) < Top(h)
               /\ \A q \in DOMAIN live : q > p => Dog(Block(p)) < Block(q)
    <2>1. p \in Nat /\ live[p] \in Nat /\ W \in Nat
      BY Consts DEF HeapInv, Shapes
    <2>2. PICK b \in Nat, m \in Nat : b = Block(p) /\ m = word[b] /\ b \in Blocks /\ b \in DOMAIN word /\ m > 0
      <3>1. Block(p) \in Blocks
        BY DEF Blocks, Held
      <3> QED BY <3>1, BlockFacts
    <2>3. Fits(live[p], m) /\ p = b + W
      BY <2>1, <2>2 DEF HeapInv, HeldFits, Block
    <2>4. ASSUME ~Overflows(live[p]) PROVE p + live[p] <= Dog(b)
      <3>1. PICK l \in Nat : l = live[p] /\ W + l + 1 <= m
        BY <2>1, <2>3, <2>4 DEF Fits
      <3>2. p + l <= b + m - 1
        BY <2>1, <2>3, <3>1
      <3> QED BY <2>2, <3>1, <3>2 DEF Dog
    <2>5. \E h \in UsedSlots : b >= Start(h) /\ Dog(b) < Top(h)
      <3>1. PICK h \in Slots : heaps[h].size > 0 /\ Start(h) <= b /\ b + m <= Top(h)
        BY <2>2, BlockFacts DEF Within
      <3>2. Start(h) \in Nat /\ Top(h) \in Nat
        BY <3>1, Edges DEF HeapInv
      <3>3. b >= Start(h) /\ b + m - 1 < Top(h)
        BY <3>1, <3>2
      <3> QED BY <2>2, <3>1, <3>3 DEF Dog, UsedSlots
    <2>6. ASSUME NEW q \in DOMAIN live, q > p PROVE Dog(b) < Block(q)
      <3>1. q \in Nat
        BY DEF HeapInv, Shapes
      <3>2. Block(q) \in Blocks
        BY DEF Blocks, Held
      <3>3. PICK c \in Nat, n \in Nat : c = Block(q) /\ n = word[c] /\ n > 0
        BY <3>2, BlockFacts
      <3>4. b < c
        BY <2>1, <2>2, <2>6, <3>1, <3>3 DEF Block
      <3>5. b + m <= c \/ c + n <= b
        BY <2>2, <3>2, <3>3, <3>4 DEF HeapInv, BlocksApart, AllApart
      <3>6. b + m - 1 < c
        BY <3>3, <3>4, <3>5
      <3> QED BY <2>2, <3>3, <3>6 DEF Dog
    <2> QED BY <2>2, <2>4, <2>5, <2>6
  <1>2. ASSUME NEW t \in Tasks, op[t].pc = "copy"
        PROVE  op[t].new + word[Block(op[t].old)] - W <= Dog(Block(op[t].new))
    <2>1. /\ op[t].old \in DOMAIN live /\ op[t].new \in DOMAIN live
          /\ word[Block(op[t].old)] < word[Block(op[t].new)]
      BY <1>2 DEF HeapInv, Working
    <2>2. PICK o \in Nat, n \in Nat : o = op[t].old /\ n = op[t].new /\ o \in DOMAIN live /\ n \in DOMAIN live
      BY <2>1 DEF HeapInv, Shapes
    <2>3. Block(o) \in Blocks /\ Block(n) \in Blocks
      BY <2>2 DEF Blocks, Held
    <2>4. PICK b \in Nat, x \in Nat, y \in Nat : b = Block(n) /\ x = word[Block(o)] /\ y = word[b]
      BY <2>3, BlockFacts
    <2>5. x < y
      BY <2>1, <2>2, <2>4
    <2>6. b = n - W
      BY <2>4 DEF Block
    <2>7. n + x - W <= b + y - 1
      BY <2>5, <2>6, Consts
    <2> QED BY <2>2, <2>4, <2>7 DEF Dog
  <1> QED BY <1>1, <1>2 DEF PayloadsApart

(* For any number of tasks and heaps, any requests and any arenas: through *)
(* every interleaving of tuya_mem_heap_malloc, free, double free, realloc, *)
(* heap creation and deletion of any heap nobody has memory from, what a   *)
(* client was given lies inside a block of its own, short of its tag, save *)
(* a length that wraps, and the copy of realloc fits the new block.        *)
THEOREM PayloadsKept == Spec => []PayloadsApart
  <1>1. Init => HeapInv /\ LostAlone
    BY InitInv, InitLost
  <1>2. HeapInv /\ LostAlone /\ [Next]_vars => HeapInv' /\ LostAlone'
    BY NextStep, NextLost
  <1>3. HeapInv => PayloadsApart
    BY InvApart
  <1> QED BY <1>1, <1>2, <1>3, PTL DEF Spec

-----------------------------------------------------------------------------
(* The counts.                                                             *)

(* The pointers into a heap and the sizes of their blocks.                 *)
Inside(h) == {p \in DOMAIN live : InHeap(p, h)}
HeldSizes == [p \in DOMAIN live |-> word[Block(p)]]
FreeCounts == [h \in Slots |-> heaps[h].free]

(* What is lost is in a heap behind a slot whose heap was deleted.         *)
LostBehind == \A p \in lost : \E h \in UsedSlots, k \in holes : InHeap(p, h) /\ k < h

(* The heaps in use come first but for the holes deletions left, and the   *)
(* counts agree.                                                           *)
SumInv ==
    /\ IsFiniteSet(DOMAIN live) /\ deletes \in Nat /\ gone \in Nat
    /\ \A h, k \in Slots : k < h /\ heaps[h].size > 0 /\ heaps[k].size = 0 => k \in holes
    /\ Accounted

LEMMA SumsAre ==
    ASSUME NEW h
    PROVE  /\ SumHeld(h) = SumFunctionOnSet(HeldSizes, Inside(h))
           /\ SumHeld(h)' = SumFunctionOnSet(HeldSizes', Inside(h)')
           /\ SumOfList(h) = SumFunctionOnSet(word, ToSet(heaps[h].list))
           /\ SumOfList(h)' = SumFunctionOnSet(word', ToSet(heaps'[h].list))
           /\ Inside(h)' = {p \in DOMAIN live' : InHeap(p, h)'}
  <1>1. /\ SumHeld(h) = SumFunctionOnSet(HeldSizes, Inside(h))
        /\ SumHeld(h)' = SumFunctionOnSet(HeldSizes', Inside(h)')
    BY DEF SumHeld, HeldSizes, Inside
  <1>2. /\ SumOfList(h) = SumFunctionOnSet(word, ToSet(heaps[h].list))
        /\ SumOfList(h)' = SumFunctionOnSet(word', ToSet(heaps'[h].list))
    BY DEF SumOfList
  <1>3. Inside(h)' = {p \in DOMAIN live' : InHeap(p, h)'}
    BY DEF Inside, InHeap
  <1> QED BY <1>1, <1>2, <1>3

(* Sizes are numbers, and there are finitely many blocks.                  *)
LEMMA SizesAdd ==
    ASSUME HeapInv, IsFiniteSet(DOMAIN live), NEW h \in Slots
    PROVE  /\ IntsOn(word, ToSet(heaps[h].list)) /\ IntsOn(HeldSizes, Inside(h))
           /\ SumOfList(h) \in Int /\ SumHeld(h) \in Int
  <1>1. PICK S, w : S = ToSet(heaps[h].list) /\ w = word
    OBVIOUS
  <1>2. IntsOn(w, S)
    <2>1. heaps[h].list \in Seq(Nat)
      BY DEF HeapInv, Shapes, Heap
    <2> QED BY <1>1, <2>1, ListFinite, Listed DEF IntsOn
  <1>3. PICK T, v : T = Inside(h) /\ v = HeldSizes
    OBVIOUS
  <1>4. IntsOn(v, T)
    <2>1. T \subseteq DOMAIN live
      BY <1>3 DEF Inside
    <2>2. \A p \in T : v[p] = word[Block(p)] /\ word[Block(p)] \in Int
      BY <1>3, <2>1 DEF HeldSizes, HeapInv, HeldFits, Shapes
    <2> QED BY <2>1, <2>2, FS_Subset DEF IntsOn
  <1>5. SumFunctionOnSet(w, S) \in Int /\ SumFunctionOnSet(v, T) \in Int
    BY <1>2, <1>4, SumSame DEF IntsOn
  <1> QED BY <1>1, <1>2, <1>3, <1>4, <1>5, SumsAre

(* Sums of sizes are not negative.                                         *)
LEMMA SumNonneg ==
    ASSUME NEW w, NEW S, IsFiniteSet(S), \A x \in S : w[x] \in Nat
    PROVE  SumFunctionOnSet(w, S) >= 0
  <1>1. \A s \in SUBSET S : SumFunctionOnSet(w, s) \in Int
    <2> SUFFICES ASSUME NEW s \in SUBSET S PROVE SumFunctionOnSet(w, s) \in Int
      OBVIOUS
    <2>1. IsFiniteSet(s) /\ \A x \in s : w[x] \in Int
      BY FS_Subset
    <2> QED BY <2>1, SumSame
  <1> DEFINE B == {s \in SUBSET S : ~(SumFunctionOnSet(w, s) >= 0)}
  <1>2. B = {}
    <2> SUFFICES ASSUME B # {} PROVE FALSE
      OBVIOUS
    <2>1. PICK s \in B : \A r \in B : Cardinality(s) <= Cardinality(r)
      BY Smallest
    <2>2. s \subseteq S /\ IsFiniteSet(s) /\ s # {}
      <3>1. SumFunctionOnSet(w, {}) = 0
        BY SumOfNone
      <3>2. s # {}
        BY <2>1, <3>1
      <3>3. s \subseteq S
        BY <2>1
      <3> QED BY <3>2, <3>3, FS_Subset
    <2>3. PICK x \in s : TRUE
      BY <2>2
    <2>4. PICK r : r = s \ {x} /\ r \subseteq S /\ x \notin r /\ IsFiniteSet(r) /\ Cardinality(r) < Cardinality(s)
      <3>1. s \ {x} \subseteq S /\ x \notin s \ {x} /\ IsFiniteSet(s \ {x}) /\ Cardinality(s \ {x}) < Cardinality(s)
        BY <2>2, <2>3, SmallerSet
      <3> QED BY <3>1, Zenon
    <2>5. r \notin B
      <3>1. Cardinality(r) \in Nat /\ Cardinality(s) \in Nat
        BY <2>2, <2>4, FS_CardinalityType
      <3> QED BY <2>1, <2>4, <3>1
    <2>6. r \cup {x} = s /\ \A y \in r \cup {x} : w[y] \in Int
      BY <2>2, <2>3, <2>4
    <2>7. SumFunctionOnSet(w, r \cup {x}) = w[x] + SumFunctionOnSet(w, r)
      BY <2>4, <2>6, SumOfMore
    <2>8. PICK i \in Int, m \in Nat : i = SumFunctionOnSet(w, r) /\ m = w[x] /\ i >= 0
      BY <1>1, <2>2, <2>3, <2>4, <2>5
    <2>9. m + i >= 0
      BY <2>8
    <2> QED BY <2>1, <2>6, <2>7, <2>8, <2>9
  <1>3. S \notin B
    BY <1>2
  <1> QED BY <1>3

LEMMA FreeNonneg ==
    ASSUME HeapInv, IsFiniteSet(DOMAIN live), NEW h \in Slots
    PROVE  SumOfList(h) \in Int /\ SumHeld(h) \in Int /\ SumOfList(h) >= 0 /\ SumHeld(h) >= 0
  <1>1. PICK S, w : S = ToSet(heaps[h].list) /\ w = word
    OBVIOUS
  <1>2. SumFunctionOnSet(w, S) >= 0
    <2>1. IsFiniteSet(S) /\ \A x \in S : w[x] \in Nat
      BY <1>1, SizesAdd, Listed DEF IntsOn
    <2> QED BY <2>1, SumNonneg
  <1>3. PICK T, v : T = Inside(h) /\ v = HeldSizes
    OBVIOUS
  <1>4. SumFunctionOnSet(v, T) >= 0
    <2>1. T \subseteq DOMAIN live
      BY <1>3 DEF Inside
    <2>2. \A p \in T : v[p] = word[Block(p)] /\ word[Block(p)] \in Nat
      BY <1>3, <2>1 DEF HeldSizes, HeapInv, HeldFits, Shapes
    <2>3. IsFiniteSet(T)
      BY <1>3, SizesAdd DEF IntsOn
    <2> QED BY <2>2, <2>3, SumNonneg
  <1> QED BY <1>1, <1>2, <1>3, <1>4, SizesAdd, SumsAre

(* A heap whose blocks keep their sizes.                                   *)
LEMMA SumsKept ==
    ASSUME HeapInv, IsFiniteSet(DOMAIN live), NEW h \in Slots,
           heaps'[h].list = heaps[h].list, Inside(h)' = Inside(h),
           \A b \in ToSet(heaps[h].list) : word'[b] = word[b],
           \A p \in Inside(h) : p \in DOMAIN live' /\ word'[Block(p)] = word[Block(p)]
    PROVE  SumOfList(h)' = SumOfList(h) /\ SumHeld(h)' = SumHeld(h)
  <1>1. PICK S, w, x : S = ToSet(heaps[h].list) /\ w = word /\ x = word'
    OBVIOUS
  <1>2. IntsOn(w, S) /\ \A b \in S : x[b] = w[b]
    BY <1>1, SizesAdd
  <1>3. SumFunctionOnSet(x, S) = SumFunctionOnSet(w, S)
    BY <1>2, SumSame DEF IntsOn
  <1>4. PICK T, v, y : T = Inside(h) /\ v = HeldSizes /\ y = HeldSizes'
    OBVIOUS
  <1>5. IntsOn(v, T) /\ \A p \in T : y[p] = v[p]
    <2>1. \A p \in T : p \in DOMAIN live /\ v[p] = word[Block(p)]
      BY <1>4 DEF Inside, HeldSizes
    <2>2. \A p \in T : y[p] = word'[Block(p)]
      BY <1>4 DEF HeldSizes, Block
    <2> QED BY <1>4, <2>1, <2>2, SizesAdd
  <1>6. SumFunctionOnSet(y, T) = SumFunctionOnSet(v, T)
    BY <1>5, SumSame DEF IntsOn
  <1> QED BY <1>1, <1>3, <1>4, <1>6, SumsAre

(* A block more, or one less, is held in a heap.                           *)
LEMMA HeldMore ==
    ASSUME HeapInv, IsFiniteSet(DOMAIN live), NEW h \in Slots, NEW q, q \notin DOMAIN live,
           q \in DOMAIN live', Inside(h)' = Inside(h) \cup {q}, word'[Block(q)] \in Int,
           \A p \in DOMAIN live : p \in DOMAIN live' /\ word'[Block(p)] = word[Block(p)]
    PROVE  SumHeld(h)' = SumHeld(h) + word'[Block(q)]
  <1>1. PICK T, v, y : T = Inside(h) /\ v = HeldSizes /\ y = HeldSizes'
    OBVIOUS
  <1>2. q \notin T /\ y[q] = word'[Block(q)] /\ \A p \in T : y[p] = v[p]
    BY <1>1 DEF Inside, HeldSizes, Block
  <1>3. IntsOn(v, T) /\ SumFunctionOnSet(v, T) \in Int
    BY <1>1, SizesAdd, SumsAre
  <1>4. SumFunctionOnSet(y, T) = SumFunctionOnSet(v, T)
    BY <1>2, <1>3, SumSame DEF IntsOn
  <1>5. SumFunctionOnSet(y, T \cup {q}) = y[q] + SumFunctionOnSet(y, T)
    <2>1. IsFiniteSet(T) /\ \A p \in T \cup {q} : y[p] \in Int
      BY <1>2, <1>3 DEF IntsOn
    <2> QED BY <1>2, <2>1, SumOfMore
  <1>6. PICK s \in Int, m \in Int : s = SumFunctionOnSet(v, T) /\ m = word'[Block(q)]
    BY <1>3
  <1>7. m + s = s + m
    OBVIOUS
  <1> QED BY <1>1, <1>2, <1>4, <1>5, <1>6, <1>7, SumsAre

LEMMA HeldLess ==
    ASSUME HeapInv, IsFiniteSet(DOMAIN live), NEW h \in Slots, NEW q, q \in Inside(h),
           Inside(h)' = Inside(h) \ {q},
           \A p \in DOMAIN live : p # q => p \in DOMAIN live' /\ word'[Block(p)] = word[Block(p)]
    PROVE  SumHeld(h)' = SumHeld(h) - word[Block(q)]
  <1>1. PICK T, v, y : T = Inside(h) /\ v = HeldSizes /\ y = HeldSizes'
    OBVIOUS
  <1>2. q \in T /\ v[q] = word[Block(q)] /\ \A p \in T : p # q => y[p] = v[p]
    BY <1>1 DEF Inside, HeldSizes, Block
  <1>3. IntsOn(v, T)
    BY <1>1, SizesAdd
  <1>4. SumSplits(v, T, q)
    BY <1>2, <1>3, SumWithout, Zenon
  <1>5. PICK R : R = T \ {q} /\ IsFiniteSet(R) /\ \A p \in R : p \in T /\ p # q
    <2>1. IsFiniteSet(T \ {q}) /\ \A p \in T \ {q} : p \in T /\ p # q
      BY <1>3, FS_RemoveElement DEF IntsOn
    <2> QED BY <2>1, Zenon
  <1>6. SumFunctionOnSet(y, R) = SumFunctionOnSet(v, R)
    <2>1. (\A p \in R : v[p] \in Int) /\ \A p \in R : y[p] = v[p]
      BY <1>2, <1>3, <1>5 DEF IntsOn
    <2> QED BY <1>5, <2>1, SumSame
  <1>7. SumFunctionOnSet(v, T) = v[q] + SumFunctionOnSet(v, R) /\ SumFunctionOnSet(v, R) \in Int
    BY <1>4, <1>5, Zenon DEF SumSplits
  <1>8. v[q] \in Int
    BY <1>2, <1>3 DEF IntsOn
  <1>9. PICK s \in Int, m \in Int : s = SumFunctionOnSet(v, R) /\ m = v[q]
    BY <1>7, <1>8
  <1>10. s = (m + s) - m
    OBVIOUS
  <1> QED BY <1>1, <1>2, <1>5, <1>6, <1>7, <1>9, <1>10, SumsAre

LEMMA CountsAdd ==
    ASSUME HeapInv
    PROVE  IntsOn(FreeCounts, UsedSlots) /\ SumFunctionOnSet(FreeCounts, UsedSlots) \in Int
  <1>1. PICK S, f : S = UsedSlots /\ f = FreeCounts
    OBVIOUS
  <1>2. IsFiniteSet(Slots) /\ S \subseteq Slots
    BY <1>1, FS_Interval, Consts DEF Slots, UsedSlots
  <1>3. \A h \in S : f[h] \in Int
    BY <1>1, <1>2 DEF FreeCounts, HeapInv, Shapes, Heap
  <1>4. IntsOn(f, S)
    BY <1>2, <1>3, FS_Subset DEF IntsOn
  <1>5. SumFunctionOnSet(f, S) \in Int
    BY <1>4, SumSame DEF IntsOn
  <1> QED BY <1>1, <1>4, <1>5

LEMMA AccountedIs ==
    /\ Accounted <=>
          /\ \A h \in UsedSlots : /\ heaps[h].free = SumOfList(h)
                                  /\ SumOfList(h) + SumHeld(h) = Top(h) - Start(h)
          /\ LostBehind
          /\ total = SumFunctionOnSet(FreeCounts, UsedSlots) + gone
    /\ Accounted' <=>
          /\ \A h \in UsedSlots' : /\ heaps'[h].free = SumOfList(h)'
                                   /\ SumOfList(h)' + SumHeld(h)' = Top(h)' - Start(h)'
          /\ LostBehind'
          /\ total' = SumFunctionOnSet(FreeCounts', UsedSlots') + gone'
  BY DEF Accounted, FreeCounts, SumFree, LostBehind

(* Lemma: d bytes of heap h become free, or are no longer (d < 0).         *)
LEMMA HeapMoves ==
    ASSUME HeapInv, HeapInv', SumInv, NEW h \in UsedSlots, NEW d \in Int,
           \A k \in Slots : heaps'[k].base = heaps[k].base /\ heaps'[k].size = heaps[k].size,
           \A k \in Slots : k # h => /\ heaps'[k].free = heaps[k].free
                                     /\ SumOfList(k)' = SumOfList(k) /\ SumHeld(k)' = SumHeld(k),
           heaps'[h].free = heaps[h].free + d, total' = total + d,
           SumOfList(h)' = SumOfList(h) + d, SumHeld(h)' = SumHeld(h) - d,
           UNCHANGED past, IsFiniteSet(DOMAIN live')
    PROVE  SumInv'
  <1>1. UsedSlots' = UsedSlots /\ h \in Slots
    BY DEF UsedSlots
  <1>2. \A k \in Slots : Start(k)' = Start(k) /\ Top(k)' = Top(k)
    BY DEF Start, Top
  <1>3. ASSUME NEW k \in UsedSlots
        PROVE  /\ heaps'[k].free = SumOfList(k)'
               /\ SumOfList(k)' + SumHeld(k)' = Top(k)' - Start(k)'
    <2>1. /\ heaps[k].free = SumOfList(k)
          /\ SumOfList(k) + SumHeld(k) = Top(k) - Start(k) /\ k \in Slots
      BY AccountedIs DEF SumInv, UsedSlots
    <2>2. SumOfList(k) \in Int /\ SumHeld(k) \in Int
      BY <2>1, SizesAdd DEF SumInv
    <2>3. CASE k = h
      <3>1. PICK s \in Int, r \in Int : s = SumOfList(h) /\ r = SumHeld(h)
        BY <2>2, <2>3
      <3>2. (s + d) + (r - d) = s + r
        OBVIOUS
      <3> QED BY <1>2, <2>1, <2>3, <3>1, <3>2
    <2>4. CASE k # h
      BY <1>2, <2>1, <2>4
    <2> QED BY <2>3, <2>4
  <1>4. SumFunctionOnSet(FreeCounts', UsedSlots') = SumFunctionOnSet(FreeCounts, UsedSlots) + d
    <2>2. PICK S, f, g : S = UsedSlots /\ f = FreeCounts /\ g = FreeCounts'
      OBVIOUS
    <2>3. IntsOn(f, S) /\ SumFunctionOnSet(f, S) \in Int
      BY <2>2, CountsAdd
    <2>4. /\ f[h] = heaps[h].free /\ g[h] = f[h] + d /\ f[h] \in Int /\ h \in S
          /\ \A k \in S : k # h => g[k] = f[k]
      BY <1>1, <2>2 DEF FreeCounts, HeapInv, Shapes, Heap, UsedSlots
    <2>5. SameBut(g, f, S, h)
      BY <2>4 DEF SameBut
    <2>6. SumMoves(g, f, S, h)
      BY <2>3, <2>4, <2>5, SumChanged, Zenon
    <2>7. SumFunctionOnSet(g, S) = (SumFunctionOnSet(f, S) - f[h]) + g[h]
      BY <2>6, Zenon DEF SumMoves
    <2>8. PICK s \in Int, m \in Int : s = SumFunctionOnSet(f, S) /\ m = f[h]
      BY <2>3, <2>4
    <2>9. (s - m) + (m + d) = s + d
      OBVIOUS
    <2> QED BY <1>1, <2>2, <2>4, <2>7, <2>8, <2>9
  <1>5. total' = SumFunctionOnSet(FreeCounts', UsedSlots') + gone'
    <2>1. PICK s \in Int, g \in Nat : s = SumFunctionOnSet(FreeCounts, UsedSlots) /\ g = gone
      BY CountsAdd DEF SumInv
    <2>2. total = s + g /\ gone' = g
      BY <2>1, AccountedIs DEF SumInv, past
    <2>3. (s + g) + d = (s + d) + g
      BY <2>1
    <2> QED BY <1>4, <2>1, <2>2, <2>3
  <1>6. LostBehind'
    <2>1. LostBehind /\ UNCHANGED <<lost, holes>>
      BY AccountedIs DEF SumInv, past
    <2>2. \A k \in UsedSlots : \A p : InHeap(p, k)' <=> InHeap(p, k)
      BY DEF InHeap, UsedSlots
    <2> QED BY <1>1, <2>1, <2>2 DEF LostBehind, InHeap
  <1>7. Accounted'
    BY <1>1, <1>3, <1>5, <1>6, AccountedIs
  <1>8. /\ deletes' \in Nat /\ gone' \in Nat
        /\ \A i, k \in Slots : k < i /\ heaps'[i].size > 0 /\ heaps'[k].size = 0 => k \in holes'
    BY DEF SumInv, past
  <1> QED BY <1>7, <1>8 DEF SumInv

(* Steps that change no block and hold on to what is held.                 *)
LEMMA SumsStay ==
    ASSUME SumInv, UNCHANGED <<mem, holes, gone, deletes>>, DOMAIN live' = DOMAIN live, LostBehind'
    PROVE  SumInv'
  <1>1. UNCHANGED <<heaps, word, tag, total, holes, gone, deletes>>
    BY DEF mem
  <1>2. \A h : Inside(h)' = Inside(h) /\ HeldSizes' = HeldSizes
    BY <1>1 DEF Inside, HeldSizes, InHeap, Block
  <1>3. \A h : SumOfList(h)' = SumOfList(h) /\ SumHeld(h)' = SumHeld(h)
    BY <1>1, <1>2, SumsAre
  <1>4. /\ UsedSlots' = UsedSlots /\ FreeCounts' = FreeCounts
        /\ \A h : Start(h)' = Start(h) /\ Top(h)' = Top(h)
    BY <1>1 DEF UsedSlots, FreeCounts, Start, Top
  <1>5. Accounted'
    BY <1>1, <1>3, <1>4, AccountedIs DEF SumInv
  <1> QED BY <1>1, <1>4, <1>5 DEF SumInv

LEMMA PastStays ==
    ASSUME SumInv, UNCHANGED <<mem, past>>, DOMAIN live' = DOMAIN live
    PROVE  SumInv'
  <1>1. UNCHANGED <<heaps, lost, holes, gone, deletes>> /\ LostBehind
    BY AccountedIs DEF mem, past, SumInv
  <1>2. LostBehind'
    BY <1>1 DEF LostBehind, InHeap, UsedSlots
  <1> QED BY <1>1, <1>2, SumsStay

(* tuya_mem_heap_free finds the tag of what a client holds, and the heap   *)
(* too, unless a slot before it is a hole: nothing else is lost there.     *)
LEMMA FreeSums ==
    ASSUME HeapInv, SumInv, NEW t \in Tasks, FreeCheck(t)
    PROVE  SumInv'
  <1>1. Working(t) /\ op[t].pc = "free"
    BY DEF HeapInv, FreeCheck
  <1>2. PICK p \in Nat : p = op[t].old /\ p \in DOMAIN live
    BY <1>1 DEF Working, HeapInv, Shapes
  <1>3. tag[Dog(Block(p))] = "use"
    BY <1>2 DEF HeapInv, HeldFits
  <1>4. Owner(p) = {} => \E h \in UsedSlots, k \in holes : InHeap(p, h) /\ k < h
    <2> SUFFICES ASSUME Owner(p) = {} PROVE \E h \in UsedSlots, k \in holes : InHeap(p, h) /\ k < h
      OBVIOUS
    <2>1. PICK h \in Slots : Within(word, Block(p), h)
      BY <1>2 DEF HeapInv, HeldFits
    <2>2. InHeap(p, h) /\ heaps[h].size > 0
      BY <1>2, <2>1, PointerInHeap DEF Within
    <2>3. \A k \in 1..h : k \in Slots /\ (k = h \/ k < h)
      BY Consts DEF Slots
    <2>4. PICK k \in 1..h : ~(heaps[k].size > 0)
      BY <2>2 DEF Owner
    <2>5. k \in Slots /\ k < h /\ heaps[k].size = 0
      <3>1. k \in Slots /\ heaps[k].size \in Nat
        BY <2>3, <2>4 DEF HeapInv, Shapes, Heap
      <3> QED BY <2>2, <2>3, <2>4, <3>1
    <2>6. k \in holes
      BY <2>2, <2>5 DEF SumInv
    <2> QED BY <2>2, <2>5, <2>6 DEF UsedSlots
  <1>5. UNCHANGED <<mem, live, holes, gone, deletes>>
    BY DEF FreeCheck
  <1>6. lost' = lost \/ (Owner(p) = {} /\ lost' = lost \cup {p})
    BY <1>2, <1>3 DEF FreeCheck
  <1>7. LostBehind'
    <2>1. LostBehind /\ UNCHANGED <<heaps, holes>>
      BY <1>5, AccountedIs DEF SumInv, mem
    <2>2. ASSUME NEW q \in lost' PROVE \E h \in UsedSlots, k \in holes : InHeap(q, h) /\ k < h
      BY <1>4, <1>6, <2>1, <2>2 DEF LostBehind
    <2>3. UsedSlots' = UsedSlots /\ \A q, h : InHeap(q, h)' <=> InHeap(q, h)
      BY <2>1 DEF UsedSlots, InHeap
    <2> QED BY <2>1, <2>2, <2>3 DEF LostBehind, InHeap
  <1> QED BY <1>5, <1>7, SumsStay

LEMMA CreateSums ==
    ASSUME HeapInv, SumInv, HeapCreate
    PROVE  SumInv'
  <1>1. PICK a \in Arenas, h \in Slots :
          LET start == AlignUp(a.base)
              size == AlignDown((a.size - (start - a.base)) % Uint)
          IN /\ \A k \in Slots : ~Overlaps(a, heaps[k])
             /\ heaps[h].size = 0 /\ \A k \in 1..h - 1 : heaps[k].size > 0
             /\ size >= HeapMin
             /\ heaps' = [heaps EXCEPT ![h] =
                  [base |-> a.base, size |-> a.size, list |-> <<start>>, free |-> size]]
             /\ word' = With(word, start, size)
             /\ total' = total + size
    BY DEF HeapCreate
  <1>2. PICK start \in Nat, size \in Nat :
          /\ start = AlignUp(a.base) /\ size = AlignDown((a.size - (start - a.base)) % Uint)
          /\ a.base <= start /\ start + size = AlignDown(a.base + a.size)
    BY FirstBlock
  <1>3. PICK base \in Nat, all \in Nat : base = a.base /\ all = a.size /\ all >= W /\ all > 0
    BY Consts
  <1>4. /\ heaps' = [heaps EXCEPT ![h] = [base |-> base, size |-> all, list |-> <<start>>, free |-> size]]
        /\ word' = With(word, start, size) /\ total' = total + size /\ size >= HeapMin
        /\ heaps[h].size = 0 /\ (\A k \in 1..h - 1 : heaps[k].size > 0)
        /\ \A k \in Slots : ~Overlaps(a, heaps[k])
    BY <1>1, <1>2, <1>3
  <1>5. UNCHANGED <<live, lost, holes, gone, deletes>>
    BY DEF HeapCreate, past
  <1>6. heaps \in [Slots -> Heap]
    BY DEF HeapInv, Shapes
  <1>7. /\ heaps'[h].base = base /\ heaps'[h].size = all /\ heaps'[h].list = <<start>>
        /\ heaps'[h].free = size /\ \A k \in Slots : k # h => heaps'[k] = heaps[k]
    BY <1>4, <1>6
  <1>8. /\ word'[start] = size /\ \A b \in DOMAIN word : b # start => word'[b] = word[b]
    BY <1>4 DEF With
  <1>9. base <= start /\ start + size <= base + all /\ size > 0
    <2>1. base + all \in Nat
      OBVIOUS
    <2>2. AlignDown(base + all) \in Nat /\ AlignDown(base + all) <= base + all
      BY <2>1, RoundDown
    <2> QED BY <1>2, <1>3, <1>4, <2>2, Consts
  <1>10. ASSUME NEW b \in Blocks
         PROVE  word'[b] = word[b] /\ (b + word[b] <= base \/ base + all <= b) /\ b \in Nat /\ word[b] \in Nat
    <2>1. b \in Nat /\ word[b] \in Nat /\ word[b] > 0 /\ b \in DOMAIN word
      BY BlockFacts
    <2>2. b + word[b] <= base \/ base + all <= b
      BY <1>3, <1>4, NewArena
    <2>3. b # start
      BY <1>9, <2>1, <2>2
    <2> QED BY <1>8, <2>1, <2>2, <2>3
  <1>11. \A p \in DOMAIN live : word'[Block(p)] = word[Block(p)] /\ ~InHeap(p, h)'
    <2> SUFFICES ASSUME NEW p \in DOMAIN live PROVE word'[Block(p)] = word[Block(p)] /\ ~InHeap(p, h)'
      OBVIOUS
    <2>1. p \in Nat /\ word[Block(p)] > W /\ Block(p) = p - W
      BY DEF HeapInv, Shapes, HeldFits, Fits, Block
    <2>2. PICK b \in Nat, m \in Nat : /\ b = Block(p) /\ m = word[b] /\ word'[b] = word[b]
                                      /\ (b + m <= base \/ base + all <= b)
      <3>1. Block(p) \in Blocks
        BY DEF Blocks, Held
      <3> QED BY <1>10, <3>1
    <2>3. ~(p > base /\ p < base + all)
      BY <2>1, <2>2, Consts
    <2> QED BY <1>7, <2>2, <2>3 DEF InHeap
  <1>12. Inside(h)' = {}
    BY <1>5, <1>11 DEF Inside, InHeap
  <1>13. \A k \in Slots : k # h => Inside(k)' = Inside(k)
    BY <1>5, <1>7 DEF Inside, InHeap
  <1>14. ASSUME NEW k \in Slots, k # h
         PROVE  SumOfList(k)' = SumOfList(k) /\ SumHeld(k)' = SumHeld(k)
    <2>1. \A b \in ToSet(heaps[k].list) : word'[b] = word[b]
      BY <1>10 DEF Blocks, Frees
    <2>2. \A p \in Inside(k) : p \in DOMAIN live' /\ word'[Block(p)] = word[Block(p)]
      BY <1>5, <1>11 DEF Inside
    <2>3. heaps'[k].list = heaps[k].list /\ Inside(k)' = Inside(k)
      BY <1>7, <1>13, <1>14
    <2> QED BY <2>1, <2>2, <2>3, SumsKept DEF SumInv
  <1>15. SumOfList(h)' = size /\ SumHeld(h)' = 0
    <2>1. ToSet(heaps'[h].list) = {start}
      BY <1>7 DEF ToSet
    <2>2. PICK w, S : w = word' /\ S = {start} /\ w[start] = size
      BY <1>8
    <2>3. IsFiniteSet({}) /\ start \notin {} /\ {} \cup {start} = {start} /\ \A x \in {} \cup {start} : w[x] \in Int
      BY <2>2, FS_EmptySet
    <2>4. SumFunctionOnSet(w, {} \cup {start}) = w[start] + SumFunctionOnSet(w, {})
      BY <2>3, SumOfMore
    <2>5. SumFunctionOnSet(w, {start}) = size + 0
      BY <2>2, <2>3, <2>4, SumOfNone
    <2>6. SumOfList(h)' = size
      <3>1. SumOfList(h)' = SumFunctionOnSet(w, {start})
        BY <2>1, <2>2, SumsAre, Zenon
      <3> QED BY <2>5, <3>1
    <2>7. SumHeld(h)' = 0
      BY <1>12, SumsAre, SumOfNone
    <2> QED BY <2>6, <2>7
  <1>16. Start(h)' = start /\ Top(h)' = start + size
    BY <1>2, <1>3, <1>7 DEF Start, Top
  <1>17. UsedSlots' = UsedSlots \cup {h} /\ h \notin UsedSlots
    BY <1>3, <1>4, <1>7 DEF UsedSlots
  <1>18. ASSUME NEW k \in UsedSlots'
         PROVE  /\ heaps'[k].free = SumOfList(k)'
                /\ SumOfList(k)' + SumHeld(k)' = Top(k)' - Start(k)'
    <2>1. CASE k = h
      <3>1. size + 0 = (start + size) - start
        OBVIOUS
      <3> QED BY <1>7, <1>15, <1>16, <2>1, <3>1
    <2>2. CASE k # h
      <3>1. k \in UsedSlots /\ k \in Slots
        BY <1>17, <2>2 DEF UsedSlots
      <3>2. Start(k)' = Start(k) /\ Top(k)' = Top(k) /\ heaps'[k].free = heaps[k].free
        BY <1>7, <2>2, <3>1 DEF Start, Top
      <3>3. heaps[k].free = SumOfList(k) /\ SumOfList(k) + SumHeld(k) = Top(k) - Start(k)
        BY <3>1, AccountedIs DEF SumInv
      <3> QED BY <1>14, <2>2, <3>1, <3>2, <3>3
    <2> QED BY <2>1, <2>2
  <1>19. SumFunctionOnSet(FreeCounts', UsedSlots') = SumFunctionOnSet(FreeCounts, UsedSlots) + size
    <2>2. PICK S, f, g : S = UsedSlots /\ f = FreeCounts /\ g = FreeCounts'
      OBVIOUS
    <2>3. IntsOn(f, S) /\ SumFunctionOnSet(f, S) \in Int
      BY <2>2, CountsAdd
    <2>4. g[h] = size /\ (\A k \in S : g[k] = f[k]) /\ h \notin S
      BY <1>7, <1>17, <2>2 DEF FreeCounts, UsedSlots
    <2>5. SumFunctionOnSet(g, S) = SumFunctionOnSet(f, S)
      BY <2>3, <2>4, SumSame DEF IntsOn
    <2>6. SumFunctionOnSet(g, S \cup {h}) = g[h] + SumFunctionOnSet(g, S)
      <3>1. IsFiniteSet(S) /\ \A k \in S \cup {h} : g[k] \in Int
        BY <2>3, <2>4 DEF IntsOn
      <3> QED BY <2>4, <3>1, SumOfMore
    <2>7. PICK s \in Int : s = SumFunctionOnSet(f, S)
      BY <2>3
    <2>8. size + s = s + size
      OBVIOUS
    <2> QED BY <1>17, <2>2, <2>4, <2>5, <2>6, <2>7, <2>8
  <1>23. total' = SumFunctionOnSet(FreeCounts', UsedSlots') + gone'
    <2>1. PICK s \in Int, g \in Nat : s = SumFunctionOnSet(FreeCounts, UsedSlots) /\ g = gone
      BY CountsAdd DEF SumInv
    <2>2. total = s + g /\ gone' = g
      BY <1>5, <2>1, AccountedIs DEF SumInv
    <2>3. (s + g) + size = (s + size) + g
      OBVIOUS
    <2> QED BY <1>4, <1>19, <2>1, <2>2, <2>3
  <1>24. LostBehind'
    <2>1. LostBehind
      BY AccountedIs DEF SumInv
    <2>2. \A k \in UsedSlots : \A p : InHeap(p, k)' <=> InHeap(p, k)
      BY <1>7, <1>17 DEF InHeap, UsedSlots
    <2> QED BY <1>5, <1>17, <2>1, <2>2 DEF LostBehind, InHeap
  <1>20. Accounted'
    BY <1>18, <1>23, <1>24, AccountedIs
  <1>21. \A i, k \in Slots : k < i /\ heaps'[i].size > 0 /\ heaps'[k].size = 0 => k \in holes'
    <2> SUFFICES ASSUME NEW i \in Slots, NEW k \in Slots, k < i, heaps'[i].size > 0, heaps'[k].size = 0
                 PROVE  k \in holes'
      OBVIOUS
    <2>1. k # h
      BY <1>3, <1>7
    <2>2. CASE i = h
      <3>1. k \in 1..h - 1
        BY <2>2, Consts DEF Slots
      <3> QED BY <1>4, <1>7, <2>1, <3>1
    <2>3. CASE i # h
      BY <1>5, <1>7, <2>1, <2>3 DEF SumInv
    <2> QED BY <2>2, <2>3
  <1> QED BY <1>5, <1>20, <1>21 DEF SumInv

LEMMA DeleteSums ==
    ASSUME HeapInv, SumInv, HeapDelete
    PROVE  SumInv'
  <1>1. PICK h \in Slots : /\ heaps[h].size > 0 /\ heaps' = [heaps EXCEPT ![h] = NoHeap]
                           /\ live' = Restrict(live, {p \in DOMAIN live : ~InHeap(p, h)})
                           /\ lost' = {p \in lost : ~InHeap(p, h)}
                           /\ holes' = holes \cup {h} /\ gone' = gone + heaps[h].free
    BY DEF HeapDelete
  <1>2. UNCHANGED <<word, total>> /\ deletes' = deletes + 1 /\ deletes \in Nat /\ gone \in Nat
    BY DEF HeapDelete, SumInv
  <1>3. /\ heaps'[h].size = 0 /\ \A k \in Slots : k # h => heaps'[k] = heaps[k]
    BY <1>1 DEF NoHeap, HeapInv, Shapes
  <1>4. /\ DOMAIN live' = {p \in DOMAIN live : ~InHeap(p, h)} /\ IsFiniteSet(DOMAIN live')
    <2>1. DOMAIN live' = {p \in DOMAIN live : ~InHeap(p, h)}
      BY <1>1 DEF Restrict
    <2> QED BY <2>1, FS_Subset DEF SumInv
  <1>5. ASSUME NEW k \in UsedSlots'
        PROVE  /\ heaps'[k].free = SumOfList(k)'
               /\ SumOfList(k)' + SumHeld(k)' = Top(k)' - Start(k)'
    <2>1. k # h /\ k \in UsedSlots /\ k \in Slots
      BY <1>3 DEF UsedSlots
    <2>2. heaps'[k] = heaps[k]
      BY <1>3, <2>1
    <2>3. Start(k)' = Start(k) /\ Top(k)' = Top(k)
      BY <2>2 DEF Start, Top
    <2>4. Inside(k)' = Inside(k)
      <3>1. \A p : InHeap(p, k)' <=> InHeap(p, k)
        BY <2>2 DEF InHeap
      <3>2. Inside(k)' = {p \in DOMAIN live' : InHeap(p, k)}
        BY <3>1 DEF Inside, InHeap
      <3>3. \A p \in DOMAIN live : InHeap(p, k) => ~InHeap(p, h)
        BY <2>1, OneOwner DEF HeapInv, Shapes
      <3> QED BY <1>4, <3>2, <3>3 DEF Inside
    <2>5. SumOfList(k)' = SumOfList(k) /\ SumHeld(k)' = SumHeld(k)
      <3>1. \A p \in Inside(k) : p \in DOMAIN live' /\ word'[Block(p)] = word[Block(p)]
        BY <1>2, <2>4 DEF Inside
      <3> QED BY <1>2, <2>1, <2>2, <2>4, <3>1, SumsKept DEF SumInv
    <2>6. heaps[k].free = SumOfList(k) /\ SumOfList(k) + SumHeld(k) = Top(k) - Start(k)
      BY <2>1, AccountedIs DEF SumInv
    <2> QED BY <2>2, <2>3, <2>5, <2>6
  <1>6. LostBehind'
    <2> SUFFICES ASSUME NEW p \in lost'
                 PROVE  \E i \in UsedSlots', k \in holes' : InHeap(p, i)' /\ k < i
      BY DEF LostBehind, InHeap
    <2>1. p \in lost /\ ~InHeap(p, h)
      BY <1>1
    <2>2. PICK i \in UsedSlots, k \in holes : InHeap(p, i) /\ k < i
      BY <2>1, AccountedIs DEF SumInv, LostBehind
    <2>3. i # h /\ heaps'[i] = heaps[i] /\ i \in UsedSlots' /\ k \in holes'
      BY <1>1, <1>3, <2>1, <2>2 DEF UsedSlots
    <2>4. InHeap(p, i)'
      BY <2>2, <2>3 DEF InHeap
    <2> QED BY <2>2, <2>3, <2>4
  <1>7. \A i, k \in Slots : k < i /\ heaps'[i].size > 0 /\ heaps'[k].size = 0 => k \in holes'
    BY <1>1, <1>3 DEF SumInv
  <1>8. heaps[h].free \in Int /\ heaps[h].free >= 0
    <2>1. h \in UsedSlots
      BY <1>1 DEF UsedSlots
    <2>2. heaps[h].free = SumOfList(h)
      BY <2>1, AccountedIs DEF SumInv
    <2> QED BY <2>2, FreeNonneg DEF SumInv
  <1>9. total' = SumFunctionOnSet(FreeCounts', UsedSlots') + gone'
    <2>1. UsedSlots' = UsedSlots \ {h} /\ h \in UsedSlots
      BY <1>1, <1>3 DEF UsedSlots
    <2>2. PICK S, f, g : S = UsedSlots /\ f = FreeCounts /\ g = FreeCounts'
      OBVIOUS
    <2>3. IntsOn(f, S) /\ SumFunctionOnSet(f, S) \in Int /\ h \in S
      BY <2>1, <2>2, CountsAdd
    <2>4. SumSplits(f, S, h)
      BY <2>3, SumWithout, Zenon
    <2>5. SumFunctionOnSet(f, S) = f[h] + SumFunctionOnSet(f, S \ {h}) /\ SumFunctionOnSet(f, S \ {h}) \in Int
      BY <2>4, Zenon DEF SumSplits
    <2>6. PICK R : R = S \ {h} /\ IsFiniteSet(R) /\ \A k \in R : g[k] = f[k] /\ f[k] \in Int
      <3>1. IsFiniteSet(S \ {h}) /\ \A k \in S \ {h} : f[k] \in Int
        BY <2>3, FS_RemoveElement DEF IntsOn
      <3>2. \A k \in S \ {h} : g[k] = f[k]
        BY <1>3, <2>2 DEF FreeCounts, UsedSlots
      <3> QED BY <3>1, <3>2, Zenon
    <2>7. SumFunctionOnSet(g, R) = SumFunctionOnSet(f, R)
      BY <2>6, SumSame
    <2>8. f[h] = heaps[h].free
      BY <2>2 DEF FreeCounts
    <2>9. total = SumFunctionOnSet(f, S) + gone /\ total' = total
      BY <1>2, <2>2, AccountedIs DEF SumInv
    <2>10. PICK r \in Int, m \in Int, d \in Nat :
             r = SumFunctionOnSet(f, R) /\ m = f[h] /\ d = gone /\ gone' = d + m
      BY <1>1, <1>2, <1>8, <2>5, <2>6, <2>8
    <2>11. total' = (m + r) + d
      BY <2>5, <2>6, <2>9, <2>10
    <2>12. (m + r) + d = r + (d + m)
      BY <2>10
    <2> QED BY <2>1, <2>2, <2>6, <2>7, <2>10, <2>11, <2>12
  <1>10. Accounted'
    BY <1>5, <1>6, <1>9, AccountedIs
  <1>11. deletes' \in Nat /\ gone' \in Nat
    BY <1>1, <1>2, <1>8
  <1> QED BY <1>4, <1>7, <1>10, <1>11 DEF SumInv

(* The words of free blocks are remembered.                                *)
LEMMA FreeWords ==
    ASSUME NEW ws, NEW ts, Remember(ws, ts), NEW h \in Slots, NEW b \in ToSet(heaps'[h].list)
    PROVE  word'[b] = ws[b]
  <1>1. Frees' = UNION {ToSet(heaps'[k].list) : k \in Slots}
    BY Zenon DEF Frees
  <1>2. b \in Starts'
    BY <1>1 DEF Starts
  <1>3. word' = Restrict(ws, Starts')
    BY Zenon DEF Remember
  <1> QED BY <1>2, <1>3 DEF Restrict

(* A list of free blocks with sizes ws.                                    *)
LEMMA ListSum ==
    ASSUME HeapInv', NEW ws, NEW ts, Remember(ws, ts), NEW h \in Slots
    PROVE  SumOfList(h)' = SumFunctionOnSet(ws, ToSet(heaps'[h].list))
  <1>1. PICK S, w : S = ToSet(heaps'[h].list) /\ w = word'
    OBVIOUS
  <1>2. \A b \in S : w[b] = ws[b]
    BY <1>1, FreeWords
  <1>3. heaps'[h].list \in Seq(Nat)
    BY DEF HeapInv, Shapes, Heap
  <1>4. \A b \in S : w[b] \in Int
    <2>1. \A b \in S : b \in DOMAIN word'
      BY <1>1 DEF HeapInv, FreeListed, FreeBlock
    <2> QED BY <1>1, <2>1 DEF HeapInv, Shapes
  <1>5. IsFiniteSet(S)
    BY <1>1, <1>3, ListFinite
  <1>6. SumFunctionOnSet(w, S) = SumFunctionOnSet(ws, S)
    BY <1>2, <1>4, <1>5, SumSame
  <1> QED BY <1>1, <1>6, SumsAre

(* The blocks in the lists of two heaps are different.                     *)
LEMMA ListsApart ==
    ASSUME HeapInv, NEW h \in Slots, NEW k \in Slots, k # h, NEW b \in ToSet(heaps[k].list)
    PROVE  b \notin ToSet(heaps[h].list) /\ b \in Blocks
  <1>1. b \in Nat /\ word[b] \in Nat /\ word[b] > 0 /\ Within(word, b, k) /\ b \in Blocks
    BY Listed
  <1>2. ASSUME b \in ToSet(heaps[h].list) PROVE FALSE
    <2>1. Within(word, b, h)
      BY <1>2, Listed
    <2> QED BY <1>1, <2>1, OneHeap
  <1> QED BY <1>1, <1>2

LEMMA AllocateSums ==
    ASSUME HeapInv, HeapInv', SumInv, NEW t \in Tasks, Allocate(t)
    PROVE  SumInv'
  <1>1. PICK h \in Slots, n \in Nat : h = op[t].slot /\ n = op[t].len /\ ~Refused(n) /\ op[t].pc = "get"
    BY DEF HeapInv, Shapes, Op, Working, Allocate
  <1>2. PICK size \in Nat : size = BlockSize(n) /\ size > W
    <2>1. BlockSize(n) \in Nat /\ Clamp(n) \in Nat
      BY RoomInBlock
    <2>2. BlockSize(n) >= Clamp(n)
      BY <1>1, <2>1 DEF Refused, Overflows
    <2> QED BY <2>1, <2>2, RoomInBlock, Consts
  <1>3. PICK i \in Chosen(heaps[h].list, size) :
           LET got == Taken(h, i, size)
               took == got.word[got.block]
               ptr == got.block + W
           IN /\ heaps' = [heaps EXCEPT ![h].list = got.list, ![h].free = @ - took]
              /\ total' = total - took
              /\ live' = With(live, ptr, n)
              /\ Remember(got.word, got.tag)
    BY <1>1, <1>2 DEF Allocate
  <1>4. i \in DOMAIN heaps[h].list /\ word[heaps[h].list[i]] >= size
    BY ChosenFits
  <1>5. PICK blk \in Nat, lst \in Seq(Nat) : \E ws, ts : TakesWell(h, i, size, blk, lst, ws, ts)
    BY <1>2, <1>4, TakenFits
  <1>6. PICK ws, ts : TakesWell(h, i, size, blk, lst, ws, ts)
    BY <1>5
  <1>7. /\ Taken(h, i, size) = [block |-> blk, list |-> lst, word |-> ws, tag |-> ts]
        /\ blk \notin Held /\ ws[blk] \in Nat /\ ws[blk] >= size /\ Within(ws, blk, h)
        /\ \A b \in Held : ws[b] = word[b]
        /\ \A b \in Blocks : b \notin ToSet(heaps[h].list) => ws[b] = word[b]
        /\ SumFunctionOnSet(ws, ToSet(lst)) = SumFunctionOnSet(word, ToSet(heaps[h].list)) - ws[blk]
    BY <1>6, Zenon DEF TakesWell
  <1>8. PICK ptr \in Nat : ptr = blk + W /\ Block(ptr) = blk
    BY Consts DEF Block
  <1>9. /\ heaps' = [heaps EXCEPT ![h].list = lst, ![h].free = @ - ws[blk]]
        /\ total' = total - ws[blk] /\ live' = With(live, ptr, n) /\ Remember(ws, ts)
    BY <1>3, <1>7, <1>8
  <1>10. PICK m \in Nat : m = ws[blk] /\ m > W
    BY <1>2, <1>7, Consts
  <1>11. /\ heaps'[h].list = lst /\ heaps'[h].free = heaps[h].free - m
         /\ \A k \in Slots : /\ heaps'[k].base = heaps[k].base /\ heaps'[k].size = heaps[k].size
                             /\ k # h => heaps'[k].list = heaps[k].list /\ heaps'[k].free = heaps[k].free
    <2>1. heaps[h].free \in Int /\ heaps[h].free - m \in Int
      BY DEF HeapInv, Shapes, Heap
    <2>2. PICK f \in Int : f = heaps[h].free - m
      BY <2>1
    <2>3. heaps' = [heaps EXCEPT ![h] = [heaps[h] EXCEPT !.list = lst, !.free = f]]
      BY <1>9, <1>10, <2>2 DEF HeapInv, Shapes, Heap
    <2> QED BY <2>2, <2>3 DEF HeapInv, Shapes, Heap
  <1>12. DOMAIN live' = DOMAIN live \cup {ptr} /\ ptr \notin DOMAIN live
    BY <1>7, <1>8, <1>9 DEF With, Held
  <1>13. InHeap(ptr, h) /\ h \in UsedSlots
    <2>1. heaps[h].size > 0 /\ Start(h) <= blk /\ blk + m <= Top(h)
      BY <1>7, <1>10 DEF Within
    <2>2. /\ Start(h) \in Nat /\ Top(h) \in Nat /\ heaps[h].base \in Nat /\ heaps[h].size \in Nat
          /\ heaps[h].base <= Start(h) /\ Top(h) <= heaps[h].base + heaps[h].size
      BY <2>1, Edges DEF HeapInv
    <2>3. heaps[h].base < ptr /\ ptr < heaps[h].base + heaps[h].size
      BY <1>8, <1>10, <2>1, <2>2, Consts
    <2> QED BY <2>1, <2>2, <2>3 DEF InHeap, UsedSlots
  <1>14. \A k \in Slots : \A p : InHeap(p, k)' <=> InHeap(p, k)
    BY <1>11 DEF InHeap
  <1>15. Inside(h)' = Inside(h) \cup {ptr} /\ \A k \in Slots : k # h => Inside(k)' = Inside(k)
    <2>1. \A k \in Slots : Inside(k)' = {p \in DOMAIN live' : InHeap(p, k)}
      BY <1>14 DEF Inside, InHeap
    <2>2. \A k \in Slots : k # h => ~InHeap(ptr, k)
      BY <1>13, OneOwner
    <2> QED BY <1>12, <1>13, <2>1, <2>2 DEF Inside
  <1>16. \A p \in DOMAIN live : p \in DOMAIN live' /\ word'[Block(p)] = word[Block(p)]
    BY <1>7, <1>9, <1>12, HeldWords DEF Held
  <1>17. word'[Block(ptr)] = m
    <2>1. ptr \in DOMAIN live'
      BY <1>12
    <2>2. word'[Block(ptr)] = ws[Block(ptr)]
      BY <1>9, <2>1, HeldWords
    <2> QED BY <1>8, <1>10, <2>2
  <1>18. SumHeld(h)' = SumHeld(h) + m
    <2>1. ptr \in DOMAIN live' /\ word'[Block(ptr)] \in Int
      BY <1>12, <1>17
    <2> QED BY <1>12, <1>15, <1>16, <1>17, <2>1, HeldMore DEF SumInv
  <1>19. SumOfList(h)' = SumOfList(h) - m
    <2>1. SumOfList(h)' = SumFunctionOnSet(ws, ToSet(heaps'[h].list))
      BY <1>9, ListSum, Zenon
    <2>2. SumOfList(h) = SumFunctionOnSet(word, ToSet(heaps[h].list))
      BY SumsAre, Zenon
    <2> QED BY <1>7, <1>10, <1>11, <2>1, <2>2, Zenon
  <1>20. ASSUME NEW k \in Slots, k # h
         PROVE  SumOfList(k)' = SumOfList(k) /\ SumHeld(k)' = SumHeld(k)
    <2>1. ASSUME NEW b \in ToSet(heaps[k].list) PROVE word'[b] = word[b]
      <3>1. b \in ToSet(heaps'[k].list)
        BY <1>11, <1>20
      <3>2. word'[b] = ws[b]
        BY <1>9, <3>1, FreeWords, Zenon
      <3>3. b \notin ToSet(heaps[h].list) /\ b \in Blocks
        BY <1>20, ListsApart
      <3> QED BY <1>7, <3>2, <3>3
    <2>2. \A p \in Inside(k) : p \in DOMAIN live' /\ word'[Block(p)] = word[Block(p)]
      BY <1>16 DEF Inside
    <2> QED BY <1>11, <1>15, <1>20, <2>1, <2>2, SumsKept DEF SumInv
  <1>21. IsFiniteSet(DOMAIN live') /\ UNCHANGED past
    BY <1>12, FS_AddElement DEF SumInv, Allocate
  <1>22. PICK d \in Int : d = 0 - m
    OBVIOUS
  <1>23. /\ heaps'[h].free = heaps[h].free + d /\ SumOfList(h)' = SumOfList(h) + d
         /\ SumHeld(h)' = SumHeld(h) - d
    <2>1. SumOfList(h) \in Int /\ SumHeld(h) \in Int /\ heaps[h].free \in Int
      BY SizesAdd DEF SumInv, HeapInv, Shapes, Heap
    <2> QED BY <1>11, <1>18, <1>19, <1>22, <2>1
  <1>24. total' = total + d
    <2>1. PICK s \in Int, g \in Nat : s = SumFunctionOnSet(FreeCounts, UsedSlots) /\ g = gone
      BY CountsAdd DEF SumInv
    <2>2. total = s + g
      BY <2>1, AccountedIs DEF SumInv
    <2> QED BY <1>9, <1>10, <1>22, <2>1, <2>2
  <1> QED BY <1>11, <1>13, <1>20, <1>21, <1>23, <1>24, HeapMoves

LEMMA DeallocateSums ==
    ASSUME HeapInv, HeapInv', SumInv, NEW t \in Tasks, Deallocate(t)
    PROVE  SumInv'
  <1>1. PICK h \in Slots, old \in Nat : /\ h = op[t].slot /\ old = op[t].old /\ old \in DOMAIN live
                                        /\ InHeap(old, h)
    <2>1. op[t].pc = "put" /\ Working(t)
      BY DEF Deallocate, HeapInv
    <2>2. op[t].old \in DOMAIN live /\ op[t].slot \in Slots /\ InHeap(op[t].old, op[t].slot)
      BY <2>1 DEF Working
    <2> QED BY <2>2 DEF HeapInv, Shapes
  <1>2. PICK b : b = Block(old) /\ b \in Held
    BY <1>1 DEF Held
  <1>3. GivenBack(h, b)
    <2>1. PICK k \in Slots : Within(word, b, k)
      BY <1>1, <1>2 DEF HeapInv, HeldFits
    <2>2. InHeap(old, k)
      BY <1>1, <1>2, <2>1, PointerInHeap
    <2> QED BY <1>1, <1>2, <2>1, <2>2, OneOwner DEF GivenBack
  <1>4. PICK k \in 0..Len(heaps[h].list) :
           LET joined == Joined(heaps[h].list, k, b)
           IN /\ heaps' = [heaps EXCEPT ![h].list = joined.list, ![h].free = @ + word[b]]
              /\ total' = total + word[b]
              /\ live' = Restrict(live, DOMAIN live \ {old})
              /\ Remember(joined.word, Tagged(b))
    BY <1>1, <1>2 DEF Deallocate, Place, Tagged
  <1>5. PICK lst \in Seq(Nat) : \E ws : JoinsWell(h, k, b, lst, ws)
    BY <1>3, JoinedFits
  <1>6. PICK ws : JoinsWell(h, k, b, lst, ws)
    BY <1>5
  <1>7. /\ Joined(heaps[h].list, k, b) = [list |-> lst, word |-> ws]
        /\ ToSet(lst) \subseteq ToSet(heaps[h].list) \cup {b}
        /\ \A x \in Remaining(h, b, lst) : x \notin ToSet(lst) => ws[x] = word[x]
        /\ SumFunctionOnSet(ws, ToSet(lst)) = SumFunctionOnSet(word, ToSet(heaps[h].list)) + word[b]
    BY <1>6, Zenon DEF JoinsWell
  <1>8. PICK ts : ts = Tagged(b)
    OBVIOUS
  <1>9. /\ heaps' = [heaps EXCEPT ![h].list = lst, ![h].free = @ + word[b]]
        /\ total' = total + word[b] /\ live' = Restrict(live, DOMAIN live \ {old})
        /\ Remember(ws, ts)
    <2>1. PICK j : j = Joined(heaps[h].list, k, b)
      OBVIOUS
    <2>2. j.list = lst /\ j.word = ws
      BY <1>7, <2>1
    <2>3. /\ heaps' = [heaps EXCEPT ![h].list = j.list, ![h].free = @ + word[b]]
          /\ total' = total + word[b] /\ live' = Restrict(live, DOMAIN live \ {old})
          /\ Remember(j.word, ts)
      BY <1>4, <1>8, <2>1, Zenon
    <2> QED BY <2>2, <2>3, Zenon
  <1>10. PICK m \in Nat : m = word[b] /\ b \in Blocks /\ heaps[h].size > 0
    BY <1>3, GivenFacts
  <1>11. /\ heaps'[h].list = lst /\ heaps'[h].free = heaps[h].free + m
         /\ \A i \in Slots : /\ heaps'[i].base = heaps[i].base /\ heaps'[i].size = heaps[i].size
                             /\ i # h => heaps'[i].list = heaps[i].list /\ heaps'[i].free = heaps[i].free
    <2>1. heaps[h].free \in Int /\ heaps[h].free + m \in Int
      BY DEF HeapInv, Shapes, Heap
    <2>2. PICK f \in Int : f = heaps[h].free + m
      BY <2>1
    <2>3. heaps' = [heaps EXCEPT ![h] = [heaps[h] EXCEPT !.list = lst, !.free = f]]
      BY <1>9, <1>10, <2>2 DEF HeapInv, Shapes, Heap
    <2> QED BY <2>2, <2>3 DEF HeapInv, Shapes, Heap
  <1>12. DOMAIN live' = DOMAIN live \ {old}
    BY <1>9 DEF Restrict
  <1>13. \A i \in Slots : Inside(i)' = {p \in DOMAIN live' : InHeap(p, i)}
    BY <1>11 DEF Inside, InHeap
  <1>14. /\ old \in Inside(h) /\ Inside(h)' = Inside(h) \ {old}
         /\ \A i \in Slots : i # h => Inside(i)' = Inside(i)
    <2>1. \A i \in Slots : i # h => ~InHeap(old, i)
      BY <1>1, OneOwner
    <2> QED BY <1>1, <1>12, <1>13, <2>1 DEF Inside
  (* What is still held keeps its size.                                    *)
  <1>15. ASSUME NEW p \in DOMAIN live, p # old
         PROVE  p \in DOMAIN live' /\ word'[Block(p)] = word[Block(p)]
    <2>1. p \in DOMAIN live' /\ p \in Nat
      BY <1>12, <1>15 DEF HeapInv, Shapes
    <2>2. word'[Block(p)] = ws[Block(p)]
      BY <1>9, <2>1, HeldWords, Zenon
    <2>3. PICK x : x = Block(p) /\ x \in Held /\ x # b
      BY <1>1, <1>2, <1>15, <2>1, Consts DEF Block, Held
    <2>4. x \in Blocks /\ x \notin ToSet(heaps[h].list)
      BY <2>3 DEF Blocks, HeapInv, BlocksApart, Frees
    <2>5. x \in Remaining(h, b, lst) /\ x \notin ToSet(lst)
      BY <1>7, <2>3, <2>4 DEF Remaining
    <2> QED BY <1>7, <2>1, <2>2, <2>3, <2>5
  <1>16. SumHeld(h)' = SumHeld(h) - m
    BY <1>1, <1>2, <1>10, <1>14, <1>15, HeldLess DEF SumInv
  <1>17. SumOfList(h)' = SumOfList(h) + m
    <2>1. SumOfList(h)' = SumFunctionOnSet(ws, ToSet(heaps'[h].list))
      BY <1>9, ListSum, Zenon
    <2>2. SumOfList(h) = SumFunctionOnSet(word, ToSet(heaps[h].list))
      BY SumsAre, Zenon
    <2> QED BY <1>7, <1>10, <1>11, <2>1, <2>2, Zenon
  <1>18. ASSUME NEW i \in Slots, i # h
         PROVE  SumOfList(i)' = SumOfList(i) /\ SumHeld(i)' = SumHeld(i)
    <2>1. ASSUME NEW x \in ToSet(heaps[i].list) PROVE word'[x] = word[x]
      <3>1. x \in ToSet(heaps'[i].list)
        BY <1>11, <1>18
      <3>2. word'[x] = ws[x]
        BY <1>9, <3>1, FreeWords, Zenon
      <3>3. x \notin ToSet(heaps[h].list) /\ x \in Blocks
        BY <1>18, ListsApart
      <3>4. x # b
        BY <1>2 DEF HeapInv, BlocksApart, Frees
      <3>5. x \in Remaining(h, b, lst) /\ x \notin ToSet(lst)
        BY <1>7, <3>3, <3>4 DEF Remaining
      <3> QED BY <1>7, <3>2, <3>5
    <2>2. \A p \in Inside(i) : p # old
      BY <1>1, <1>18, OneOwner DEF Inside
    <2>3. \A p \in Inside(i) : p \in DOMAIN live' /\ word'[Block(p)] = word[Block(p)]
      BY <1>15, <2>2 DEF Inside
    <2> QED BY <1>11, <1>14, <1>18, <2>1, <2>3, SumsKept DEF SumInv
  <1>19. IsFiniteSet(DOMAIN live') /\ UNCHANGED past
    BY <1>12, FS_RemoveElement DEF SumInv, Deallocate
  <1>20. h \in UsedSlots /\ m \in Int /\ total' = total + m
    BY <1>9, <1>10 DEF UsedSlots
  <1> QED BY <1>11, <1>16, <1>17, <1>18, <1>19, <1>20, HeapMoves

LEMMA InitSums == Init => SumInv
  <1> SUFFICES ASSUME Init PROVE SumInv
    OBVIOUS
  <1>1. UsedSlots = {} /\ \A h \in Slots : heaps[h].size = 0
    BY DEF Init, UsedSlots, NoHeap
  <1>2. SumFunctionOnSet(FreeCounts, UsedSlots) = 0
    <2>1. PICK f : f = FreeCounts
      OBVIOUS
    <2>2. SumFunctionOnSet(f, {}) = 0
      BY SumOfNone
    <2> QED BY <1>1, <2>1, <2>2
  <1>3. Accounted
    BY <1>1, <1>2, AccountedIs DEF Init, LostBehind
  <1>4. DOMAIN live = {}
    BY DEF Init
  <1>5. IsFiniteSet(DOMAIN live)
    BY <1>4, FS_EmptySet
  <1> QED BY <1>1, <1>2, <1>3, <1>5 DEF SumInv, Init

LEMMA NextSums ==
    ASSUME HeapInv, HeapInv', SumInv, [Next]_vars
    PROVE  SumInv'
  <1>1. CASE HeapCreate
    BY <1>1, CreateSums
  <1>2. CASE HeapDelete
    BY <1>2, DeleteSums
  <1>3. CASE UNCHANGED vars
    BY <1>3, PastStays DEF vars
  <1>4. ASSUME NEW t \in Tasks,
               \/ Malloc(t) \/ LookForHeap(t) \/ AllocateFails(t) \/ Free(t)
               \/ FreeAgain(t) \/ ReallocCopy(t) \/ Realloc(t)
        PROVE  SumInv'
    <2>1. UNCHANGED <<mem, past>>
      BY <1>4 DEF Malloc, LookForHeap, AllocateFails, Free, FreeAgain, ReallocCopy, Realloc
    <2>2. CASE Realloc(t)
      <3>1. DOMAIN live' = DOMAIN live
        BY <2>2 DEF Realloc
      <3> QED BY <2>1, <3>1, PastStays
    <2>3. CASE ~Realloc(t)
      <3>1. UNCHANGED live
        BY <1>4, <2>3 DEF Malloc, LookForHeap, AllocateFails, Free, FreeAgain, ReallocCopy
      <3> QED BY <2>1, <3>1, PastStays
    <2> QED BY <2>2, <2>3
  <1>5. ASSUME NEW t \in Tasks, Allocate(t) PROVE SumInv'
    BY <1>5, AllocateSums
  <1>6. ASSUME NEW t \in Tasks, FreeCheck(t) PROVE SumInv'
    BY <1>6, FreeSums
  <1>7. ASSUME NEW t \in Tasks, Deallocate(t) PROVE SumInv'
    BY <1>7, DeallocateSums
  <1> QED BY <1>1, <1>2, <1>3, <1>4, <1>5, <1>6, <1>7 DEF Next

(* In every state the free counts of the heaps are those of their lists,   *)
(* what is not free was given to a client, and s_heap_free_size is the sum *)
(* of the counts and of what was free in deleted heaps: for any number of  *)
(* tasks, heaps, arenas, requests and deletions.  tuya_mem_heap_free loses *)
(* a block only if a heap in a slot before its own was deleted, and no     *)
(* allocation, split, join or failed call loses a byte.                    *)
THEOREM SizesAccounted == Spec => []Accounted
  <1>1. Init => HeapInv /\ LostAlone /\ SumInv
    BY InitInv, InitLost, InitSums
  <1>2. HeapInv /\ LostAlone /\ SumInv /\ [Next]_vars => HeapInv' /\ LostAlone' /\ SumInv'
    BY NextStep, NextLost, NextSums
  <1>3. HeapInv /\ SumInv => Accounted
    BY DEF SumInv
  <1> QED BY <1>1, <1>2, <1>3, PTL DEF Spec

-----------------------------------------------------------------------------
(* The walk of MEM_HeapStatus.                                             *)

Pairs == Nat \X Nat

(* The walk, with the answer of f for what is left after one step.         *)
Walking(h, f) ==
    [x \in Nat \X Nat |->
        LET a == x[1]
            k == x[2]
            listed == k <= Len(heaps[h].list) /\ heaps[h].list[k] = a
        IN IF a >= Top(h) THEN a = Top(h) /\ k > Len(heaps[h].list)
           ELSE /\ a \in DOMAIN word /\ Dog(a) \in DOMAIN tag
                /\ listed <=> tag[Dog(a)] = "free"
                /\ f[<<a + word[a], IF listed THEN k + 1 ELSE k>>]]

LEMMA StatusIsFixpoint ==
    ASSUME NEW h
    PROVE  Status(h) = (CHOOSE f : f = Walking(h, f))[<<Start(h), 1>>]
  BY DEF Status, Walking

(* One step of it, from the pair x.                                        *)
Listing(h, x) == x[2] <= Len(heaps[h].list) /\ heaps[h].list[x[2]] = x[1]
StepOk(h, x) ==
    /\ x[1] \in DOMAIN word /\ Dog(x[1]) \in DOMAIN tag
    /\ Listing(h, x) <=> tag[Dog(x[1])] = "free"
Onward(h, x) == <<x[1] + word[x[1]], IF Listing(h, x) THEN x[2] + 1 ELSE x[2]>>
AtEnd(h, x) == x[1] = Top(h) /\ x[2] > Len(heaps[h].list)

LEMMA WalkingAt ==
    ASSUME NEW h, NEW f, NEW x \in Pairs
    PROVE  /\ Walking(h, f)[x] \in BOOLEAN
           /\ x[1] >= Top(h) => (Walking(h, f)[x] <=> AtEnd(h, x))
           /\ ~(x[1] >= Top(h)) => (Walking(h, f)[x] <=> StepOk(h, x) /\ f[Onward(h, x)])
  <1>1. Walking(h, f)[x] \in BOOLEAN
    BY DEF Walking, Pairs
  <1>2. x[1] >= Top(h) => (Walking(h, f)[x] <=> AtEnd(h, x))
    BY DEF Walking, Pairs, AtEnd
  <1>3. ~(x[1] >= Top(h)) => (Walking(h, f)[x] <=> StepOk(h, x) /\ f[Onward(h, x)])
    BY DEF Walking, Pairs, Listing, StepOk, Onward
  <1> QED BY <1>1, <1>2, <1>3, Zenon

LEMMA SameTruth == ASSUME NEW a \in BOOLEAN, NEW b \in BOOLEAN, a <=> b PROVE a = b
  OBVIOUS

(* The pairs from which the walk is right, if it is right from those of P, *)
(* and those from which it is right after some number of steps.            *)
OneMore(h, P) ==
    {x \in Pairs : \/ x[1] >= Top(h) /\ AtEnd(h, x)
                   \/ ~(x[1] >= Top(h)) /\ StepOk(h, x) /\ Onward(h, x) \in P}
Right(h) == {x \in Pairs : \A P \in SUBSET Pairs : OneMore(h, P) \subseteq P => x \in P}

LEMMA RightAgain ==
    ASSUME NEW h
    PROVE  OneMore(h, Right(h)) = Right(h)
  <1>1. \A P, Q \in SUBSET Pairs : P \subseteq Q => OneMore(h, P) \subseteq OneMore(h, Q)
    BY DEF OneMore
  <1>2. \A P : OneMore(h, P) \in SUBSET Pairs
    BY DEF OneMore
  <1>3. Right(h) \in SUBSET Pairs
    BY DEF Right
  <1>4. \A P \in SUBSET Pairs : OneMore(h, P) \subseteq P => Right(h) \subseteq P
    BY DEF Right
  <1>5. OneMore(h, Right(h)) \subseteq Right(h)
    <2> SUFFICES ASSUME NEW x \in OneMore(h, Right(h)), NEW P \in SUBSET Pairs, OneMore(h, P) \subseteq P
                 PROVE  x \in P
      BY <1>2 DEF Right
    <2>1. OneMore(h, Right(h)) \subseteq OneMore(h, P)
      BY <1>1, <1>3, <1>4
    <2> QED BY <2>1
  <1>6. OneMore(h, OneMore(h, Right(h))) \subseteq OneMore(h, Right(h))
    BY <1>1, <1>2, <1>3, <1>5
  <1>7. Right(h) \subseteq OneMore(h, Right(h))
    BY <1>2, <1>4, <1>6
  <1> QED BY <1>5, <1>7

(* So the recursion has a solution.                                        *)
LEMMA WalkExists ==
    ASSUME HeapInv, NEW h
    PROVE  \E f : f = Walking(h, f)
  <1>1. PICK R : R = Right(h) /\ R = OneMore(h, R)
    BY RightAgain
  <1>2. PICK f : f = [x \in Pairs |-> x \in R]
    OBVIOUS
  <1>3. ASSUME NEW x \in Pairs PROVE f[x] = Walking(h, f)[x]
    <2>1. f[x] = (x \in R)
      BY <1>2
    <2>2. f[x] \in BOOLEAN /\ Walking(h, f)[x] \in BOOLEAN
      BY <2>1, WalkingAt
    <2>3. f[x] <=> x \in OneMore(h, R)
      BY <1>1, <2>1
    <2>4. CASE x[1] >= Top(h)
      <3>1. x \in OneMore(h, R) <=> AtEnd(h, x)
        BY <2>4 DEF OneMore
      <3>2. f[x] <=> Walking(h, f)[x]
        BY <2>3, <2>4, <3>1, WalkingAt
      <3> QED BY <2>2, <3>2, SameTruth
    <2>5. CASE ~(x[1] >= Top(h))
      <3>1. x \in OneMore(h, R) <=> StepOk(h, x) /\ Onward(h, x) \in R
        BY <2>5 DEF OneMore
      <3>2. StepOk(h, x) => Onward(h, x) \in Pairs
        <4>1. StepOk(h, x) => word[x[1]] \in Nat
          BY DEF StepOk, HeapInv, Shapes
        <4> QED BY <4>1 DEF Onward, Pairs
      <3>3. StepOk(h, x) => f[Onward(h, x)] = (Onward(h, x) \in R)
        BY <1>2, <3>2
      <3>4. StepOk(h, x) => (f[Onward(h, x)] <=> Onward(h, x) \in R)
        BY <3>3
      <3>5. f[x] <=> Walking(h, f)[x]
        BY <2>3, <2>5, <3>1, <3>4, WalkingAt
      <3> QED BY <2>2, <3>5, SameTruth
    <2> QED BY <2>4, <2>5
  <1>4. f = Walking(h, f)
    BY <1>2, <1>3 DEF Walking, Pairs
  <1> QED BY <1>4

(* The lists are in the order of the addresses, and free blocks do not     *)
(* touch.                                                                  *)
Increasing(s) == \A i, j \in DOMAIN s : i < j => s[i] < s[j]
NoTouch(S, w) == \A x, y \in S : x < y => x + w[x] < y
Sorted ==
    \A h \in Slots : Increasing(heaps[h].list) /\ NoTouch(ToSet(heaps[h].list), word)

(* The blocks of a heap, and where they may begin and end.                 *)
Inner(h) == {b \in Blocks : Within(word, b, h)}
Bounds(h) == Inner(h) \cup {Top(h)}
Tiled(h) == Start(h) \in Bounds(h) /\ \A b \in Inner(h) : b + word[b] \in Bounds(h)

(* k is the place in the list of the first free block from a on.           *)
Meets(h, a, k) == \A j \in DOMAIN heaps[h].list : j < k <=> heaps[h].list[j] < a

LEMMA WalkOn ==
    ASSUME HeapInv, Sorted, NEW h \in Slots, NEW a \in Inner(h), NEW k \in Nat, k >= 1, Meets(h, a, k)
    PROVE  /\ StepOk(h, <<a, k>>)
           /\ \E m \in Nat : /\ m >= 1 /\ Onward(h, <<a, k>>) = <<a + word[a], m>>
                             /\ Meets(h, a + word[a], m)
  <1>1. /\ a \in Blocks /\ Within(word, a, h) /\ a \in Nat /\ a \in DOMAIN word
        /\ word[a] \in Nat /\ word[a] > 0
    BY BlockFacts DEF Inner
  <1>2. PICK list : list = heaps[h].list /\ list \in Seq(Nat)
    BY DEF HeapInv, Shapes, Heap
  <1>3. \A j \in DOMAIN list : list[j] \in ToSet(heaps[h].list) /\ list[j] \in Nat /\ j \in Nat
    BY <1>2 DEF ToSet
  <1>4. \A j \in DOMAIN list : /\ list[j] \in Blocks /\ word[list[j]] \in Nat
                              /\ word[list[j]] > 0 /\ list[j] \in Frees
    BY <1>2, <1>3, Listed DEF Frees
  <1>5. DOMAIN list = 1..Len(list) /\ Len(list) \in Nat
    BY <1>2
  <1>6. \A i, j \in DOMAIN list : i < j => list[i] + word[list[i]] < list[j]
    <2>1. Increasing(list) /\ NoTouch(ToSet(list), word)
      BY <1>2 DEF Sorted
    <2> QED BY <1>2, <1>3, <2>1 DEF Increasing, NoTouch
  <1>7. \A j \in DOMAIN list : j < k <=> list[j] < a
    BY <1>2 DEF Meets
  <1>8. CASE a \in Frees
    <2>1. PICK i \in Slots : a \in ToSet(heaps[i].list)
      BY <1>8, Zenon DEF Frees
    <2>2. i = h
      BY <1>1, <2>1, Listed, OneHeap
    <2>3. PICK j \in DOMAIN list : list[j] = a
      BY <1>2, <2>1, <2>2 DEF ToSet
    <2>4. ~(j < k)
      BY <1>1, <1>7, <2>3
    <2>5. j = k
      <3>1. ASSUME k < j PROVE FALSE
        <4>1. k \in DOMAIN list
          BY <1>5, <2>3, <3>1
        <4>2. list[k] + word[list[k]] < list[j]
          BY <1>6, <2>3, <3>1, <4>1
        <4>3. list[k] < a
          BY <1>3, <1>4, <1>1, <2>3, <4>1, <4>2
        <4> QED BY <1>7, <4>1, <4>3
      <3> QED BY <1>3, <2>3, <2>4, <3>1
    <2>6. Listing(h, <<a, k>>)
      BY <1>2, <1>5, <2>3, <2>5 DEF Listing
    <2>7. Dog(a) \in DOMAIN tag /\ tag[Dog(a)] = "free"
      BY <2>1, Listed
    <2>8. StepOk(h, <<a, k>>)
      BY <1>1, <2>6, <2>7 DEF StepOk
    <2>9. Onward(h, <<a, k>>) = <<a + word[a], k + 1>>
      BY <2>6 DEF Onward
    <2>10. ASSUME NEW i1 \in DOMAIN list PROVE i1 < k + 1 <=> list[i1] < a + word[a]
      <3>1. CASE i1 < k
        BY <1>1, <1>3, <1>7, <3>1
      <3>2. CASE i1 = k
        BY <1>1, <2>3, <2>5, <3>2
      <3>3. CASE i1 > k
        <4>1. list[k] + word[list[k]] < list[i1]
          BY <1>6, <2>3, <2>5, <3>3
        <4> QED BY <1>1, <1>3, <2>3, <2>5, <3>3, <4>1
      <3> QED BY <1>3, <3>1, <3>2, <3>3
    <2>11. Meets(h, a + word[a], k + 1)
      BY <1>2, <2>10 DEF Meets
    <2> QED BY <2>8, <2>9, <2>11
  <1>9. CASE a \notin Frees
    <2>1. a \in Held
      BY <1>1, <1>9 DEF Blocks
    <2>2. Dog(a) \in DOMAIN tag /\ tag[Dog(a)] = "use"
      BY <2>1 DEF Held, HeapInv, HeldFits
    <2>3. \A j \in DOMAIN list : list[j] # a
      BY <1>4, <1>9
    <2>4. ~Listing(h, <<a, k>>)
      BY <1>2, <1>5, <2>3 DEF Listing
    <2>5. StepOk(h, <<a, k>>)
      BY <1>1, <2>2, <2>4 DEF StepOk
    <2>6. Onward(h, <<a, k>>) = <<a + word[a], k>>
      BY <2>4 DEF Onward
    <2>7. ASSUME NEW i1 \in DOMAIN list PROVE i1 < k <=> list[i1] < a + word[a]
      <3>1. a + word[a] <= list[i1] \/ list[i1] + word[list[i1]] <= a
        BY <1>1, <1>4, <2>3 DEF HeapInv, BlocksApart, AllApart
      <3> QED BY <1>1, <1>3, <1>4, <1>7, <3>1
    <2>8. Meets(h, a + word[a], k)
      BY <1>2, <2>7 DEF Meets
    <2> QED BY <2>5, <2>6, <2>8
  <1> QED BY <1>8, <1>9

(* The walk over a heap that is tiled by blocks, the free ones listed in   *)
(* their order, finds nothing wrong.                                       *)
LEMMA WalkRight ==
    ASSUME HeapInv, Sorted, NEW h \in Slots, heaps[h].size > 0, Tiled(h)
    PROVE  Status(h)
  <1>1. PICK f : f = Walking(h, f) /\ Status(h) = f[<<Start(h), 1>>]
    <2>1. PICK g : g = (CHOOSE f : f = Walking(h, f))
      OBVIOUS
    <2>2. g = Walking(h, g)
      BY <2>1, WalkExists
    <2> QED BY <2>1, <2>2, StatusIsFixpoint
  <1>2. /\ Start(h) \in Nat /\ Top(h) \in Nat /\ heaps[h].list \in Seq(Nat)
    BY Edges DEF HeapInv, Shapes, Heap
  <1>3. \A a \in Bounds(h) : a \in Nat /\ a <= Top(h)
    <2>1. \A a \in Inner(h) : a \in Nat /\ a <= Top(h)
      BY <1>2, BlockFacts DEF Inner, Within
    <2> QED BY <1>2, <2>1 DEF Bounds
  <1> DEFINE Wrong(a, k) == k >= 1 /\ Meets(h, a, k) /\ ~f[<<a, k>>]
             T == {n \in Nat : \E a \in Bounds(h), k \in Nat : n = Top(h) - a /\ Wrong(a, k)}
  <1>4. T = {}
    <2> SUFFICES ASSUME T # {} PROVE FALSE
      OBVIOUS
    <2>1. PICK n \in T : \A m \in T : n <= m
      BY Least
    <2>2. PICK a \in Bounds(h), k \in Nat : n = Top(h) - a /\ Wrong(a, k)
      BY <2>1
    <2>3. a \in Nat /\ <<a, k>> \in Pairs
      BY <1>3, <2>2 DEF Pairs
    <2> HIDE DEF Wrong, T
    <2>4. CASE a = Top(h)
      <3>1. k > Len(heaps[h].list)
        <4>1. \A j \in DOMAIN heaps[h].list : heaps[h].list[j] < Top(h)
          <5>1. ASSUME NEW x \in ToSet(heaps[h].list) PROVE x < Top(h)
            <6>1. x \in Nat /\ word[x] \in Nat /\ word[x] > 0 /\ x + word[x] <= Top(h)
              BY Listed
            <6> QED BY <1>2, <6>1
          <5> QED BY <1>2, <5>1 DEF ToSet
        <4>2. \A j \in DOMAIN heaps[h].list : j < k
          BY <2>2, <2>4, <4>1 DEF Wrong, Meets
        <4>3. Len(heaps[h].list) \in Nat /\ DOMAIN heaps[h].list = 1..Len(heaps[h].list)
          BY <1>2
        <4>4. k >= 1
          BY <2>2 DEF Wrong
        <4> QED BY <4>2, <4>3, <4>4
      <3>2. AtEnd(h, <<a, k>>)
        BY <2>4, <3>1 DEF AtEnd
      <3>3. <<a, k>>[1] >= Top(h)
        BY <1>2, <2>4
      <3>4. f[<<a, k>>]
        BY <1>1, <2>3, <3>2, <3>3, WalkingAt
      <3> QED BY <2>2, <3>4 DEF Wrong
    <2>5. CASE a \in Inner(h)
      <3>1. PICK m \in Nat : /\ m >= 1 /\ Onward(h, <<a, k>>) = <<a + word[a], m>>
                             /\ Meets(h, a + word[a], m) /\ StepOk(h, <<a, k>>)
        BY <2>2, <2>5, WalkOn DEF Wrong
      <3>2. /\ a + word[a] \in Bounds(h) /\ word[a] \in Nat /\ word[a] > 0
            /\ a + word[a] <= Top(h)
        BY <2>5, BlockFacts DEF Tiled, Inner, Within
      <3>3. ~(<<a, k>>[1] >= Top(h))
        BY <1>2, <2>3, <3>2
      <3>4. ~f[<<a + word[a], m>>]
        <4>1. f[<<a + word[a], m>>] => f[<<a, k>>]
          BY <1>1, <2>3, <3>1, <3>3, WalkingAt
        <4> QED BY <2>2, <4>1 DEF Wrong
      <3>5. Wrong(a + word[a], m)
        BY <3>1, <3>4 DEF Wrong
      <3>6. Top(h) - (a + word[a]) \in Nat
        BY <1>2, <2>3, <3>2
      <3>7. Top(h) - (a + word[a]) \in T
        BY <3>2, <3>5, <3>6 DEF T
      <3> QED BY <1>2, <2>1, <2>2, <2>3, <3>2, <3>7
    <2> QED BY <2>2, <2>4, <2>5 DEF Bounds
  <1>5. Meets(h, Start(h), 1)
    <2>1. \A x \in ToSet(heaps[h].list) : Start(h) <= x /\ x \in Nat
      BY Listed
    <2>2. \A j \in DOMAIN heaps[h].list : heaps[h].list[j] \in ToSet(heaps[h].list) /\ j >= 1 /\ j \in Nat
      BY <1>2 DEF ToSet
    <2> QED BY <1>2, <2>1, <2>2 DEF Meets
  <1>6. f[<<Start(h), 1>>]
    <2>1. Start(h) \in Bounds(h) /\ Top(h) - Start(h) \in Nat
      BY <1>2, <1>3 DEF Tiled
    <2> QED BY <1>4, <1>5, <2>1
  <1> QED BY <1>1, <1>6

-----------------------------------------------------------------------------
(* Blocks that do not meet and whose sizes add up to the whole tile it.    *)

LEMMA SumOfBoth ==
    ASSUME NEW w, NEW S, NEW T, IntsOn(w, S), IntsOn(w, T), S \cap T = {}
    PROVE  /\ SumFunctionOnSet(w, S \cup T) = SumFunctionOnSet(w, S) + SumFunctionOnSet(w, T)
           /\ SumFunctionOnSet(w, S) \in Int /\ SumFunctionOnSet(w, T) \in Int
  <1>1. /\ IsFiniteSet(S) /\ IsFiniteSet(T) /\ \A x \in S \cup T : w[x] \in Int
    BY DEF IntsOn
  <1>2. \A s \in SUBSET S : SumFunctionOnSet(w, s) \in Int
    <2> SUFFICES ASSUME NEW s \in SUBSET S PROVE SumFunctionOnSet(w, s) \in Int
      OBVIOUS
    <2>1. IsFiniteSet(s) /\ \A x \in s : w[x] \in Int
      BY <1>1, FS_Subset
    <2> QED BY <2>1, SumSame
  <1>3. SumFunctionOnSet(w, T) \in Int
    BY <1>1, SumSame
  <1> DEFINE B == {s \in SUBSET S : SumFunctionOnSet(w, s \cup T) # SumFunctionOnSet(w, s) + SumFunctionOnSet(w, T)}
  <1>4. B = {}
    <2> SUFFICES ASSUME B # {} PROVE FALSE
      OBVIOUS
    <2>1. PICK s \in B : \A r \in B : Cardinality(s) <= Cardinality(r)
      BY <1>1, Smallest
    <2>2. s \subseteq S /\ IsFiniteSet(s)
      BY <1>1, <2>1, FS_Subset
    <2>3. CASE s = {}
      <3>1. SumFunctionOnSet(w, {}) = 0 /\ {} \cup T = T
        BY SumOfNone
      <3> QED BY <1>3, <2>1, <2>3, <3>1
    <2>4. CASE s # {}
      <3>1. PICK x \in s : TRUE
        BY <2>4
      <3>2. PICK r : r = s \ {x} /\ r \subseteq S /\ x \notin r /\ IsFiniteSet(r) /\ Cardinality(r) < Cardinality(s)
        <4>1. s \ {x} \subseteq S /\ x \notin s \ {x} /\ IsFiniteSet(s \ {x}) /\ Cardinality(s \ {x}) < Cardinality(s)
          BY <2>2, <3>1, SmallerSet
        <4> QED BY <4>1, Zenon
      <3>3. r \notin B
        <4>1. Cardinality(r) \in Nat /\ Cardinality(s) \in Nat
          BY <2>2, <3>2, FS_CardinalityType
        <4> QED BY <2>1, <3>2, <4>1
      <3>4. SumFunctionOnSet(w, r \cup T) = SumFunctionOnSet(w, r) + SumFunctionOnSet(w, T)
        BY <3>2, <3>3
      <3>5. SumFunctionOnSet(w, r \cup {x}) = w[x] + SumFunctionOnSet(w, r)
        <4>1. \A y \in r \cup {x} : w[y] \in Int
          BY <1>1, <2>2, <3>1, <3>2
        <4> QED BY <3>2, <4>1, SumOfMore
      <3>6. PICK q : q = r \cup T /\ IsFiniteSet(q) /\ x \notin q /\ \A y \in q \cup {x} : w[y] \in Int
        <4>1. IsFiniteSet(r \cup T)
          BY <1>1, <3>2, FS_Union
        <4>2. x \notin r \cup T /\ \A y \in (r \cup T) \cup {x} : w[y] \in Int
          BY <1>1, <2>2, <3>1, <3>2
        <4> QED BY <4>1, <4>2, Zenon
      <3>7. SumFunctionOnSet(w, q \cup {x}) = w[x] + SumFunctionOnSet(w, q)
        BY <3>6, SumOfMore
      <3>8. r \cup {x} = s /\ q \cup {x} = s \cup T
        BY <3>1, <3>2, <3>6
      <3>9. PICK i \in Int, j \in Int, m \in Int :
              i = SumFunctionOnSet(w, r) /\ j = SumFunctionOnSet(w, T) /\ m = w[x]
        BY <1>1, <1>2, <1>3, <2>2, <3>1, <3>2
      <3>10. m + (i + j) = (m + i) + j
        OBVIOUS
      <3> QED BY <2>1, <3>4, <3>5, <3>6, <3>7, <3>8, <3>9, <3>10
    <2> QED BY <2>3, <2>4
  <1>5. S \notin B
    BY <1>4
  <1> QED BY <1>2, <1>3, <1>5

(* Sizes w of blocks that lie at a, apart from one another, from lo to hi. *)
Packed(S, a, w, lo, hi) ==
    /\ \A x \in S : /\ a[x] \in Int /\ w[x] \in Int /\ w[x] > 0
                    /\ lo <= a[x] /\ a[x] + w[x] <= hi
    /\ \A x, y \in S : x # y => a[x] + w[x] <= a[y] \/ a[y] + w[y] <= a[x]

LEMMA SumFits ==
    ASSUME NEW S, IsFiniteSet(S), NEW a, NEW w, NEW lo \in Int, NEW hi \in Int, lo <= hi,
           Packed(S, a, w, lo, hi)
    PROVE  SumFunctionOnSet(w, S) <= hi - lo
  <1>1. \A s \in SUBSET S : IsFiniteSet(s) /\ SumFunctionOnSet(w, s) \in Int
    <2> SUFFICES ASSUME NEW s \in SUBSET S PROVE IsFiniteSet(s) /\ SumFunctionOnSet(w, s) \in Int
      OBVIOUS
    <2>1. IsFiniteSet(s) /\ \A x \in s : w[x] \in Int
      BY FS_Subset DEF Packed
    <2> QED BY <2>1, SumSame
  <1> DEFINE B == {s \in SUBSET S : \E top \in Int : /\ lo <= top /\ Packed(s, a, w, lo, top)
                                                   /\ ~(SumFunctionOnSet(w, s) <= top - lo)}
  <1>2. B = {}
    <2> SUFFICES ASSUME B # {} PROVE FALSE
      OBVIOUS
    <2>1. PICK s \in B : \A r \in B : Cardinality(s) <= Cardinality(r)
      BY Smallest
    <2>2. PICK top \in Int : /\ lo <= top /\ Packed(s, a, w, lo, top)
                             /\ ~(SumFunctionOnSet(w, s) <= top - lo)
      BY <2>1
    <2>3. s \subseteq S /\ IsFiniteSet(s)
      BY <1>1, <2>1
    <2>4. s # {}
      BY <2>2, SumOfNone
    <2>5. PICK x \in s : \A y \in s : a[y] <= a[x]
      <3> DEFINE D == {top - a[y] : y \in s}
      <3>1. \A y \in s : top - a[y] \in Nat /\ a[y] \in Int
        BY <2>2 DEF Packed
      <3>2. D \subseteq Nat /\ D # {}
        BY <2>4, <3>1
      <3>3. PICK d \in D : \A e \in D : d <= e
        BY <3>2, Least
      <3>4. PICK x \in s : d = top - a[x]
        BY <3>3
      <3>5. \A y \in s : top - a[x] <= top - a[y]
        BY <3>3, <3>4
      <3> QED BY <3>1, <3>4, <3>5
    <2>6. PICK r : r = s \ {x} /\ r \subseteq S /\ x \notin r /\ IsFiniteSet(r) /\ Cardinality(r) < Cardinality(s)
      <3>1. s \ {x} \subseteq S /\ x \notin s \ {x} /\ IsFiniteSet(s \ {x}) /\ Cardinality(s \ {x}) < Cardinality(s)
        BY <2>3, <2>5, SmallerSet
      <3> QED BY <3>1, Zenon
    <2>7. r \notin B
      <3>1. Cardinality(r) \in Nat /\ Cardinality(s) \in Nat
        BY <2>3, <2>6, FS_CardinalityType
      <3> QED BY <2>1, <2>6, <3>1
    <2>8. a[x] \in Int /\ w[x] \in Int /\ w[x] > 0 /\ lo <= a[x] /\ a[x] + w[x] <= top
      BY <2>2, <2>5 DEF Packed
    <2>9. Packed(r, a, w, lo, a[x])
      <3>1. ASSUME NEW y \in r
            PROVE  a[y] \in Int /\ w[y] \in Int /\ w[y] > 0 /\ lo <= a[y] /\ a[y] + w[y] <= a[x]
        <4>1. y \in s /\ y # x
          BY <2>6, <3>1
        <4>2. /\ a[y] \in Int /\ w[y] \in Int /\ w[y] > 0 /\ lo <= a[y]
              /\ a[x] + w[x] <= a[y] \/ a[y] + w[y] <= a[x]
          BY <2>2, <2>5, <4>1 DEF Packed
        <4>3. a[y] <= a[x]
          BY <2>5, <4>1
        <4> QED BY <2>8, <4>2, <4>3
      <3>2. \A y, z \in r : y # z => a[y] + w[y] <= a[z] \/ a[z] + w[z] <= a[y]
        BY <2>2, <2>6 DEF Packed
      <3> QED BY <3>1, <3>2 DEF Packed
    <2>10. SumFunctionOnSet(w, r) <= a[x] - lo
      BY <2>6, <2>7, <2>8, <2>9
    <2>11. SumFunctionOnSet(w, r \cup {x}) = w[x] + SumFunctionOnSet(w, r) /\ r \cup {x} = s
      <3>1. r \cup {x} = s /\ \A y \in r \cup {x} : w[y] \in Int
        BY <2>2, <2>5, <2>6 DEF Packed
      <3> QED BY <2>6, <3>1, SumOfMore
    <2>12. PICK i \in Int, m \in Int, b \in Int : i = SumFunctionOnSet(w, r) /\ m = w[x] /\ b = a[x]
      BY <1>1, <2>6, <2>8
    <2>13. SumFunctionOnSet(w, s) = m + i
      BY <2>11, <2>12, Zenon
    <2>14. i <= b - lo /\ b + m <= top
      BY <2>8, <2>10, <2>12
    <2>15. m + i <= top - lo
      BY <2>14
    <2> QED BY <2>2, <2>13, <2>15
  <1>3. S \notin B
    BY <1>2
  <1> QED BY <1>3

(* No place is left between them if they add up.                           *)
LEMMA NoGap ==
    ASSUME NEW S, IsFiniteSet(S), NEW a, NEW w, NEW lo \in Int, NEW hi \in Int,
           Packed(S, a, w, lo, hi), SumFunctionOnSet(w, S) = hi - lo,
           NEW e \in Int, lo <= e, e < hi, \A x \in S : a[x] + w[x] <= e \/ e <= a[x]
    PROVE  \E x \in S : a[x] = e
  <1> SUFFICES ASSUME \A x \in S : a[x] # e PROVE FALSE
    OBVIOUS
  <1>1. PICK L, U : /\ L = {x \in S : a[x] + w[x] <= e} /\ U = {x \in S : e <= a[x]}
    OBVIOUS
  <1>2. IsFiniteSet(L) /\ IsFiniteSet(U)
    BY <1>1, FS_Subset
  <1>3. L \cup U = S /\ L \cap U = {}
    BY <1>1 DEF Packed
  <1>4. Packed(L, a, w, lo, e) /\ Packed(U, a, w, e + 1, hi)
    BY <1>1 DEF Packed
  <1>5. SumFunctionOnSet(w, L) <= e - lo /\ SumFunctionOnSet(w, U) <= hi - (e + 1)
    <2>1. e + 1 \in Int /\ e + 1 <= hi
      OBVIOUS
    <2> QED BY <1>2, <1>4, <2>1, SumFits
  <1>6. /\ SumFunctionOnSet(w, S) = SumFunctionOnSet(w, L) + SumFunctionOnSet(w, U)
        /\ SumFunctionOnSet(w, L) \in Int /\ SumFunctionOnSet(w, U) \in Int
    <2>1. IntsOn(w, L) /\ IntsOn(w, U)
      BY <1>1, <1>2 DEF IntsOn, Packed
    <2> QED BY <1>3, <2>1, SumOfBoth
  <1> QED BY <1>5, <1>6

(* The blocks of a heap, by what they are known by: free blocks by their   *)
(* address, the others by their pointer.                                   *)
Names(h) == ToSet(heaps[h].list) \cup Inside(h)
At == [x \in DOMAIN live \cup Frees |-> IF x \in DOMAIN live THEN Block(x) ELSE x]
Sized == [x \in DOMAIN live \cup Frees |-> word[At[x]]]

LEMMA Named ==
    ASSUME HeapInv, NEW h \in Slots, NEW x \in Names(h)
    PROVE  /\ At[x] \in Inner(h) /\ Sized[x] = word[At[x]]
           /\ x \in Inside(h) => At[x] = Block(x) /\ At[x] \in Held
           /\ x \in ToSet(heaps[h].list) => At[x] = x /\ x \in Frees /\ x \notin DOMAIN live
  <1>1. \A p \in DOMAIN live : p \notin Frees
    <2> SUFFICES ASSUME NEW p \in DOMAIN live, p \in Frees PROVE FALSE
      OBVIOUS
    <2>1. /\ Block(p) \in Held /\ Block(p) \in Blocks /\ p \in Blocks
      BY DEF Blocks, Held
    <2>2. Block(p) \in Nat /\ word[Block(p)] \in Nat /\ p \in Nat /\ word[p] \in Nat /\ word[p] > 0
      BY <2>1, BlockFacts
    <2>3. word[Block(p)] > W /\ Block(p) = p - W
      BY DEF HeapInv, HeldFits, Fits, Block
    <2>4. Block(p) + word[Block(p)] <= p \/ p + word[p] <= Block(p)
      BY <2>1, <2>2, <2>3, Consts DEF HeapInv, BlocksApart, AllApart
    <2> QED BY <2>2, <2>3, <2>4, Consts
  <1>2. CASE x \in ToSet(heaps[h].list)
    <2>1. x \in Frees /\ x \notin DOMAIN live
      BY <1>1, <1>2 DEF Frees
    <2>2. At[x] = x /\ Sized[x] = word[At[x]]
      BY <2>1 DEF At, Sized
    <2>3. x \in Inner(h)
      BY <1>2, Listed DEF Inner
    <2> QED BY <2>1, <2>2, <2>3 DEF Inside
  <1>3. CASE x \in Inside(h)
    <2>1. x \in DOMAIN live /\ InHeap(x, h) /\ x \notin ToSet(heaps[h].list) /\ x \in Nat
      BY <1>1, <1>3 DEF Inside, Frees, HeapInv, Shapes
    <2>2. At[x] = Block(x) /\ Sized[x] = word[At[x]]
      BY <2>1 DEF At, Sized
    <2>3. Block(x) \in Held /\ Block(x) \in Blocks
      BY <2>1 DEF Held, Blocks
    <2>4. PICK k \in Slots : Within(word, Block(x), k)
      BY <2>1 DEF HeapInv, HeldFits
    <2>5. k = h
      BY <2>1, <2>4, PointerInHeap, OneOwner
    <2> QED BY <2>1, <2>2, <2>3, <2>4, <2>5 DEF Inner
  <1> QED BY <1>2, <1>3 DEF Names

LEMMA AllNamed ==
    ASSUME HeapInv, NEW h \in Slots, NEW b \in Inner(h)
    PROVE  \E x \in Names(h) : At[x] = b
  <1>1. b \in Blocks /\ Within(word, b, h) /\ b \in Nat /\ word[b] \in Nat /\ word[b] > 0
    BY BlockFacts DEF Inner
  <1>2. CASE b \in Frees
    <2>1. PICK k \in Slots : b \in ToSet(heaps[k].list)
      BY <1>2, Zenon DEF Frees
    <2>2. k = h
      BY <1>1, <2>1, Listed, OneHeap
    <2>3. b \in Names(h)
      BY <2>1, <2>2 DEF Names
    <2> QED BY <2>1, <2>2, <2>3, Named
  <1>3. CASE b \in Held
    <2>1. PICK p \in DOMAIN live : b = Block(p)
      BY <1>3 DEF Held
    <2>2. InHeap(p, h)
      BY <1>1, <2>1, PointerInHeap
    <2>3. p \in Inside(h) /\ p \in Names(h)
      BY <2>2 DEF Inside, Names
    <2> QED BY <2>1, <2>3, Named
  <1> QED BY <1>1, <1>2, <1>3 DEF Blocks

(* Since every byte is accounted for, blocks tile the heap.                *)
LEMMA HeapTiled ==
    ASSUME HeapInv, SumInv, NEW h \in Slots, heaps[h].size > 0
    PROVE  Tiled(h)
  <1>1. PICK lo \in Nat, hi \in Nat : lo = Start(h) /\ hi = Top(h)
    BY Edges DEF HeapInv
  <1>2. PICK S, a, w : S = Names(h) /\ a = At /\ w = Sized
    OBVIOUS
  <1>3. PICK F, I : F = ToSet(heaps[h].list) /\ I = Inside(h)
    OBVIOUS
  <1>4. S = F \cup I /\ F \cap I = {} /\ \A x \in S : a[x] \in Inner(h) /\ w[x] = word[a[x]]
    <2>1. S = F \cup I
      BY <1>2, <1>3 DEF Names
    <2>2. \A x \in S : a[x] \in Inner(h) /\ w[x] = word[a[x]]
      BY <1>2, Named
    <2>3. F \cap I = {}
      BY <1>2, <1>3, <2>1, Named DEF Inside
    <2> QED BY <2>1, <2>2, <2>3
  <1>5. \A b \in Inner(h) : /\ b \in Nat /\ word[b] \in Nat /\ word[b] > 0
                            /\ lo <= b /\ b + word[b] <= hi
    BY <1>1, BlockFacts DEF Inner, Within
  <1>6. \A x, y \in S : x # y => a[x] # a[y]
    <2> SUFFICES ASSUME NEW x \in S, NEW y \in S, x # y, a[x] = a[y] PROVE FALSE
      OBVIOUS
    <2>1. /\ x \in I => a[x] = Block(x) /\ a[x] \in Held
          /\ y \in I => a[y] = Block(y) /\ a[y] \in Held
          /\ x \in F => a[x] = x /\ x \in Frees
          /\ y \in F => a[y] = y /\ y \in Frees
      BY <1>2, <1>3, Named
    <2>2. Held \cap Frees = {}
      BY DEF HeapInv, BlocksApart
    <2>3. \A p \in I : p \in Nat
      BY <1>3 DEF Inside, HeapInv, Shapes
    <2>4. x \in I /\ y \in I
      BY <1>4, <2>1, <2>2
    <2> QED BY <2>1, <2>3, <2>4, Consts DEF Block
  <1>7. Packed(S, a, w, lo, hi)
    <2>1. \A x \in S : a[x] \in Int /\ w[x] \in Int /\ w[x] > 0 /\ lo <= a[x] /\ a[x] + w[x] <= hi
      BY <1>4, <1>5
    <2>2. ASSUME NEW x \in S, NEW y \in S, x # y PROVE a[x] + w[x] <= a[y] \/ a[y] + w[y] <= a[x]
      <3>1. a[x] \in Blocks /\ a[y] \in Blocks /\ a[x] # a[y] /\ w[x] = word[a[x]] /\ w[y] = word[a[y]]
        BY <1>4, <1>6, <2>2 DEF Inner
      <3> QED BY <3>1 DEF HeapInv, BlocksApart, AllApart
    <2> QED BY <2>1, <2>2 DEF Packed
  <1>8. /\ IntsOn(w, F) /\ IntsOn(w, I) /\ SumFunctionOnSet(w, F) = SumOfList(h)
        /\ SumFunctionOnSet(w, I) = SumHeld(h)
    <2>1. /\ IntsOn(word, F) /\ IntsOn(HeldSizes, I)
      BY <1>3, SizesAdd DEF SumInv
    <2>2. PICK v, u : v = word /\ u = HeldSizes
      OBVIOUS
    <2>3. \A x \in F : w[x] = v[x]
      BY <1>2, <1>3, <1>4, <2>2, Named
    <2>4. \A x \in I : w[x] = u[x]
      <3>1. \A x \in I : x \in DOMAIN live /\ w[x] = word[Block(x)]
        BY <1>2, <1>3, <1>4, Named DEF Inside
      <3> QED BY <2>2, <3>1 DEF HeldSizes
    <2>5. SumFunctionOnSet(w, F) = SumFunctionOnSet(v, F) /\ SumFunctionOnSet(w, I) = SumFunctionOnSet(u, I)
      BY <2>1, <2>2, <2>3, <2>4, SumSame DEF IntsOn
    <2>6. IntsOn(w, F) /\ IntsOn(w, I)
      BY <2>1, <2>2, <2>3, <2>4 DEF IntsOn
    <2> QED BY <1>3, <2>2, <2>5, <2>6, SumsAre
  <1>9. IsFiniteSet(S) /\ SumFunctionOnSet(w, S) = hi - lo
    <2>1. SumFunctionOnSet(w, F \cup I) = SumFunctionOnSet(w, F) + SumFunctionOnSet(w, I)
      BY <1>4, <1>8, SumOfBoth
    <2>2. SumOfList(h) + SumHeld(h) = Top(h) - Start(h)
      BY AccountedIs DEF SumInv, UsedSlots
    <2>3. IsFiniteSet(S)
      BY <1>4, <1>8, FS_Union DEF IntsOn
    <2> QED BY <1>1, <1>4, <1>8, <2>1, <2>2, <2>3
  (* Where a block may begin, one does.                                    *)
  <1>10. ASSUME NEW e \in Nat, lo <= e, e <= hi,
                \A x \in S : a[x] + w[x] <= e \/ e <= a[x]
         PROVE  e \in Bounds(h)
    <2>1. CASE e = hi
      BY <1>1, <2>1 DEF Bounds
    <2>2. CASE e < hi
      <3>1. \E x \in S : a[x] = e
        BY <1>7, <1>9, <1>10, <2>2, NoGap
      <3> QED BY <1>4, <3>1 DEF Bounds
    <2> QED BY <1>10, <2>1, <2>2
  <1>11. lo \in Bounds(h)
    <2>1. lo <= hi
      <3>1. SumFunctionOnSet(w, S) = hi - lo
        BY <1>9
      <3>2. CASE S = {}
        BY <3>1, <3>2, SumOfNone
      <3>3. CASE S # {}
        BY <1>4, <1>5, <3>3
      <3> QED BY <3>2, <3>3
    <2> QED BY <1>4, <1>5, <1>10, <2>1
  <1>12. ASSUME NEW b \in Inner(h) PROVE b + word[b] \in Bounds(h)
    <2>1. PICK y \in S : a[y] = b /\ w[y] = word[b]
      <3>1. PICK y \in Names(h) : At[y] = b
        BY AllNamed
      <3> QED BY <1>2, <1>4, <3>1
    <2>2. \A x \in S : a[x] + w[x] <= b + word[b] \/ b + word[b] <= a[x]
      <3> SUFFICES ASSUME NEW x \in S PROVE a[x] + w[x] <= b + word[b] \/ b + word[b] <= a[x]
        OBVIOUS
      <3>1. /\ a[x] \in Int /\ w[x] \in Int /\ w[x] > 0 /\ b \in Nat /\ word[b] \in Nat
            /\ x # y => a[x] + w[x] <= b \/ b + word[b] <= a[x]
        BY <1>5, <1>7, <2>1 DEF Packed
      <3> QED BY <2>1, <3>1
    <2>3. b + word[b] \in Nat /\ lo <= b + word[b] /\ b + word[b] <= hi
      BY <1>5
    <2> QED BY <1>10, <2>2, <2>3
  <1> QED BY <1>1, <1>11, <1>12 DEF Tiled

LEMMA StatusRight ==
    ASSUME HeapInv, SumInv, Sorted, NEW h \in UsedSlots
    PROVE  Status(h)
  BY HeapTiled, WalkRight DEF UsedSlots

-----------------------------------------------------------------------------
(* Lists stay in order.                                                    *)

LEMMA RemovedSorted ==
    ASSUME NEW s \in Seq(Nat), NEW i \in 1..Len(s), Increasing(s)
    PROVE  Increasing(RemoveAt(s, i))
  <1>1. PICK r \in Seq(Nat) : /\ r = RemoveAt(s, i) /\ DOMAIN r = 1..Len(s) - 1
                              /\ \A j \in 1..Len(s) - 1 : r[j] = IF j < i THEN s[j] ELSE s[j + 1]
    BY RemovedAt
  <1>2. Len(s) \in Nat /\ DOMAIN s = 1..Len(s)
    OBVIOUS
  <1>3. ASSUME NEW j \in 1..Len(s) - 1, NEW l \in 1..Len(s) - 1, j < l PROVE r[j] < r[l]
    <2>1. PICK x \in 1..Len(s) : x = IF j < i THEN j ELSE j + 1
      BY <1>2
    <2>2. PICK y \in 1..Len(s) : y = IF l < i THEN l ELSE l + 1
      BY <1>2
    <2>3. r[j] = s[x] /\ r[l] = s[y] /\ x < y
      BY <1>1, <1>2, <1>3, <2>1, <2>2
    <2> QED BY <1>2, <2>3 DEF Increasing
  <1>4. Increasing(r)
    BY <1>1, <1>3 DEF Increasing
  <1> QED BY <1>1, <1>4

LEMMA InsertedSorted ==
    ASSUME NEW s \in Seq(Nat), NEW k \in 0..Len(s), NEW e \in Nat, Increasing(s),
           \A j \in 1..k : s[j] < e, \A j \in k + 1..Len(s) : e < s[j]
    PROVE  Increasing(InsertAt(s, k + 1, e))
  <1>1. PICK r \in Seq(Nat) : /\ r = InsertAt(s, k + 1, e) /\ DOMAIN r = 1..Len(s) + 1
                              /\ \A j \in 1..Len(s) + 1 :
                                   r[j] = IF j <= k THEN s[j] ELSE IF j = k + 1 THEN e ELSE s[j - 1]
    BY InsertedAt
  <1>2. Len(s) \in Nat /\ DOMAIN s = 1..Len(s)
    OBVIOUS
  <1>3. ASSUME NEW j \in 1..Len(s) + 1, NEW l \in 1..Len(s) + 1, j < l PROVE r[j] < r[l]
    <2>1. CASE j = k + 1
      <3>1. l - 1 \in k + 1..Len(s) /\ ~(l <= k) /\ l # k + 1 /\ ~(j <= k)
        BY <1>2, <1>3, <2>1
      <3>2. r[l] = s[l - 1] /\ r[j] = e
        BY <1>1, <2>1, <3>1, Zenon
      <3>3. e < s[l - 1]
        BY <3>1
      <3> QED BY <3>2, <3>3
    <2>2. CASE l = k + 1
      <3>1. j \in 1..k /\ j <= k /\ ~(l <= k)
        BY <1>2, <1>3, <2>2
      <3>2. r[j] = s[j] /\ r[l] = e
        BY <1>1, <2>2, <3>1, Zenon
      <3> QED BY <3>1, <3>2
    <2>3. CASE j # k + 1 /\ l # k + 1
      <3>1. PICK x \in 1..Len(s) : x = IF j <= k THEN j ELSE j - 1
        BY <1>2, <2>3
      <3>2. PICK y \in 1..Len(s) : y = IF l <= k THEN l ELSE l - 1
        BY <1>2, <2>3
      <3>3. r[j] = s[x] /\ r[l] = s[y] /\ x < y
        BY <1>1, <1>2, <1>3, <2>3, <3>1, <3>2
      <3> QED BY <1>2, <3>3 DEF Increasing
    <2> QED BY <2>1, <2>2, <2>3
  <1>4. Increasing(r)
    BY <1>1, <1>3 DEF Increasing
  <1> QED BY <1>1, <1>4

LEMMA ReplacedSorted ==
    ASSUME NEW s \in Seq(Nat), NEW k \in 0..Len(s) - 1, NEW e \in Nat, Increasing(s),
           \A j \in 1..k : s[j] < e, \A j \in k + 1..Len(s) : e < s[j]
    PROVE  Increasing(Put(s, k + 1, e))
  <1>1. Len(s) \in Nat /\ DOMAIN s = 1..Len(s) /\ k + 1 \in 1..Len(s)
    OBVIOUS
  <1>2. PICK r \in Seq(Nat) : /\ r = Put(s, k + 1, e) /\ DOMAIN r = 1..Len(s)
                              /\ \A j \in 1..Len(s) : r[j] = IF j = k + 1 THEN e ELSE s[j]
    <2>1. PICK n \in 1..Len(s) : n = k + 1
      BY <1>1
    <2>2. /\ Put(s, n, e) \in Seq(Nat) /\ DOMAIN Put(s, n, e) = 1..Len(s)
          /\ \A j \in 1..Len(s) : Put(s, n, e)[j] = IF j = n THEN e ELSE s[j]
      BY <1>1, ExceptSeq DEF Put
    <2> QED BY <2>1, <2>2, Zenon
  <1>3. ASSUME NEW j \in 1..Len(s), NEW l \in 1..Len(s), j < l PROVE r[j] < r[l]
    <2>1. CASE j = k + 1
      <3>1. l \in k + 1..Len(s) /\ r[l] = s[l] /\ r[j] = e
        BY <1>1, <1>2, <1>3, <2>1
      <3> QED BY <3>1
    <2>2. CASE l = k + 1
      <3>1. j \in 1..k /\ r[j] = s[j] /\ r[l] = e
        BY <1>1, <1>2, <1>3, <2>2
      <3> QED BY <3>1
    <2>3. CASE j # k + 1 /\ l # k + 1
      BY <1>1, <1>2, <1>3, <2>3 DEF Increasing
    <2> QED BY <2>1, <2>2, <2>3
  <1>4. Increasing(r)
    BY <1>2, <1>3 DEF Increasing
  <1> QED BY <1>2, <1>4

(* What mem_chunk_get leaves of a list is in order, and no larger.         *)
LEMMA TakenSorted ==
    ASSUME HeapInv, Sorted, NEW h \in Slots, NEW size \in Nat, NEW i \in DOMAIN heaps[h].list,
           word[heaps[h].list[i]] >= size,
           NEW blk \in Nat, NEW lst, NEW ws, NEW ts, TakesWell(h, i, size, blk, lst, ws, ts)
    PROVE  Increasing(lst) /\ \A x \in ToSet(lst) : ws[x] <= word[x]
  <1>1. PICK L \in Seq(Nat), b \in Nat : L = heaps[h].list /\ b = L[i] /\ b \in ToSet(L) /\ Increasing(L)
    <2>1. heaps[h].list \in Seq(Nat)
      BY DEF HeapInv, Shapes, Heap
    <2>2. heaps[h].list[i] \in Nat /\ heaps[h].list[i] \in ToSet(heaps[h].list)
      BY <2>1 DEF ToSet
    <2> QED BY <2>1, <2>2 DEF Sorted
  <1>2. \A x \in ToSet(L) : x \in Nat /\ x \in DOMAIN word /\ word[x] \in Nat /\ word[x] > 0
    BY <1>1, Listed
  <1>3. PICK m \in Nat, rest \in Int : m = word[b] /\ rest = m - size /\ m >= size
    BY <1>1, <1>2
  <1>4. /\ Taken(h, i, size) = [block |-> blk, list |-> lst, word |-> ws, tag |-> ts]
        /\ ToSet(lst) = ToSet(L) \ {blk}
    BY <1>1, Zenon DEF TakesWell
  <1>5. CASE rest >= HeapMin
    <2>1. /\ lst = L /\ blk = b + rest /\ ws = With(With(word, b, rest), b + rest, size)
      BY <1>1, <1>3, <1>4, <1>5 DEF Taken
    <2>2. \A x \in ToSet(L) : x # blk
      BY <1>4, <2>1
    <2>3. \A x \in ToSet(L) : ws[x] = IF x = b THEN rest ELSE word[x]
      BY <1>2, <2>1, <2>2 DEF With
    <2> QED BY <1>1, <1>2, <1>3, <2>1, <2>3
  <1>6. CASE ~(rest >= HeapMin)
    <2>1. lst = RemoveAt(L, i) /\ ws = word
      BY <1>1, <1>3, <1>4, <1>6 DEF Taken
    <2>2. Increasing(lst)
      <3>1. i \in 1..Len(L)
        BY <1>1
      <3> QED BY <1>1, <2>1, <3>1, RemovedSorted
    <2>3. \A x \in ToSet(lst) : word[x] \in Nat
      BY <1>2, <1>4
    <2> QED BY <2>1, <2>2, <2>3
  <1> QED BY <1>5, <1>6

(* Where a block that is given back goes: the blocks of the list before    *)
(* its place end before it, the others begin after it.                     *)
LEMMA PlaceFits ==
    ASSUME HeapInv, Sorted, NEW h \in Slots, NEW b, GivenBack(h, b), NEW k \in Place(heaps[h].list, b)
    PROVE  /\ \A j \in 1..k : heaps[h].list[j] < b /\ heaps[h].list[j] + word[heaps[h].list[j]] <= b
           /\ \A j \in k + 1..Len(heaps[h].list) : b < heaps[h].list[j] /\ b + word[b] <= heaps[h].list[j]
  <1>1. PICK L \in Seq(Nat) : L = heaps[h].list /\ b \notin ToSet(L) /\ Increasing(L)
    BY GivenFacts DEF Sorted
  <1>2. PICK m \in Nat : m = word[b] /\ m > 0 /\ b \in Nat /\ b \in Blocks
    BY GivenFacts
  <1>3. /\ k \in 0..Len(L) /\ (\A j \in 1..k : L[j] < b) /\ (k < Len(L) => L[k + 1] >= b)
        /\ Len(L) \in Nat /\ DOMAIN L = 1..Len(L)
    BY <1>1 DEF Place
  <1>4. \A j \in 1..Len(L) : /\ L[j] \in Nat /\ L[j] # b /\ L[j] \in Blocks /\ L[j] \in ToSet(L)
                             /\ word[L[j]] \in Nat /\ word[L[j]] > 0
    <2>1. \A j \in 1..Len(L) : L[j] \in ToSet(L)
      BY <1>1 DEF ToSet
    <2> QED BY <1>1, <2>1, Listed
  <1>5. \A j \in 1..Len(L) : L[j] + word[L[j]] <= b \/ b + m <= L[j]
    BY <1>2, <1>4 DEF HeapInv, BlocksApart, AllApart
  <1>6. ASSUME NEW j \in k + 1..Len(L) PROVE b < L[j]
    <2>1. k + 1 \in 1..Len(L) /\ j \in 1..Len(L) /\ (j = k + 1 \/ k + 1 < j) /\ k < Len(L)
      BY <1>3
    <2>2. L[k + 1] \in Nat /\ L[j] \in Nat /\ L[k + 1] # b /\ L[k + 1] >= b
      BY <1>3, <1>4, <2>1
    <2>3. j = k + 1 \/ L[k + 1] < L[j]
      BY <1>1, <1>3, <2>1 DEF Increasing
    <2> QED BY <1>2, <2>2, <2>3
  <1>7. ASSUME NEW j \in 1..k PROVE L[j] < b /\ L[j] + word[L[j]] <= b
    <2>1. j \in 1..Len(L)
      BY <1>3
    <2> QED BY <1>2, <1>3, <1>4, <1>5, <2>1
  <1>8. ASSUME NEW j \in k + 1..Len(L) PROVE b < L[j] /\ b + m <= L[j]
    <2>1. j \in 1..Len(L)
      BY <1>3
    <2> QED BY <1>2, <1>4, <1>5, <1>6, <2>1
  <1> QED BY <1>1, <1>2, <1>7, <1>8

(* What Joined computes, by whether the block touches those around it.     *)
Joining(L, k, b, left, right, cur, size) ==
    /\ left <=> k > 0 /\ L[k] + word[L[k]] = b
    /\ cur = (IF left THEN L[k] ELSE b)
    /\ size = (IF left THEN word[L[k]] + word[b] ELSE word[b])
    /\ right <=> k < Len(L) /\ cur + size = L[k + 1]

LEMMA JoinedIs ==
    ASSUME NEW L, NEW k, NEW b, NEW lst, NEW ws, Joined(L, k, b) = [list |-> lst, word |-> ws]
    PROVE  \E left, right \in BOOLEAN : \E cur, size :
              /\ Joining(L, k, b, left, right, cur, size)
              /\ lst = CASE left /\ right   -> RemoveAt(L, k + 1)
                         [] left /\ ~right  -> L
                         [] ~left /\ right  -> Put(L, k + 1, b)
                         [] ~left /\ ~right -> InsertAt(L, k + 1, b)
              /\ ws = With(word, cur, IF right THEN size + word[L[k + 1]] ELSE size)
  <1>8. PICK left \in BOOLEAN : left <=> k > 0 /\ L[k] + word[L[k]] = b
    OBVIOUS
  <1>9. PICK cur, size : /\ cur = IF left THEN L[k] ELSE b
                         /\ size = IF left THEN word[L[k]] + word[b] ELSE word[b]
    OBVIOUS
  <1>10. PICK right \in BOOLEAN : right <=> k < Len(L) /\ cur + size = L[k + 1]
    OBVIOUS
  <1>11. Joined(L, k, b) =
           [list |-> CASE left /\ right   -> RemoveAt(L, k + 1)
                       [] left /\ ~right  -> L
                       [] ~left /\ right  -> [L EXCEPT ![k + 1] = b]
                       [] ~left /\ ~right -> InsertAt(L, k + 1, b),
            word |-> With(word, cur, IF right THEN size + word[L[k + 1]] ELSE size)]
    <2>1. CASE left
      BY <1>8, <1>9, <1>10, <2>1 DEF Joined
    <2>2. CASE ~left
      BY <1>8, <1>9, <1>10, <2>2 DEF Joined
    <2> QED BY <2>1, <2>2
  <1>12. Joining(L, k, b, left, right, cur, size)
    BY <1>8, <1>9, <1>10 DEF Joining
  <1> QED BY <1>11, <1>12 DEF Put

LEMMA JoinedSorted ==
    ASSUME HeapInv, Sorted, NEW h \in Slots, NEW b, GivenBack(h, b), NEW k \in Place(heaps[h].list, b),
           NEW lst \in Seq(Nat), NEW ws, JoinsWell(h, k, b, lst, ws)
    PROVE  Increasing(lst) /\ NoTouch(ToSet(lst), ws)
  <1>1. PICK L \in Seq(Nat) : /\ L = heaps[h].list /\ b \notin ToSet(L) /\ Increasing(L)
                              /\ NoTouch(ToSet(L), word)
    BY GivenFacts DEF Sorted
  <1>2. PICK m \in Nat : m = word[b] /\ m > 0 /\ b \in Nat /\ b \in Blocks /\ b \in DOMAIN word
    BY GivenFacts
  <1>3. k \in 0..Len(L) /\ Len(L) \in Nat /\ DOMAIN L = 1..Len(L)
    BY <1>1 DEF Place
  <1>4. \A x \in ToSet(L) : /\ x \in Nat /\ x # b /\ x \in DOMAIN word /\ word[x] \in Nat /\ word[x] > 0
                            /\ \E j \in 1..Len(L) : x = L[j]
    BY <1>1, <1>3, Listed DEF ToSet
  <1>5. \A j \in 1..Len(L) : L[j] \in ToSet(L)
    BY <1>1 DEF ToSet
  <1>6. /\ \A j \in 1..k : L[j] < b /\ L[j] + word[L[j]] <= b
        /\ \A j \in k + 1..Len(L) : b < L[j] /\ b + m <= L[j]
    BY <1>1, <1>2, PlaceFits
  <1>7. PICK left, right, cur, size :
           /\ left \in BOOLEAN /\ right \in BOOLEAN
           /\ Joining(L, k, b, left, right, cur, size)
           /\ lst = CASE left /\ right   -> RemoveAt(L, k + 1)
                      [] left /\ ~right  -> L
                      [] ~left /\ right  -> Put(L, k + 1, b)
                      [] ~left /\ ~right -> InsertAt(L, k + 1, b)
           /\ ws = With(word, cur, IF right THEN size + word[L[k + 1]] ELSE size)
    <2>1. Joined(L, k, b) = [list |-> lst, word |-> ws]
      BY <1>1, Zenon DEF JoinsWell
    <2> QED BY <2>1, JoinedIs
  <1>8. /\ left => k \in 1..Len(L) /\ cur = L[k] /\ cur + word[cur] = b /\ cur \in ToSet(L)
                   /\ size = word[cur] + m
        /\ ~left => cur = b /\ size = m
        /\ cur \in Nat /\ size \in Nat /\ cur + size = b + m
    <2>1. CASE left
      <3>1. k \in 1..Len(L) /\ cur = L[k] /\ cur + word[cur] = b /\ size = word[cur] + m
        BY <1>2, <1>3, <1>7, <2>1 DEF Joining
      <3>2. cur \in ToSet(L) /\ cur \in Nat /\ word[cur] \in Nat
        BY <1>4, <1>5, <3>1
      <3>3. PICK c \in Nat, w \in Nat : c = cur /\ w = word[cur]
        BY <3>2
      <3>4. c + w = b /\ b \in Nat /\ m \in Nat
        BY <1>2, <3>1, <3>3
      <3>5. w + m \in Nat /\ c + (w + m) = b + m
        BY <3>4
      <3> QED BY <2>1, <3>1, <3>2, <3>3, <3>5
    <2>2. CASE ~left
      BY <1>2, <1>7, <2>2 DEF Joining
    <2> QED BY <2>1, <2>2
  <1>9. right <=> k < Len(L) /\ b + m = L[k + 1]
    BY <1>7, <1>8 DEF Joining
  <1>10. Increasing(lst)
    <2>1. CASE left /\ right
      <3>1. lst = RemoveAt(L, k + 1)
        BY <1>7, <2>1
      <3>2. k + 1 \in 1..Len(L)
        BY <1>3, <1>9, <2>1
      <3> QED BY <1>1, <3>1, <3>2, RemovedSorted
    <2>2. CASE left /\ ~right
      BY <1>1, <1>7, <2>2
    <2>3. CASE ~left /\ right
      <3>1. lst = Put(L, k + 1, b)
        BY <1>7, <2>3
      <3>2. k \in 0..Len(L) - 1
        BY <1>3, <1>9, <2>3
      <3> QED BY <1>1, <1>2, <1>6, <3>1, <3>2, ReplacedSorted
    <2>4. CASE ~left /\ ~right
      <3>1. lst = InsertAt(L, k + 1, b)
        BY <1>7, <2>4
      <3> QED BY <1>1, <1>2, <1>3, <1>6, <3>1, InsertedSorted
    <2> QED BY <2>1, <2>2, <2>3, <2>4
  <1>11. /\ ToSet(lst) \subseteq ToSet(L) \cup {b}
         /\ \A x \in ToSet(lst) : ws[x] \in Nat /\ ws[x] > 0
         /\ AllApart(ToSet(lst), ws)
    <2>1. /\ ToSet(lst) \subseteq ToSet(L) \cup {b}
          /\ \A x \in Remaining(h, b, lst) : ws[x] \in Nat /\ ws[x] > 0
          /\ AllApart(Remaining(h, b, lst), ws)
      BY <1>1, Zenon DEF JoinsWell
    <2> QED BY <2>1 DEF Remaining, AllApart
  <1>12. \A x \in ToSet(lst) : x # cur => ws[x] = word[x]
    BY <1>2, <1>4, <1>7, <1>11 DEF With
  <1>13. left => b \notin ToSet(lst)
    <2> SUFFICES ASSUME left, b \in ToSet(lst) PROVE FALSE
      OBVIOUS
    <2>1. cur # b
      BY <1>4, <1>8
    <2>2. PICK j \in DOMAIN lst : lst[j] = b
      BY DEF ToSet
    <2>3. CASE ~right
      BY <1>1, <1>7, <2>2, <2>3 DEF ToSet
    <2>4. CASE right
      <3>1. lst = RemoveAt(L, k + 1) /\ k + 1 \in 1..Len(L)
        BY <1>3, <1>7, <1>9, <2>4
      <3>2. PICK n \in 1..Len(L) : n = k + 1
        BY <3>1
      <3>3. /\ DOMAIN lst = 1..Len(L) - 1
            /\ \A i \in 1..Len(L) - 1 : lst[i] = IF i < n THEN L[i] ELSE L[i + 1]
        BY <1>1, <3>1, <3>2, RemovedAt
      <3>4. j \in 1..Len(L) /\ j + 1 \in 1..Len(L)
        BY <1>3, <2>2, <3>3
      <3> QED BY <1>1, <1>5, <2>2, <3>3, <3>4
    <2> QED BY <2>3, <2>4
  (* Two free blocks that touched would have been joined.                  *)
  <1>14. ASSUME NEW x \in ToSet(lst), NEW y \in ToSet(lst), x < y, x + ws[x] = y PROVE FALSE
    <2>0. x \in Nat /\ y \in Nat /\ (x # cur => x \in ToSet(L)) /\ (y # cur => y \in ToSet(L))
      BY <1>2, <1>4, <1>8, <1>11, <1>13
    <2>1. CASE x # cur /\ y # cur
      <3>1. x \in ToSet(L) /\ y \in ToSet(L) /\ ws[x] = word[x]
        BY <1>12, <2>0, <2>1
      <3>2. x + word[x] < y
        BY <1>1, <1>14, <3>1 DEF NoTouch
      <3> QED BY <1>4, <1>14, <2>0, <3>1, <3>2
    <2>2. CASE x # cur /\ y = cur
      <3>1. x \in ToSet(L) /\ ws[x] = word[x] /\ word[x] \in Nat /\ word[x] > 0
        BY <1>4, <1>12, <2>0, <2>2
      <3>2. CASE left
        <4>1. x + word[x] < y
          BY <1>1, <1>8, <1>14, <2>2, <3>1, <3>2 DEF NoTouch
        <4> QED BY <1>14, <2>0, <3>1, <4>1
      <3>3. CASE ~left
        <4>1. x + word[x] = b /\ x < b
          BY <1>8, <1>14, <2>2, <3>1, <3>3
        <4>2. PICK j \in 1..Len(L) : x = L[j]
          BY <1>4, <3>1
        <4>3. ~(j \in k + 1..Len(L))
          BY <1>2, <1>6, <2>0, <4>1, <4>2
        <4>4. j \in 1..k /\ k \in 1..Len(L)
          BY <1>3, <4>2, <4>3
        <4>5. j # k
          <5>1. k > 0
            BY <1>3, <4>4
          <5> QED BY <1>7, <3>3, <4>1, <4>2, <5>1 DEF Joining
        <4>6. x < L[k] /\ L[k] < b /\ L[k] \in ToSet(L) /\ L[k] \in Nat
          <5>1. j < k /\ j \in DOMAIN L /\ k \in DOMAIN L /\ k \in 1..k
            BY <1>3, <4>2, <4>4, <4>5
          <5>2. L[j] < L[k]
            BY <1>1, <5>1 DEF Increasing
          <5> QED BY <1>4, <1>5, <1>6, <4>2, <4>4, <5>1, <5>2
        <4>7. x + word[x] < L[k]
          BY <1>1, <3>1, <4>6 DEF NoTouch
        <4> QED BY <1>2, <2>0, <4>1, <4>6, <4>7
      <3> QED BY <3>2, <3>3
    <2>3. CASE x = cur /\ y # cur
      <3>1. y \in ToSet(L)
        BY <2>0, <2>3
      <3>2. PICK j \in 1..Len(L) : y = L[j]
        BY <1>4, <3>1
      <3>3. CASE right
        <4>1. PICK n \in Nat, wn \in Nat : /\ n = L[k + 1] /\ n \in ToSet(L) /\ wn = word[n] /\ wn > 0
                                           /\ b + m = n
          <5>1. k + 1 \in 1..Len(L) /\ b + m = L[k + 1]
            BY <1>3, <1>9, <3>3
          <5> QED BY <1>4, <1>5, <5>1
        <4>2. ws[cur] = size + wn
          BY <1>7, <3>3, <4>1 DEF With
        <4>3. n + wn = y /\ n < y
          <5>1. PICK c \in Nat, z \in Nat : c = cur /\ z = size /\ c + z = b + m
            BY <1>8
          <5>2. c + (z + wn) = y
            BY <1>14, <2>3, <4>2, <5>1
          <5>3. c + z = n /\ wn > 0 /\ y \in Nat
            BY <2>0, <4>1, <5>1
          <5>4. n + wn = y /\ n < n + wn
            BY <5>2, <5>3
          <5> QED BY <5>4
        <4>4. n + word[n] < y
          BY <1>1, <3>1, <4>1, <4>3 DEF NoTouch
        <4> QED BY <2>0, <4>1, <4>3, <4>4
      <3>4. CASE ~right
        <4>1. ws[cur] = size
          BY <1>7, <3>4 DEF With
        <4>2. y = b + m
          BY <1>8, <1>14, <2>3, <4>1
        <4>3. ~(j \in 1..k)
          <5>1. ~(y < b)
            BY <1>2, <2>0, <4>2
          <5> QED BY <1>6, <3>2, <5>1
        <4>4. j \in k + 1..Len(L) /\ k + 1 \in 1..Len(L) /\ k < Len(L)
          BY <1>3, <3>2, <4>3
        <4>5. j # k + 1
          BY <1>9, <3>2, <3>4, <4>2, <4>4
        <4>6. k + 1 < j
          BY <1>3, <4>4, <4>5
        <4>7. k + 1 \in k + 1..Len(L)
          BY <1>3, <4>4
        <4>8. L[k + 1] < y /\ b + m <= L[k + 1] /\ L[k + 1] \in Nat
          <5>1. L[k + 1] < L[j]
            BY <1>1, <1>3, <3>2, <4>4, <4>6 DEF Increasing
          <5> QED BY <1>4, <1>5, <1>6, <3>2, <4>4, <4>7, <5>1
        <4> QED BY <1>2, <2>0, <4>2, <4>8
      <3> QED BY <3>3, <3>4
    <2>4. CASE x = cur /\ y = cur
      BY <1>14, <2>0, <2>4
    <2> QED BY <2>1, <2>2, <2>3, <2>4
  <1>15. ASSUME NEW x \in ToSet(lst), NEW y \in ToSet(lst), x < y PROVE x + ws[x] < y
    <2>1. x \in Nat /\ y \in Nat /\ ws[x] \in Nat /\ ws[y] \in Nat /\ ws[y] > 0
      BY <1>2, <1>4, <1>11
    <2>2. x + ws[x] <= y \/ y + ws[y] <= x
      BY <1>11, <1>15, <2>1 DEF AllApart
    <2>3. x + ws[x] # y
      BY <1>14, <1>15
    <2>4. PICK i \in Nat, j \in Nat, u \in Nat, v \in Nat :
            i = x /\ j = y /\ u = ws[x] /\ v = ws[y] /\ v > 0
      BY <2>1
    <2>5. i < j /\ (i + u <= j \/ j + v <= i) /\ i + u # j /\ v > 0
      BY <1>15, <2>2, <2>3, <2>4
    <2>6. i + u < j
      BY <2>5
    <2> QED BY <2>4, <2>6
  <1> QED BY <1>10, <1>15 DEF NoTouch

-----------------------------------------------------------------------------
(* Whole words.                                                            *)

Whole(n) == n \in Nat /\ \E q \in Nat : n = W * q

LEMMA WholeSums ==
    ASSUME NEW a, NEW b, Whole(a), Whole(b)
    PROVE  Whole(a + b) /\ (a >= b => Whole(a - b))
  <1>1. PICK p \in Nat, q \in Nat : a = W * p /\ b = W * q
    BY DEF Whole
  <1>2. W \in Nat /\ W > 0
    BY Consts
  <1>3. p + q \in Nat /\ a + b = W * (p + q) /\ a + b \in Nat
    BY <1>1, <1>2
  <1>4. ASSUME a >= b PROVE Whole(a - b)
    <2>1. p >= q
      <3> SUFFICES ASSUME p < q PROVE FALSE
        OBVIOUS
      <3>1. PICK d \in Nat : q = p + d /\ d > 0
        <4>1. q - p \in Nat /\ q = p + (q - p) /\ q - p > 0
          OBVIOUS
        <4> QED BY <4>1
      <3>2. W * q = W * p + W * d /\ W * d > 0 /\ W * p \in Nat /\ W * d \in Nat
        BY <1>2, <3>1
      <3> QED BY <1>1, <1>4, <3>2
    <2>2. PICK d \in Nat : p = q + d
      <3>1. p - q \in Nat /\ p = q + (p - q)
        BY <2>1
      <3> QED BY <3>1
    <2>3. W * p = W * q + W * d /\ W * d \in Nat /\ W * q \in Nat
      BY <1>2, <2>2
    <2>4. a - b = W * d
      BY <1>1, <2>3
    <2> QED BY <2>3, <2>4 DEF Whole
  <1> QED BY <1>3, <1>4 DEF Whole

LEMMA WholeMod ==
    ASSUME NEW a, Whole(a)
    PROVE  a % W = 0 /\ Whole(a % Uint)
  <1>1. PICK p \in Nat : a = W * p /\ a \in Nat
    BY DEF Whole
  <1>2. W \in Nat /\ W > 0 /\ Uint \in Nat /\ Uint > 0
    BY Consts
  <1>3. a % W = 0
    <2>1. PICK d \in Nat, r \in Nat : d = a \div W /\ r = a % W /\ r < W /\ r = a - W * d
      <3>1. a \div W \in Nat /\ a % W \in Nat /\ a % W < W /\ a % W = a - W * (a \div W)
        BY <1>1, <1>2, DivMod
      <3> QED BY <3>1
    <2>2. W * p = W * d + r /\ W * d \in Nat
      BY <1>1, <1>2, <2>1
    <2>3. W * d <= W * p /\ W * p < W * d + W
      BY <1>2, <2>1, <2>2
    <2>4. W * p <= W * d
      BY <2>3, MulMono
    <2>5. r = 0
      BY <2>1, <2>2, <2>4
    <2> QED BY <2>1, <2>5
  <1>4. PICK u \in Nat : Uint = W * u
    <2>1. Uint % W = 0
      BY HeapAssumption
    <2>2. Uint \div W \in Nat /\ Uint % W = Uint - W * (Uint \div W)
      BY <1>2, DivMod
    <2>3. PICK u \in Nat : u = Uint \div W
      BY <2>2
    <2>4. W * u \in Nat /\ 0 = Uint - W * u
      BY <1>2, <2>1, <2>2, <2>3
    <2> QED BY <1>2, <2>4
  <1>5. Whole(a % Uint)
    <2>1. PICK d \in Nat, r \in Nat : d = a \div Uint /\ r = a % Uint /\ r = a - Uint * d
      <3>1. a \div Uint \in Nat /\ a % Uint \in Nat /\ a % Uint = a - Uint * (a \div Uint)
        BY <1>1, <1>2, DivMod
      <3> QED BY <3>1
    <2>2. PICK v \in Nat : v = Uint * d /\ v = W * (u * d)
      <3>1. Uint * d \in Nat /\ Uint * d = W * (u * d)
        BY <1>2, <1>4
      <3> QED BY <3>1
    <2>3. Whole(v)
      <3>1. u * d \in Nat
        OBVIOUS
      <3> QED BY <2>2, <3>1 DEF Whole
    <2>4. a >= v /\ r = a - v
      BY <1>1, <2>1, <2>2
    <2> QED BY <2>1, <2>3, <2>4, WholeSums
  <1> QED BY <1>3, <1>5

LEMMA WholeAligned ==
    ASSUME NEW n \in Nat
    PROVE  Whole(AlignDown(n)) /\ Whole(AlignUp(n)) /\ Whole(BlockSize(n))
  <1>1. \A m \in Nat : Whole(AlignDown(m))
    BY RoundDown DEF Whole
  <1>2. \A m \in Nat : Whole(AlignUp(m))
    <2> SUFFICES ASSUME NEW m \in Nat PROVE Whole(AlignUp(m))
      OBVIOUS
    <2>1. PICK x \in Nat : x = (m + W - 1) % Uint
      <3>1. m + W - 1 \in Nat
        BY Consts
      <3> QED BY <3>1, Wraps
    <2>2. AlignUp(m) = AlignDown(x)
      BY <2>1 DEF AlignUp, AlignDown
    <2> QED BY <1>1, <2>2
  <1>3. Whole(BlockSize(n))
    <2>1. PICK x \in Nat : x = (Clamp(n) + 1) % Uint
      <3>1. Clamp(n) + 1 \in Nat
        BY Consts DEF Clamp
      <3> QED BY <3>1, Wraps
    <2>2. PICK u : u = AlignUp(x) /\ Whole(u)
      BY <1>2
    <2>3. Whole(W)
      <3>1. W = W * 1 /\ W \in Nat
        BY Consts
      <3> QED BY <3>1 DEF Whole
    <2>4. Whole(u + W)
      BY <2>2, <2>3, WholeSums
    <2>5. BlockSize(n) = (u + W) % Uint
      BY <2>1, <2>2 DEF BlockSize
    <2> QED BY <2>4, <2>5, WholeMod
  <1> QED BY <1>1, <1>2, <1>3

(* Blocks begin and end at whole words.                                    *)
WholeOn(S, w) == \A b \in S : Whole(b) /\ Whole(w[b]) /\ w[b] > 0

LEMMA TakenWhole ==
    ASSUME HeapInv, WholeOn(DOMAIN word, word), NEW h \in Slots, NEW size, Whole(size),
           NEW i \in DOMAIN heaps[h].list, word[heaps[h].list[i]] >= size,
           NEW blk \in Nat, NEW lst, NEW ws, NEW ts, TakesWell(h, i, size, blk, lst, ws, ts)
    PROVE  WholeOn(Blocks \cup {blk}, ws)
  <1>1. PICK b \in Nat : b = heaps[h].list[i] /\ b \in ToSet(heaps[h].list)
    <2>1. heaps[h].list \in Seq(Nat)
      BY DEF HeapInv, Shapes, Heap
    <2>2. heaps[h].list[i] \in Nat /\ heaps[h].list[i] \in ToSet(heaps[h].list)
      BY <2>1 DEF ToSet
    <2> QED BY <2>2
  <1>2. b \in Blocks /\ b \in DOMAIN word /\ Whole(b) /\ Whole(word[b]) /\ word[b] >= size
    BY <1>1, Listed DEF WholeOn
  <1>3. PICK rest : rest = word[b] - size /\ Whole(rest)
    BY <1>2, WholeSums
  <1>4. \A x \in Blocks : x \in DOMAIN word /\ Whole(x) /\ Whole(word[x])
    BY BlockFacts DEF WholeOn
  <1>5. /\ Taken(h, i, size) = [block |-> blk, list |-> lst, word |-> ws, tag |-> ts]
        /\ \A x \in Blocks \cup {blk} : ws[x] \in Nat /\ ws[x] > 0
    BY Zenon DEF TakesWell
  <1>6. CASE rest >= HeapMin
    <2>1. blk = b + rest /\ ws = With(With(word, b, rest), b + rest, size)
      BY <1>1, <1>3, <1>5, <1>6 DEF Taken
    <2>2. Whole(b + rest)
      BY <1>2, <1>3, WholeSums
    <2>3. \A x \in DOMAIN word \cup {blk} : ws[x] = IF x = blk THEN size ELSE IF x = b THEN rest ELSE word[x]
      BY <1>2, <2>1 DEF With
    <2>4. ASSUME NEW x \in Blocks \cup {blk} PROVE Whole(x) /\ Whole(ws[x])
      BY <1>3, <1>4, <2>1, <2>2, <2>3
    <2> QED BY <1>5, <2>4 DEF WholeOn
  <1>7. CASE ~(rest >= HeapMin)
    <2>1. blk = b /\ ws = word
      BY <1>1, <1>3, <1>5, <1>7 DEF Taken
    <2> QED BY <1>2, <1>4, <1>5, <2>1 DEF WholeOn
  <1> QED BY <1>6, <1>7

LEMMA JoinedWhole ==
    ASSUME HeapInv, WholeOn(DOMAIN word, word), NEW h \in Slots, NEW b, GivenBack(h, b),
           NEW k \in 0..Len(heaps[h].list),
           NEW lst \in Seq(Nat), NEW ws, JoinsWell(h, k, b, lst, ws)
    PROVE  WholeOn(Remaining(h, b, lst) \cup {b}, ws)
  <1>1. PICK L \in Seq(Nat) : L = heaps[h].list
    BY GivenFacts
  <1>2. /\ Joined(L, k, b) = [list |-> lst, word |-> ws]
        /\ ToSet(lst) \subseteq ToSet(L) \cup {b}
        /\ \A x \in Remaining(h, b, lst) : ws[x] \in Nat /\ ws[x] > 0
    BY <1>1, Zenon DEF JoinsWell
  <1>3. PICK left, right, cur, size :
           /\ left \in BOOLEAN /\ right \in BOOLEAN
           /\ Joining(L, k, b, left, right, cur, size)
           /\ ws = With(word, cur, IF right THEN size + word[L[k + 1]] ELSE size)
    BY <1>2, JoinedIs
  <1>4. \A x \in Blocks : x \in DOMAIN word /\ Whole(x) /\ Whole(word[x]) /\ word[x] > 0
    BY BlockFacts DEF WholeOn
  <1>5. b \in Blocks /\ \A j \in 1..Len(L) : L[j] \in Blocks
    <2>1. \A j \in 1..Len(L) : L[j] \in ToSet(L)
      BY <1>1 DEF ToSet
    <2> QED BY <1>1, <2>1, Listed, GivenFacts
  <1>6. k \in 0..Len(L) /\ Len(L) \in Nat
    BY <1>1
  <1>7. Whole(size) /\ size > 0
    <2>1. CASE left
      <3>1. k \in 1..Len(L) /\ size = word[L[k]] + word[b]
        BY <1>3, <1>6, <2>1 DEF Joining
      <3>2. PICK u, v : u = word[L[k]] /\ v = word[b] /\ Whole(u) /\ Whole(v) /\ u > 0 /\ v > 0
        BY <1>4, <1>5, <3>1
      <3>3. Whole(u + v) /\ u + v > 0
        <4>1. u \in Nat /\ v \in Nat
          BY <3>2 DEF Whole
        <4>2. u + v > 0
          BY <3>2, <4>1
        <4> QED BY <3>2, <4>2, WholeSums
      <3> QED BY <3>1, <3>2, <3>3
    <2>2. CASE ~left
      BY <1>3, <1>4, <1>5, <2>2 DEF Joining
    <2> QED BY <2>1, <2>2
  <1>8. PICK sz : ws = With(word, cur, sz) /\ Whole(sz) /\ sz > 0
    <2>1. CASE right
      <3>1. k + 1 \in 1..Len(L)
        BY <1>3, <1>6, <2>1 DEF Joining
      <3>2. PICK v : v = word[L[k + 1]] /\ Whole(v) /\ v > 0
        BY <1>4, <1>5, <3>1
      <3>3. Whole(size + v) /\ size + v > 0
        <4>1. size \in Nat /\ v \in Nat
          BY <1>7, <3>2 DEF Whole
        <4>2. size + v > 0
          BY <3>2, <4>1
        <4> QED BY <1>7, <3>2, <4>2, WholeSums
      <3> QED BY <1>3, <2>1, <3>2, <3>3
    <2>2. CASE ~right
      BY <1>3, <1>7, <2>2
    <2> QED BY <2>1, <2>2
  <1>9. \A x \in DOMAIN word : ws[x] = IF x = cur THEN sz ELSE word[x]
    BY <1>8 DEF With
  <1>10. Remaining(h, b, lst) \cup {b} \subseteq Blocks
    <2>1. ToSet(L) \subseteq Blocks
      BY <1>1, Listed
    <2> QED BY <1>2, <1>5, <2>1 DEF Remaining
  <1>11. ASSUME NEW x \in Blocks PROVE Whole(x) /\ Whole(ws[x]) /\ ws[x] > 0
    BY <1>4, <1>8, <1>9
  <1> QED BY <1>10, <1>11 DEF WholeOn

-----------------------------------------------------------------------------
(* The lists and the types are kept.                                       *)

(* What the memory holds.                                                  *)
Types ==
    /\ WholeOn(DOMAIN word, word) /\ \A a \in DOMAIN tag : tag[a] \in {"use", "free"}
    /\ \A h \in Slots : heaps[h].size = 0 => heaps[h].free = 0
    /\ deletes <= MaxDeletes

(* What the tasks ask for.                                                 *)
Asked(t) ==
    /\ op[t].slot <= ListNum + 1
    /\ op[t].pc \in {"look", "get"} => op[t].len \in Sizes \cup {W}
Lengths ==
    /\ \A p \in DOMAIN live : live[p] \in Sizes \cup {W}
    /\ \A t \in Tasks : Asked(t)

LEMMA RememberWhole ==
    ASSUME NEW ws, NEW ts, Remember(ws, ts), NEW S, WholeOn(S, ws), Starts' \subseteq S
    PROVE  WholeOn(DOMAIN word', word')
  <1>1. PICK starts : starts = Starts' /\ starts \subseteq S /\ word' = Restrict(ws, starts)
    BY Zenon DEF Remember
  <1>2. DOMAIN word' = starts /\ \A b \in starts : word'[b] = ws[b]
    BY <1>1 DEF Restrict
  <1> QED BY <1>1, <1>2 DEF WholeOn

LEMMA RememberTags ==
    ASSUME HeapInv', NEW ws, NEW ts, Remember(ws, ts)
    PROVE  \A a \in DOMAIN tag' : tag'[a] \in {"use", "free"}
  <1>1. PICK starts : /\ starts = Starts' /\ word' = Restrict(ws, starts)
                      /\ tag' = Restrict(ts, {b + ws[b] - 1 : b \in starts})
    BY Zenon DEF Remember
  <1>2. DOMAIN word' = starts /\ \A b \in starts : word'[b] = ws[b]
    BY <1>1 DEF Restrict
  <1>3. DOMAIN tag' = {b + ws[b] - 1 : b \in starts}
    BY <1>1 DEF Restrict
  <1>4. /\ starts = Frees' \cup {Block(p) : p \in DOMAIN live' \cup ({freed'} \ {Null})}
        /\ Frees' = UNION {ToSet(heaps'[h].list) : h \in Slots}
    BY <1>1, Zenon DEF Starts, Block, Frees
  <1>5. ASSUME NEW b \in starts PROVE tag'[b + word'[b] - 1] \in {"use", "free"}
    <2>1. CASE b \in Frees'
      <3>1. PICK h \in Slots : b \in ToSet(heaps'[h].list)
        BY <1>4, <2>1
      <3>2. FreeBlock(b, h)'
        BY <3>1 DEF HeapInv, FreeListed
      <3> QED BY <3>2 DEF FreeBlock, Dog
    <2>2. ASSUME NEW p \in DOMAIN live', b = Block(p) PROVE tag'[b + word'[b] - 1] = "use"
      <3>1. tag'[Block(p) + word'[Block(p)] - 1] = "use"
        BY DEF HeapInv, HeldFits, Dog, Block
      <3> QED BY <2>2, <3>1
    <2>3. CASE freed' # Null /\ b = Block(freed')
      <3>1. tag'[Block(freed') + word'[Block(freed')] - 1] = "free"
        BY <2>3 DEF HeapInv, FreedSeen, Dog, Block
      <3> QED BY <2>3, <3>1
    <2> QED BY <1>4, <2>1, <2>2, <2>3
  <1> QED BY <1>2, <1>3, <1>5

(* What an allocation does.                                                *)
Took(t, h, n, i, blk, lst, ws, ts) ==
    /\ h = op[t].slot /\ n = op[t].len /\ op[t].pc = "get" /\ BlockSize(n) > W
    /\ i \in DOMAIN heaps[h].list /\ word[heaps[h].list[i]] >= BlockSize(n)
    /\ TakesWell(h, i, BlockSize(n), blk, lst, ws, ts)
    /\ heaps' = [heaps EXCEPT ![h].list = lst, ![h].free = @ - ws[blk]]
    /\ total' = total - ws[blk]
    /\ live' = With(live, blk + W, n) /\ freed' = Null /\ Remember(ws, ts)

LEMMA AllocateIs ==
    ASSUME HeapInv, NEW t \in Tasks, Allocate(t)
    PROVE  \E h \in Slots, n \in Nat, blk \in Nat, lst \in Seq(Nat) : \E i, ws, ts :
              Took(t, h, n, i, blk, lst, ws, ts)
  <1>1. PICK h \in Slots, n \in Nat : h = op[t].slot /\ n = op[t].len /\ ~Refused(n) /\ op[t].pc = "get"
    BY DEF HeapInv, Shapes, Op, Working, Allocate
  <1>2. PICK size \in Nat : size = BlockSize(n) /\ size > W
    <2>1. BlockSize(n) \in Nat /\ Clamp(n) \in Nat
      BY RoomInBlock
    <2>2. BlockSize(n) >= Clamp(n)
      BY <1>1, <2>1 DEF Refused, Overflows
    <2> QED BY <2>1, <2>2, RoomInBlock, Consts
  <1>3. PICK i \in Chosen(heaps[h].list, size) :
           LET got == Taken(h, i, size)
               took == got.word[got.block]
               ptr == got.block + W
           IN /\ heaps' = [heaps EXCEPT ![h].list = got.list, ![h].free = @ - took]
              /\ total' = total - took
              /\ live' = With(live, ptr, n) /\ freed' = Null
              /\ Remember(got.word, got.tag)
    BY <1>1, <1>2 DEF Allocate
  <1>4. i \in DOMAIN heaps[h].list /\ word[heaps[h].list[i]] >= size
    BY ChosenFits
  <1>5. PICK blk \in Nat, lst \in Seq(Nat) : \E ws, ts : TakesWell(h, i, size, blk, lst, ws, ts)
    BY <1>2, <1>4, TakenFits
  <1>6. PICK ws, ts : TakesWell(h, i, size, blk, lst, ws, ts)
    BY <1>5
  <1>7. Taken(h, i, size) = [block |-> blk, list |-> lst, word |-> ws, tag |-> ts]
    BY <1>6, Zenon DEF TakesWell
  <1>9. /\ heaps' = [heaps EXCEPT ![h].list = lst, ![h].free = @ - ws[blk]]
        /\ total' = total - ws[blk] /\ live' = With(live, blk + W, n) /\ freed' = Null /\ Remember(ws, ts)
    BY <1>3, <1>7
  <1>10. Took(t, h, n, i, blk, lst, ws, ts)
    BY <1>1, <1>2, <1>4, <1>6, <1>9 DEF Took
  <1> QED BY <1>10

LEMMA AllocateOrder ==
    ASSUME HeapInv, HeapInv', Sorted, Types, NEW t \in Tasks, Allocate(t)
    PROVE  Sorted' /\ Types'
  <1>0. PICK h \in Slots, n \in Nat, blk \in Nat, lst \in Seq(Nat) : \E i, ws, ts :
           Took(t, h, n, i, blk, lst, ws, ts)
    BY AllocateIs
  <1>1. PICK i, ws, ts : Took(t, h, n, i, blk, lst, ws, ts)
    BY <1>0
  <1>2. PICK size \in Nat : size = BlockSize(n) /\ Whole(size)
    BY WholeAligned DEF Whole
  <1>3. /\ i \in DOMAIN heaps[h].list /\ word[heaps[h].list[i]] >= size
        /\ TakesWell(h, i, size, blk, lst, ws, ts)
        /\ heaps' = [heaps EXCEPT ![h].list = lst, ![h].free = @ - ws[blk]]
        /\ live' = With(live, blk + W, n) /\ freed' = Null /\ Remember(ws, ts)
    BY <1>1, <1>2, Zenon DEF Took
  <1>4. /\ ToSet(lst) = ToSet(heaps[h].list) \ {blk} /\ Within(ws, blk, h)
        /\ \A b \in Blocks : b \notin ToSet(heaps[h].list) => ws[b] = word[b]
    BY <1>3, Zenon DEF TakesWell
  <1>5. Increasing(lst) /\ \A x \in ToSet(lst) : ws[x] <= word[x]
    BY <1>3, TakenSorted
  <1>6. WholeOn(Blocks \cup {blk}, ws)
    BY <1>2, <1>3, TakenWhole DEF Types
  <1>7. /\ heaps'[h].list = lst
        /\ \A k \in Slots : /\ heaps'[k].size = heaps[k].size
                            /\ k # h => heaps'[k].list = heaps[k].list /\ heaps'[k].free = heaps[k].free
    BY <1>3 DEF HeapInv, Shapes, Heap
  <1>8. ASSUME NEW k \in Slots
        PROVE  Increasing(heaps'[k].list) /\ NoTouch(ToSet(heaps'[k].list), word')
    <2>0. Increasing(heaps[k].list) /\ NoTouch(ToSet(heaps[k].list), word)
      BY DEF Sorted
    <2>1. \A x \in ToSet(heaps'[k].list) : word'[x] = ws[x]
      BY <1>3, FreeWords
    <2>2. CASE k = h
      <3>1. ASSUME NEW x \in ToSet(lst), NEW y \in ToSet(lst), x < y PROVE x + word'[x] < y
        <4>1. x \in ToSet(heaps[h].list) /\ y \in ToSet(heaps[h].list)
          BY <1>4, <3>1
        <4>2. x \in Nat /\ word[x] \in Nat /\ y \in Nat
          BY <4>1, Listed
        <4>3. x + word[x] < y
          BY <2>0, <2>2, <3>1, <4>1 DEF NoTouch
        <4>4. word'[x] = ws[x] /\ ws[x] <= word[x]
          BY <1>5, <1>7, <2>1, <2>2, <3>1
        <4>5. ws[x] \in Nat
          <5>1. x \in Blocks
            BY <4>1, Listed
          <5> QED BY <1>6, <5>1 DEF WholeOn, Whole
        <4> QED BY <4>2, <4>3, <4>4, <4>5
      <3> QED BY <1>5, <1>7, <2>2, <3>1 DEF NoTouch
    <2>3. CASE k # h
      <3>1. heaps'[k].list = heaps[k].list
        BY <1>7, <2>3
      <3>2. \A x \in ToSet(heaps[k].list) : word'[x] = word[x]
        BY <1>4, <2>1, <2>3, <3>1, ListsApart
      <3> QED BY <2>0, <3>1, <3>2 DEF NoTouch
    <2> QED BY <2>2, <2>3
  <1>9. Sorted'
    BY <1>8 DEF Sorted
  <1>10. Starts' \subseteq Blocks \cup {blk}
    <2>1. Starts' = Frees' \cup {Block(p) : p \in DOMAIN live'}
      BY <1>3 DEF Starts, Block
    <2>2. \A x \in Frees' : x \in Blocks
      <3>1. ToSet(lst) \subseteq Blocks
        BY <1>4, Listed
      <3>2. \A x : x \in Frees' => x \in ToSet(heaps'[h].list) \/ x \in Frees
        BY <1>7, FreesNow
      <3> QED BY <1>7, <3>1, <3>2 DEF Blocks
    <2>3. DOMAIN live' = DOMAIN live \cup {blk + W} /\ Block(blk + W) = blk
      BY <1>3, Consts DEF With, Block
    <2>4. \A p \in DOMAIN live : Block(p) \in Blocks
      BY DEF Blocks, Held
    <2> QED BY <2>1, <2>2, <2>3, <2>4
  <1>11. WholeOn(DOMAIN word', word')
    BY <1>3, <1>6, <1>10, RememberWhole
  <1>12. \A a \in DOMAIN tag' : tag'[a] \in {"use", "free"}
    BY <1>3, RememberTags
  <1>13. \A k \in Slots : heaps'[k].size = 0 => heaps'[k].free = 0
    <2>1. heaps[h].size > 0
      BY <1>4 DEF Within
    <2> QED BY <1>7, <2>1 DEF Types
  <1>14. deletes' <= MaxDeletes
    BY DEF Types, Allocate, past
  <1>15. Types'
    BY <1>11, <1>12, <1>13, <1>14 DEF Types
  <1> QED BY <1>9, <1>15

(* What giving a block back does.                                          *)
Gave(t, h, old, b, k, lst, ws, ts) ==
    /\ old = op[t].old /\ old \in DOMAIN live /\ InHeap(old, h)
    /\ b = Block(old) /\ GivenBack(h, b) /\ ts = Tagged(b)
    /\ k \in Place(heaps[h].list, b) /\ JoinsWell(h, k, b, lst, ws)
    /\ heaps' = [heaps EXCEPT ![h].list = lst, ![h].free = @ + word[b]]
    /\ total' = total + word[b]
    /\ live' = Restrict(live, DOMAIN live \ {old}) /\ freed' = old /\ Remember(ws, ts)

LEMMA DeallocateIs ==
    ASSUME HeapInv, NEW t \in Tasks, Deallocate(t)
    PROVE  \E h \in Slots, old \in Nat, lst \in Seq(Nat) : \E b, k, ws, ts :
              Gave(t, h, old, b, k, lst, ws, ts)
  <1>1. PICK h \in Slots, old \in Nat : /\ h = op[t].slot /\ old = op[t].old /\ old \in DOMAIN live
                                        /\ InHeap(old, h)
    <2>1. op[t].pc = "put" /\ Working(t)
      BY DEF Deallocate, HeapInv
    <2>2. op[t].old \in DOMAIN live /\ op[t].slot \in Slots /\ InHeap(op[t].old, op[t].slot)
      BY <2>1 DEF Working
    <2> QED BY <2>2 DEF HeapInv, Shapes
  <1>2. PICK b : b = Block(old) /\ b \in Held
    BY <1>1 DEF Held
  <1>3. GivenBack(h, b)
    <2>1. PICK k \in Slots : Within(word, b, k)
      BY <1>1, <1>2 DEF HeapInv, HeldFits
    <2>2. InHeap(old, k)
      BY <1>1, <1>2, <2>1, PointerInHeap
    <2> QED BY <1>1, <1>2, <2>1, <2>2, OneOwner DEF GivenBack
  <1>4. PICK k \in Place(heaps[h].list, b) :
           LET joined == Joined(heaps[h].list, k, b)
           IN /\ heaps' = [heaps EXCEPT ![h].list = joined.list, ![h].free = @ + word[b]]
              /\ total' = total + word[b]
              /\ live' = Restrict(live, DOMAIN live \ {old}) /\ freed' = old
              /\ Remember(joined.word, Tagged(b))
    BY <1>1, <1>2 DEF Deallocate, Tagged
  <1>5. PICK lst \in Seq(Nat) : \E ws : JoinsWell(h, k, b, lst, ws)
    <2>1. k \in 0..Len(heaps[h].list)
      BY <1>4 DEF Place
    <2> QED BY <1>3, <2>1, JoinedFits
  <1>6. PICK ws : JoinsWell(h, k, b, lst, ws)
    BY <1>5
  <1>7. Joined(heaps[h].list, k, b) = [list |-> lst, word |-> ws]
    BY <1>6, Zenon DEF JoinsWell
  <1>8. PICK ts : ts = Tagged(b)
    OBVIOUS
  <1>9. /\ heaps' = [heaps EXCEPT ![h].list = lst, ![h].free = @ + word[b]]
        /\ total' = total + word[b] /\ live' = Restrict(live, DOMAIN live \ {old}) /\ freed' = old
        /\ Remember(ws, ts)
    <2>1. PICK j : j = Joined(heaps[h].list, k, b)
      OBVIOUS
    <2>2. j.list = lst /\ j.word = ws
      BY <1>7, <2>1
    <2>3. /\ heaps' = [heaps EXCEPT ![h].list = j.list, ![h].free = @ + word[b]]
          /\ total' = total + word[b] /\ live' = Restrict(live, DOMAIN live \ {old}) /\ freed' = old
          /\ Remember(j.word, ts)
      BY <1>4, <1>8, <2>1, Zenon
    <2> QED BY <2>2, <2>3, Zenon
  <1>10. Gave(t, h, old, b, k, lst, ws, ts)
    BY <1>1, <1>2, <1>3, <1>4, <1>6, <1>8, <1>9, Zenon DEF Gave
  <1> QED BY <1>10

LEMMA DeallocateOrder ==
    ASSUME HeapInv, HeapInv', Sorted, Types, NEW t \in Tasks, Deallocate(t)
    PROVE  Sorted' /\ Types'
  <1>0. PICK h \in Slots, old \in Nat, lst \in Seq(Nat) : \E b, k, ws, ts :
           Gave(t, h, old, b, k, lst, ws, ts)
    BY DeallocateIs
  <1>1. PICK b, k, ws, ts : Gave(t, h, old, b, k, lst, ws, ts)
    BY <1>0
  <1>3. /\ b = Block(old) /\ old \in DOMAIN live /\ GivenBack(h, b)
        /\ k \in Place(heaps[h].list, b) /\ JoinsWell(h, k, b, lst, ws)
        /\ heaps' = [heaps EXCEPT ![h].list = lst, ![h].free = @ + word[b]]
        /\ live' = Restrict(live, DOMAIN live \ {old}) /\ freed' = old /\ Remember(ws, ts)
    BY <1>1, Zenon DEF Gave
  <1>4. /\ ToSet(lst) \subseteq ToSet(heaps[h].list) \cup {b}
        /\ \A x \in Remaining(h, b, lst) : x \notin ToSet(lst) => ws[x] = word[x]
    BY <1>3, Zenon DEF JoinsWell
  <1>5. Increasing(lst) /\ NoTouch(ToSet(lst), ws)
    BY <1>3, JoinedSorted
  <1>6. WholeOn(Remaining(h, b, lst) \cup {b}, ws)
    <2>1. k \in 0..Len(heaps[h].list)
      BY <1>3 DEF Place
    <2> QED BY <1>3, <2>1, JoinedWhole DEF Types
  <1>7. /\ heaps'[h].list = lst
        /\ \A i \in Slots : /\ heaps'[i].size = heaps[i].size
                            /\ i # h => heaps'[i].list = heaps[i].list /\ heaps'[i].free = heaps[i].free
    BY <1>3 DEF HeapInv, Shapes, Heap
  <1>2. ASSUME NEW x \in Blocks, x \notin ToSet(heaps[h].list), x # b
        PROVE  x \in Remaining(h, b, lst) /\ x \notin ToSet(lst)
    BY <1>2, <1>4 DEF Remaining
  <1>13. b \in Held /\ Held \cap Frees = {}
    BY <1>3 DEF GivenBack, HeapInv, BlocksApart
  <1>8. ASSUME NEW i \in Slots
        PROVE  Increasing(heaps'[i].list) /\ NoTouch(ToSet(heaps'[i].list), word')
    <2>0. Increasing(heaps[i].list) /\ NoTouch(ToSet(heaps[i].list), word)
      BY DEF Sorted
    <2>1. \A x \in ToSet(heaps'[i].list) : word'[x] = ws[x]
      BY <1>3, FreeWords
    <2>2. CASE i = h
      BY <1>5, <1>7, <2>1, <2>2 DEF NoTouch
    <2>3. CASE i # h
      <3>1. heaps'[i].list = heaps[i].list
        BY <1>7, <2>3
      <3>2. ASSUME NEW x \in ToSet(heaps[i].list) PROVE word'[x] = word[x]
        <4>1. x \notin ToSet(heaps[h].list) /\ x \in Blocks
          BY <2>3, ListsApart
        <4>2. x # b
          BY <1>13 DEF Frees
        <4> QED BY <1>2, <1>4, <2>1, <3>1, <4>1, <4>2
      <3> QED BY <2>0, <3>1, <3>2 DEF NoTouch
    <2> QED BY <2>2, <2>3
  <1>9. Sorted'
    BY <1>8 DEF Sorted
  <1>10. Starts' \subseteq Remaining(h, b, lst) \cup {b}
    <2>1. Starts' = Frees' \cup {Block(p) : p \in DOMAIN live' \cup ({freed'} \ {Null})}
      BY Zenon DEF Starts, Block
    <2>2. ASSUME NEW x \in Frees' PROVE x \in Remaining(h, b, lst)
      <3>1. CASE x \in ToSet(lst)
        BY <3>1 DEF Remaining
      <3>2. CASE x \notin ToSet(lst)
        <4>1. PICK i \in Slots : i # h /\ x \in ToSet(heaps[i].list)
          BY <1>7, <2>2, <3>2, FreesNow
        <4>2. x \notin ToSet(heaps[h].list) /\ x \in Blocks
          BY <4>1, ListsApart
        <4>3. x # b
          BY <1>13, <4>1 DEF Frees
        <4> QED BY <1>2, <4>2, <4>3
      <3> QED BY <3>1, <3>2
    <2>3. DOMAIN live' \subseteq DOMAIN live
      BY <1>3 DEF Restrict
    <2>4. ASSUME NEW p \in DOMAIN live PROVE Block(p) \in Remaining(h, b, lst) \cup {b}
      <3>1. Block(p) \in Held /\ Block(p) \in Blocks
        BY DEF Blocks, Held
      <3>2. Block(p) \notin ToSet(heaps[h].list)
        BY <1>13, <3>1 DEF Frees
      <3> QED BY <1>2, <3>1, <3>2
    <2> QED BY <1>3, <2>1, <2>2, <2>3, <2>4
  <1>11. WholeOn(DOMAIN word', word')
    BY <1>3, <1>6, <1>10, RememberWhole
  <1>12. \A a \in DOMAIN tag' : tag'[a] \in {"use", "free"}
    BY <1>3, RememberTags
  <1>14. \A i \in Slots : heaps'[i].size = 0 => heaps'[i].free = 0
    <2>1. heaps[h].size > 0
      BY <1>3 DEF GivenBack, Within
    <2> QED BY <1>7, <2>1 DEF Types
  <1>15. deletes' <= MaxDeletes
    BY DEF Types, Deallocate, past
  <1>16. Types'
    BY <1>11, <1>12, <1>14, <1>15 DEF Types
  <1> QED BY <1>9, <1>16

LEMMA CreateOrder ==
    ASSUME HeapInv, Sorted, Types, HeapCreate
    PROVE  Sorted' /\ Types'
  <1>1. PICK a \in Arenas, h \in Slots :
          LET start == AlignUp(a.base)
              size == AlignDown((a.size - (start - a.base)) % Uint)
          IN /\ \A k \in Slots : ~Overlaps(a, heaps[k])
             /\ size >= HeapMin
             /\ heaps' = [heaps EXCEPT ![h] =
                  [base |-> a.base, size |-> a.size, list |-> <<start>>, free |-> size]]
             /\ word' = With(word, start, size)
             /\ tag' = With(tag, start + size - 1, "free")
    BY DEF HeapCreate
  <1>2. PICK start \in Nat, size \in Nat :
          /\ start = AlignUp(a.base) /\ size = AlignDown((a.size - (start - a.base)) % Uint)
          /\ a.base <= start /\ start + size = AlignDown(a.base + a.size)
    BY FirstBlock
  <1>3. PICK base \in Nat, all \in Nat : base = a.base /\ all = a.size /\ all > 0 /\ all >= W
    BY Consts
  <1>4. /\ heaps' = [heaps EXCEPT ![h] = [base |-> base, size |-> all, list |-> <<start>>, free |-> size]]
        /\ word' = With(word, start, size) /\ tag' = With(tag, start + size - 1, "free")
        /\ size >= HeapMin /\ \A k \in Slots : ~Overlaps(a, heaps[k])
    BY <1>1, <1>2, <1>3
  <1>5. /\ heaps'[h].size = all /\ heaps'[h].list = <<start>>
        /\ \A k \in Slots : k # h => heaps'[k] = heaps[k]
    BY <1>4 DEF HeapInv, Shapes
  <1>6. /\ DOMAIN word' = DOMAIN word \cup {start} /\ word'[start] = size
        /\ \A b \in DOMAIN word : b # start => word'[b] = word[b]
    BY <1>4 DEF With
  <1>7. Whole(start) /\ Whole(size) /\ size > 0
    <2>1. Whole(start)
      BY <1>2, <1>3, WholeAligned
    <2>2. PICK b \in Nat, e \in Nat : /\ b = start /\ e = AlignDown(base + all) /\ Whole(b) /\ Whole(e)
                                      /\ b + size = e
      <3>1. base + all \in Nat
        OBVIOUS
      <3>2. Whole(AlignDown(base + all))
        BY <3>1, WholeAligned
      <3> QED BY <1>2, <1>3, <2>1, <3>2 DEF Whole
    <2>3. e >= b /\ e - b = size
      BY <2>2
    <2>4. Whole(size)
      BY <2>2, <2>3, WholeSums
    <2> QED BY <1>4, <2>1, <2>4, Consts
  <1>8. ASSUME NEW b \in Blocks PROVE word'[b] = word[b]
    <2>1. b \in Nat /\ word[b] \in Nat /\ word[b] > 0 /\ b \in DOMAIN word
      BY BlockFacts
    <2>2. b + word[b] <= base \/ base + all <= b
      BY <1>3, <1>4, NewArena
    <2>3. base <= start /\ start + size <= base + all
      <3>1. base + all \in Nat
        OBVIOUS
      <3>2. AlignDown(base + all) \in Nat /\ AlignDown(base + all) <= base + all
        BY <3>1, RoundDown
      <3> QED BY <1>2, <1>3, <3>2
    <2>4. b # start
      BY <1>7, <2>1, <2>2, <2>3
    <2> QED BY <1>6, <2>1, <2>4
  <1>9. ASSUME NEW k \in Slots
        PROVE  Increasing(heaps'[k].list) /\ NoTouch(ToSet(heaps'[k].list), word')
    <2>1. CASE k = h
      <3>1. ToSet(<<start>>) = {start} /\ DOMAIN <<start>> = {1}
        BY DEF ToSet
      <3> QED BY <1>5, <2>1, <3>1 DEF Increasing, NoTouch
    <2>2. CASE k # h
      <3>1. heaps'[k].list = heaps[k].list
        BY <1>5, <2>2
      <3>2. \A x \in ToSet(heaps[k].list) : word'[x] = word[x]
        BY <1>8, Listed
      <3> QED BY <3>1, <3>2 DEF Sorted, NoTouch
    <2> QED BY <2>1, <2>2
  <1>10. WholeOn(DOMAIN word', word')
    BY <1>6, <1>7 DEF WholeOn, Types
  <1>11. \A x \in DOMAIN tag' : tag'[x] \in {"use", "free"}
    BY <1>4 DEF With, Types
  <1>12. \A k \in Slots : heaps'[k].size = 0 => heaps'[k].free = 0
    BY <1>3, <1>5 DEF Types
  <1>13. deletes' <= MaxDeletes
    BY DEF Types, HeapCreate, past
  <1> QED BY <1>9, <1>10, <1>11, <1>12, <1>13 DEF Sorted, Types

LEMMA DeleteOrder ==
    ASSUME HeapInv, SumInv, Sorted, Types, HeapDelete
    PROVE  Sorted' /\ Types'
  <1>1. PICK h \in Slots : heaps' = [heaps EXCEPT ![h] = NoHeap]
    BY DEF HeapDelete
  <1>2. UNCHANGED <<word, tag>> /\ deletes' = deletes + 1 /\ deletes < MaxDeletes /\ deletes \in Nat
    BY DEF HeapDelete, SumInv
  <1>3. /\ heaps'[h].list = <<>> /\ heaps'[h].free = 0 /\ \A k \in Slots : k # h => heaps'[k] = heaps[k]
    BY <1>1 DEF NoHeap, HeapInv, Shapes
  <1>4. ASSUME NEW k \in Slots
        PROVE  Increasing(heaps'[k].list) /\ NoTouch(ToSet(heaps'[k].list), word')
    <2>1. CASE k = h
      <3>1. ToSet(<<>>) = {} /\ DOMAIN <<>> = {}
        BY DEF ToSet
      <3> QED BY <1>3, <2>1, <3>1 DEF Increasing, NoTouch
    <2>2. CASE k # h
      BY <1>2, <1>3, <2>2 DEF Sorted
    <2> QED BY <2>1, <2>2
  <1>5. deletes' <= MaxDeletes
    <2>1. MaxDeletes \in Nat
      BY HeapAssumption
    <2> QED BY <1>2, <2>1
  <1> QED BY <1>2, <1>3, <1>4, <1>5 DEF Sorted, Types, WholeOn

LEMMA OrderStays ==
    ASSUME Sorted, Types, UNCHANGED <<mem, deletes>>
    PROVE  Sorted' /\ Types'
  <1>1. UNCHANGED <<heaps, word, tag, deletes>>
    BY DEF mem
  <1> QED BY <1>1 DEF Sorted, Types, WholeOn, NoTouch

-----------------------------------------------------------------------------
(* Every heap is diagnosed valid.                                         *)

(* It is enough to look at the task that moves.                            *)
LEMMA AskStep ==
    ASSUME HeapInv, Lengths, NEW t \in Tasks, NEW o, op' = [op EXCEPT ![t] = o],
           o.slot <= ListNum + 1, o.pc \in {"look", "get"} => o.len \in Sizes \cup {W},
           \A p \in DOMAIN live' : live'[p] \in Sizes \cup {W}
    PROVE  Lengths'
  <1>1. op'[t] = o /\ \A u \in Tasks : u # t => op'[u] = op[u]
    BY DEF HeapInv, Shapes
  <1>2. ASSUME NEW u \in Tasks PROVE Asked(u)'
    <2>1. CASE u = t
      BY <1>1, <2>1 DEF Asked
    <2>2. CASE u # t
      BY <1>1, <2>2 DEF Asked, Lengths
    <2> QED BY <2>1, <2>2
  <1> QED BY <1>2 DEF Lengths

LEMMA AsksWell ==
    ASSUME NEW h \in Handles, NEW n, NEW ptr
    PROVE  /\ Asks(h, n, ptr).slot <= ListNum + 1 /\ Asks(h, n, ptr).len = n
           /\ Asks(h, n, ptr).slot \in Nat
  <1>1. h \in 0..ListNum /\ ListNum \in Nat
    BY Consts DEF Handles, Slots
  <1> QED BY <1>1 DEF Asks

LEMMA IdleWell == Idle.slot <= ListNum + 1 /\ ~(Idle.pc \in {"look", "get"})
  <1>1. ListNum \in Nat
    BY Consts
  <1> QED BY <1>1 DEF Idle

LEMMA NextLengths ==
    ASSUME HeapInv, SumInv, Lengths, [Next]_vars
    PROVE  Lengths'
  <1>0. /\ \A p \in DOMAIN live : live[p] \in Sizes \cup {W}
        /\ \A t \in Tasks : Asked(t)
    BY DEF Lengths
  <1>1. CASE HeapCreate \/ HeapDelete \/ UNCHANGED vars
    <2>1. UNCHANGED op
      BY <1>1 DEF HeapCreate, HeapDelete, vars
    <2>2. \A p \in DOMAIN live' : live'[p] \in Sizes \cup {W}
      <3>1. CASE UNCHANGED live
        BY <1>0, <3>1
      <3>2. CASE HeapDelete
        <4>1. PICK S \in SUBSET DOMAIN live : live' = Restrict(live, S)
          BY <3>2 DEF HeapDelete
        <4> QED BY <1>0, <4>1 DEF Restrict
      <3> QED BY <1>1, <3>1, <3>2 DEF HeapCreate, vars
    <2> QED BY <1>0, <2>1, <2>2 DEF Lengths, Asked
  <1>2. ASSUME NEW t \in Tasks, Malloc(t) PROVE Lengths'
    <2>1. PICK h \in Handles, n \in Sizes : op' = [op EXCEPT ![t] = Asks(h, n, Null)]
      BY <1>2 DEF Malloc
    <2>2. PICK o : o = Asks(h, n, Null)
      OBVIOUS
    <2>3. UNCHANGED live
      BY <1>2 DEF Malloc
    <2>4. o.slot <= ListNum + 1 /\ o.len = n
      BY <2>2, AsksWell
    <2> QED BY <1>0, <2>1, <2>2, <2>3, <2>4, AskStep
  <1>3. ASSUME NEW t \in Tasks, LookForHeap(t) PROVE Lengths'
    <2>1. PICK h \in Nat : h = op[t].slot /\ op[t].pc = "look"
      BY <1>3 DEF LookForHeap, HeapInv, Shapes, Op
    <2>2. UNCHANGED live /\ op[t] \in Op
      BY <1>3 DEF LookForHeap, HeapInv, Shapes
    <2>3. \/ op' = [op EXCEPT ![t] = Idle]
          \/ op' = [op EXCEPT ![t] = [op[t] EXCEPT !.pc = "get"]]
          \/ h <= ListNum /\ op' = [op EXCEPT ![t] = [op[t] EXCEPT !.slot = h + 1]]
      <3>1. CASE h > ListNum \/ heaps[h].size = 0
        BY <1>3, <2>1, <3>1 DEF LookForHeap
      <3>2. CASE ~(h > ListNum \/ heaps[h].size = 0)
        <4>1. h <= ListNum
          BY <3>2, Consts
        <4>2. \/ op' = [op EXCEPT ![t] = [op[t] EXCEPT !.pc = "get"]]
              \/ op' = [op EXCEPT ![t] = [op[t] EXCEPT !.slot = h + 1]]
          BY <1>3, <2>1, <3>2 DEF LookForHeap
        <4> QED BY <4>1, <4>2
      <3> QED BY <3>1, <3>2
    <2>4. PICK o : /\ op' = [op EXCEPT ![t] = o] /\ o.slot <= ListNum + 1
                   /\ o.pc \in {"look", "get"} => o.len \in Sizes \cup {W}
      <3>1. CASE op' = [op EXCEPT ![t] = Idle]
        BY <3>1, IdleWell
      <3>2. CASE op' = [op EXCEPT ![t] = [op[t] EXCEPT !.pc = "get"]]
        <4>1. PICK o : o = [op[t] EXCEPT !.pc = "get"]
          OBVIOUS
        <4>2. o.slot = op[t].slot /\ o.len = op[t].len
          BY <2>2, <4>1 DEF Op
        <4> QED BY <1>0, <2>1, <3>2, <4>1, <4>2 DEF Asked
      <3>3. CASE h <= ListNum /\ op' = [op EXCEPT ![t] = [op[t] EXCEPT !.slot = h + 1]]
        <4>1. PICK o : o = [op[t] EXCEPT !.slot = h + 1]
          OBVIOUS
        <4>2. o.slot = h + 1 /\ o.len = op[t].len
          BY <2>2, <4>1 DEF Op
        <4>3. o.slot <= ListNum + 1
          BY <3>3, <4>2, Consts
        <4>4. op[t].len \in Sizes \cup {W}
          BY <1>0, <2>1 DEF Asked
        <4> QED BY <3>3, <4>1, <4>2, <4>3, <4>4
      <3> QED BY <2>3, <3>1, <3>2, <3>3
    <2> QED BY <1>0, <2>2, <2>4, AskStep
  <1>4. ASSUME NEW t \in Tasks, AllocateFails(t) PROVE Lengths'
    <2>1. PICK h \in Slots : h = op[t].slot /\ op[t].pc = "get"
      BY <1>4 DEF AllocateFails, HeapInv, Working
    <2>2. UNCHANGED live /\ op[t] \in Op /\ op[t].len \in Sizes \cup {W}
      BY <1>0, <1>4, <2>1 DEF AllocateFails, HeapInv, Shapes, Asked
    <2>3. PICK o : /\ op' = [op EXCEPT ![t] = o] /\ o.slot <= ListNum + 1
                   /\ o.pc \in {"look", "get"} => o.len \in Sizes \cup {W}
      <3>1. CASE ~op[t].all
        BY <1>4, <3>1, IdleWell DEF AllocateFails
      <3>2. CASE op[t].all
        <4>1. PICK o : o = [op[t] EXCEPT !.pc = "look", !.slot = op[t].slot + 1]
          OBVIOUS
        <4>2. o.slot = h + 1 /\ o.len = op[t].len
          BY <2>1, <2>2, <4>1 DEF Op
        <4>3. o.slot <= ListNum + 1
          BY <2>1, <4>2, Consts DEF Slots
        <4>4. op' = [op EXCEPT ![t] = o]
          BY <1>4, <3>2, <4>1 DEF AllocateFails
        <4> QED BY <2>2, <4>2, <4>3, <4>4
      <3> QED BY <3>1, <3>2
    <2> QED BY <1>0, <2>2, <2>3, AskStep
  <1>5. ASSUME NEW t \in Tasks, Allocate(t) PROVE Lengths'
    <2>1. PICK n : n = op[t].len /\ n \in Sizes \cup {W} /\ op[t] \in Op /\ op[t].slot <= ListNum + 1
      BY <1>0, <1>5 DEF Allocate, HeapInv, Shapes, Asked
    <2>2. PICK ptr : live' = With(live, ptr, n) /\ op' = [op EXCEPT ![t] = IF op[t].old = Null THEN Idle
                                     ELSE [op[t] EXCEPT !.pc = "copy", !.new = ptr]]
      BY <1>5, <2>1 DEF Allocate
    <2>3. \A p \in DOMAIN live' : live'[p] \in Sizes \cup {W}
      BY <1>0, <2>1, <2>2 DEF With
    <2>4. PICK o : /\ op' = [op EXCEPT ![t] = o] /\ o.slot <= ListNum + 1
                   /\ ~(o.pc \in {"look", "get"})
      <3>1. CASE op[t].old = Null
        BY <2>2, <3>1, IdleWell
      <3>2. CASE op[t].old # Null
        <4>1. PICK o : o = [op[t] EXCEPT !.pc = "copy", !.new = ptr]
          OBVIOUS
        <4>2. o.pc = "copy" /\ o.slot = op[t].slot
          BY <2>1, <4>1 DEF Op
        <4> QED BY <2>1, <2>2, <3>2, <4>1, <4>2
      <3> QED BY <3>1, <3>2
    <2> QED BY <2>3, <2>4, AskStep
  <1>6. ASSUME NEW t \in Tasks, Free(t) PROVE Lengths'
    <2>1. PICK ptr \in Mine, h \in Handles : op' = [op EXCEPT ![t] = [Asks(h, 0, ptr) EXCEPT !.pc = "free"]]
      BY <1>6 DEF Free
    <2>2. PICK o : o = [Asks(h, 0, ptr) EXCEPT !.pc = "free"]
      OBVIOUS
    <2>3. o.pc = "free" /\ o.slot = Asks(h, 0, ptr).slot
      BY <2>2 DEF Asks
    <2>4. UNCHANGED live
      BY <1>6 DEF Free
    <2>5. o.slot <= ListNum + 1
      BY <2>3, AsksWell
    <2> QED BY <1>0, <2>1, <2>2, <2>3, <2>4, <2>5, AskStep
  <1>7. ASSUME NEW t \in Tasks, FreeCheck(t) PROVE Lengths'
    <2>1. op[t] \in Op /\ Asked(t) /\ op[t].pc = "free"
      BY <1>0, <1>7 DEF HeapInv, Shapes, FreeCheck
    <2>2. \A p \in DOMAIN live' : live'[p] \in Sizes \cup {W}
      <3>1. live' = live \/ \E S : live' = Restrict(live, DOMAIN live \ S)
        BY <1>7 DEF FreeCheck
      <3> QED BY <1>0, <3>1 DEF Restrict
    <2>3. \/ op' = [op EXCEPT ![t] = Idle]
          \/ \E h : /\ h \in Slots \/ h = op[t].slot
                    /\ op' = [op EXCEPT ![t].pc = "put", ![t].slot = h]
      BY <1>7 DEF FreeCheck, Owner
    <2>4. PICK o : /\ op' = [op EXCEPT ![t] = o] /\ o.slot <= ListNum + 1
                   /\ ~(o.pc \in {"look", "get"})
      <3>1. CASE op' = [op EXCEPT ![t] = Idle]
        BY <3>1, IdleWell
      <3>2. ASSUME NEW h, h \in Slots \/ h = op[t].slot,
                   op' = [op EXCEPT ![t].pc = "put", ![t].slot = h]
            PROVE  \E o : /\ op' = [op EXCEPT ![t] = o] /\ o.slot <= ListNum + 1
                          /\ ~(o.pc \in {"look", "get"})
        <4>1. PICK o : o = [op[t] EXCEPT !.pc = "put", !.slot = h]
          OBVIOUS
        <4>2. o.pc = "put" /\ o.slot = h
          BY <2>1, <4>1 DEF Op
        <4>3. h <= ListNum + 1
          <5>1. h \in Slots => h <= ListNum + 1
            BY Consts DEF Slots
          <5> QED BY <2>1, <3>2, <5>1 DEF Asked
        <4>4. op' = [op EXCEPT ![t] = o]
          BY <3>2, <4>1 DEF HeapInv, Shapes
        <4> QED BY <4>2, <4>3, <4>4
      <3> QED BY <2>3, <3>1, <3>2
    <2> QED BY <2>2, <2>4, AskStep
  <1>8. ASSUME NEW t \in Tasks, Deallocate(t) PROVE Lengths'
    <2>1. op' = [op EXCEPT ![t] = Idle] /\ \E S : live' = Restrict(live, DOMAIN live \ S)
      BY <1>8 DEF Deallocate
    <2>2. \A p \in DOMAIN live' : live'[p] \in Sizes \cup {W}
      BY <1>0, <2>1 DEF Restrict
    <2> QED BY <2>1, <2>2, IdleWell, AskStep
  <1>9. ASSUME NEW t \in Tasks, FreeAgain(t) PROVE Lengths'
    <2>1. op' = [op EXCEPT ![t] = Idle] /\ UNCHANGED live
      BY <1>9 DEF FreeAgain, HeapInv, FreedSeen
    <2> QED BY <1>0, <2>1, IdleWell, AskStep
  <1>10. ASSUME NEW t \in Tasks, Realloc(t) PROVE Lengths'
    <2>1. PICK ptr \in Mine, h \in Handles, n \in Sizes :
             \/ live' = [live EXCEPT ![ptr] = n] /\ UNCHANGED op
             \/ op' = [op EXCEPT ![t] = Asks(h, Clamp(n), ptr)] /\ UNCHANGED live
      BY <1>10 DEF Realloc
    <2>2. CASE live' = [live EXCEPT ![ptr] = n] /\ UNCHANGED op
      <3>1. \A p \in DOMAIN live' : live'[p] \in Sizes \cup {W}
        BY <1>0, <2>2
      <3> QED BY <1>0, <2>2, <3>1 DEF Lengths, Asked
    <2>3. CASE op' = [op EXCEPT ![t] = Asks(h, Clamp(n), ptr)] /\ UNCHANGED live
      <3>1. Clamp(n) \in Sizes \cup {W}
        BY DEF Clamp
      <3>2. PICK o, m : o = Asks(h, m, ptr) /\ m = Clamp(n)
        OBVIOUS
      <3>3. o.slot <= ListNum + 1 /\ o.len = m
        BY <3>2, AsksWell
      <3> QED BY <1>0, <2>3, <3>1, <3>2, <3>3, AskStep
    <2> QED BY <2>1, <2>2, <2>3
  <1>11. ASSUME NEW t \in Tasks, ReallocCopy(t) PROVE Lengths'
    <2>1. op[t] \in Op /\ Asked(t) /\ UNCHANGED live
      BY <1>0, <1>11 DEF HeapInv, Shapes, ReallocCopy
    <2>2. PICK s \in Nat : s = (IF op[t].all THEN 1 ELSE op[t].slot) /\ s <= ListNum + 1
      BY <2>1, Consts DEF Asked, Op
    <2>3. PICK o : o = [op[t] EXCEPT !.pc = "free", !.new = Null, !.slot = s]
      OBVIOUS
    <2>4. o.pc = "free" /\ o.slot = s
      BY <2>1, <2>3 DEF Op
    <2>5. op' = [op EXCEPT ![t] = o]
      BY <1>11, <2>1, <2>2, <2>3 DEF ReallocCopy, HeapInv, Shapes, Op
    <2> QED BY <1>0, <2>1, <2>2, <2>4, <2>5, AskStep
  <1> QED BY <1>1, <1>2, <1>3, <1>4, <1>5, <1>6, <1>7, <1>8, <1>9, <1>10, <1>11 DEF Next

LEMMA NextOrder ==
    ASSUME HeapInv, HeapInv', SumInv, Sorted, Types, [Next]_vars
    PROVE  Sorted' /\ Types'
  <1>1. CASE HeapCreate
    BY <1>1, CreateOrder
  <1>2. CASE HeapDelete
    BY <1>2, DeleteOrder
  <1>3. CASE UNCHANGED vars
    BY <1>3, OrderStays DEF vars, past
  <1>4. ASSUME NEW t \in Tasks,
               \/ Malloc(t) \/ LookForHeap(t) \/ AllocateFails(t) \/ Free(t) \/ FreeCheck(t)
               \/ FreeAgain(t) \/ ReallocCopy(t) \/ Realloc(t)
        PROVE  Sorted' /\ Types'
    <2>1. UNCHANGED <<mem, deletes>>
      BY <1>4 DEF Malloc, LookForHeap, AllocateFails, Free, FreeCheck, FreeAgain, ReallocCopy, Realloc, past
    <2> QED BY <2>1, OrderStays
  <1>5. ASSUME NEW t \in Tasks, Allocate(t) PROVE Sorted' /\ Types'
    BY <1>5, AllocateOrder
  <1>6. ASSUME NEW t \in Tasks, Deallocate(t) PROVE Sorted' /\ Types'
    BY <1>6, DeallocateOrder
  <1> QED BY <1>1, <1>2, <1>3, <1>4, <1>5, <1>6 DEF Next

LEMMA InitOrder == Init => Sorted /\ Types /\ Lengths
  <1> SUFFICES ASSUME Init PROVE Sorted /\ Types /\ Lengths
    OBVIOUS
  <1>1. \A h \in Slots : heaps[h].list = <<>> /\ heaps[h].free = 0
    BY DEF Init, NoHeap
  <1>2. ToSet(<<>>) = {} /\ DOMAIN <<>> = {}
    BY DEF ToSet
  <1>3. Sorted
    BY <1>1, <1>2 DEF Sorted, Increasing, NoTouch
  <1>4. Types
    BY <1>1, HeapAssumption DEF Init, Types, WholeOn
  <1>5. Lengths
    BY IdleWell DEF Init, Lengths, Asked
  <1> QED BY <1>3, <1>4, <1>5

(* The free count of a heap is that of bytes of it.                        *)
LEMMA FreeInSize ==
    ASSUME HeapInv, SumInv, Types, NEW h \in Slots
    PROVE  heaps[h].free \in 0..heaps[h].size
  <1>1. heaps[h].size \in Nat
    BY DEF HeapInv, Shapes, Heap
  <1>2. CASE heaps[h].size = 0
    BY <1>2 DEF Types
  <1>3. CASE heaps[h].size > 0
    <2>1. PICK s \in Int, r \in Int : s = SumOfList(h) /\ r = SumHeld(h) /\ s >= 0 /\ r >= 0
      BY FreeNonneg DEF SumInv
    <2>2. heaps[h].free = s /\ s + r = Top(h) - Start(h)
      BY <1>3, <2>1, AccountedIs DEF SumInv, UsedSlots
    <2>3. PICK lo \in Nat, hi \in Nat, base \in Nat, all \in Nat :
             /\ lo = Start(h) /\ hi = Top(h) /\ base = heaps[h].base /\ all = heaps[h].size
             /\ base <= lo /\ hi <= base + all
      BY <1>3, Edges DEF HeapInv
    <2>4. s + r = hi - lo /\ s <= all
      BY <2>1, <2>2, <2>3
    <2> QED BY <2>1, <2>2, <2>3, <2>4
  <1> QED BY <1>1, <1>2, <1>3

LEMMA TotalCounted ==
    ASSUME HeapInv, SumInv
    PROVE  total \in Nat
  <1>1. PICK S, f : S = UsedSlots /\ f = FreeCounts
    OBVIOUS
  <1>2. \A h \in S : f[h] \in Nat
    <2> SUFFICES ASSUME NEW h \in S PROVE f[h] \in Nat
      OBVIOUS
    <2>1. h \in Slots /\ f[h] = SumOfList(h)
      BY <1>1, AccountedIs DEF SumInv, FreeCounts, UsedSlots
    <2> QED BY <2>1, FreeNonneg DEF SumInv
  <1>3. IsFiniteSet(S) /\ SumFunctionOnSet(f, S) \in Int
    BY <1>1, CountsAdd DEF IntsOn
  <1>4. SumFunctionOnSet(f, S) >= 0
    BY <1>2, <1>3, SumNonneg
  <1>5. total = SumFunctionOnSet(f, S) + gone /\ gone \in Nat
    BY <1>1, AccountedIs DEF SumInv
  <1> QED BY <1>3, <1>4, <1>5

LEMMA InvTypes ==
    ASSUME HeapInv, SumInv, Types, Lengths
    PROVE  TypeOK
  <1>1. ASSUME NEW h \in Slots
        PROVE  heaps[h].list \in Seq(DOMAIN word) /\ heaps[h].free \in 0..heaps[h].size
    <2>1. PICK L \in Seq(Nat) : L = heaps[h].list
      BY DEF HeapInv, Shapes, Heap
    <2>2. \A i \in 1..Len(L) : L[i] \in DOMAIN word
      <3>1. \A i \in 1..Len(L) : L[i] \in ToSet(L)
        BY DEF ToSet
      <3> QED BY <2>1, <3>1, Listed
    <2>3. L \in Seq(DOMAIN word)
      <3>1. Len(L) \in Nat /\ L = [i \in 1..Len(L) |-> L[i]]
        OBVIOUS
      <3>2. L \in [1..Len(L) -> DOMAIN word]
        BY <2>2, <3>1
      <3> QED BY <3>1, <3>2
    <2> QED BY <2>1, <2>3, FreeInSize
  <1>2. ASSUME NEW b \in DOMAIN word PROVE word[b] \in Nat \ {0} /\ b % W = 0
    <2>1. Whole(b) /\ Whole(word[b]) /\ word[b] > 0
      BY DEF Types, WholeOn
    <2>2. b % W = 0
      BY <2>1, WholeMod
    <2> QED BY <2>1, <2>2 DEF Whole
  <1>3. \A a \in DOMAIN tag : tag[a] \in {"use", "free"}
    BY DEF Types
  <1>4. \A ptr \in DOMAIN live : live[ptr] \in Sizes \cup {W}
    BY DEF Lengths
  <1>5. total \in Nat
    BY TotalCounted
  <1>6. ASSUME NEW t \in Tasks
        PROVE  /\ op[t].pc \in {"idle", "look", "get", "copy", "free", "put"}
               /\ op[t].slot \in 0..ListNum + 1
    <2>1. op[t].pc \in Pcs /\ op[t].slot \in Nat
      BY DEF HeapInv, Shapes, Op
    <2>2. op[t].slot <= ListNum + 1 /\ ListNum \in Nat
      BY Consts DEF Lengths, Asked
    <2> QED BY <2>1, <2>2 DEF Pcs
  <1>7. deletes \in 0..MaxDeletes
    <2>1. MaxDeletes \in Nat
      BY HeapAssumption
    <2> QED BY <2>1 DEF SumInv, Types
  <1> QED BY <1>1, <1>2, <1>3, <1>4, <1>5, <1>6, <1>7, Zenon DEF TypeOK

LEMMA InvDiagnosed ==
    ASSUME HeapInv, SumInv, Sorted, Types, Lengths
    PROVE  Diagnosed
  <1>1. TypeOK
    BY InvTypes
  <1>2. \A h \in UsedSlots : Status(h)
    BY StatusRight
  <1>3. ASSUME NEW h \in UsedSlots, NEW i \in 1..Len(heaps[h].list) - 1
        PROVE  Dog(heaps[h].list[i]) + 1 < heaps[h].list[i + 1]
    <2>1. PICK L \in Seq(Nat) : L = heaps[h].list /\ h \in Slots
      BY DEF HeapInv, Shapes, Heap, UsedSlots
    <2>2. i \in DOMAIN L /\ i + 1 \in DOMAIN L /\ i < i + 1
      BY <1>3, <2>1
    <2>3. PICK x \in Nat, y \in Nat : /\ x = L[i] /\ y = L[i + 1] /\ x \in ToSet(L) /\ y \in ToSet(L)
      BY <2>2 DEF ToSet
    <2>4. x < y
      BY <2>1, <2>2, <2>3 DEF Sorted, Increasing
    <2>5. x + word[x] < y
      BY <2>1, <2>3, <2>4 DEF Sorted, NoTouch
    <2>6. word[x] \in Nat
      BY <2>1, <2>3, Listed
    <2>7. Dog(x) + 1 < y
      BY <2>5, <2>6 DEF Dog
    <2> QED BY <2>1, <2>3, <2>7
  <1> QED BY <1>1, <1>2, <1>3, Zenon DEF Diagnosed

(* tuya_mem_heap_diagnose finds every heap valid in every state: from the  *)
(* first block MEM_HeapStatus walks over blocks to the top of the arena    *)
(* and meets the blocks of the list, in order, exactly where it reads the  *)
(* tag "free".  No two free blocks touch, and the variables keep their     *)
(* types.  This holds for any number of tasks, heaps, arenas and requests. *)
THEOREM HeapsDiagnosed == Spec => []Diagnosed
  <1> DEFINE Inv == HeapInv /\ LostAlone /\ SumInv /\ Sorted /\ Types /\ Lengths
  <1>1. Init => Inv
    BY InitInv, InitLost, InitSums, InitOrder
  <1>2. Inv /\ [Next]_vars => Inv'
    <2> SUFFICES ASSUME Inv, [Next]_vars PROVE Inv'
      OBVIOUS
    <2>1. HeapInv' /\ LostAlone'
      BY NextStep, NextLost
    <2>2. SumInv'
      BY <2>1, NextSums
    <2>3. Sorted' /\ Types'
      BY <2>1, NextOrder
    <2>4. Lengths'
      BY NextLengths
    <2> QED BY <2>1, <2>2, <2>3, <2>4
  <1>3. Inv => Diagnosed
    BY InvDiagnosed
  <1> QED BY <1>1, <1>2, <1>3, PTL DEF Spec
=============================================================================
