------------------------------- MODULE MemHeap -------------------------------
(***************************************************************************)
(* The memory heap (tuya_mem_heap.c): up to ListNum heaps, each an arena   *)
(* tiled by blocks.  A block starts with its size and ends with a tag byte *)
(* (the "dog") that says whether it is in use; free blocks form a list in  *)
(* the order of their addresses.  The lists change inside a critical       *)
(* section; the checks before it, and the choice of a heap, do not.        *)
(*                                                                         *)
(* Addresses and sizes are in bytes, scaled down: W stands for the word,   *)
(* which is MEM_ALIGN_NUM, MEM_BLOCK_HEAD_SIZE and the smallest request.   *)
(* The watermarks, which nothing reads back, are left out.                 *)
(***************************************************************************)
EXTENDS Integers, FiniteSets, SequencesExt, FiniteSetsExt

CONSTANTS
    Tasks,
    W,              \* 4 on this chip
    BlockMin,       \* MEM_BLOCK_MIN_SIZE
    FindDepth,      \* FIT_FIND_DEPTH
    ListNum,        \* MEM_HEAP_LIST_NUM
    Arenas,         \* the memory heaps are made of: records of base and size
    Sizes,          \* requests
    Uint,           \* 2^32: unsigned arithmetic wraps here
    MaxDeletes,     \* bound on deletions of a heap
    Null

ASSUME HeapAssumption ==
    /\ W \in Nat \ {0} /\ BlockMin \in Nat /\ BlockMin >= W /\ BlockMin % W = 0
    /\ FindDepth \in Nat \ {0} /\ ListNum \in Nat /\ MaxDeletes \in Nat
    /\ Uint \in Nat /\ Uint >= 4 * W /\ Uint % W = 0
    /\ Sizes \subseteq 0..Uint - 1
    /\ \A a \in Arenas : /\ a.base \in Nat \ {0} /\ a.size \in Nat
                         /\ a.size >= W /\ a.base + a.size <= Uint
    /\ Null \notin Nat

VARIABLES
    heaps,          \* mem_heap_list; a slot of size 0 is not in use
    word,           \* the size words of blocks, by address
    tag,            \* the tag bytes, by address
    total,          \* s_heap_free_size
    live,           \* what the clients were given: address -> length they asked for
    freed,          \* the pointer given back last, until the next allocation
    op,             \* what each task is doing
    lost,           \* history: pointers given back that no heap took
    holes,          \* history: slots of deleted heaps
    gone,           \* history: bytes that were free in heaps when they were deleted
    deletes

mem == <<heaps, word, tag, total>>
past == <<lost, holes, gone, deletes>>
vars == <<mem, live, freed, op, past>>

Slots == 1..ListNum
NoHeap == [base |-> 0, size |-> 0, list |-> <<>>, free |-> 0]
Idle == [pc |-> "idle", slot |-> 0, all |-> FALSE, len |-> 0, old |-> Null, new |-> Null]

\* ALIGN_UP, ALIGN_DOWN
AlignUp(n) == (((n + W - 1) % Uint) \div W) * W
AlignDown(n) == (n \div W) * W

HeapMin == BlockMin + W     \* MEM_HEAP_MIN_SIZE

\* MEM_Allocate: the block a request of n bytes needs.
Clamp(n) == IF n < W THEN W ELSE n

BlockSize(n) == (AlignUp((Clamp(n) + 1) % Uint) + W) % Uint

Block(ptr) == ptr - W
Dog(b) == b + word[b] - 1

Init ==
    /\ heaps = [h \in Slots |-> NoHeap]
    /\ word = <<>> /\ tag = <<>>
    /\ total = 0
    /\ live = <<>> /\ freed = Null
    /\ op = [t \in Tasks |-> Idle]
    /\ lost = {} /\ holes = {} /\ gone = 0
    /\ deletes = 0

With(f, a, v) == [x \in DOMAIN f \cup {a} |-> IF x = a THEN v ELSE f[x]]

\* The blocks of the free lists.
Frees == UNION {ToSet(heaps[h].list) : h \in Slots}

\* Where somebody may read the header of a block: the present blocks, and the
\* one of the pointer given back last.
Starts == Frees \cup {Block(p) : p \in DOMAIN live \cup ({freed} \ {Null})}

\* What the memory holds there, and at the tags of those blocks.
Remember(words, tags) ==
    /\ word' = Restrict(words, Starts')
    /\ tag' = Restrict(tags, {b + words[b] - 1 : b \in Starts'})

-----------------------------------------------------------------------------
(* Heaps come and go.                                                      *)

Overlaps(a, h) == h.size > 0 /\ a.base < h.base + h.size /\ h.base < a.base + a.size

\* MEM_HeapCreate, mem_heap_init
HeapCreate ==
    /\ \E a \in Arenas, h \in Slots :
          LET start == AlignUp(a.base)
              size == AlignDown((a.size - (start - a.base)) % Uint)
          IN /\ \A k \in Slots : ~Overlaps(a, heaps[k])
             /\ heaps[h].size = 0 /\ \A k \in 1..h - 1 : heaps[k].size > 0
             /\ size >= HeapMin
             /\ heaps' = [heaps EXCEPT ![h] =
                  [base |-> a.base, size |-> a.size, list |-> <<start>>,
                   free |-> size]]
             /\ word' = With(word, start, size)
             /\ tag' = With(tag, start + size - 1, "free")
             /\ total' = total + size
    /\ UNCHANGED <<live, freed, op, past>>

InHeap(ptr, h) == ptr > heaps[h].base /\ ptr < heaps[h].base + heaps[h].size

\* MEM_HeapDelete, of a heap from which nobody holds memory: any heap, also one
\* before others and while other tasks look for memory.  The count of free bytes
\* stays as it was.
HeapDelete ==
    /\ deletes < MaxDeletes /\ deletes' = deletes + 1
    /\ \E h \in Slots :
          /\ heaps[h].size > 0
          /\ \A ptr \in DOMAIN live \ lost : ~InHeap(ptr, h)
          /\ heaps' = [heaps EXCEPT ![h] = NoHeap]
          /\ live' = Restrict(live, {ptr \in DOMAIN live : ~InHeap(ptr, h)})
          /\ lost' = {ptr \in lost : ~InHeap(ptr, h)}
          /\ holes' = holes \cup {h}
          /\ gone' = gone + heaps[h].free
    /\ freed' = Null
    /\ UNCHANGED <<word, tag, total, op>>

-----------------------------------------------------------------------------
(* Allocation.                                                             *)

\* The search of mem_chunk_get: from the first block that fits it goes on to
\* each next one that fits as well or better, FindDepth times.
Chosen(list, size) ==
    LET fits == {i \in DOMAIN list : word[list[i]] >= size}
        better == {j \in fits : \A i \in fits : i < j => word[list[j]] <= word[list[i]]}
        tried == {j \in better : Cardinality({i \in better : i < j}) <= FindDepth}
    IN {j \in tried : \A i \in tried : i <= j}

\* mem_chunk_get splits the block, the new one being at its end, or hands it
\* out whole.
Taken(h, i, size) ==
    LET list == heaps[h].list
        b == list[i]
        rest == word[b] - size
    IN IF rest >= HeapMin
       THEN [block |-> b + rest, list |-> list,
             word |-> With(With(word, b, rest), b + rest, size),
             tag |-> With(With(tag, b + rest - 1, "free"), b + rest + size - 1, "use")]
       ELSE [block |-> b, list |-> RemoveAt(list, i), word |-> word,
             tag |-> With(tag, Dog(b), "use")]

\* Where a call with handle h (0: any heap) for n bytes begins.
Asks(h, n, ptr) ==
    [pc |-> IF h = 0 THEN "look" ELSE "get", slot |-> IF h = 0 THEN 1 ELSE h,
     all |-> h = 0, len |-> n, old |-> ptr, new |-> Null]

Handles == {0} \cup {h \in Slots : heaps[h].size > 0}
Busy == {op[t].old : t \in Tasks} \cup {op[t].new : t \in Tasks}
Mine == DOMAIN live \ (Busy \cup lost)

\* tuya_mem_heap_malloc, tuya_mem_heap_calloc
Malloc(t) ==
    /\ op[t].pc = "idle"
    /\ \E h \in Handles, n \in Sizes : op' = [op EXCEPT ![t] = Asks(h, n, Null)]
    /\ UNCHANGED <<mem, live, freed, past>>

\* The loop over mem_heap_list reads the free count outside the critical section.
LookForHeap(t) ==
    /\ op[t].pc = "look"
    /\ LET h == op[t].slot
       IN op' = [op EXCEPT ![t] =
            IF h > ListNum \/ heaps[h].size = 0 THEN Idle
            ELSE IF heaps[h].free > (op[t].len + BlockMin) % Uint THEN [@ EXCEPT !.pc = "get"]
            ELSE [@ EXCEPT !.slot = h + 1]]
    /\ UNCHANGED <<mem, live, freed, past>>

\* MEM_Allocate: the size of the block wraps.
Overflows(n) == BlockSize(n) < Clamp(n)
Refused(n) == n = 0 \/ Overflows(n)

AllocateFails(t) ==
    /\ op[t].pc = "get"
    /\ Refused(op[t].len) \/ Chosen(heaps[op[t].slot].list, BlockSize(op[t].len)) = {}
    /\ op' = [op EXCEPT ![t] =
         IF op[t].all THEN [op[t] EXCEPT !.pc = "look", !.slot = op[t].slot + 1] ELSE Idle]
    /\ UNCHANGED <<mem, live, freed, past>>

Allocate(t) ==
    /\ op[t].pc = "get" /\ ~Refused(op[t].len)
    /\ \E i \in Chosen(heaps[op[t].slot].list, BlockSize(op[t].len)) :
       LET h == op[t].slot
           got == Taken(h, i, BlockSize(op[t].len))
           took == got.word[got.block]
           ptr == got.block + W
       IN /\ heaps' = [heaps EXCEPT ![h].list = got.list, ![h].free = @ - took]
          /\ total' = total - took
          /\ live' = With(live, ptr, op[t].len)
          /\ freed' = Null
          /\ Remember(got.word, got.tag)
          /\ op' = [op EXCEPT ![t] = IF op[t].old = Null THEN Idle
                                     ELSE [@ EXCEPT !.pc = "copy", !.new = ptr]]
    /\ UNCHANGED past

-----------------------------------------------------------------------------
(* Giving memory back.                                                     *)

\* tuya_mem_heap_free
Free(t) ==
    /\ op[t].pc = "idle"
    /\ \E ptr \in Mine, h \in Handles :
          /\ h # 0 => InHeap(ptr, h)
          /\ op' = [op EXCEPT ![t] = [Asks(h, 0, ptr) EXCEPT !.pc = "free"]]
    /\ UNCHANGED <<mem, live, freed, past>>

(* Wrong variant: only the first heap is searched.                         *)
Owner_First(ptr) == {h \in Slots : h = 1 /\ InHeap(ptr, h)}

\* The heaps before the first unused slot are searched.
Owner(ptr) == {h \in Slots : InHeap(ptr, h) /\ \A k \in 1..h : heaps[k].size > 0}

\* The tag is checked outside the critical section.
FreeCheck(t) ==
    /\ op[t].pc = "free"
    /\ LET ptr == op[t].old
           found == IF op[t].all THEN Owner(ptr) ELSE {op[t].slot}
       IN \/ /\ tag[Dog(Block(ptr))] = "use"
             /\ \E h \in found : /\ \A k \in found : h <= k
                                 /\ op' = [op EXCEPT ![t].pc = "put", ![t].slot = h]
             /\ UNCHANGED lost
          \/ /\ found = {} \/ tag[Dog(Block(ptr))] # "use"
             /\ op' = [op EXCEPT ![t] = Idle]
             /\ lost' = lost \cup {ptr}
    /\ UNCHANGED <<mem, live, freed, holes, gone, deletes>>

\* How many blocks of the list MEM_Deallocate passes to find the place of b.
Place(list, b) ==
    {k \in 0..Len(list) : /\ \A i \in 1..k : list[i] < b
                          /\ k < Len(list) => list[k + 1] >= b}

(* Wrong variant: the block after is not joined.                           *)
Joined_Left(list, k, b) ==
    LET left == k > 0 /\ list[k] + word[list[k]] = b
    IN [list |-> IF left THEN list ELSE InsertAt(list, k + 1, b),
        word |-> IF left THEN With(word, list[k], word[list[k]] + word[b]) ELSE word]

\* MEM_Deallocate puts the block into the list and joins it with the free
\* blocks before and after it.
Joined(list, k, b) ==
    LET left == k > 0 /\ list[k] + word[list[k]] = b
        cur == IF left THEN list[k] ELSE b
        size == IF left THEN word[cur] + word[b] ELSE word[b]
        right == k < Len(list) /\ cur + size = list[k + 1]
    IN [list |-> CASE left /\ right   -> RemoveAt(list, k + 1)
                   [] left /\ ~right  -> list
                   [] ~left /\ right  -> [list EXCEPT ![k + 1] = b]
                   [] ~left /\ ~right -> InsertAt(list, k + 1, b),
        word |-> With(word, cur, IF right THEN size + word[list[k + 1]] ELSE size)]

Deallocate(t) ==
    /\ op[t].pc = "put"
    /\ \E k \in Place(heaps[op[t].slot].list, Block(op[t].old)) :
       LET h == op[t].slot
           b == Block(op[t].old)
           joined == Joined(heaps[h].list, k, b)
       IN /\ heaps' = [heaps EXCEPT ![h].list = joined.list, ![h].free = @ + word[b]]
          /\ total' = total + word[b]
          /\ live' = Restrict(live, DOMAIN live \ {op[t].old})
          /\ freed' = op[t].old
          /\ Remember(joined.word, [tag EXCEPT ![Dog(b)] = "free"])
    /\ op' = [op EXCEPT ![t] = Idle]
    /\ UNCHANGED past

\* A pointer is given back twice, with no allocation in between: the tag tells.
FreeAgain(t) ==
    /\ op[t].pc = "idle"
    /\ freed # Null
    /\ op' = [op EXCEPT ![t] = IF tag[Dog(Block(freed))] = "use"
                               THEN [Asks(Min(Owner(freed)), 0, freed) EXCEPT !.pc = "put"]
                               ELSE Idle]
    /\ UNCHANGED <<mem, live, freed, past>>

(* Wrong variant: the block is always moved.                               *)
StaysPut_Never(ptr, n) == FALSE

\* "old buffer is big enough"
StaysPut(ptr, n) == BlockSize(n) <= word[Block(ptr)]

\* tuya_mem_heap_realloc of a pointer that is not NULL.  It does not see that the
\* size of the block wraps, and takes that for a fit.
Realloc(t) ==
    /\ op[t].pc = "idle"
    /\ \E ptr \in Mine, h \in Handles, n \in Sizes :
          /\ h # 0 => InHeap(ptr, h)
          /\ tag[Dog(Block(ptr))] = "use"
          /\ \/ /\ StaysPut(ptr, n)
                /\ live' = [live EXCEPT ![ptr] = n] /\ UNCHANGED op
             \/ /\ ~StaysPut(ptr, n)
                /\ op' = [op EXCEPT ![t] = Asks(h, Clamp(n), ptr)] /\ UNCHANGED live
    /\ UNCHANGED <<mem, freed, past>>

\* The bytes are copied, outside the critical section; the old block is freed.
ReallocCopy(t) ==
    /\ op[t].pc = "copy"
    /\ op' = [op EXCEPT ![t].pc = "free", ![t].new = Null,
                        ![t].slot = IF op[t].all THEN 1 ELSE @]
    /\ UNCHANGED <<mem, live, freed, past>>

-----------------------------------------------------------------------------
Next ==
    \/ HeapCreate \/ HeapDelete
    \/ \E t \in Tasks :
          \/ Malloc(t) \/ LookForHeap(t) \/ AllocateFails(t) \/ Allocate(t)
          \/ Free(t) \/ FreeCheck(t) \/ Deallocate(t) \/ FreeAgain(t)
          \/ Realloc(t) \/ ReallocCopy(t)

Spec == Init /\ [][Next]_vars

-----------------------------------------------------------------------------
UsedSlots == {h \in Slots : heaps[h].size > 0}
Start(h) == AlignUp(heaps[h].base)
Top(h) == AlignDown(heaps[h].base + heaps[h].size)

(* Every variable has its type.                                            *)
TypeOK ==
    /\ \A h \in Slots : heaps[h].list \in Seq(DOMAIN word) /\ heaps[h].free \in 0..heaps[h].size
    /\ \A b \in DOMAIN word : word[b] \in Nat \ {0} /\ b % W = 0
    /\ \A a \in DOMAIN tag : tag[a] \in {"use", "free"}
    /\ \A ptr \in DOMAIN live : live[ptr] \in Sizes \cup {W}
    /\ total \in Nat
    /\ \A t \in Tasks : /\ op[t].pc \in {"idle", "look", "get", "copy", "free", "put"}
                        /\ op[t].slot \in 0..ListNum + 1
    /\ deletes \in 0..MaxDeletes

\* The walk of MEM_HeapStatus from the first block to the top of the arena.
Status(h) ==
    LET list == heaps[h].list
        walk[x \in Nat \X Nat] ==
            LET a == x[1]   \* the block
                k == x[2]   \* the first block of the list not met yet
                listed == k <= Len(list) /\ list[k] = a
            IN IF a >= Top(h) THEN a = Top(h) /\ k > Len(list)
               ELSE /\ a \in DOMAIN word /\ Dog(a) \in DOMAIN tag
                    /\ listed <=> tag[Dog(a)] = "free"
                    /\ walk[<<a + word[a], IF listed THEN k + 1 ELSE k>>]
    IN walk[<<Start(h), 1>>]

(* tuya_mem_heap_diagnose finds every heap valid at every moment outside   *)
(* the critical section: blocks tile the arena, the list names exactly the *)
(* blocks tagged free, in the order of their addresses.  And free blocks   *)
(* that touch are joined: freeing everything, in any order, leaves one.    *)
(* A pointer that is given back twice does not change that, and the        *)
(* variables keep their types.                                             *)
Diagnosed ==
    /\ TypeOK
    /\ \A h \in UsedSlots :
        /\ Status(h)
        /\ \A i \in 1..Len(heaps[h].list) - 1 :
              Dog(heaps[h].list[i]) + 1 < heaps[h].list[i + 1]

(* What a client was given is inside a block of its own, short of the tag: *)
(* filling it up touches no header, no tag and nobody else's memory.  Only *)
(* a length for which the size of the block wraps does not fit, which      *)
(* tuya_mem_heap_realloc lets pass.  Nor does its copy of the whole old    *)
(* block, tag included, leave the new one.                                 *)
PayloadsApart ==
    /\ \A p \in DOMAIN live :
          /\ Block(p) \in DOMAIN word
          /\ Overflows(live[p]) \/ p + live[p] <= Dog(Block(p))
          /\ \E h \in UsedSlots : Block(p) >= Start(h) /\ Dog(Block(p)) < Top(h)
          /\ \A q \in DOMAIN live : q > p => Dog(Block(p)) < Block(q)
    /\ \A t \in Tasks : op[t].pc = "copy" =>
          op[t].new + word[Block(op[t].old)] - W <= Dog(Block(op[t].new))

(* When tuya_mem_heap_realloc returns the pointer it got, "old buffer is   *)
(* big enough" for the length asked, whatever that is.                     *)
BigEnough == \A p \in DOMAIN live : p + live[p] <= Dog(Block(p))

SumOfList(h) == SumFunctionOnSet(word, ToSet(heaps[h].list))
SumHeld(h) ==
    SumFunctionOnSet([p \in DOMAIN live |-> word[Block(p)]], {p \in DOMAIN live : InHeap(p, h)})
SumFree == SumFunctionOnSet([h \in Slots |-> heaps[h].free], UsedSlots)

(* The free counts by which a call without a handle picks its heap are     *)
(* those of the lists, and what is not free was given to a client, through *)
(* failed reallocations, deletions and calls without a handle.  What a     *)
(* client gave back is free again, unless it was of a heap behind one that *)
(* was deleted.  s_heap_free_size, which tuya_mem_heap_available reports,  *)
(* is off by exactly the bytes that were free in deleted heaps.            *)
Accounted ==
    /\ \A h \in UsedSlots : /\ heaps[h].free = SumOfList(h)
                            /\ SumOfList(h) + SumHeld(h) = Top(h) - Start(h)
    /\ \A p \in lost : \E h \in UsedSlots, k \in holes : InHeap(p, h) /\ k < h
    /\ total = SumFree + gone

(* free_size of tuya_mem_heap_state is the "current free heap size": what  *)
(* is free in the heaps there are.                                         *)
TotalIsFree == total = SumFree
=============================================================================
