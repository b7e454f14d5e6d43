-------------------------------- MODULE Nvds --------------------------------
(***************************************************************************)
(* The NVDS key-value store on NOR flash (MSDK/plf/src/nvds/nvds_flash.c): *)
(* pages of entries that are only ever programmed, a state table whose     *)
(* bits are only ever cleared, and a collector that copies the live        *)
(* entries of one page into the page kept in reserve.  Every flash write   *)
(* and every erase is a step of its own, so that power can be lost between *)
(* any two of them, and each can fail; RAM changes are made in the step of *)
(* the write they accompany, since a power loss discards them together.    *)
(*                                                                         *)
(* Calls hold nvds_mutex, so there is one call at a time.  Elements are    *)
(* the small (one entry) and the middle ones (a header entry and DataLen   *)
(* entries of data) of one namespace; a CRC stands for equality.           *)
(***************************************************************************)
EXTENDS Integers, Sequences, FiniteSets, SequencesExt

CONSTANTS
    Pages,      \* the sectors of the partition, in address order
    EntryCnt,   \* ENTRY_COUNT_PER_PAGE
    Keys, Values, NoVal,
    DataLen,    \* entries of data that a value takes after its header, 0 if small
    Looks,      \* entries that data of a value seems to span when read as a header
    MaxSeq,     \* bound on the sequence numbers explored
    MaxHurt     \* bound on the power losses and failed accesses explored

ASSUME NvdsAssumption ==
    /\ Pages \subseteq Int /\ Cardinality(Pages) > 1
    /\ EntryCnt \in Nat \ {0}
    /\ DataLen \in [Values -> 0..EntryCnt - 1]
    /\ Looks \in [Values -> 0..EntryCnt]
    /\ NoVal \notin Values
    /\ MaxSeq \in Nat /\ MaxHurt \in Nat

VARIABLES
    pst,    \* flash: header state of each page ("bad": fails page_header_read)
    seq,    \* seqno of each page, in flash and in RAM
    ent,    \* flash: the entries of each page
    est,    \* flash: the entry state table of each page
    hst,    \* RAM: header.state of each page
    rst,    \* RAM: entry_states of each page
    used,   \* RAM: nvds_page_used, by seqno
    free,   \* RAM: nvds_page_free
    nfi,    \* RAM: next_free_idx of each page
    cnt,    \* RAM: entry_cnt_used of each page
    pc,     \* next flash access of the call in progress, "idle" if none
    op,     \* the call in progress
    pos,    \* the entries it works on: [page, first, at, last]
    rc,     \* what the last call returned
    before, \* history: what could be read when the call started
    gone,   \* history: keys deleted, cleaned or never put
    touched,\* history: keys put since the partition was last cleaned
    worn,   \* history: a power loss or a failed access left something half done
    skipped,\* history: pages in use that the last load could not read
    hurts   \* power losses and failed accesses so far (see PowerLoss)

flash == <<pst, seq, ent, est>>
lists == <<used, free>>
ram == <<hst, rst, lists, nfi, cnt>>
hist == <<before, gone, touched, worn, skipped, hurts>>
vars == <<flash, ram, pc, op, pos, rc, hist>>

Idx == 0..EntryCnt - 1

-----------------------------------------------------------------------------
(* Entries *)

Erased == [kind |-> "erased"]
Small(k, v) == [kind |-> "small", key |-> k, val |-> v]
Header(k, v) == [kind |-> "middle", key |-> k, val |-> v]
Data(v) == [kind |-> "data", val |-> v]
Garbage(n) == [kind |-> "garbage", skip |-> n]

\* The header entry that data_element_put builds for a value.
Entry(k, v) == IF DataLen[v] = 0 THEN Small(k, v) ELSE Header(k, v)

\* How many entries of data a walk over a page skips after this one.
Skip(e) ==
    CASE e.kind = "middle" -> DataLen[e.val]
      [] e.kind = "data" -> Looks[e.val]
      [] e.kind = "garbage" -> e.skip
      [] OTHER -> 0

\* Programming only clears bits: over other contents the result is their
\* conjunction, which fails its CRC and spans no more than the new entry.
Program(old, new) ==
    IF old \in {Erased, new} THEN {new} ELSE {Garbage(n) : n \in 0..Skip(new)}

CrcOk(e) == e.kind \in {"small", "middle"}

-----------------------------------------------------------------------------
(* Reading *)

\* The entries of page p that element_find looks at.
Walk(p) ==
    LET visited[i \in Nat] ==
          IF i >= EntryCnt THEN {}
          ELSE IF rst[p][i] = "free" THEN {}
          ELSE {i} \cup visited[i + 1 + Skip(ent[p][i])]
    IN  visited[0]

Readable(p) == hst[p] \in {"active", "full"}

\* The entries of page p that hold an element of key k.
Holds(p, k) ==
    {i \in Walk(p) : rst[p][i] = "used" /\ CrcOk(ent[p][i]) /\ ent[p][i].key = k}

\* Where element_find may answer, as positions in the used list.
Matches(k) ==
    UNION {{n} \X Holds(used[n], k) : n \in {n \in DOMAIN used : Readable(used[n])}}

Earlier(a, b) == a[1] < b[1] \/ (a[1] = b[1] /\ a[2] <= b[2])

\* element_find: the first match.
Find(k) ==
    LET all == Matches(k) IN CHOOSE a \in all : \A b \in all : Earlier(a, b)

\* data_element_get: NoVal stands for NVDS_E_NOT_FOUND, which is also the
\* answer when the data of a middle element fails its CRC.
Get(k) ==
    IF Matches(k) = {} THEN NoVal
    ELSE LET at == Find(k)
             p == used[at[1]]
             i == at[2]
             v == ent[p][i].val
         IN  IF \A j \in i + 1 .. i + DataLen[v] : j \in Idx /\ ent[p][j] = Data(v)
             THEN v ELSE NoVal

Contents == [k \in Keys |-> Get(k)]

-----------------------------------------------------------------------------
(* Loading *)

\* The walk of pages_load over one page: the entries it invalidates because
\* their CRC is wrong, the first free one, and how many are in use.
LoadPage(p) ==
    LET from[i \in Nat] ==
          IF i >= EntryCnt THEN [wrong |-> {}, nfi |-> EntryCnt, cnt |-> 0]
          ELSE IF est[p][i] = "free" THEN [wrong |-> {}, nfi |-> i, cnt |-> 0]
          ELSE IF est[p][i] = "updated" THEN from[i + 1]
          ELSE LET n == Skip(ent[p][i])
                   r == from[i + 1 + n]
               IN  [wrong |-> r.wrong \cup IF CrcOk(ent[p][i]) THEN {} ELSE {i},
                    nfi |-> r.nfi, cnt |-> r.cnt + n + 1]
    IN  from[0]

PageOrder(a, b) == seq[a] < seq[b] \/ (seq[a] = seq[b] /\ a < b)

(* Wrong variant: pages marked full are not loaded. *)
InUseActive(st) == {p \in Pages : st[p] \in {"active", "candidate"}}

\* The pages that page_header_read puts on the used list.
InUse(st) == {p \in Pages : st[p] \in {"active", "full", "candidate"}}

Blank == [i \in Idx |-> Erased]
AllFree == [i \in Idx |-> "free"]

\* page_header_read: the state field reads as erased but the page is not.
HeaderRead(st, p) == IF st[p] = "uninit" /\ ent[p] # Blank THEN "bad" ELSE st[p]

\* pages_load after a restart that finds the header states st and cannot read
\* the pages of unread, which go to the free list.  An empty used list gets
\* the first free page, erased and given sequence number 0.
Load(st, unread) ==
    LET inuse == InUse(st) \ unread
        others == SetToSortSeq(Pages \ inuse, <)
        loaded == [p \in Pages |->
                     IF p \in inuse THEN LoadPage(p)
                     ELSE [wrong |-> {}, nfi |-> 0, cnt |-> 0]]
        fresh == IF inuse = {} THEN {Head(others)} ELSE {}
        table(p) == [i \in Idx |-> IF i \in loaded[p].wrong THEN "updated" ELSE est[p][i]]
    IN  /\ nfi' = [p \in Pages |-> loaded[p].nfi]
        /\ cnt' = [p \in Pages |-> loaded[p].cnt]
        /\ used' = SetToSortSeq(inuse \cup fresh, PageOrder)
        /\ free' = IF fresh = {} THEN others ELSE Tail(others)
        /\ pst' = [p \in Pages |-> IF p \in fresh THEN "active" ELSE st[p]]
        /\ hst' = [p \in Pages |-> IF p \in fresh THEN "active" ELSE HeaderRead(st, p)]
        /\ seq' = [p \in Pages |-> IF p \in fresh THEN 0 ELSE seq[p]]
        /\ ent' = [p \in Pages |-> IF p \in fresh THEN Blank ELSE ent[p]]
        /\ est' = [p \in Pages |-> IF p \in fresh THEN AllFree ELSE table(p)]
        /\ rst' = [p \in Pages |-> IF p \in inuse THEN table(p) ELSE AllFree]

\* The pages that one failed read sends to the free list: the page whose
\* header or state table it was, or, since is_err is not cleared for the next
\* page, that of the entry and every page after it.
Unread(st) ==
    {{}} \cup {{p} : p \in InUse(st)}
      \cup {{q \in InUse(st) : q >= p} :
              p \in {p \in InUse(st) : \E i \in Idx : est[p][i] = "used"}}

-----------------------------------------------------------------------------
(* Calls *)

NoReq == [call |-> "none"]
Nothing == [k \in Keys |-> NoVal]
FirstPage == SetToSortSeq(Pages, <)[1]
AtStart(p) == [page |-> p, first |-> 0, at |-> 0, last |-> 0]

\* An erased partition after its first pages_load.
Init ==
    /\ pst = [p \in Pages |-> IF p = FirstPage THEN "active" ELSE "uninit"]
    /\ seq = [p \in Pages |-> 0]
    /\ ent = [p \in Pages |-> Blank]
    /\ est = [p \in Pages |-> AllFree]
    /\ hst = pst
    /\ rst = est
    /\ used = <<FirstPage>>
    /\ free = SetToSortSeq(Pages \ {FirstPage}, <)
    /\ nfi = [p \in Pages |-> 0]
    /\ cnt = [p \in Pages |-> 0]
    /\ pc = "idle"
    /\ op = NoReq
    /\ pos = AtStart(FirstPage)
    /\ rc = "none"
    /\ before = Nothing
    /\ gone = Keys
    /\ touched = {}
    /\ worn = FALSE
    /\ skipped = {}
    /\ hurts = 0

Begin(request, label) ==
    /\ pc = "idle"
    /\ op' = request
    /\ pc' = label
    /\ rc' = "none"
    /\ pos' = AtStart(FirstPage)
    /\ before' = Contents
    /\ IF request.call = "put"
       THEN gone' = gone \ {request.key} /\ touched' = touched \cup {request.key}
       ELSE UNCHANGED <<gone, touched>>
    /\ UNCHANGED <<flash, ram, worn, skipped, hurts>>

Idle(code) ==
    /\ pc' = "idle"
    /\ op' = NoReq
    /\ rc' = code
    /\ pos' = AtStart(FirstPage)
    /\ before' = Nothing

Return(code) ==
    /\ Idle(code)
    /\ gone' = IF code = "ok" /\ op.call = "del" THEN gone \cup {op.key} ELSE gone
    /\ UNCHANGED <<touched, worn, skipped, hurts>>

Goto(label) ==
    /\ pc' = label
    /\ UNCHANGED <<op, rc, hist>>

\* A flash access of the call fails, and may leave something half done.
Hurt(half) ==
    /\ hurts < MaxHurt
    /\ hurts' = hurts + 1
    /\ worn' = (worn \/ half)
    /\ UNCHANGED <<gone, touched, skipped>>

\* The page the store writes to.
CurPage == Last(used)

nvds_data_put(k, v) ==
    /\ seq[CurPage] < MaxSeq
    /\ Begin([call |-> "put", key |-> k, val |-> v], "find")

nvds_data_del(k) == Begin([call |-> "del", key |-> k], "find")

nvds_clean == Begin([call |-> "clean"], "clean")

-----------------------------------------------------------------------------
(* Dropping the old element *)

SameValue == op.call = "put" /\ Get(op.key) = op.val

\* element_compare: the value is already there.
PutSame ==
    /\ pc = "find"
    /\ SameValue
    /\ Return("ok")
    /\ UNCHANGED <<flash, ram>>

\* element_compare answers that it is not when it cannot read it.
CompareFails ==
    /\ pc = "find"
    /\ SameValue
    /\ Hurt(FALSE)
    /\ pc' = "drop"
    /\ UNCHANGED <<flash, ram, op, pos, rc, before>>

NoOld ==
    /\ pc \in {"find", "drop"}
    /\ Matches(op.key) = {}
    /\ IF op.call = "del" THEN Return("notfound") ELSE Goto("room") /\ UNCHANGED pos
    /\ UNCHANGED <<flash, ram>>

\* data_element_del finds the element; entry_state_range_alter refuses a
\* range that leaves the page.
FindOld ==
    /\ pc = "drop" \/ (pc = "find" /\ ~SameValue)
    /\ Matches(op.key) # {}
    /\ LET p == used[Find(op.key)[1]]
           i == Find(op.key)[2]
           last == i + Skip(ent[p][i])
       IN  IF last \in Idx
           THEN pos' = [page |-> p, first |-> i, at |-> i, last |-> last] /\ Goto("del")
           ELSE Return("fail")
    /\ UNCHANGED <<flash, ram>>

\* element_find cannot read an entry.
FindFails ==
    /\ pc \in {"find", "drop"}
    /\ \E n \in DOMAIN used : Readable(used[n]) /\ Walk(used[n]) # {}
    /\ Hurt(FALSE)
    /\ Idle("iofail")
    /\ UNCHANGED <<flash, ram>>

\* Programming the table clears bits: 11 is free, 10 used, 00 updated.
Cleared(old, new) ==
    CASE "updated" \in {old, new} -> "updated"
      [] "used" \in {old, new} -> "used"
      [] OTHER -> "free"

\* entry_state_alter: first the table in RAM, and then all of it to flash.
SetState(p, i, s) ==
    /\ rst' = [rst EXCEPT ![p][i] = s]
    /\ est' = [est EXCEPT ![p] = [j \in Idx |-> Cleared(est[p][j], rst'[p][j])]]

(* Wrong variant: the data entries stay counted. *)
DelHeaderOnly ==
    /\ pc = "del"
    /\ SetState(pos.page, pos.at, "updated")
    /\ IF pos.at < pos.last
       THEN pos' = [pos EXCEPT !.at = @ + 1] /\ Goto("del") /\ UNCHANGED cnt
       ELSE /\ cnt' = [cnt EXCEPT ![pos.page] = (@ - 1) % 65536]
            /\ IF op.call = "del" THEN Return("ok") ELSE Goto("room") /\ UNCHANGED pos
    /\ UNCHANGED <<pst, seq, ent, hst, lists, nfi>>

\* One write of the state table for each entry of the element.
DelEntry ==
    /\ pc = "del"
    /\ SetState(pos.page, pos.at, "updated")
    /\ IF pos.at < pos.last
       THEN pos' = [pos EXCEPT !.at = @ + 1] /\ Goto("del") /\ UNCHANGED cnt
       ELSE /\ cnt' = [cnt EXCEPT ![pos.page] = (@ - (pos.last - pos.first + 1)) % 65536]
            /\ IF op.call = "del" THEN Return("ok") ELSE Goto("room") /\ UNCHANGED pos
    /\ UNCHANGED <<pst, seq, ent, hst, lists, nfi>>

-----------------------------------------------------------------------------
(* Finding room: new_page_request and its collector *)

Need == 1 + DataLen[op.val]
Room(p) == EntryCnt - nfi[p]

\* page_state_alter writes the state field, over an erased header too.
SetPage(p, s) ==
    /\ pst' = [pst EXCEPT ![p] = IF @ \in {"uninit", "bad"} THEN "bad" ELSE s]
    /\ hst' = [hst EXCEPT ![p] = s]

CheckRoom ==
    /\ pc = "room"
    /\ CASE hst[CurPage] = "candidate" -> Return("fail") /\ UNCHANGED <<pst, hst>>
         [] hst[CurPage] # "candidate" /\ Room(CurPage) >= Need ->
              Goto("write") /\ UNCHANGED <<pst, hst, pos>>
         [] OTHER -> Goto("request") /\ SetPage(CurPage, "full") /\ UNCHANGED pos
    /\ UNCHANGED <<seq, ent, est, rst, lists, nfi, cnt>>

\* The used pages that hold the fewest entries in use, if that is not all.
Victims ==
    {n \in DOMAIN used : /\ cnt[used[n]] < EntryCnt
                         /\ \A m \in DOMAIN used : cnt[used[n]] <= cnt[used[m]]}
Victim == used[CHOOSE n \in Victims : \A m \in Victims : n <= m]

NoPage == free = <<>> \/ (Len(free) = 1 /\ Victims = {})

RefusePage ==
    /\ pc = "request"
    /\ NoPage
    /\ Return("nospace")
    /\ UNCHANGED <<flash, ram>>

Erase(p) ==
    /\ pst' = [pst EXCEPT ![p] = "uninit"]
    /\ ent' = [ent EXCEPT ![p] = Blank]
    /\ est' = [est EXCEPT ![p] = AllFree]

page_clear(p) ==
    /\ hst' = [hst EXCEPT ![p] = "uninit"]
    /\ rst' = [rst EXCEPT ![p] = AllFree]
    /\ nfi' = [nfi EXCEPT ![p] = 0]
    /\ cnt' = [cnt EXCEPT ![p] = 0]
    /\ seq' = [seq EXCEPT ![p] = 0]

\* A free page that did not read as empty is erased first.
EraseFree ==
    /\ pc = "request"
    /\ ~NoPage
    /\ hst[Head(free)] # "uninit"
    /\ Erase(Head(free))
    /\ page_clear(Head(free))
    /\ Goto("request")
    /\ UNCHANGED <<lists, pos>>

\* The header of the new page.  Taking the last free page starts the collector.
WriteHeader ==
    /\ pc = "request"
    /\ ~NoPage
    /\ hst[Head(free)] = "uninit"
    /\ LET p == Head(free) IN
       /\ pst' = [pst EXCEPT ![p] = "active"]
       /\ hst' = [hst EXCEPT ![p] = "active"]
       /\ seq' = [seq EXCEPT ![p] = seq[CurPage] + 1]
       /\ IF Len(free) > 1
          THEN /\ used' = Append(used, p)
               /\ free' = Tail(free)
               /\ Goto("write") /\ UNCHANGED pos
          ELSE /\ used' = Append(Remove(used, Victim), p)
               /\ free' = <<Victim>>
               /\ pos' = AtStart(Victim)
               /\ Goto("collect")
    /\ UNCHANGED <<ent, est, rst, nfi, cnt>>

MarkCandidate ==
    /\ pc = "collect"
    /\ SetPage(pos.page, "candidate")
    /\ Goto("copy")
    /\ UNCHANGED <<seq, ent, est, rst, lists, nfi, cnt, pos>>

(* Wrong variant: the entry the walk stands at is passed over. *)
ToCopyAfter == {i \in Idx : i > pos.at /\ rst[pos.page][i] = "used"}

ToCopy == {i \in Idx : i >= pos.at /\ rst[pos.page][i] = "used"}

WriteAt(p, i, new) ==
    \E e \in Program(ent[p][i], new) : ent' = [ent EXCEPT ![p][i] = e]

CopyEntry ==
    /\ pc = "copy"
    /\ ToCopy # {}
    /\ LET i == CHOOSE i \in ToCopy : \A j \in ToCopy : i <= j IN
       /\ WriteAt(CurPage, nfi[CurPage], ent[pos.page][i])
       /\ pos' = [pos EXCEPT !.at = i + 1]
    /\ nfi' = [nfi EXCEPT ![CurPage] = @ + 1]
    /\ cnt' = [cnt EXCEPT ![CurPage] = (@ + 1) % 65536]
    /\ Goto("copied")
    /\ UNCHANGED <<pst, seq, est, hst, rst, lists>>

MarkCopied ==
    /\ pc = "copied"
    /\ SetState(CurPage, nfi[CurPage] - 1, "used")
    /\ Goto("copy")
    /\ UNCHANGED <<pst, seq, ent, hst, lists, nfi, cnt, pos>>

\* The collector ends by erasing the candidate page; the put then checks
\* whether what it freed is enough.
EraseVictim ==
    /\ pc = "copy"
    /\ ToCopy = {}
    /\ Erase(pos.page)
    /\ page_clear(pos.page)
    /\ IF Room(CurPage) >= Need THEN Goto("write") /\ UNCHANGED pos ELSE Return("nospace")
    /\ UNCHANGED lists

-----------------------------------------------------------------------------
(* Writing the new element *)

WriteEntry ==
    /\ pc = "write"
    /\ LET p == CurPage
           i == nfi[p]
           n == DataLen[op.val]
       IN  /\ WriteAt(p, i, Entry(op.key, op.val))
           /\ nfi' = [nfi EXCEPT ![p] = @ + 1]
           /\ cnt' = [cnt EXCEPT ![p] = (@ + 1) % 65536]
           /\ pos' = [page |-> p, first |-> i, at |-> i, last |-> i + n]
           /\ Goto(IF n = 0 THEN "mark" ELSE "data")
    /\ UNCHANGED <<pst, seq, est, hst, rst, lists>>

\* entry_data_write: all the data in one write.
WriteData ==
    /\ pc = "data"
    /\ LET slots == pos.first + 1 .. pos.last
           results(i) == Program(ent[pos.page][i], Data(op.val))
       IN  \E d \in [slots -> UNION {results(i) : i \in slots}] :
             /\ \A i \in slots : d[i] \in results(i)
             /\ ent' = [ent EXCEPT ![pos.page] = [i \in Idx |-> IF i \in slots THEN d[i] ELSE @[i]]]
    /\ nfi' = [nfi EXCEPT ![pos.page] = @ + DataLen[op.val]]
    /\ cnt' = [cnt EXCEPT ![pos.page] = (@ + DataLen[op.val]) % 65536]
    /\ Goto("mark")
    /\ UNCHANGED <<pst, seq, est, hst, rst, lists, pos>>

MarkEntry ==
    /\ pc = "mark"
    /\ SetState(pos.page, pos.at, "used")
    /\ IF pos.at < pos.last
       THEN pos' = [pos EXCEPT !.at = @ + 1] /\ Goto("mark")
       ELSE Return("ok")
    /\ UNCHANGED <<pst, seq, ent, hst, lists, nfi, cnt>>

-----------------------------------------------------------------------------
(* Cleaning *)

\* nvds_clean erases the partition sector by sector and loads it again.
CleanPage ==
    /\ pc = "clean"
    /\ LET later == {p \in Pages : p > pos.page} IN
       IF later # {}
       THEN /\ Erase(pos.page)
            /\ pos' = AtStart(CHOOSE p \in later : \A q \in later : p <= q)
            /\ Goto("clean")
            /\ UNCHANGED <<seq, ram>>
       ELSE /\ pst' = [p \in Pages |-> IF p = FirstPage THEN "active" ELSE "uninit"]
            /\ ent' = [ent EXCEPT ![pos.page] = Blank]
            /\ est' = [est EXCEPT ![pos.page] = AllFree]
            /\ seq' = [p \in Pages |-> 0]
            /\ hst' = pst'
            /\ rst' = [p \in Pages |-> AllFree]
            /\ used' = <<FirstPage>>
            /\ free' = SetToSortSeq(Pages \ {FirstPage}, <)
            /\ nfi' = [p \in Pages |-> 0]
            /\ cnt' = [p \in Pages |-> 0]
            /\ Idle("ok")
            /\ gone' = Keys
            /\ touched' = {}
            /\ worn' = FALSE
            /\ UNCHANGED <<skipped, hurts>>

-----------------------------------------------------------------------------
(* Failed accesses, which end the call *)

\* A write that leaves flash and RAM as they were: new_page_request answers
\* its caller with NULL and so with NVDS_E_NO_SPACE, the others with the error.
WriteFails ==
    /\ \/ /\ \/ pc = "room" /\ hst[CurPage] # "candidate" /\ Room(CurPage) < Need
             \/ pc = "write"
          /\ Idle("iofail")
          /\ Hurt(FALSE)
       \/ /\ pc = "data"
          /\ Idle("iofail")
          /\ Hurt(TRUE)
       \/ /\ pc = "collect" \/ (pc = "copy" /\ ToCopy # {})
          /\ Idle("nospace")
          /\ Hurt(TRUE)
    /\ UNCHANGED <<flash, ram>>

\* The table of entry states in RAM is already altered.
MarkFails ==
    /\ \/ /\ pc = "del"
          /\ rst' = [rst EXCEPT ![pos.page][pos.at] = "updated"]
          /\ Idle("iofail")
       \/ /\ pc = "mark"
          /\ rst' = [rst EXCEPT ![pos.page][pos.at] = "used"]
          /\ Idle("iofail")
       \/ /\ pc = "copied"
          /\ rst' = [rst EXCEPT ![CurPage][nfi[CurPage] - 1] = "used"]
          /\ Idle("nospace")
    /\ Hurt(TRUE)
    /\ UNCHANGED <<flash, hst, lists, nfi, cnt>>

\* The header of a new page fails, or the state written after it: the page
\* stays on the free list.
HeaderFails ==
    /\ pc = "request"
    /\ ~NoPage
    /\ hst[Head(free)] = "uninit"
    /\ \E st \in {"bad", "active"} : pst' = [pst EXCEPT ![Head(free)] = st]
    /\ hst' = [hst EXCEPT ![Head(free)] = "active"]
    /\ seq' = [seq EXCEPT ![Head(free)] = seq[CurPage] + 1]
    /\ Hurt(TRUE)
    /\ Idle("nospace")
    /\ UNCHANGED <<ent, est, rst, lists, nfi, cnt>>

\* The page that the next erase or header write may leave unreadable.
Torn ==
    CASE pc = "request" /\ ~NoPage -> {Head(free)}
      [] pc = "copy" /\ ToCopy = {} -> {pos.page}
      [] pc = "clean" -> {pos.page}
      [] OTHER -> {}

TornOrNot == {[p \in Pages |-> IF p \in torn THEN "bad" ELSE pst[p]] : torn \in {{}, Torn}}

EraseFails ==
    /\ \/ pc = "request" /\ ~NoPage /\ hst[Head(free)] # "uninit" /\ Idle("nospace")
       \/ pc = "copy" /\ ToCopy = {} /\ Idle("nospace")
       \/ pc = "clean" /\ Idle("iofail")
    /\ pst' \in TornOrNot
    /\ Hurt(pc # "request")
    /\ UNCHANGED <<seq, ent, est, ram>>

\* Power is lost before or during the next flash access, and the store is
\* loaded again by nvds_flash_internal_init, which may fail to read a page.
\* Restarting a sound store between calls is free, any number of times.
PowerLoss ==
    /\ \E st \in TornOrNot : \E unread \in Unread(st) :
         /\ Load(st, unread)
         /\ skipped' = unread
         /\ worn' = (worn \/ pc # "idle" \/ unread # {})
         /\ hurts' = hurts + (IF pc = "idle" /\ ~worn THEN 0 ELSE 1)
                          + (IF unread = {} THEN 0 ELSE 1)
    /\ hurts' <= MaxHurt
    /\ Idle("none")
    /\ UNCHANGED <<gone, touched>>

Next ==
    \/ \E k \in Keys, v \in Values : nvds_data_put(k, v)
    \/ \E k \in Keys : nvds_data_del(k)
    \/ nvds_clean
    \/ PutSame \/ CompareFails \/ NoOld \/ FindOld \/ FindFails \/ DelEntry
    \/ CheckRoom \/ RefusePage \/ EraseFree \/ WriteHeader
    \/ MarkCandidate \/ CopyEntry \/ MarkCopied \/ EraseVictim
    \/ WriteEntry \/ WriteData \/ MarkEntry
    \/ CleanPage
    \/ WriteFails \/ MarkFails \/ HeaderFails \/ EraseFails
    \/ PowerLoss

Spec == Init /\ [][Next]_vars

-----------------------------------------------------------------------------
(* Properties *)

Entries ==
    {Erased} \cup {Small(k, v) : k \in Keys, v \in Values}
      \cup {Header(k, v) : k \in Keys, v \in Values}
      \cup {Data(v) : v \in Values} \cup {Garbage(n) : n \in 0..EntryCnt}

\* Every field of the flash pages and of the RAM lists keeps the shape
\* nvds_type.h declares, and the lists together hold every page exactly once.
TypeOK ==
    /\ pst \in [Pages -> {"uninit", "active", "full", "candidate", "bad"}]
    /\ seq \in [Pages -> 0..MaxSeq + 1]
    /\ ent \in [Pages -> [Idx -> Entries]]
    /\ est \in [Pages -> [Idx -> {"free", "used", "updated"}]]
    /\ hst \in [Pages -> {"uninit", "active", "full", "candidate", "bad"}]
    /\ rst \in [Pages -> [Idx -> {"free", "used", "updated"}]]
    /\ nfi \in [Pages -> 0..EntryCnt]
    /\ cnt \in [Pages -> 0..65535]
    /\ Len(used) + Len(free) = Cardinality(Pages)
    /\ ToSet(used) \cup ToSet(free) = Pages
    /\ used # <<>>
    /\ rc \in {"none", "ok", "fail", "nospace", "notfound", "iofail"}

\* What callers see implements the abstract store: as long as nothing is left
\* half done, a call changes only its own key, an accepted put is read back, and
\* collection and restarts, any number of them, change nothing; the call that a
\* power loss or a failed access cuts short forgets at most what it had in
\* flight; and cleaning makes the store sound again.
Store == INSTANCE KvStore WITH
    store <- IF pc = "idle" THEN Contents ELSE before,
    req <- IF pc = "idle" THEN NoReq ELSE op,
    res <- rc

ImplementsKvStore == Store!Spec

\* A power loss costs at most the key of the call it interrupts, the keys with
\* an entry in the page being collected, and, once nvds_clean has started,
\* any key: the other pages are loaded as they were, if they can be read.
AtRisk ==
    CASE pc = "clean" -> Keys
      [] pc \in {"copy", "copied"} ->
           {op.key} \cup {k \in Keys : \E i \in Idx, v \in Values :
                            /\ est[pos.page][i] = "used"
                            /\ ent[pos.page][i] \in {Small(k, v), Header(k, v)}}
      [] OTHER -> {op.key}
Restart == pc' = "idle" /\ rc' = "none"
LossConfined ==
    [][Restart /\ skipped' = {} /\ ~worn /\ pc # "idle" =>
         \A k \in Keys \ AtRisk : Get(k)' = before[k]]_vars

\* new_page_request needs a free page to collect into, and the RAM counters it
\* chooses its victim by must agree with the state table, which is the one in
\* flash, through puts, deletions, collections and restarts between calls.
\* The variables keep their types throughout.
ReserveKept ==
    /\ TypeOK
    /\ pc = "idle" /\ ~worn =>
        /\ free # <<>>
        /\ \A p \in ToSet(used) :
             /\ rst[p] = est[p]
             /\ cnt[p] = Cardinality({i \in Idx : rst[p][i] = "used"})
             /\ nfi[p] = Cardinality({i \in Idx : rst[p][i] # "free"})

\* An accepted put can be read back: nvds_flash.h:148 says of NVDS_OK that the
\* new data element is correctly written.
AcceptedReadBack ==
    [][op.call = "put" /\ pc # "idle" /\ rc' = "ok" => Contents'[op.key] = op.val]_vars

\* Space that the collector could make room in: some page but the reserve has
\* Need entries out of use.
Crowded ==
    \A p \in Pages \ ToSet(free) :
        Cardinality({i \in Idx : rst[p][i] = "used"}) + Need > EntryCnt

\* A put in which no access fails answers NVDS_E_NO_SPACE only if, as
\* nvds_flash.h:152 says, the value does not fit.
RefusedOnlyWhenFull ==
    [][rc' = "nospace" /\ pc # "idle" /\ hurts' = hurts => Crowded]_vars

\* A page with an error is ignored when the store is loaded, as the comment at
\* nvds_flash.c:1765 says, and the other pages are not: one failed read costs
\* one page.
OthersLoaded == Cardinality(skipped) <= 1

\* What was deleted or cleaned stays so: nvds_data_del answers NVDS_OK when the
\* element is "correctly found and deleted".
DeletedStays == pc = "idle" => \A k \in gone : Get(k) = NoVal
=============================================================================
