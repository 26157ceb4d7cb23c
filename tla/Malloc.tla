------------------------------- MODULE Malloc -------------------------------
(***************************************************************************)
(* The heap of common/dlmalloc.c over the arena that board_init reserves   *)
(* behind the program (common/board.c: mem_malloc_init, sbrk).             *)
(*                                                                         *)
(* Memory is a row of 4-byte words; two words are a unit of 8 bytes, the   *)
(* alignment of every chunk.  A chunk is named by the unit it starts at:   *)
(* its first word is prev_size (the foot of a free chunk before it, else   *)
(* the last word of the user of the chunk before), its second word is the  *)
(* head, 2 * size + PREV_INUSE, and the rest is the user's.  A bin is the  *)
(* sequence of the chunks on its list from fd to bk; the links in the      *)
(* chunks themselves are only words that are not the user's any more.      *)
(*                                                                         *)
(* Sizes are in units, requests in words.  The board's page is 512 units,  *)
(* its arena two to twelve pages more than the trim threshold; the runs    *)
(* scale all of these down together.  Nobody but this allocator calls sbrk *)
(* (so top always grows in place), and the first request, the environment's*)
(* (env_relocate), fits.  The other users of the program, autoscript and   *)
(* inflate, call malloc and free; realloc, memalign and calloc are modelled*)
(* as the library offers them.                                             *)
(***************************************************************************)
EXTENDS Integers, Sequences, FiniteSets, SequencesExt, FiniteSetsExt, TLC

CONSTANTS
  Ids,            \* the blocks a user may hold; each is filled with its own name
  Start, End,     \* mem_malloc_start and mem_malloc_end, in units
  Page,           \* malloc_getpagesize
  TrimThreshold,  \* trim_threshold
  MaxSmall,       \* MAX_SMALLBIN_SIZE
  LargeWidth,     \* how many sizes share a bin beyond the small ones
  BlockWidth,     \* BINBLOCKWIDTH
  Requests,       \* the sizes, in words, that users ask for
  MaxFirst        \* the largest first request, in words

ASSUME HeapAssumption ==
  /\ Requests \subseteq Nat
  /\ {Start, End, Page, TrimThreshold, MaxSmall, LargeWidth, BlockWidth}
       \subseteq Nat \ {0}
  /\ Start < End /\ MaxFirst \in Nat
  /\ Start + MaxFirst + 4 + Page =< End

VARIABLES heap, held, failed
vars == <<heap, held, failed>>

MinSize == 2
NoTop == 0
Null == 0
Link == -1000            \* a word that holds a list pointer, or something old

Words == 0 .. 2 * End + 1
Up(n, unit) == ((n + unit - 1) \div unit) * unit
Largest(a, b) == IF a < b THEN b ELSE a
Least(a, b) == IF a < b THEN a ELSE b

\* request2size: one word of overhead, a multiple of a unit, at least MINSIZE.
Request2Size(n) == Largest(MinSize, (n + 2) \div 2)

BinIndex(s) == IF s < MaxSmall THEN s ELSE MaxSmall + (s - MaxSmall) \div LargeWidth
LastRemainder == 1
Bins == LastRemainder .. Up(BinIndex(End) + 2, BlockWidth) - 1
IsSmall(nb) == nb < MaxSmall - 1
BlockOf(i) == i \div BlockWidth

-----------------------------------------------------------------------------
(* Heads, feet and lists.                                                  *)

HeadOf(h, p) == h.mem[2 * p + 1]
Size(h, p) == HeadOf(h, p) \div 2
PrevInuse(h, p) == HeadOf(h, p) % 2 = 1
Inuse(h, p) == PrevInuse(h, p + Size(h, p))
SetHead(h, p, s, bit) == [h EXCEPT !.mem[2 * p + 1] = 2 * s + bit]
SetHeadSize(h, p, s) == SetHead(h, p, s, HeadOf(h, p) % 2)
SetFootBefore(h, p, s) == [h EXCEPT !.mem[2 * (p + s) - 2] = s]
SetFoot(h, p, s) == [h EXCEPT !.mem[2 * (p + s)] = s]
SetInuseAt(h, p) == SetHead(h, p, Size(h, p), 1)
PrevChunk(h, p) == p - h.mem[2 * p]
TopSize(h) == IF h.top = NoTop THEN 0 ELSE Size(h, h.top)

Unlink(h, p) == [h EXCEPT !.bins = [i \in Bins |-> SelectSeq(@[i], LAMBDA c : c # p)]]
Linked(h, p) == [h EXCEPT !.mem[2 * p + 2] = Link, !.mem[2 * p + 3] = Link]
LinkLastRemainder(h, p) == [Linked(h, p) EXCEPT !.bins[LastRemainder] = <<p>>]
IsLastRemainder(h, p) == \E k \in DOMAIN h.bins[LastRemainder] : h.bins[LastRemainder][k] = p

\* frontlink: a small chunk to the front; a large one before the first that
\* is not larger, so that a bin is in order of size, the smallest last.
FrontLink(h, p, s) ==
  LET i == BinIndex(s)
      larger == IF s < MaxSmall THEN 0
                ELSE Cardinality({k \in DOMAIN h.bins[i] : Size(h, h.bins[i][k]) > s})
  IN  [Linked(h, p) EXCEPT !.bins[i] = InsertAt(@, larger + 1, p),
                           !.blocks = @ \union {BlockOf(i)}]

-----------------------------------------------------------------------------
(* The system's memory.                                                    *)

\* sbrk, which does not clear what it gives; "trimmed" remembers that some
\* of it may have been given before.
Sbrk(h, by) ==
  IF h.brk + by < Start \/ h.brk + by > End
  THEN [h |-> h, at |-> Null]
  ELSE [h |-> [h EXCEPT !.brk = @ + by, !.trimmed = @ \/ by < 0], at |-> h.brk]

\* malloc_extend_top; the first time the break is brought to a page as well.
ExtendTop(h, nb) ==
  IF h.top = NoTop
  THEN LET got == Sbrk(h, nb + MinSize).h
           all == Sbrk(got, Up(got.brk, Page) - got.brk).h
       IN  SetHead([all EXCEPT !.top = h.brk], h.brk, all.brk - h.brk, 1)
  ELSE LET got == Sbrk(h, Up(nb + MinSize, Page))
       IN  IF got.at = Null THEN h
           ELSE SetHead(got.h, h.top, got.h.brk - h.top, 1)

\* malloc_trim(0)
Trim(h) ==
  LET extra == ((TopSize(h) - MinSize + Page - 1) \div Page - 1) * Page
  IN  IF extra < Page THEN h
      ELSE SetHead(Sbrk(h, -extra).h, h.top, TopSize(h) - extra, 1)

-----------------------------------------------------------------------------
(* malloc                                                                  *)

Got(h, p) == [h |-> h, p |-> p]

TakeWhole(h, p) == Got(SetInuseAt(Unlink(h, p), p + Size(h, p)), p)
Split(h, p, nb) ==
  LET rest == Size(h, p) - nb
      cut == LinkLastRemainder(SetHead(Unlink(h, p), p, nb, 1), p + nb)
  IN  Got(SetFoot(SetHead(cut, p + nb, rest, 1), p + nb, rest), p)

\* The chunks of bin i that are large enough, by their places; the scan goes
\* from the last of the bin to its first.
Enough(h, i, nb) == {k \in DOMAIN h.bins[i] : Size(h, h.bins[i][k]) >= nb}
ChunkIn(h, i, nb) == h.bins[i][Max(Enough(h, i, nb))]

Use(h, p, nb) == IF Size(h, p) - nb >= MinSize THEN Split(h, p, nb) ELSE TakeWhole(h, p)

\* The bins from idx on in blocks marked as possibly not empty.
FromBins(h, idx, nb) ==
  {i \in Bins : i >= idx /\ BlockOf(i) \in h.blocks /\ Enough(h, i, nb) # {}}

UnmarkedPassed(h, idx, nb) ==
  {b \in h.blocks : b >= BlockOf(idx) /\ \A i \in FromBins(h, idx, nb) : b < BlockOf(i)}
\* A block in which no bin served is unmarked, if all its bins before the
\* scanned ones are empty.
Unmarked(h, idx, nb) ==
  LET hits == FromBins(h, idx, nb)
  IN  {b \in h.blocks :
         /\ b >= BlockOf(idx)
         /\ \A i \in hits : b < BlockOf(i)
         /\ \A i \in Bins : BlockOf(i) = b /\ i < idx => h.bins[i] = <<>>}

CutTop(h, p, rest, nb) ==
  IF rest < MinSize THEN Got(h, Null)
  ELSE Got(SetHead([SetHead(h, p, nb, 1) EXCEPT !.top = p + nb], p + nb, rest, 1), p)
TakeTop(h, nb) == CutTop(h, h.top, TopSize(h) - nb, nb)
FromTop(h, nb) ==
  TakeTop(IF TopSize(h) - nb < MinSize THEN ExtendTop(h, nb) ELSE h, nb)

SearchBins(h, idx, nb) ==
  LET hits == FromBins(h, idx, nb)
      seen == [h EXCEPT !.blocks = @ \ Unmarked(h, idx, nb)]
  IN  IF hits # {} THEN Use(seen, ChunkIn(h, Min(hits), nb), nb) ELSE FromTop(seen, nb)

\* The most recent remainder serves if it can; if not it goes to its bin.
LastOrBins(h, idx, nb) ==
  LET p == h.bins[LastRemainder][1]
      left == Size(h, p) - nb
  IN  IF h.bins[LastRemainder] = <<>> THEN SearchBins(h, idx, nb)
      ELSE IF left >= 0 THEN Use(h, p, nb)
      ELSE SearchBins(FrontLink(Unlink(h, p), p, Size(h, p)), idx, nb)

\* An exact fit leaves less than a chunk of its own.
ExactFit(h, i, nb) ==
  /\ Enough(h, i, nb) # {}
  /\ Size(h, ChunkIn(h, i, nb)) - nb < MinSize

MALLOC(h, nb) ==
  LET i == BinIndex(nb)
      exact == {j \in IF IsSmall(nb) THEN {i, i + 1} ELSE {i} : ExactFit(h, j, nb)}
      next == IF IsSmall(nb) THEN i + 2 ELSE IF Enough(h, i, nb) = {} THEN i + 1 ELSE i
  IN  IF exact # {} THEN TakeWhole(h, ChunkIn(h, Min(exact), nb))
      ELSE LastOrBins(h, next, nb)

-----------------------------------------------------------------------------
(* free                                                                    *)

FreeToTop(h, p) ==
  LET q == IF PrevInuse(h, p) THEN p ELSE PrevChunk(h, p)
      s == p + Size(h, p) + TopSize(h) - q
      merged == SetHead([Unlink(h, q) EXCEPT !.top = q], q, s, 1)
  IN  IF s >= TrimThreshold THEN Trim(merged) ELSE merged

FreeToBin(h, p) ==
  LET next == p + Size(h, p)
      after == IF Inuse(h, next) THEN next ELSE next + Size(h, next)
      q == IF PrevInuse(h, p) THEN p ELSE PrevChunk(h, p)
      s == after - q
      behind == ~PrevInuse(h, p) /\ IsLastRemainder(h, q)
      ahead == after # next /\ IsLastRemainder(h, next)
      out == IF behind THEN Unlink(h, next) ELSE Unlink(Unlink(h, q), next)
      \* clears the bit that says the chunk before next is in use
      marked == SetHead(out, next, Size(h, next), 0)
      whole == SetFoot(SetHead(marked, q, s, 1), q, s)
  IN  IF behind THEN whole
      ELSE IF ahead THEN LinkLastRemainder(whole, q)
      ELSE FrontLink(whole, q, s)

FREE(h, p) ==
  IF p + Size(h, p) = h.top THEN FreeToTop(h, p) ELSE FreeToBin(h, p)

-----------------------------------------------------------------------------
(* realloc, memalign and calloc                                            *)

CopyMapped(h, from, to, size) ==
  [h EXCEPT !.mem = [w \in Words |->
      IF w \in 2 * to + 2 .. 2 * to + 2 * size - 1 THEN @[w - 2 * to + 2 * from] ELSE @[w]]]
\* MALLOC_COPY of the words of a chunk of the given size.
Copy(h, from, to, size) ==
  [h EXCEPT !.mem = [w \in Words |->
      IF w \in 2 * to + 2 .. 2 * to + 2 * size THEN @[w - 2 * to + 2 * from] ELSE @[w]]]

\* The end of realloc: what is more than nb goes back.
SplitOff(h, p, size, nb) ==
  IF size - nb >= MinSize
  THEN LET two == SetHead(SetHeadSize(h, p, nb), p + nb, size - nb, 1)
       IN  Got(FREE(SetInuseAt(two, p + size), p + nb), p)
  ELSE Got(SetInuseAt(SetHeadSize(h, p, size), p + size), p)

IntoTop(h, p, size, nb) ==
  Got(SetHead(SetHeadSize([h EXCEPT !.top = p + nb], p, nb), p + nb, size - nb, 1), p)
\* What malloc gave may be the chunk behind the old one.
Moved(new, p, old, nb) ==
  IF new.p = Null THEN new
  ELSE IF new.p = p + old THEN SplitOff(new.h, p, old + Size(new.h, new.p), nb)
  ELSE Got(FREE(Copy(new.h, p, new.p, old), p), new.p)

REALLOC(h, p, nb) ==
  LET old == Size(h, p)
      next == p + old
      top == next = h.top
      free == top \/ ~Inuse(h, next)
      ahead == IF free THEN Size(h, next) ELSE 0
      prev == IF PrevInuse(h, p) THEN p ELSE PrevChunk(h, p)
      behind == p - prev
      back == Copy(Unlink(h, prev), p, prev, old)
      need == IF top THEN nb + MinSize ELSE nb
  IN  IF old >= nb THEN SplitOff(h, p, old, nb)
      ELSE IF top /\ old + ahead >= need THEN IntoTop(h, p, old + ahead, nb)
      ELSE IF free /\ ~top /\ old + ahead >= need
      THEN SplitOff(Unlink(h, next), p, old + ahead, nb)
      ELSE IF behind > 0 /\ top /\ behind + old + ahead >= need
      THEN IntoTop(back, prev, behind + old + ahead, nb)
      ELSE IF behind > 0 /\ free /\ ~top /\ behind + old + ahead >= need
      THEN SplitOff(Copy(Unlink(Unlink(h, next), prev), p, prev, old),
                    prev, behind + old + ahead, nb)
      ELSE IF behind > 0 /\ behind + old >= nb
      THEN SplitOff(back, prev, behind + old, nb)
      ELSE Moved(MALLOC(h, nb), p, old, nb)

\* align is in units, and at least MINSIZE.  What leads is given back, then
\* what is left behind.
Padded(nb, align) == Request2Size(2 * (nb + align + MinSize))
AlignedIn(p, align) ==
  LET first == Up(p + 1, align) - 1
  IN  IF (p + 1) % align = 0 THEN p
      ELSE IF first - p < MinSize THEN first + align ELSE first
CutBehind(h, q, rest, nb) ==
  IF rest - nb < MinSize THEN Got(h, q)
  ELSE Got(FREE(SetHeadSize(SetHead(h, q + nb, rest - nb, 1), q, nb), q + nb), q)
CutAround(h, p, q, rest, nb) ==
  LET whole == SetInuseAt(SetHead(h, q, rest, 1), q + rest)
  IN  CutBehind(IF q = p THEN h ELSE FREE(SetHeadSize(whole, p, q - p), p), q, rest, nb)
Aligned(all, q, nb) ==
  IF all.p = Null THEN all
  ELSE CutAround(all.h, all.p, q, all.p + Size(all.h, all.p) - q, nb)
AlignedFrom(all, align, nb) == Aligned(all, AlignedIn(all.p, align), nb)
MEMALIGN(h, align, nb) == AlignedFrom(MALLOC(h, Padded(nb, align)), align, nb)

\* MORECORE_CLEARS: what came fresh from sbrk is taken to be zero.
Cleared(h, new) ==
  LET size == Size(new.h, new.p)
      dirty == IF new.p = h.top /\ size > TopSize(h) THEN TopSize(h) ELSE size
  IN  IF new.p = Null THEN new
      ELSE Got([new.h EXCEPT !.mem = [w \in Words |->
                  IF w \in 2 * new.p + 2 .. 2 * new.p + 2 * dirty THEN 0 ELSE @[w]]],
               new.p)
CALLOC(h, nb) == Cleared(h, MALLOC(h, nb))

-----------------------------------------------------------------------------
(* The program that uses the heap: it fills every block it gets.           *)

Free == [p |-> Null, n |-> 0, zero |-> FALSE]
Filled(h, id, p, from, to) ==
  [h EXCEPT !.mem = [w \in Words |->
      IF w \in 2 * p + 2 + from .. 2 * p + 1 + to THEN id ELSE @[w]]]

Init ==
  /\ heap = [mem |-> [w \in Words |-> 0], top |-> NoTop, brk |-> Start,
             bins |-> [i \in Bins |-> <<>>], blocks |-> {}, trimmed |-> FALSE]
  /\ held = [id \in Ids |-> Free]
  /\ failed = 0

\* The chunks one meets walking over a heap from its base to top.
Walk(h, seen, u) ==
  IF u = seen.next /\ u < h.top
  THEN [chunks |-> seen.chunks \union {u}, next |-> u + Size(h, u)]
  ELSE seen
ChunksOf(h) ==
  FoldLeftDomain(LAMBDA seen, k : Walk(h, seen, Start + k - 1),
                 [chunks |-> {}, next |-> Start], [k \in 1 .. End - Start |-> k]).chunks

\* What is left in words that nobody uses is not told apart: it is anything
\* below the break, and zero beyond it until the break has been there.
Settled(h, users) ==
  LET chunks == ChunksOf(h)
      busy == {p \in chunks : Inuse(h, p)}
      heads == {2 * p + 1 : p \in chunks \union {h.top}}
      feet == {2 * (p + Size(h, p)) : p \in chunks \ busy}
      used == UNION {2 * users[id].p + 2 .. 2 * users[id].p + 1 + users[id].n :
                       id \in {k \in Ids : users[k].p # Null}}
  IN  [h EXCEPT !.mem = [w \in Words |->
         IF w \in heads \union feet \union used \/ (w >= 2 * h.brk /\ @[w] = 0)
         THEN @[w] ELSE Link]]

\* A result for block id: no memory, or a block of n words.
Answer(id, got, nb, n, kept, zero) ==
  /\ failed' = IF got.p = Null THEN nb ELSE 0
  /\ held' = IF got.p = Null THEN held
             ELSE [held EXCEPT ![id] = [p |-> got.p, n |-> n, zero |-> zero]]
  /\ heap' = Settled(IF got.p = Null \/ zero THEN got.h
                     ELSE Filled(got.h, id, got.p, kept, n), held')

MayAsk(n) == heap.top = NoTop => n =< MaxFirst

Malloc(id) == \E n \in Requests :
  /\ held[id] = Free /\ MayAsk(n)
  /\ Answer(id, MALLOC(heap, Request2Size(n)), Request2Size(n), n, 0, FALSE)

Calloc(id) == \E n \in Requests :
  /\ held[id] = Free /\ MayAsk(n)
  /\ Answer(id, CALLOC(heap, Request2Size(n)), Request2Size(n), n, 0, TRUE)

\* A block the user has filled, or has got zeroed and then filled.
Realloc(id) == \E n \in Requests :
  /\ held[id] # Free /\ ~held[id].zero
  /\ Answer(id, REALLOC(heap, held[id].p, Request2Size(n)), Request2Size(n), n,
            Least(n, held[id].n), FALSE)

Memalign(id) == \E n \in Requests, align \in {2, 4} :
  /\ held[id] = Free /\ MayAsk(n) /\ heap.top # NoTop
  /\ Answer(id, MEMALIGN(heap, align, Request2Size(n)),
            Padded(Request2Size(n), align), n, 0, FALSE)

FreeBlock(id) ==
  /\ held[id] # Free
  /\ held' = [held EXCEPT ![id] = Free]
  /\ heap' = Settled(FREE(heap, held[id].p), held')
  /\ failed' = 0

Next == \E id \in Ids :
  Malloc(id) \/ Calloc(id) \/ Realloc(id) \/ Memalign(id) \/ FreeBlock(id)

Spec == Init /\ [][Next]_vars
-----------------------------------------------------------------------------
(* Properties.                                                             *)

Chunks == ChunksOf(heap)
Busy == {p \in Chunks : Inuse(heap, p)}
Spare == Chunks \ Busy
Listed(i) == ToSet(heap.bins[i])

\* The break, the top, the lists and the blocks stay within the arena.
TypeOK ==
  /\ heap.brk \in Start .. End
  /\ heap.top \in {NoTop} \union Start .. End
  /\ \A i \in Bins : Listed(i) \subseteq Start .. End
  /\ heap.blocks \subseteq {BlockOf(i) : i \in Bins}
  /\ \A id \in Ids : held[id].p \in {Null} \union Start .. End

\* The heads lead from the base of the heap, chunk by chunk, exactly to top,
\* which ends at the break, on a page, is never used up and never lies behind
\* a free chunk, whatever was split, moved, trimmed and extended
\* (do_check_chunk, do_check_inuse_chunk and malloc_extend_top's assertion).
Tiled ==
  heap.top # NoTop =>
    /\ heap.top = Max({Start} \union {p + Size(heap, p) : p \in Chunks})
    /\ heap.top + TopSize(heap) = heap.brk
    /\ TopSize(heap) >= MinSize
    /\ heap.brk % Page = 0
    /\ PrevInuse(heap, heap.top)
    /\ \A p \in Chunks : Size(heap, p) >= MinSize

\* No two free chunks touch, and the chunk behind a free one finds its start
\* by the foot (do_check_free_chunk).
Coalesced ==
  \A p \in Spare :
    /\ PrevInuse(heap, p)
    /\ p + Size(heap, p) \in Busy
    /\ heap.mem[2 * (p + Size(heap, p))] = Size(heap, p)

\* Every free chunk is on exactly one list, the one of its size or the last
\* remainder's, and nothing else is on a list; a bin with a chunk is in a
\* block that malloc's search does not skip (frontlink, unlink, binblocks).
Binned ==
  /\ \A i, j \in Bins : i # j => Listed(i) \cap Listed(j) = {}
  /\ UNION {Listed(i) : i \in Bins} = Spare
  /\ Len(heap.bins[LastRemainder]) =< 1
  /\ \A i \in Bins \ {LastRemainder} :
       /\ \A p \in Listed(i) : BinIndex(Size(heap, p)) = i
       /\ heap.bins[i] # <<>> => BlockOf(i) \in heap.blocks

\* The chunks in use are those the users hold, one each and large enough: no
\* block is handed out twice, and none is lost when realloc or memalign give
\* parts back.
HeldExactly ==
  /\ Busy = {held[id].p : id \in {k \in Ids : held[k] # Free}}
  /\ \A i, j \in Ids : i # j /\ held[i] # Free => held[i].p # held[j].p
  /\ \A id \in Ids : held[id] # Free => 2 * Size(heap, held[id].p) > held[id].n

\* The heap is consistent after every call, in all the views of a chunk: its
\* head, its foot, its list, the block map, and the user's pointer.
HeapSound == TypeOK /\ Tiled /\ Coalesced /\ Binned /\ HeldExactly

Contents(id) == {heap.mem[2 * held[id].p + 1 + k] : k \in 1 .. held[id].n}

\* What a user wrote stays in its block until it frees it, through every call
\* of the others and through its own realloc, wherever that moves it; and what
\* calloc gives has "all locations set to zero" (include/malloc.h:50), although
\* it clears only what was in use before: as long as the heap has never been
\* trimmed, which is when sbrk gives used memory again.
PayloadIntact ==
  \A id \in Ids : held[id] # Free =>
    /\ ~held[id].zero => Contents(id) \subseteq {id}
    /\ held[id].zero /\ ~heap.trimmed => Contents(id) \subseteq {0}

\* malloc returns 0 only when no free chunk and no extension of top serves:
\* a chunk is never overlooked because of its bin or its block's mark.
RefusedOnlyWhenFull ==
  failed > 0 =>
    /\ \A p \in Spare : Size(heap, p) < failed
    /\ TopSize(heap) < failed + MinSize
    /\ End - heap.brk < Up(failed + MinSize, Page)
=============================================================================
