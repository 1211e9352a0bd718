--------------------------------- MODULE Heap ---------------------------------
(***************************************************************************)
(* The heap (lib/heap/heap.c): a list of free chunks in the order of their *)
(* addresses, first fit, merged with their neighbours when they are freed. *)
(* Every operation on the list is one critical section.  Addresses and     *)
(* sizes are in words of sizeof(void * ) bytes, to which the code rounds.  *)
(***************************************************************************)
EXTENDS Integers, Sequences, FiniteSets

CONSTANTS
  HeapLen,        \* theheap.len
  AllocHeader,    \* sizeof(struct alloc_struct_begin)
  FreeHeader,     \* sizeof(struct free_heap_chunk)
  MinAlignment,   \* 16 bytes
  Sizes,          \* what is asked for
  Alignments,     \* powers of 2, or 0
  MaxBlocksHeld   \* bound: blocks in use at a time

\* No size comes near the range of size_t, to which the sums below wrap.  An
\* alignment below the least one divides it, as powers of 2 do.
ASSUME HeapAssumption ==
  /\ HeapLen \in Nat /\ HeapLen >= FreeHeader
  /\ AllocHeader \in Nat /\ FreeHeader \in Nat \ {0}
  /\ MinAlignment \in Nat \ {0}
  /\ Sizes \subseteq Nat /\ Alignments \subseteq Nat
  /\ \A a \in Alignments \ {0} : a < MinAlignment => MinAlignment % a = 0
  /\ MaxBlocksHeld \in Nat

VARIABLES
  free_list,     \* theheap.free_list: free_heap_chunk by free_heap_chunk
  blocks         \* the blocks in use: alloc_struct_begin, and where the
                 \* payload is and how much was asked for

heap_vars == <<free_list, blocks>>

chunk_at(at, len) == [at |-> at, len |-> len]
chunk_end(c) == c.at + c.len

HeapInit ==
  /\ free_list = <<chunk_at(0, HeapLen)>>
  /\ blocks = {}

-----------------------------------------------------------------------------
(* The free list.                                                          *)

\* The chunk at place i is merged with the one before it.
merge_prev(f, i) ==
  IF i > 1 /\ chunk_end(f[i - 1]) = f[i].at
  THEN SubSeq(f, 1, i - 2) \o <<chunk_at(f[i - 1].at, f[i - 1].len + f[i].len)>>
         \o SubSeq(f, i + 1, Len(f))
  ELSE f

\* heap_insert_free_chunk: in front of the first chunk with a higher address,
\* then merged with the chunk before and with the chunk behind.
heap_insert_free_chunk(f, c) ==
  LET n == CHOOSE n \in 0..Len(f) :
             /\ \A i \in 1..n : f[i].at <= c.at
             /\ n < Len(f) => c.at < f[n + 1].at
      linked == SubSeq(f, 1, n) \o <<c>> \o SubSeq(f, n + 1, Len(f))
      behind == IF n + 2 <= Len(linked) /\ chunk_end(c) = linked[n + 2].at
                THEN merge_prev(linked, n + 2) ELSE linked
  IN  merge_prev(behind, n + 1)

round_up(n, unit) == ((n + unit - 1) \div unit) * unit

alignment_used(alignment) ==
  IF alignment > 0 /\ alignment < MinAlignment THEN MinAlignment ELSE alignment

\* The length of the chunk that heap_alloc looks for.
need(size, alignment) ==
  (IF size + AllocHeader < FreeHeader THEN FreeHeader ELSE size + AllocHeader)
    + alignment_used(alignment)

\* Variant: whatever is left becomes a chunk.
splits_always(c, n) == c.len > n

\* What a chunk of which n words are taken has left is enough for a header.
splits(c, n) == c.len > n + FreeHeader

\* The length of a block made from chunk c.
kept(c, n) == IF splits(c, n) THEN n ELSE c.len

first_fit(f, n) ==
  {i \in DOMAIN f : f[i].len >= n /\ \A j \in 1..(i - 1) : f[j].len < n}

\* The free list when n words have been taken from place i.
take(f, i, n) ==
  SubSeq(f, 1, i - 1)
    \o (IF splits(f[i], n)
        THEN <<chunk_at(f[i].at + n, f[i].len - n)>> ELSE <<>>)
    \o SubSeq(f, i + 1, Len(f))

block(c, size, alignment) ==
  LET first == c.at + AllocHeader
      unit  == alignment_used(alignment)
  IN  [at        |-> c.at,
       len       |-> kept(c, need(size, alignment)),
       payload   |-> IF unit > 0 THEN round_up(first, unit) ELSE first,
       size      |-> size,
       alignment |-> alignment]

-----------------------------------------------------------------------------
(* The operations.                                                         *)

heap_alloc(size, alignment) ==
  LET n == need(size, alignment)
  IN  \/ \E i \in first_fit(free_list, n) :
           /\ Cardinality(blocks) < MaxBlocksHeld
           /\ free_list' = take(free_list, i, n)
           /\ blocks' = blocks \cup {block(free_list[i], size, alignment)}
      \/ first_fit(free_list, n) = {} /\ UNCHANGED heap_vars

\* heap_free.  (heap_realloc is heap_alloc of a new block and then heap_free
\* of the old one, in two critical sections: two steps of this module.)
heap_free(b) ==
  /\ free_list' = heap_insert_free_chunk(free_list, chunk_at(b.at, b.len))
  /\ blocks' = blocks \ {b}

HeapNext ==
  \/ \E size \in Sizes, alignment \in Alignments : heap_alloc(size, alignment)
  \/ \E b \in blocks : heap_free(b)

HeapSpec == HeapInit /\ [][HeapNext]_heap_vars

-----------------------------------------------------------------------------
(* Properties.                                                             *)

FreeChunks == {free_list[i] : i \in DOMAIN free_list}

\* Every variable has its type, and every chunk has room for the header it
\* needs while it is free or once it is freed.
HeapTypeOK ==
  /\ \A c \in FreeChunks \cup blocks :
       c.at \in 0..HeapLen /\ c.len \in FreeHeader..HeapLen
  /\ \A b \in blocks : b.payload \in 0..HeapLen /\ b.size \in Sizes

\* Every word of the heap is in exactly one chunk or block, whatever was
\* allocated and freed in whatever order: none is lost, none handed out
\* twice.
HeapTiled ==
  \A w \in 0..(HeapLen - 1) :
    Cardinality({c \in FreeChunks \cup blocks :
                   c.at <= w /\ w < chunk_end(c)}) = 1

\* The free list is in the order of addresses and no two of its chunks touch:
\* what can be merged is merged.
FreeListMerged ==
  \A i \in 1..(Len(free_list) - 1) :
    chunk_end(free_list[i]) < free_list[i + 1].at

\* The payload lies in its block, behind the header and aligned, with all the
\* words asked for.
PayloadInside ==
  \A b \in blocks :
    /\ b.at + AllocHeader <= b.payload
    /\ b.payload + b.size <= chunk_end(b)
    /\ b.alignment > 0 => b.payload % b.alignment = 0

\* What holds of the heap between two calls.
HeapInv == HeapTypeOK /\ HeapTiled /\ FreeListMerged /\ PayloadInside
=============================================================================
