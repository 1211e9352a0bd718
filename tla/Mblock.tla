------------------------------- MODULE Mblock --------------------------------
(***************************************************************************)
(* Reservation of DRAM (lib/mblock/mblock_v2.c).  The preloader hands LK   *)
(* a table of free blocks, mblock, and one of reserved records, reserved;  *)
(* drivers reserve blocks, shrink what they reserved and give it back, and *)
(* at last the kernel's device tree is made out of both tables.            *)
(*                                                                         *)
(* Names and mappings of records are left out, and so are the memory of    *)
(* LCA and TEE, which this product does not hand over through g_boot_arg.  *)
(* A call that fails leaves the tables as they are.                        *)
(***************************************************************************)
EXTENDS Integers, Sequences, FiniteSets

CONSTANTS
  Ranks,          \* orig_dram_info.rank_info: where each rank of DRAM starts
  DramEnd,        \* where the last one ends; they are continuous
  Page,           \* 0x1000
  ReserveSizes,   \* reserved_size of mblock_reserve_ext
  Aligns,         \* align: powers of 2, or 0
  Limits,         \* limit
  MaxReserved,    \* bound: records.  mblock_reserve_ext means to refuse the
                  \* last of 128, but its condition never holds for a name
                  \* shorter than 127 characters, whatever the tables hold
  MaxMblocks      \* bound: blocks

\* DRAM does not start at 0, no address comes near the range of u64, and
\* nobody asks for more than lies below the limit, where limit - reserved_size
\* would wrap.
ASSUME MblockAssumption ==
  /\ Page \in Nat \ {0}
  /\ ReserveSizes \subseteq Nat \ {0} /\ Aligns \subseteq Nat
  /\ Limits \subseteq Nat /\ MaxReserved \in Nat /\ MaxMblocks \in Nat
  /\ \A size \in ReserveSizes, limit \in Limits : size <= limit
  /\ Ranks \subseteq Nat \ {0} /\ IsFiniteSet(Ranks) /\ Ranks # {}
  /\ DramEnd \in Nat /\ \A r \in Ranks : r < DramEnd

VARIABLES
  mblock,         \* mblock[0..mblock_num - 1]: start, size and rank
  reserved,       \* reserved[]: start and size; index 1 is the code's 0
  reserved_num

mblock_vars == <<mblock, reserved, reserved_num>>

Slots == 1..MaxReserved
Nothing == [start |-> 0, size |-> 0]

rank_end(r) ==
  CHOOSE e \in Ranks \cup {DramEnd} :
    r < e /\ \A x \in Ranks \cup {DramEnd} : r < x => e <= x

MblockInit ==
  /\ \E starts \in [1..Cardinality(Ranks) -> Ranks] :
       /\ \A i, j \in DOMAIN starts : i < j => starts[i] < starts[j]
       /\ mblock = [i \in DOMAIN starts |->
                      [start |-> starts[i], rank |-> starts[i],
                       size |-> rank_end(starts[i]) - starts[i]]]
  /\ reserved = [i \in Slots |-> Nothing]
  /\ reserved_num = 0

end_of(b) == b.start + b.size

\* The rank whose memory the block is.
rank_of(start, size) ==
  CHOOSE r \in Ranks : r <= start /\ start + size <= rank_end(r)

-----------------------------------------------------------------------------
(* mblock_reserve_ext                                                      *)

\* An alignment below a page becomes 0, and & ~(0 - 1) clears every bit.
page_aligned(align) == IF align = 0 THEN Page ELSE align - (align % Page)
align_down(addr, align) == IF align = 0 THEN 0 ELSE addr - (addr % align)

\* As high as possible in m, below limit.
reserved_addr(m, size, align, limit) ==
  LET end == IF limit < end_of(m) THEN limit ELSE end_of(m)
  IN  align_down(end - size, page_aligned(align))

fits(m, size, align, limit) ==
  /\ size <= m.size /\ m.start < limit
  /\ reserved_addr(m, size, align, limit) >= m.start

\* Variant: the first block that fits.
lowest_target(size, align, limit) ==
  {i \in DOMAIN mblock :
     /\ fits(mblock[i], size, align, limit)
     /\ \A j \in 1..(i - 1) : ~fits(mblock[j], size, align, limit)}

\* The block that fits and ends highest, if any fits.
target(size, align, limit) ==
  LET F == {i \in DOMAIN mblock : fits(mblock[i], size, align, limit)}
  IN  {i \in F : \A j \in F : end_of(mblock[j]) <= end_of(mblock[i])}

\* Variant: the part behind the reservation is forgotten.
split_loses_end(i, addr, size) ==
  IF addr = mblock[i].start
  THEN [mblock EXCEPT ![i].start = addr + size, ![i].size = @ - size]
  ELSE [mblock EXCEPT ![i].size = addr - mblock[i].start]

\* What is left of block i: its end, its beginning, or both.  A block that is
\* reserved to its end from its start stays in the table, with a size of 0.
split(i, addr, size) ==
  LET m == mblock[i]
      beginning == [mblock EXCEPT ![i].size = addr - m.start]
  IN  IF addr = m.start
      THEN [mblock EXCEPT ![i].start = addr + size, ![i].size = @ - size]
      ELSE IF addr + size = end_of(m) THEN beginning
      ELSE SubSeq(beginning, 1, i)
             \o <<[start |-> addr + size, size |-> end_of(m) - (addr + size),
                   rank |-> m.rank]>>
             \o SubSeq(beginning, i + 1, Len(mblock))

\* The slot behind the last record has to be empty.
mblock_reserve_ext(size, align, limit) ==
  /\ reserved_num < MaxReserved /\ Len(mblock) < MaxMblocks
  /\ reserved[reserved_num + 1].start = 0
  /\ \E i \in target(size, align, limit) :
       LET addr == reserved_addr(mblock[i], size, align, limit)
       IN  /\ mblock' = split(i, addr, size)
           /\ reserved' = [reserved EXCEPT ![reserved_num + 1] =
                             [start |-> addr, size |-> size]]
  /\ reserved_num' = reserved_num + 1

-----------------------------------------------------------------------------
(* The tables when memory is given back.                                   *)

\* Record t is gone and the ones behind it move up.  What the last slot holds
\* then is the caller's business.
shift_up(t, last) ==
  [i \in Slots |->
     IF i \in t..(reserved_num - 1) THEN reserved[i + 1]
     ELSE IF i = reserved_num THEN last ELSE reserved[i]]

\* In front of the first block with a higher start.
insert_sorted(b) ==
  LET n == CHOOSE n \in 0..Len(mblock) :
             /\ \A i \in 1..n : mblock[i].start <= b.start
             /\ n < Len(mblock) => b.start < mblock[n + 1].start
  IN  SubSeq(mblock, 1, n) \o <<b>> \o SubSeq(mblock, n + 1, Len(mblock))

\* The blocks of b's rank that end where b starts, or start where it ends.
left_of(b)  == {i \in DOMAIN mblock : mblock[i].rank = b.rank
                                        /\ end_of(mblock[i]) = b.start}
right_of(b) == {i \in DOMAIN mblock : mblock[i].rank = b.rank
                                        /\ mblock[i].start = end_of(b)}

grow_left(i, b)  == [mblock EXCEPT ![i].size = @ + b.size]
grow_right(i, b) == [mblock EXCEPT ![i].start = b.start, ![i].size = @ + b.size]

free_block(start, size) ==
  [start |-> start, size |-> size, rank |-> rank_of(start, size)]

-----------------------------------------------------------------------------
(* mblock_resize                                                           *)

\* Merged with the first neighbour in the table, never with both.
put_back_first(b) ==
  LET N == left_of(b) \cup right_of(b)
      i == CHOOSE i \in N : \A j \in N : i <= j
  IN  IF N = {} THEN insert_sorted(b)
      ELSE IF i \in left_of(b) THEN grow_left(i, b) ELSE grow_right(i, b)

\* A free block in the memory of the record is a hang; one of size 0 is not
\* looked at.
overlapped(start, size) ==
  \E i \in DOMAIN mblock :
    /\ mblock[i].size > 0
    /\ mblock[i].start < start + size /\ start < end_of(mblock[i])

\* Record t is shrunk to newsize; the rest is free.  Down to 0, the record is
\* removed, and the slot that becomes free keeps what it held, unless it is
\* the record's own.
mblock_resize(t, newsize) ==
  LET addr    == reserved[t].start
      oldsize == reserved[t].size
  IN  /\ newsize < oldsize /\ oldsize % Page = 0 /\ newsize % Page = 0
      /\ ~overlapped(addr, oldsize)
      /\ mblock' = put_back_first(free_block(addr + newsize, oldsize - newsize))
      /\ IF newsize = 0
         THEN /\ reserved' = shift_up(t, IF t = reserved_num THEN Nothing
                                         ELSE reserved[reserved_num])
              /\ reserved_num' = reserved_num - 1
         ELSE /\ reserved' = [reserved EXCEPT ![t].size = newsize]
              /\ UNCHANGED reserved_num

-----------------------------------------------------------------------------
(* mblock_create                                                           *)

\* The last of the neighbours in the table on either side is the candidate;
\* the larger of the two grows.
put_back_larger(b) ==
  LET last(N) == CHOOSE i \in N : \A j \in N : j <= i
      L == last(left_of(b))
      R == last(right_of(b))
  IN  IF left_of(b) \cup right_of(b) = {} THEN insert_sorted(b)
      ELSE IF left_of(b) = {} \/ ( /\ right_of(b) # {}
                                   /\ mblock[R].size >= mblock[L].size )
      THEN grow_right(R, b) ELSE grow_left(L, b)

\* A block of size 0 counts here.
meets_block(addr, size) ==
  \E i \in DOMAIN mblock :
    \/ mblock[i].start <= addr /\ addr < end_of(mblock[i])
    \/ addr < mblock[i].start /\ mblock[i].start < addr + size

\* Record t without [addr, addr + size), which touches neither of its ends:
\* the part behind becomes a record of its own, and the next ones move down.
divided(t, addr, size) ==
  [i \in Slots |->
     IF i = t THEN [reserved[t] EXCEPT !.size = addr - reserved[t].start]
     ELSE IF i = t + 1
     THEN [start |-> addr + size, size |-> end_of(reserved[t]) - (addr + size)]
     ELSE IF i \in (t + 2)..(reserved_num + 1) THEN reserved[i - 1]
     ELSE reserved[i]]

mblock_create(t, addr, size) ==
  LET r == reserved[t]
      whole   == addr = r.start /\ size = r.size
      at_edge == addr = r.start \/ addr + size = end_of(r)
  IN  /\ size > 0 /\ size % Page = 0 /\ addr % Page = 0
      /\ ~meets_block(addr, size)
      /\ r.start <= addr /\ addr + size <= end_of(r)
      /\ \/ /\ whole
            /\ reserved' = shift_up(t, Nothing)
            /\ reserved_num' = reserved_num - 1
         \/ /\ at_edge /\ ~whole
            /\ reserved' = [reserved EXCEPT ![t] =
                 [start |-> IF addr = r.start THEN addr + size ELSE r.start,
                  size  |-> r.size - size]]
            /\ UNCHANGED reserved_num
         \/ /\ ~at_edge /\ reserved_num < MaxReserved
            /\ reserved' = divided(t, addr, size)
            /\ reserved_num' = reserved_num + 1
      /\ mblock' = put_back_larger(free_block(addr, size))

-----------------------------------------------------------------------------

MblockNext ==
  \/ \E size \in ReserveSizes, align \in Aligns, limit \in Limits :
       mblock_reserve_ext(size, align, limit)
  \/ \E t \in 1..reserved_num : \E newsize \in 0..reserved[t].size :
       mblock_resize(t, newsize)
  \/ \E t \in 1..reserved_num :
     \E addr \in reserved[t].start..(end_of(reserved[t]) - 1) :
     \E size \in 1..(end_of(reserved[t]) - addr) :
       mblock_create(t, addr, size)

MblockSpec == MblockInit /\ [][MblockNext]_mblock_vars

-----------------------------------------------------------------------------
(* Properties.                                                             *)

Records == {reserved[i] : i \in 1..reserved_num}

\* Every variable has its type, blocks stay in their rank, and records are
\* never empty.
MblockTypeOK ==
  /\ \A i \in DOMAIN mblock :
       LET m == mblock[i]
       IN  /\ m.rank \in Ranks /\ m.size \in Nat
           /\ m.rank <= m.start /\ end_of(m) <= rank_end(m.rank)
  /\ reserved_num \in 0..MaxReserved
  /\ \A r \in Records : r.start \in Nat \ {0} /\ r.size \in Nat \ {0}

\* Every unit of DRAM is in exactly one free block or one record, whatever
\* was reserved, shrunk and given back in whatever order: no driver's memory
\* is handed out twice, none is lost.
DramTiled ==
  \A r \in Ranks : \A a \in r..(rank_end(r) - 1) :
    Cardinality({i \in DOMAIN mblock :
                   mblock[i].start <= a /\ a < end_of(mblock[i])})
      + Cardinality({i \in 1..reserved_num :
                       reserved[i].start <= a /\ a < end_of(reserved[i])}) = 1

\* What holds of the two tables between two calls.
MblockInv == MblockTypeOK /\ DramTiled

\* "It returns as high address as possible": there is no higher aligned
\* address, below the limit, at which the size asked for lies in one block.
AsHighAsPossible ==
  \A size \in ReserveSizes, align \in Aligns, limit \in Limits :
    page_aligned(align) # 0 =>
      \A i \in DOMAIN mblock :
      \A a \in mblock[i].start..(end_of(mblock[i]) - size) :
        (a % page_aligned(align) = 0 /\ a + size <= limit) =>
          \E k \in target(size, align, limit) :
            a <= reserved_addr(mblock[k], size, align, limit)

\* What mblock_sanity_check asserts before the kernel is started, where it
\* hangs otherwise: no record starts in a free block or runs over the start
\* of one, a block of size 0 included.
SanityCheckPasses ==
  \A i \in DOMAIN mblock : \A r \in Records :
    /\ ~(mblock[i].start <= r.start /\ r.start < end_of(mblock[i]))
    /\ ~(r.start < mblock[i].start /\ mblock[i].start < end_of(r))
=============================================================================
