---------------------------- MODULE UnsparseProofs ----------------------------
(***************************************************************************)
(* The parser of sparse images lays an image down as it is, wherever the   *)
(* packages cut it: proofs about module Unsparse, for images of any number *)
(* and size of chunks and packages of any size that holds a header. It     *)
(* implements ImageWriter, which fills the storage from front to back.     *)
(*                                                                         *)
(* The places of the chunks are sums, and facts about all of them are      *)
(* proved by looking at the first chunk that would not have them.          *)
(***************************************************************************)
EXTENDS Unsparse, SequenceTheorems, WellFoundedInduction, TLAPS

-----------------------------------------------------------------------------
(* Places that follow one another.                                         *)

\* A set of numbers has a least one.
LEMMA LeastNumber ==
  ASSUME NEW T \in SUBSET Nat, T # {}
  PROVE  \E x \in T : \A y \in T : x <= y
  <1> DEFINE Below == OpToRel(<, Nat)
  <1>1. PICK x \in T : \A y \in T : ~(<<y, x>> \in Below)
    BY NatLessThanWellFounded, WFMin
  <1>2. \A y \in T : ~(y < x) BY <1>1 DEF OpToRel
  <1> QED BY <1>2

\* The places that Sums gives exist and are what its equation says.
LEMMA SumsStep ==
  ASSUME NEW n \in Nat, NEW base \in Nat, NEW lengths \in [1..n -> Nat]
  PROVE  /\ Sums(base, lengths) \in [1..(n + 1) -> Nat]
         /\ Sums(base, lengths)[1] = base
         /\ \A k \in 1..n :
              Sums(base, lengths)[k + 1] = Sums(base, lengths)[k] + lengths[k]
  <1>1. Len(lengths) = n OBVIOUS
  <1> DEFINE Adds(f, m) == /\ f \in [1..(m + 1) -> Nat] /\ f[1] = base
                           /\ \A k \in 1..m : f[k + 1] = f[k] + lengths[k]
             Bad == {m \in 0..n : ~\E f : Adds(f, m)}
  <1>2. Bad = {}
    <2>1. SUFFICES ASSUME Bad # {} PROVE FALSE OBVIOUS
    <2>2. Bad \in SUBSET Nat OBVIOUS
    <2>3. PICK m \in Bad : \A y \in Bad : m <= y
      BY <2>1, <2>2, LeastNumber
    <2>4. m \in 0..n /\ ~\E f : Adds(f, m)
      <3> HIDE DEF Adds
      <3> QED OBVIOUS
    <2>5. m # 0
      <3>1. Adds([k \in 1..1 |-> base], 0) OBVIOUS
      <3> QED BY <3>1, <2>4
    <2>6. m - 1 \in 0..n /\ m - 1 \notin Bad
      <3>1. m - 1 \in 0..n /\ m - 1 < m /\ m \in Nat BY <2>4, <2>5
      <3> HIDE DEF Bad
      <3> QED BY <3>1, <2>3
    <2>7. PICK f : Adds(f, m - 1)
      <3> HIDE DEF Adds
      <3> QED BY <2>6
    <2> DEFINE g == [k \in 1..(m + 1) |->
                       IF k = m + 1 THEN f[m] + lengths[m] ELSE f[k]]
    <2>8. f \in [1..m -> Nat] /\ f[1] = base /\ m \in 1..n
          /\ \A k \in 1..(m - 1) : f[k + 1] = f[k] + lengths[k]
      BY <2>7, <2>4, <2>5
    <2>9. Adds(g, m)
      <3>1. g \in [1..(m + 1) -> Nat] BY <2>8
      <3>2. g[1] = base BY <2>8
      <3>3. ASSUME NEW k \in 1..m PROVE g[k + 1] = g[k] + lengths[k]
        <4>1. CASE k = m BY <4>1, <2>8
        <4>2. CASE k # m
          <5>1. k \in 1..(m - 1) /\ k + 1 \in 1..m BY <4>2, <2>8
          <5> QED BY <5>1, <2>8
        <4> QED BY <4>1, <4>2
      <3> QED BY <3>1, <3>2, <3>3
    <2> QED BY <2>4, <2>9
  <1> DEFINE Def(f) == [k \in 1..(Len(lengths) + 1) |->
                          IF k = 1 THEN base ELSE f[k - 1] + lengths[k - 1]]
             s == Sums(base, lengths)
  <1>3. \E f : f = Def(f)
    <2>1. n \in 0..n OBVIOUS
    <2>2. PICK f : Adds(f, n)
      <3> HIDE DEF Adds
      <3> QED BY <2>1, <1>2
    <2>3. \A k \in 1..(n + 1) :
            f[k] = IF k = 1 THEN base ELSE f[k - 1] + lengths[k - 1]
      <3> TAKE k \in 1..(n + 1)
      <3>1. CASE k = 1 BY <3>1, <2>2
      <3>2. CASE k # 1
        <4>1. k - 1 \in 1..n /\ (k - 1) + 1 = k BY <3>2
        <4> QED BY <4>1, <3>2, <2>2
      <3> QED BY <3>1, <3>2
    <2>4. f = [k \in 1..(n + 1) |-> f[k]] BY <2>2
    <2>5. f = Def(f) BY <2>3, <2>4, <1>1
    <2> QED BY <2>5
  <1>4. s = CHOOSE f : f = Def(f) BY DEF Sums
  <1>5. s = Def(s) BY <1>3, <1>4
  <1> HIDE DEF s
  <1>6. /\ DOMAIN s = 1..(n + 1) /\ s[1] = base
        /\ s = [k \in 1..(n + 1) |-> s[k]]
        /\ \A k \in 1..n : s[k + 1] = s[k] + lengths[k]
    <2>1. \A k \in 1..(n + 1) :
            s[k] = IF k = 1 THEN base ELSE s[k - 1] + lengths[k - 1]
      BY <1>5, <1>1
    <2>2. DOMAIN s = 1..(n + 1) /\ s = [k \in 1..(n + 1) |-> s[k]]
      BY <1>5, <1>1
    <2>3. ASSUME NEW k \in 1..n PROVE s[k + 1] = s[k] + lengths[k]
      <3>1. k + 1 \in 1..(n + 1) /\ k + 1 # 1 /\ (k + 1) - 1 = k OBVIOUS
      <3> QED BY <3>1, <2>1
    <2>4. s[1] = base
      <3>1. 1 \in 1..(n + 1) OBVIOUS
      <3> QED BY <3>1, <2>1
    <2> QED BY <2>2, <2>3, <2>4
  <1> DEFINE Wrong == {k \in 1..(n + 1) : s[k] \notin Nat}
  <1>7. Wrong = {}
    <2>1. SUFFICES ASSUME Wrong # {} PROVE FALSE OBVIOUS
    <2>2. Wrong \in SUBSET Nat OBVIOUS
    <2>3. PICK k \in Wrong : \A y \in Wrong : k <= y
      BY <2>1, <2>2, LeastNumber
    <2>4. k \in 1..(n + 1) /\ s[k] \notin Nat OBVIOUS
    <2>5. k # 1 BY <2>4, <1>6
    <2>6. k - 1 \in 1..n /\ k - 1 \notin Wrong /\ (k - 1) + 1 = k
      BY <2>3, <2>4, <2>5
    <2>7. s[k - 1] \in Nat /\ lengths[k - 1] \in Nat BY <2>6
    <2>8. s[k] = s[k - 1] + lengths[k - 1] BY <1>6, <2>6
    <2> QED BY <2>4, <2>7, <2>8
  <1>8. \A k \in 1..(n + 1) : s[k] \in Nat BY <1>7
  <1>9. s \in [1..(n + 1) -> Nat] BY <1>6, <1>8
  <1> QED BY <1>6, <1>9 DEF s

\* They never go back.
LEMMA SumsOrdered ==
  ASSUME NEW n \in Nat, NEW s \in [1..(n + 1) -> Nat],
         \A k \in 1..n : s[k] <= s[k + 1]
  PROVE  \A i \in 1..(n + 1) : \A j \in i..(n + 1) : s[i] <= s[j]
  <1> SUFFICES ASSUME NEW i \in 1..(n + 1)
               PROVE  \A j \in i..(n + 1) : s[i] <= s[j]
    OBVIOUS
  <1> DEFINE Bad == {j \in i..(n + 1) : ~(s[i] <= s[j])}
  <1>1. SUFFICES ASSUME Bad # {} PROVE FALSE OBVIOUS
  <1>2. Bad \in SUBSET Nat OBVIOUS
  <1>3. PICK j \in Bad : \A y \in Bad : j <= y BY <1>1, <1>2, LeastNumber
  <1>4. j \in i..(n + 1) /\ ~(s[i] <= s[j]) OBVIOUS
  <1>5. j # i BY <1>4
  <1>6. j - 1 \in i..(n + 1) /\ j - 1 \in 1..n /\ j - 1 \notin Bad
        /\ (j - 1) + 1 = j
    BY <1>3, <1>4, <1>5
  <1>7. s[i] <= s[j - 1] BY <1>6
  <1>8. s[j - 1] <= s[j] BY <1>6
  <1>9. s[i] \in Nat /\ s[j] \in Nat /\ s[j - 1] \in Nat BY <1>4, <1>6
  <1> QED BY <1>4, <1>7, <1>8, <1>9

\* A place is in one step only.
LEMMA SumsOnce ==
  ASSUME NEW n \in Nat, NEW s \in [1..(n + 1) -> Nat],
         \A k \in 1..n : s[k] <= s[k + 1],
         NEW p \in Nat, NEW j \in 1..n, NEW k \in 1..n,
         s[j] <= p, p < s[j + 1], s[k] <= p, p < s[k + 1]
  PROVE  j = k
  <1>1. \A a \in 1..(n + 1) : \A b \in a..(n + 1) : s[a] <= s[b]
    BY SumsOrdered
  <1>2. CASE j < k
    <2>1. j + 1 \in 1..(n + 1) /\ k \in (j + 1)..(n + 1) BY <1>2
    <2>2. s[j + 1] <= s[k] /\ s[j + 1] \in Nat /\ s[k] \in Nat BY <2>1, <1>1
    <2> QED BY <2>2
  <1>3. CASE k < j
    <2>1. k + 1 \in 1..(n + 1) /\ j \in (k + 1)..(n + 1) BY <1>3
    <2>2. s[k + 1] <= s[j] /\ s[k + 1] \in Nat /\ s[j] \in Nat BY <2>1, <1>1
    <2> QED BY <2>2
  <1> QED BY <1>2, <1>3

-----------------------------------------------------------------------------
(* The file and what it stands for.                                        *)

\* An image has its chunks, a CRC chunk no blocks and every other some.
LEMMA ImageHas ==
  ASSUME img \in Image
  PROVE  /\ Len(img.chunks) \in Nat
         /\ DOMAIN img.chunks = 1..Len(img.chunks)
         /\ img.blk_sz \in Nat \ {0} /\ img.blk_sz % Block = 0
         /\ \A k \in 1..Len(img.chunks) :
              /\ img.chunks[k].type \in Type /\ img.chunks[k].blocks \in Nat
              /\ img.chunks[k].blocks = 0 <=> img.chunks[k].type = "CRC"
  <1>1. PICK n \in 0..MaxChunks : img.chunks \in [1..n -> Chunk]
    BY DEF Image
  <1>2. n \in Nat BY UnsparseAssumption
  <1>3. Len(img.chunks) = n /\ DOMAIN img.chunks = 1..n BY <1>1, <1>2
  <1>4. img.blk_sz \in BlockSizes
        /\ \A k \in 1..n : img.chunks[k].blocks = 0 <=> img.chunks[k].type = "CRC"
    BY <1>3 DEF Image
  <1>5. ASSUME NEW k \in 1..n
        PROVE  img.chunks[k].type \in Type /\ img.chunks[k].blocks \in Nat
    <2>1. img.chunks[k] \in Chunk BY <1>1
    <2>2. 0..MaxBlocks \subseteq Nat BY UnsparseAssumption
    <2> QED BY <2>1, <2>2 DEF Chunk
  <1>6. img.blk_sz \in Nat \ {0} /\ img.blk_sz % Block = 0
    BY <1>4, UnsparseAssumption
  <1> QED BY <1>2, <1>3, <1>4, <1>5, <1>6

LEMMA MultiplesOf ==
  ASSUME NEW unit \in Nat \ {0}, NEW a \in Int
  PROVE  a % unit = 0 <=> \E q \in Int : a = q * unit
  <1> DEFINE p == a \div unit
             r == a % unit
  <1>1. a = p * unit + r /\ r \in 0..(unit - 1) /\ p \in Int OBVIOUS
  <1>2. \A i, j \in Int : \A s, t \in 0..(unit - 1) :
          i * unit + s = j * unit + t => s = t
    OBVIOUS
  <1> HIDE DEF p, r
  <1>3. ASSUME r = 0 PROVE \E q \in Int : a = q * unit
    <2>1. a = p * unit BY <1>1, <1>3
    <2> QED BY <1>1, <2>1
  <1>4. ASSUME NEW q \in Int, a = q * unit PROVE r = 0
    <2>1. q * unit + 0 = p * unit + r /\ 0 \in 0..(unit - 1)
      BY <1>1, <1>4
    <2> QED BY <2>1, <1>1, <1>2
  <1>5. r = 0 <=> \E q \in Int : a = q * unit BY <1>3, <1>4
  <1> QED BY <1>5 DEF r

\* What is whole blocks.
LEMMA BlocksOf ==
  ASSUME NEW a \in Int
  PROVE  a % Block = 0 <=> \E q \in Int : a = q * Block
  BY UnsparseAssumption, MultiplesOf

LEMMA BlocksTimes ==
  ASSUME NEW a \in Nat, NEW b \in Nat, b % Block = 0
  PROVE  a * b \in Nat /\ (a * b) % Block = 0
  <1>1. Block \in Nat \ {0} BY UnsparseAssumption
  <1>2. PICK q \in Int : b = q * Block BY BlocksOf
  <1>3. a * b = (a * q) * Block /\ a * q \in Int BY <1>1, <1>2
  <1>4. a * b \in Nat OBVIOUS
  <1> QED BY <1>3, <1>4, BlocksOf

LEMMA BlocksPlus ==
  ASSUME NEW a \in Nat, NEW b \in Nat, a % Block = 0, b % Block = 0
  PROVE  (a + b) % Block = 0 /\ (a - b) % Block = 0
  <1>1. Block \in Nat \ {0} BY UnsparseAssumption
  <1>2. PICK q \in Int : a = q * Block BY BlocksOf
  <1>3. PICK r \in Int : b = r * Block BY BlocksOf
  <1>4. a + b = (q + r) * Block /\ a - b = (q - r) * Block
    BY <1>1, <1>2, <1>3
  <1>5. a + b \in Int /\ a - b \in Int /\ q + r \in Int /\ q - r \in Int
    OBVIOUS
  <1> QED BY <1>4, <1>5, BlocksOf

\* Whole caches of filling are whole blocks.
LEMMA CachesAreBlocks ==
  ASSUME NEW a \in Nat, a % FillCache = 0
  PROVE  a % Block = 0
  <1>1. FillCache \in Nat \ {0} /\ Block \in Nat \ {0} /\ FillCache % Block = 0
    BY UnsparseAssumption
  <1>2. PICK q \in Int : a = q * FillCache BY <1>1, MultiplesOf
  <1>3. q \in Nat BY <1>1, <1>2
  <1> QED BY <1>1, <1>2, <1>3, BlocksTimes

\* The whole blocks of a length.
LEMMA WholeBlocksOf ==
  ASSUME NEW a \in Nat
  PROVE  /\ whole_blocks(a) \in Nat /\ whole_blocks(a) <= a
         /\ whole_blocks(a) % Block = 0
         /\ whole_blocks(a) = 0 => a < Block
  <1> DEFINE p == a \div Block
             r == a % Block
  <1>1. Block \in Nat \ {0} BY UnsparseAssumption
  <1>2. a = p * Block + r /\ r \in 0..(Block - 1) /\ p \in Nat BY <1>1
  <1>3. whole_blocks(a) = p * Block BY DEF whole_blocks
  <1> HIDE DEF p, r
  <1>4. p * Block \in Nat BY <1>1, <1>2
  <1>5. (p * Block) % Block = 0 BY <1>2, <1>4, BlocksOf
  <1> QED BY <1>1, <1>2, <1>3, <1>4, <1>5

LEMMA SizeIsBlocks ==
  ASSUME img \in Image, NEW k \in 1..Len(img.chunks)
  PROVE  /\ Size(k) \in Nat /\ DataWords(k) \in Nat /\ Size(k) % Block = 0
         /\ Size(k) = 0 <=> img.chunks[k].type = "CRC"
  <1> DEFINE a == img.chunks[k].blocks
             b == img.blk_sz
  <1>1. a \in Nat /\ b \in Nat \ {0} /\ b % Block = 0
        /\ (a = 0 <=> img.chunks[k].type = "CRC")
    BY ImageHas
  <1>2. Size(k) = a * b BY DEF Size
  <1> HIDE DEF a, b
  <1>3. a * b \in Nat /\ (a * b) % Block = 0 BY <1>1, BlocksTimes
  <1>4. a * b = 0 <=> a = 0 BY <1>1
  <1>5. DataWords(k) \in Nat BY <1>2, <1>3 DEF DataWords
  <1> QED BY <1>1, <1>2, <1>3, <1>4, <1>5

\* Where the chunks are.
LEMMA Places ==
  ASSUME img \in Image
  PROVE  LET n == Len(img.chunks) IN
         /\ HeaderAt \in [1..(n + 1) -> Nat] /\ HeaderAt[1] = FileHeader + 1
         /\ \A k \in 1..n :
              HeaderAt[k + 1] = HeaderAt[k] + ChunkHeader + DataWords(k)
         /\ PlaceOf \in [1..(n + 1) -> Nat] /\ PlaceOf[1] = 0
         /\ \A k \in 1..n : PlaceOf[k + 1] = PlaceOf[k] + Size(k)
  <1> DEFINE n == Len(img.chunks)
             h == [k \in DOMAIN img.chunks |-> ChunkHeader + DataWords(k)]
             p == [k \in DOMAIN img.chunks |-> Size(k)]
  <1>1. n \in Nat /\ DOMAIN img.chunks = 1..n BY ImageHas
  <1>2. h \in [1..n -> Nat] /\ \A k \in 1..n : h[k] = ChunkHeader + DataWords(k)
    BY <1>1, SizeIsBlocks, UnsparseAssumption
  <1>3. p \in [1..n -> Nat] /\ \A k \in 1..n : p[k] = Size(k)
    BY <1>1, SizeIsBlocks
  <1>4. FileHeader + 1 \in Nat BY UnsparseAssumption
  <1>5. HeaderAt = Sums(FileHeader + 1, h) /\ PlaceOf = Sums(0, p)
    BY DEF HeaderAt, PlaceOf
  <1> HIDE DEF n, h, p
  <1>6. /\ HeaderAt \in [1..(n + 1) -> Nat] /\ HeaderAt[1] = FileHeader + 1
        /\ \A k \in 1..n : HeaderAt[k + 1] = HeaderAt[k] + h[k]
    <2> DEFINE base == FileHeader + 1
    <2>1. h \in [1..n -> Nat] /\ base \in Nat /\ HeaderAt = Sums(base, h)
      BY <1>2, <1>4, <1>5
    <2> HIDE DEF base
    <2>2. /\ Sums(base, h) \in [1..(n + 1) -> Nat] /\ Sums(base, h)[1] = base
          /\ \A k \in 1..n : Sums(base, h)[k + 1] = Sums(base, h)[k] + h[k]
      BY <2>1, <1>1, SumsStep, Zenon
    <2>3. /\ HeaderAt \in [1..(n + 1) -> Nat] /\ HeaderAt[1] = base
          /\ \A k \in 1..n : HeaderAt[k + 1] = HeaderAt[k] + h[k]
      BY <2>1, <2>2, Zenon
    <2> QED BY <2>3 DEF base
  <1>7. /\ PlaceOf \in [1..(n + 1) -> Nat] /\ PlaceOf[1] = 0
        /\ \A k \in 1..n : PlaceOf[k + 1] = PlaceOf[k] + p[k]
    <2>1. p \in [1..n -> Nat] /\ 0 \in Nat BY <1>3
    <2>2. /\ Sums(0, p) \in [1..(n + 1) -> Nat] /\ Sums(0, p)[1] = 0
          /\ \A k \in 1..n : Sums(0, p)[k + 1] = Sums(0, p)[k] + p[k]
      BY <2>1, <1>1, SumsStep, Zenon
    <2> QED BY <2>2, <1>5, Zenon
  <1>8. \A k \in 1..n :
          HeaderAt[k + 1] = HeaderAt[k] + ChunkHeader + DataWords(k)
    <2> TAKE k \in 1..n
    <2>1. HeaderAt[k] \in Nat /\ ChunkHeader \in Nat
      BY <1>1, <1>6, UnsparseAssumption
    <2>2. DataWords(k) \in Nat BY SizeIsBlocks DEF n
    <2> QED BY <2>1, <2>2, <1>2, <1>6
  <1>9. \A k \in 1..n : PlaceOf[k + 1] = PlaceOf[k] + Size(k)
    BY <1>3, <1>7
  <1> QED BY <1>6, <1>7, <1>8, <1>9 DEF n

LEMMA PlacesInOrder ==
  ASSUME img \in Image
  PROVE  LET n == Len(img.chunks) IN
         /\ \A k \in 1..n :
              HeaderAt[k] <= HeaderAt[k + 1] /\ PlaceOf[k] <= PlaceOf[k + 1]
         /\ \A i \in 1..(n + 1) : \A j \in i..(n + 1) :
              HeaderAt[i] <= HeaderAt[j] /\ PlaceOf[i] <= PlaceOf[j]
  <1> DEFINE n == Len(img.chunks)
  <1>1. n \in Nat BY ImageHas
  <1>2. HeaderAt \in [1..(n + 1) -> Nat] /\ PlaceOf \in [1..(n + 1) -> Nat]
    BY Places
  <1>3. ASSUME NEW k \in 1..n
        PROVE  HeaderAt[k] <= HeaderAt[k + 1] /\ PlaceOf[k] <= PlaceOf[k + 1]
    <2>1. /\ HeaderAt[k + 1] = HeaderAt[k] + ChunkHeader + DataWords(k)
          /\ PlaceOf[k + 1] = PlaceOf[k] + Size(k)
      BY Places
    <2>2. DataWords(k) \in Nat /\ Size(k) \in Nat /\ ChunkHeader \in Nat
      BY SizeIsBlocks, UnsparseAssumption
    <2>3. HeaderAt[k] \in Nat /\ PlaceOf[k] \in Nat BY <1>1, <1>2
    <2> QED BY <2>1, <2>2, <2>3
  <1> HIDE DEF n
  <1>4. \A i \in 1..(n + 1) : \A j \in i..(n + 1) : HeaderAt[i] <= HeaderAt[j]
    BY <1>1, <1>2, <1>3, SumsOrdered
  <1>5. \A i \in 1..(n + 1) : \A j \in i..(n + 1) : PlaceOf[i] <= PlaceOf[j]
    BY <1>1, <1>2, <1>3, SumsOrdered
  <1> QED BY <1>3, <1>4, <1>5 DEF n

LEMMA PlacesAreBlocks ==
  ASSUME img \in Image
  PROVE  \A k \in 1..(Len(img.chunks) + 1) : PlaceOf[k] % Block = 0
  <1> DEFINE n == Len(img.chunks)
             Bad == {k \in 1..(n + 1) : PlaceOf[k] % Block # 0}
  <1>1. SUFFICES ASSUME Bad # {} PROVE FALSE OBVIOUS
  <1>2. Bad \in SUBSET Nat OBVIOUS
  <1>3. PICK k \in Bad : \A y \in Bad : k <= y BY <1>1, <1>2, LeastNumber
  <1>4. k \in 1..(n + 1) /\ PlaceOf[k] % Block # 0 OBVIOUS
  <1>5. n \in Nat /\ PlaceOf \in [1..(n + 1) -> Nat] BY ImageHas, Places
  <1>6. k # 1
    <2>1. PlaceOf[1] = 0 /\ 0 % Block = 0 BY Places, UnsparseAssumption
    <2> QED BY <2>1, <1>4
  <1>7. k - 1 \in 1..n /\ k - 1 < k /\ (k - 1) + 1 = k BY <1>4, <1>5, <1>6
  <1>8. k - 1 \notin Bad
    <2> HIDE DEF Bad
    <2> QED BY <1>2, <1>3, <1>7
  <1>9. PlaceOf[k - 1] % Block = 0 /\ PlaceOf[k - 1] \in Nat
    BY <1>5, <1>7, <1>8
  <1>10. PlaceOf[k] = PlaceOf[k - 1] + Size(k - 1) BY <1>7, Places
  <1>11. Size(k - 1) \in Nat /\ Size(k - 1) % Block = 0 BY <1>7, SizeIsBlocks
  <1> QED BY <1>4, <1>9, <1>10, <1>11, BlocksPlus

\* The chunk of a place is the one it lies in.
LEMMA ChunkOfWord ==
  ASSUME img \in Image, NEW k \in 1..Len(img.chunks),
         NEW p \in Nat, HeaderAt[k] <= p, p < HeaderAt[k + 1]
  PROVE  ChunkAt(HeaderAt, p) = k
  <1> DEFINE n == Len(img.chunks)
  <1>1. n \in Nat /\ DOMAIN img.chunks = 1..n
        /\ HeaderAt \in [1..(n + 1) -> Nat]
        /\ \A j \in 1..n : HeaderAt[j] <= HeaderAt[j + 1]
    BY ImageHas, Places, PlacesInOrder
  <1> HIDE DEF n
  <1>2. k \in 1..n BY DEF n
  <1>3. \A j \in 1..n : HeaderAt[j] <= p /\ p < HeaderAt[j + 1] => j = k
    BY <1>1, <1>2, SumsOnce
  <1> QED BY <1>1, <1>2, <1>3 DEF ChunkAt

LEMMA ChunkOfPlace ==
  ASSUME img \in Image, NEW k \in 1..Len(img.chunks),
         NEW p \in Nat, PlaceOf[k] <= p, p < PlaceOf[k + 1]
  PROVE  ChunkAt(PlaceOf, p) = k
  <1> DEFINE n == Len(img.chunks)
  <1>1. n \in Nat /\ DOMAIN img.chunks = 1..n
        /\ PlaceOf \in [1..(n + 1) -> Nat]
        /\ \A j \in 1..n : PlaceOf[j] <= PlaceOf[j + 1]
    BY ImageHas, Places, PlacesInOrder
  <1> HIDE DEF n
  <1>2. k \in 1..n BY DEF n
  <1>3. \A j \in 1..n : PlaceOf[j] <= p /\ p < PlaceOf[j + 1] => j = k
    BY <1>1, <1>2, SumsOnce
  <1> QED BY <1>1, <1>2, <1>3 DEF ChunkAt

FileWord == {File[p] : p \in DOMAIN File}

\* The file ends with its last chunk.
LEMMA FileIsSeq ==
  ASSUME img \in Image
  PROVE  /\ File \in Seq(FileWord)
         /\ Len(File) = HeaderAt[Len(img.chunks) + 1] - 1
         /\ Len(File) \in Nat /\ FileHeader <= Len(File)
  <1> DEFINE n == Len(img.chunks)
             end == HeaderAt[n + 1] - 1
  <1>1. n \in Nat /\ HeaderAt \in [1..(n + 1) -> Nat]
        /\ HeaderAt[1] = FileHeader + 1 /\ HeaderAt[1] <= HeaderAt[n + 1]
    <2>1. n \in Nat BY ImageHas
    <2>2. 1 \in 1..(n + 1) /\ n + 1 \in 1..(n + 1) BY <2>1
    <2> QED BY <2>1, <2>2, Places, PlacesInOrder
  <1>2. end \in Nat /\ FileHeader <= end BY <1>1, UnsparseAssumption
  <1>3. DOMAIN File = 1..end /\ File = [p \in 1..end |-> File[p]]
    BY DEF File
  <1> HIDE DEF end
  <1>4. File \in [1..end -> FileWord] BY <1>3 DEF FileWord
  <1>5. File \in Seq(FileWord) /\ Len(File) = end BY <1>2, <1>4
  <1> QED BY <1>2, <1>5 DEF end

\* What the words of a chunk are.
LEMMA FileWords ==
  ASSUME img \in Image, NEW k \in 1..Len(img.chunks)
  PROVE  /\ HeaderAt[k] \in Nat /\ HeaderAt[k + 1] - 1 <= Len(File)
         /\ \A j \in 1..ChunkHeader :
              File[HeaderAt[k] + j - 1] = Word("chunk", k, j)
         /\ \A j \in 1..DataWords(k) :
              File[HeaderAt[k] + ChunkHeader + j - 1] = Word("data", k, j)
  <1> DEFINE n == Len(img.chunks)
             end == HeaderAt[n + 1] - 1
             a == HeaderAt[k]
             b == HeaderAt[k + 1]
  <1>1. n \in Nat /\ k \in 1..n /\ k + 1 \in 1..(n + 1) /\ n + 1 \in 1..(n + 1)
    BY ImageHas
  <1>2. a \in Nat /\ b \in Nat /\ end + 1 \in Nat /\ Len(File) = end
        /\ b <= end + 1 /\ FileHeader < a
        /\ b = a + ChunkHeader + DataWords(k)
    <2>1. HeaderAt \in [1..(n + 1) -> Nat] BY Places
    <2>2. HeaderAt[1] = FileHeader + 1 BY Places
    <2>3. HeaderAt[1] <= a /\ b <= HeaderAt[n + 1]
      <3>1. 1 \in 1..(n + 1) /\ k \in 1..(n + 1) /\ k \in 1..(n + 1)
            /\ n + 1 \in (k + 1)..(n + 1)
        BY <1>1
      <3> QED BY <3>1, <1>1, PlacesInOrder
    <2>4. a \in Nat /\ b \in Nat /\ end + 1 \in Nat
      <3> DEFINE z == HeaderAt[n + 1]
      <3>1. a \in Nat /\ b \in Nat /\ z \in Nat
        <4> HIDE DEF n
        <4> QED BY <1>1, <2>1
      <3>2. end = z - 1 OBVIOUS
      <3> HIDE DEF end, z
      <3>3. end + 1 \in Nat BY <3>1, <3>2
      <3> QED BY <3>1, <3>3
    <2>5. Len(File) = end BY FileIsSeq
    <2>6. b = a + ChunkHeader + DataWords(k) BY Places
    <2>7. HeaderAt[n + 1] = end + 1 BY <2>1, <1>1
    <2>8. FileHeader \in Nat BY UnsparseAssumption
    <2> HIDE DEF n, end, a, b
    <2> QED BY <2>2, <2>3, <2>4, <2>5, <2>6, <2>7, <2>8
  <1>3. ASSUME NEW p \in Nat, a <= p, p < b
        PROVE  File[p] = IF p - a + 1 <= ChunkHeader
                         THEN Word("chunk", k, p - a + 1)
                         ELSE Word("data", k, (p - a + 1) - ChunkHeader)
    <2>1. ChunkAt(HeaderAt, p) = k BY <1>3, ChunkOfWord
    <2>2. p \in 1..end /\ ~(p <= FileHeader)
      <3>1. /\ a \in Nat /\ b \in Nat /\ end \in Nat /\ FileHeader \in Nat
            /\ b <= end + 1 /\ FileHeader < a
        BY <1>2, UnsparseAssumption
      <3>2. p \in Nat /\ a <= p /\ p < b BY <1>3
      <3> HIDE DEF n, end, a, b
      <3> QED BY <3>1, <3>2
    <2>3. File[p] =
            IF p <= FileHeader THEN Word("file", 0, p)
            ELSE IF p - HeaderAt[ChunkAt(HeaderAt, p)] + 1 <= ChunkHeader
            THEN Word("chunk", ChunkAt(HeaderAt, p),
                      p - HeaderAt[ChunkAt(HeaderAt, p)] + 1)
            ELSE Word("data", ChunkAt(HeaderAt, p),
                      (p - HeaderAt[ChunkAt(HeaderAt, p)] + 1) - ChunkHeader)
      BY <2>2 DEF File
    <2> HIDE DEF end
    <2> QED BY <2>1, <2>2, <2>3
  <1>4. ChunkHeader \in Nat /\ DataWords(k) \in Nat
    BY SizeIsBlocks, UnsparseAssumption
  <1> HIDE DEF n, end, a, b
  <1>5. ASSUME NEW j \in 1..ChunkHeader
        PROVE  File[a + j - 1] = Word("chunk", k, j)
    <2> DEFINE p == a + j - 1
    <2>1. p \in Nat /\ a <= p /\ p < b /\ p - a + 1 = j /\ j <= ChunkHeader
      BY <1>2, <1>4
    <2> HIDE DEF p
    <2>2. File[p] = Word("chunk", k, j) BY <2>1, <1>3
    <2> QED BY <2>2 DEF p
  <1>6. ASSUME NEW j \in 1..DataWords(k)
        PROVE  File[a + ChunkHeader + j - 1] = Word("data", k, j)
    <2> DEFINE p == a + ChunkHeader + j - 1
    <2>1. p \in Nat /\ a <= p /\ p < b /\ ~(p - a + 1 <= ChunkHeader)
          /\ (p - a + 1) - ChunkHeader = j
      BY <1>2, <1>4
    <2> HIDE DEF p
    <2>2. File[p] = Word("data", k, j) BY <2>1, <1>3
    <2> QED BY <2>2 DEF p
  <1>7. b - 1 <= Len(File) BY <1>2
  <1> QED BY <1>2, <1>5, <1>6, <1>7 DEF a, b

\* What the eMMC is to hold at the places of a chunk.
LEMMA UnsparsedWords ==
  ASSUME img \in Image, NEW k \in 1..Len(img.chunks),
         NEW p \in Nat, PlaceOf[k] <= p, p < PlaceOf[k + 1]
  PROVE  /\ p \in DOMAIN Unsparsed <=> img.chunks[k].type \in {"RAW", "FILL"}
         /\ img.chunks[k].type = "RAW" =>
              Unsparsed[p] = Word("data", k, p - PlaceOf[k] + 1)
         /\ img.chunks[k].type = "FILL" => Unsparsed[p] = Word("data", k, 1)
  <1> DEFINE n == Len(img.chunks)
             end == PlaceOf[n + 1] - 1
  <1>1. ChunkAt(PlaceOf, p) = k BY ChunkOfPlace
  <1>2. p \in 0..end
    <2>1. n \in Nat /\ k + 1 \in 1..(n + 1) /\ n + 1 \in (k + 1)..(n + 1)
          /\ n + 1 \in 1..(n + 1)
      BY ImageHas
    <2>2. PlaceOf \in [1..(n + 1) -> Nat] BY Places
    <2>3. PlaceOf[k + 1] \in Nat /\ PlaceOf[n + 1] \in Nat BY <2>1, <2>2
    <2>4. PlaceOf[k + 1] <= PlaceOf[n + 1] BY <2>1, PlacesInOrder
    <2> QED BY <2>3, <2>4
  <1> HIDE DEF end
  <1>3. Unsparsed =
          [q \in {q \in 0..end : img.chunks[ChunkAt(PlaceOf, q)].type
                                   \in {"RAW", "FILL"}} |->
             Word("data", ChunkAt(PlaceOf, q),
                  IF img.chunks[ChunkAt(PlaceOf, q)].type = "FILL" THEN 1
                  ELSE q - PlaceOf[ChunkAt(PlaceOf, q)] + 1)]
    BY DEF Unsparsed, end
  <1> QED BY <1>1, <1>2, <1>3

LEMMA UnsparsedPlaces ==
  ASSUME img \in Image
  PROVE  /\ DOMAIN Unsparsed \subseteq 0..(PlaceOf[Len(img.chunks) + 1] - 1)
         /\ PlaceOf[Len(img.chunks) + 1] \in Nat
         /\ Unsparsed = [p \in DOMAIN Unsparsed |-> Unsparsed[p]]
  <1> DEFINE n == Len(img.chunks)
  <1>1. n \in Nat /\ PlaceOf \in [1..(n + 1) -> Nat] BY ImageHas, Places
  <1>2. DOMAIN Unsparsed \subseteq 0..(PlaceOf[n + 1] - 1) BY DEF Unsparsed
  <1>3. Unsparsed = [p \in DOMAIN Unsparsed |-> Unsparsed[p]] BY DEF Unsparsed
  <1> QED BY <1>1, <1>2, <1>3

\* An image that does not change stays what it is.
LEMMA ImageStays ==
  ASSUME img' = img
  PROVE  /\ File' = File /\ Unsparsed' = Unsparsed
         /\ HeaderAt' = HeaderAt /\ PlaceOf' = PlaceOf
         /\ \A k : Size(k)' = Size(k)
  <1>1. /\ \A k : Size(k)' = Size(k) /\ DataWords(k)' = DataWords(k)
        /\ DOMAIN img'.chunks = DOMAIN img.chunks
        /\ img'.chunks = img.chunks
    BY DEF Size, DataWords
  <1>2. HeaderAt' = HeaderAt /\ PlaceOf' = PlaceOf
    BY DEF HeaderAt, PlaceOf, Sums, Size, DataWords
  <1>3. \A s, p : ChunkAt(s, p)' = ChunkAt(s, p) BY <1>1 DEF ChunkAt
  <1>4. File' = File BY <1>1, <1>2, <1>3 DEF File
  <1>5. Unsparsed' = Unsparsed BY <1>1, <1>2, <1>3 DEF Unsparsed
  <1> QED BY <1>1, <1>2, <1>4, <1>5

-----------------------------------------------------------------------------
(* The invariant.                                                          *)

\* The sequence s is the end of the first r elements of f.
IsEnd(s, f, r) == Len(s) \in 0..r /\ s = SubSeq(f, r - Len(s) + 1, r)

\* Words of the file that the parser has taken.
Consumed == received - Len(padding) - Len(buf)

\* Every variable has its type, and the parser never gave up a header.
UnsparseTyped ==
  /\ img \in Image /\ package \in PackageSizes
  /\ received \in 0..Len(File)
  /\ wait_phase \in {"SPARSE_HEADER", "CHUNK_HEADER", "CHUNK_DATA",
                     "CHUNK_FILL", "CHUNK_CRC"}
  /\ handle_status \in {"STATUS_OK", "STATUS_SPARSE_INCOMPLETE",
                        "STATUS_EMMC_ERR"}
  /\ chunks_processed \in 0..Len(img.chunks)
  /\ chunk_remain_data_size \in Nat /\ image_address_offset \in Nat

\* What the parser has before it is the end of what has come.
StreamKept ==
  /\ IsEnd(buf, File, received) /\ IsEnd(padding, File, received)
  /\ padding # <<>> =>
       /\ buf = <<>> /\ handle_status = "STATUS_OK"
       /\ wait_phase = "CHUNK_DATA"
       /\ Len(padding) < Block /\ Len(padding) < chunk_remain_data_size
  /\ handle_status = "STATUS_SPARSE_INCOMPLETE" =>
       /\ buf # <<>> /\ wait_phase = "CHUNK_DATA"
       /\ Len(buf) < Block /\ Len(buf) < chunk_remain_data_size

\* Before the header of the file, all of which comes at once.
AtFileHeader ==
  /\ Consumed = 0 /\ chunks_processed = 0 /\ image_address_offset = 0
  /\ unhandle_buf = <<>> /\ handle_status = "STATUS_OK"
  /\ buf # <<>> => Len(buf) >= FileHeader

\* Before the header of the next chunk, of which a part may have been put
\* aside: then the rest of it comes with the next package.
AtChunkHeader ==
  LET start == HeaderAt[chunks_processed + 1]
  IN  /\ Len(unhandle_buf) \in 0..(ChunkHeader - 1)
      /\ Consumed = start - 1 + Len(unhandle_buf)
      /\ unhandle_buf = SubSeq(File, start, Consumed)
      /\ unhandle_buf # <<>> /\ buf # <<>> =>
           Len(buf) >= ChunkHeader - 1 \/ received = Len(File)
      /\ image_address_offset = PlaceOf[chunks_processed + 1]

\* In chunk of this type there is more to come.
InChunk(type, more) ==
  /\ unhandle_buf = <<>> /\ chunks_processed > 0
  /\ img.chunks[chunks_processed].type = type
  /\ Consumed = HeaderAt[chunks_processed + 1] - 1 - more
  /\ image_address_offset + chunk_remain_data_size = PlaceOf[chunks_processed + 1]
  /\ chunk_remain_data_size <= Size(chunks_processed)
  /\ chunk_remain_data_size % Block = 0

\* Where the parser is in the file, on the eMMC and in its chunk are one place.
Position ==
  /\ wait_phase = "SPARSE_HEADER" => AtFileHeader
  /\ wait_phase = "CHUNK_HEADER" => AtChunkHeader
  /\ wait_phase = "CHUNK_DATA" =>
       InChunk("RAW", chunk_remain_data_size) /\ chunk_remain_data_size > 0
  /\ wait_phase = "CHUNK_FILL" =>
       /\ InChunk("FILL", 1)
       /\ handle_status = "STATUS_OK" =>
            chunk_remain_data_size = Size(chunks_processed)
  /\ wait_phase = "CHUNK_CRC" => InChunk("CRC", 1)

\* The eMMC has the image up to the offset, and nothing behind it.
Placed ==
  disk = [p \in {p \in DOMAIN Unsparsed : p < image_address_offset} |->
            Unsparsed[p]]

\* The eMMC is written in whole blocks, and the next write starts at one.
Blocks == WholeBlocks /\ image_address_offset % Block = 0

\* The last header is the one of the chunk that is being worked on.
HeaderKept ==
  chunks_processed > 0 =>
    chunk_hdr = Words("chunk", chunks_processed, ChunkHeader)

\* The strengthening of UnsparseInv that every step keeps.
UnsparseIInv ==
  UnsparseTyped /\ StreamKept /\ Position /\ Placed /\ HeaderKept /\ Blocks

-----------------------------------------------------------------------------
(* The stream and the eMMC.                                                *)

\* The words of such an end.
LEMMA EndWords ==
  ASSUME NEW S, NEW f \in Seq(S), NEW r \in 0..Len(f), NEW s, IsEnd(s, f, r)
  PROVE  /\ s \in Seq(S) /\ Len(s) \in Nat
         /\ s = <<>> <=> Len(s) = 0
         /\ \A j \in 1..Len(s) : s[j] = f[r - Len(s) + j]
  <1> DEFINE m == Len(s)
             a == r - m + 1
  <1>1. m \in Nat /\ r \in Nat /\ m <= r /\ Len(f) \in Nat /\ r <= Len(f)
    BY DEF IsEnd
  <1>2. s = SubSeq(f, a, r) BY DEF IsEnd
  <1>3. a \in 1..(r + 1) /\ a + m = r + 1 BY <1>1
  <1> HIDE DEF a
  <1>4. \A j \in 1..m : a + j - 1 \in 1..Len(f) BY <1>1, <1>3
  <1>5. SubSeq(f, a, r) \in Seq(S)
        /\ \A j \in 1..m : SubSeq(f, a, r)[j] = f[a + j - 1]
    BY <1>1, <1>3, <1>4
  <1>6. \A j \in 1..m : a + j - 1 = r - m + j BY <1>1, <1>3
  <1>7. s = <<>> <=> m = 0
    <2>1. s \in Seq(S) BY <1>2, <1>5
    <2> QED BY <2>1, EmptySeq
  <1> QED BY <1>1, <1>2, <1>5, <1>6, <1>7

\* Words taken from its front leave the end of the same file.
LEMMA EndDropped ==
  ASSUME NEW S, NEW f \in Seq(S), NEW r \in 0..Len(f), NEW s, IsEnd(s, f, r),
         NEW n \in 0..Len(s)
  PROVE  /\ IsEnd(Drop(s, n), f, r) /\ Len(Drop(s, n)) = Len(s) - n
         /\ SubSeq(s, 1, n) \in Seq(S) /\ Len(SubSeq(s, 1, n)) = n
         /\ \A j \in 1..n : SubSeq(s, 1, n)[j] = f[r - Len(s) + j]
  <1>1. s \in Seq(S) /\ Len(s) \in Nat
        /\ \A j \in 1..Len(s) : s[j] = f[r - Len(s) + j]
    BY EndWords
  <1> DEFINE m == Len(s)
             d == SubSeq(s, n + 1, m)
             e == SubSeq(f, r - (m - n) + 1, r)
  <1>2. m \in Nat /\ n \in Nat /\ n <= m /\ r \in Nat /\ Len(f) \in Nat
        /\ r <= Len(f) /\ m <= r
    BY <1>1 DEF IsEnd
  <1>3. d \in Seq(S) /\ Len(d) = m - n
        /\ \A j \in 1..(m - n) : d[j] = s[n + j]
    <2>1. s \in Seq(S) /\ \A j \in 1..m : s[j] \in S BY <1>1
    <2> HIDE DEF m
    <2> QED BY <2>1, <1>2, SubSeqProperties
  <1>4. e \in Seq(S) /\ Len(e) = m - n
        /\ \A j \in 1..(m - n) : e[j] = f[r - (m - n) + j]
    <2> DEFINE a == r - (m - n) + 1
    <2>1. a \in 1..(r + 1) /\ r = a + (m - n) - 1 BY <1>2
    <2>2. \A j \in 1..(m - n) : a + j - 1 = r - (m - n) + j BY <2>1, <1>2
    <2>3. \A j \in 1..Len(f) : f[j] \in S OBVIOUS
    <2> HIDE DEF a
    <2>4. SubSeq(f, a, r) \in Seq(S) /\ Len(SubSeq(f, a, r)) = m - n
          /\ \A j \in 1..(m - n) : SubSeq(f, a, r)[j] = f[a + j - 1]
      BY <2>1, <2>3, <1>2
    <2> QED BY <2>2, <2>4 DEF a
  <1>5. \A j \in 1..(m - n) : d[j] = e[j]
    <2> TAKE j \in 1..(m - n)
    <2>1. n + j \in 1..m /\ r - m + (n + j) = r - (m - n) + j BY <1>2
    <2>2. d[j] = s[n + j] /\ e[j] = f[r - (m - n) + j] BY <1>3, <1>4
    <2>3. s[n + j] = f[r - m + (n + j)] BY <1>1, <2>1
    <2> HIDE DEF m, d, e
    <2> QED BY <2>1, <2>2, <2>3
  <1> HIDE DEF d, e
  <1>6. d = e BY <1>3, <1>4, <1>5, SeqEqual
  <1>7. IsEnd(d, f, r)
    <2>1. Len(d) \in 0..r /\ r - Len(d) + 1 = r - (m - n) + 1 BY <1>2, <1>3
    <2> QED BY <2>1, <1>6 DEF IsEnd, e
  <1>8. Drop(s, n) = d BY DEF Drop, d
  <1>9. SubSeq(s, 1, n) \in Seq(S) /\ Len(SubSeq(s, 1, n)) = n
        /\ \A j \in 1..n : SubSeq(s, 1, n)[j] = s[j]
    <2>1. \A j \in 1..n : s[j] \in S BY <1>1, <1>2
    <2> QED BY <2>1, <1>1, <1>2
  <1>10. \A j \in 1..n : SubSeq(s, 1, n)[j] = f[r - m + j]
    <2>1. 1..n \subseteq 1..m BY <1>2
    <2> QED BY <2>1, <1>1, <1>9
  <1> QED BY <1>3, <1>7, <1>8, <1>9, <1>10

\* What comes next in the file goes behind it.
LEMMA EndGrown ==
  ASSUME NEW S, NEW f \in Seq(S), NEW r \in 0..Len(f), NEW s, IsEnd(s, f, r),
         NEW q \in r..Len(f)
  PROVE  /\ IsEnd(s \o SubSeq(f, r + 1, q), f, q)
         /\ Len(s \o SubSeq(f, r + 1, q)) = Len(s) + (q - r)
  <1> DEFINE m == Len(s)
             t == SubSeq(f, r + 1, q)
             a == r - m + 1
  <1>1. m \in Nat /\ r \in Nat /\ m <= r /\ Len(f) \in Nat /\ q \in Nat
        /\ r <= q /\ q <= Len(f)
    BY DEF IsEnd
  <1>2. s = SubSeq(f, a, r) BY DEF IsEnd
  <1>3. a \in 1..(Len(f) + 1) /\ r \in (a - 1)..Len(f) /\ q \in r..Len(f)
    BY <1>1
  <1> HIDE DEF a
  <1>4. SubSeq(f, a, r) \o SubSeq(f, r + 1, q) = SubSeq(f, a, q)
    BY <1>3, ConcatAdjacentSubSeq
  <1>5. s \o t = SubSeq(f, a, q) BY <1>2, <1>4
  <1>6. Len(s \o t) = m + (q - r)
    <2>1. \A j \in 1..Len(f) : f[j] \in S OBVIOUS
    <2>2. t \in Seq(S) /\ Len(t) = q - r BY <1>1, <2>1
    <2>3. s \in Seq(S) BY EndWords
    <2> QED BY <2>2, <2>3
  <1>7. q - Len(s \o t) + 1 = a /\ Len(s \o t) \in 0..q
    <2>1. Len(s \o t) = m + (q - r) BY <1>6
    <2> HIDE DEF m, t
    <2> QED BY <2>1, <1>1 DEF a
  <1> QED BY <1>5, <1>6, <1>7 DEF IsEnd

\* Nothing is an end too.
LEMMA EmptyEnd ==
  ASSUME NEW S, NEW f \in Seq(S), NEW r \in 0..Len(f)
  PROVE  IsEnd(<<>>, f, r) /\ Len(<<>>) = 0
  <1>1. SubSeq(f, r + 1, r) = <<>> /\ Len(<<>>) = 0 /\ r \in Nat
    OBVIOUS
  <1> QED BY <1>1 DEF IsEnd

\* A write within a chunk extends what has been placed.
LEMMA WritePlaces ==
  ASSUME img \in Image, img' = img, Placed, image_address_offset \in Nat,
         NEW S, NEW data \in Seq(S), emmc_write(data),
         NEW k \in 1..Len(img.chunks),
         PlaceOf[k] <= image_address_offset,
         image_address_offset + Len(data) <= PlaceOf[k + 1],
         \/ /\ img.chunks[k].type = "RAW"
            /\ \A j \in 1..Len(data) :
                 data[j] = Word("data", k, image_address_offset - PlaceOf[k] + j)
         \/ /\ img.chunks[k].type = "FILL"
            /\ \A j \in 1..Len(data) : data[j] = Word("data", k, 1)
  PROVE  Placed'
  <1> DEFINE o == image_address_offset
             len == Len(data)
             D == DOMAIN Unsparsed
             new == o..(o + len - 1)
             start == PlaceOf[k]
  <1>1. o \in Nat /\ len \in Nat /\ start \in Nat /\ PlaceOf[k + 1] \in Nat
    <2>1. PlaceOf \in [1..(Len(img.chunks) + 1) -> Nat]
          /\ k \in 1..(Len(img.chunks) + 1) /\ k + 1 \in 1..(Len(img.chunks) + 1)
      BY Places, ImageHas
    <2> QED BY <2>1
  <1>2. D \subseteq Nat BY UnsparsedPlaces
  <1>3. /\ image_address_offset' = o + len
        /\ disk' = [p \in DOMAIN disk \cup new |->
                      IF p \in new THEN data[p - o + 1] ELSE disk[p]]
    BY DEF emmc_write
  <1>4. ASSUME NEW p \in new PROVE p \in D /\ data[p - o + 1] = Unsparsed[p]
    <2> DEFINE j == p - o + 1
    <2>1. p \in Nat /\ start <= p /\ p < PlaceOf[k + 1] /\ j \in 1..len
          /\ o - start + j = p - start + 1
      <3>1. p \in o..(o + len - 1) /\ start <= o /\ o + len <= PlaceOf[k + 1]
        OBVIOUS
      <3> DEFINE z == PlaceOf[k + 1]
      <3> HIDE DEF o, len, start, new, z
      <3>2. p \in o..(o + len - 1) /\ start <= o /\ o + len <= z
            /\ o \in Nat /\ len \in Nat /\ start \in Nat /\ z \in Nat
        BY <3>1, <1>1 DEF z
      <3>3. p \in Nat /\ start <= p /\ p < z /\ j \in 1..len BY <3>2
      <3>4. o - start + j = p - start + 1 BY <3>2, <3>3
      <3> QED BY <3>3, <3>4 DEF z
    <2>2. p \in D
          /\ (img.chunks[k].type = "RAW" =>
                Unsparsed[p] = Word("data", k, p - start + 1))
          /\ (img.chunks[k].type = "FILL" =>
                Unsparsed[p] = Word("data", k, 1))
      BY <2>1, UnsparsedWords
    <2> HIDE DEF j
    <2>3. CASE /\ img.chunks[k].type = "RAW"
               /\ \A i \in 1..len : data[i] = Word("data", k, o - start + i)
      BY <2>1, <2>2, <2>3 DEF j
    <2>4. CASE /\ img.chunks[k].type = "FILL"
               /\ \A i \in 1..len : data[i] = Word("data", k, 1)
      BY <2>1, <2>2, <2>4 DEF j
    <2> QED BY <2>3, <2>4
  <1>5. disk = [p \in {p \in D : p < o} |-> Unsparsed[p]] BY DEF Placed
  <1> HIDE DEF o, len, D, start
  <1>6. DOMAIN disk \cup new = {p \in D : p < o + len}
    <2>1. DOMAIN disk = {p \in D : p < o} BY <1>5
    <2>2. \A p \in D : p < o + len <=> p < o \/ p \in new BY <1>1, <1>2
    <2>3. \A p \in new : p \in D /\ p < o + len BY <1>1, <1>4
    <2>4. \A p \in DOMAIN disk \cup new : p \in {q \in D : q < o + len}
      BY <2>1, <2>2, <2>3
    <2>5. \A p \in {q \in D : q < o + len} : p \in DOMAIN disk \cup new
      BY <2>1, <2>2
    <2> HIDE DEF new
    <2> QED BY <2>4, <2>5
  <1>7. \A p \in {p \in D : p < o + len} :
          (IF p \in new THEN data[p - o + 1] ELSE disk[p]) = Unsparsed[p]
    <2> TAKE p \in {p \in D : p < o + len}
    <2>1. CASE p \in new BY <2>1, <1>4
    <2>2. CASE p \notin new
      <3>1. p \in D /\ p < o BY <2>2, <1>1, <1>2
      <3> QED BY <3>1, <2>2, <1>5
    <2> QED BY <2>1, <2>2
  <1>8. disk' = [p \in {p \in D : p < o + len} |-> Unsparsed[p]]
    <2> HIDE DEF new
    <2> QED BY <1>3, <1>6, <1>7
  <1>9. Unsparsed' = Unsparsed BY ImageStays
  <1> QED BY <1>3, <1>8, <1>9 DEF Placed, D, o

\* A chunk for which nothing is written is passed over.
LEMMA SkipPlaces ==
  ASSUME img \in Image, img' = img, disk' = disk, Placed,
         NEW k \in 1..Len(img.chunks),
         img.chunks[k].type \notin {"RAW", "FILL"},
         image_address_offset = PlaceOf[k],
         image_address_offset' = PlaceOf[k + 1]
  PROVE  Placed'
  <1> DEFINE D == DOMAIN Unsparsed
  <1>1. PlaceOf[k] \in Nat /\ PlaceOf[k + 1] \in Nat
        /\ PlaceOf[k] <= PlaceOf[k + 1]
    <2>1. PlaceOf \in [1..(Len(img.chunks) + 1) -> Nat]
          /\ k \in 1..(Len(img.chunks) + 1) /\ k + 1 \in 1..(Len(img.chunks) + 1)
      BY Places, ImageHas
    <2> QED BY <2>1, PlacesInOrder
  <1>2. D \subseteq Nat BY UnsparsedPlaces
  <1>3. \A p \in D : p < PlaceOf[k] <=> p < PlaceOf[k + 1]
    <2> TAKE p \in D
    <2>1. ~(PlaceOf[k] <= p /\ p < PlaceOf[k + 1]) BY <1>2, UnsparsedWords
    <2> HIDE DEF D
    <2> QED BY <2>1, <1>1, <1>2
  <1>4. {p \in D : p < PlaceOf[k]} = {p \in D : p < PlaceOf[k + 1]} BY <1>3
  <1>5. Unsparsed' = Unsparsed BY ImageStays
  <1> QED BY <1>4, <1>5 DEF Placed

-----------------------------------------------------------------------------
(* What the engine does to the invariant.                                  *)

\* What is known of the state between any two steps.
LEMMA Known ==
  ASSUME UnsparseIInv
  PROVE  /\ img \in Image
         /\ File \in Seq(FileWord) /\ Len(File) \in Nat
         /\ received \in 0..Len(File)
         /\ IsEnd(buf, File, received) /\ Len(buf) \in 0..received
         /\ buf \in Seq(FileWord) /\ (buf = <<>> <=> Len(buf) = 0)
         /\ \A j \in 1..Len(buf) : buf[j] = File[received - Len(buf) + j]
         /\ IsEnd(padding, File, received) /\ Len(padding) \in 0..received
         /\ (padding = <<>> <=> Len(padding) = 0)
         /\ buf # <<>> => padding = <<>>
         /\ Consumed \in Nat
         /\ chunks_processed \in 0..Len(img.chunks)
  <1>1. img \in Image /\ received \in 0..Len(File)
        /\ chunks_processed \in 0..Len(img.chunks)
    BY DEF UnsparseIInv, UnsparseTyped
  <1>2. File \in Seq(FileWord) /\ Len(File) \in Nat BY <1>1, FileIsSeq
  <1>3. IsEnd(buf, File, received) /\ IsEnd(padding, File, received)
        /\ (padding # <<>> => buf = <<>>)
    BY DEF UnsparseIInv, StreamKept
  <1>4. buf \in Seq(FileWord) /\ Len(buf) \in 0..received
        /\ (buf = <<>> <=> Len(buf) = 0)
        /\ \A j \in 1..Len(buf) : buf[j] = File[received - Len(buf) + j]
    <2>1. Len(buf) \in 0..received BY <1>3 DEF IsEnd
    <2> QED BY <2>1, <1>1, <1>2, <1>3, EndWords
  <1>5. Len(padding) \in 0..received /\ (padding = <<>> <=> Len(padding) = 0)
    <2>1. Len(padding) \in 0..received BY <1>3 DEF IsEnd
    <2> QED BY <2>1, <1>1, <1>2, <1>3, EndWords
  <1>6. Consumed \in Nat BY <1>1, <1>3, <1>4, <1>5 DEF Consumed
  <1> QED BY <1>1, <1>2, <1>3, <1>4, <1>5, <1>6

\* Where the chunk before and after a header is.
LEMMA ChunkPlaces ==
  ASSUME img \in Image
  PROVE  /\ Len(img.chunks) \in Nat
         /\ \A k \in 0..Len(img.chunks) :
              /\ HeaderAt[k + 1] \in Nat /\ HeaderAt[k + 1] - 1 <= Len(File)
              /\ HeaderAt[k + 1] >= 1
              /\ PlaceOf[k + 1] \in Nat /\ PlaceOf[k + 1] % Block = 0
         /\ \A k \in 1..Len(img.chunks) :
              /\ HeaderAt[k] \in Nat /\ PlaceOf[k] \in Nat
              /\ HeaderAt[k + 1] = HeaderAt[k] + ChunkHeader + DataWords(k)
              /\ PlaceOf[k + 1] = PlaceOf[k] + Size(k)
  <1> DEFINE n == Len(img.chunks)
  <1>1. n \in Nat BY ImageHas
  <1>2. /\ HeaderAt \in [1..(n + 1) -> Nat] /\ HeaderAt[1] = FileHeader + 1
        /\ \A k \in 1..n :
             HeaderAt[k + 1] = HeaderAt[k] + ChunkHeader + DataWords(k)
        /\ PlaceOf \in [1..(n + 1) -> Nat]
        /\ \A k \in 1..n : PlaceOf[k + 1] = PlaceOf[k] + Size(k)
    BY Places
  <1>3. Len(File) = HeaderAt[n + 1] - 1 BY FileIsSeq
  <1>4. ASSUME NEW k \in 0..n
        PROVE  /\ HeaderAt[k + 1] \in Nat /\ HeaderAt[k + 1] - 1 <= Len(File)
               /\ HeaderAt[k + 1] >= 1
               /\ PlaceOf[k + 1] \in Nat /\ PlaceOf[k + 1] % Block = 0
    <2>1. k + 1 \in 1..(n + 1) /\ n + 1 \in (k + 1)..(n + 1)
          /\ 1 \in 1..(n + 1) /\ k + 1 \in 1..(n + 1)
      BY <1>1
    <2>2. HeaderAt[k + 1] <= HeaderAt[n + 1] /\ HeaderAt[1] <= HeaderAt[k + 1]
      BY <2>1, PlacesInOrder
    <2>3. PlaceOf[k + 1] % Block = 0 BY <2>1, PlacesAreBlocks
    <2>4. HeaderAt[k + 1] \in Nat /\ HeaderAt[n + 1] \in Nat
          /\ PlaceOf[k + 1] \in Nat
      <3> HIDE DEF n
      <3> QED BY <2>1, <1>2
    <2> HIDE DEF n
    <2> DEFINE x == HeaderAt[k + 1]
               z == HeaderAt[n + 1]
    <2>5. /\ x \in Nat /\ z \in Nat /\ x <= z
          /\ FileHeader \in Nat /\ FileHeader + 1 <= x /\ Len(File) = z - 1
      BY <2>2, <2>4, <1>2, <1>3, UnsparseAssumption
    <2> HIDE DEF x, z
    <2>6. x - 1 <= Len(File) /\ x >= 1 BY <2>5
    <2> QED BY <2>3, <2>4, <2>6 DEF x
  <1>5. ASSUME NEW k \in 1..n
        PROVE  HeaderAt[k] \in Nat /\ PlaceOf[k] \in Nat
    BY <1>1, <1>2
  <1> QED BY <1>1, <1>2, <1>4, <1>5

LEMMA InitIsSound == UnsparseInit => UnsparseIInv
  <1> SUFFICES ASSUME UnsparseInit PROVE UnsparseIInv OBVIOUS
  <1>1. img \in Image /\ package \in PackageSizes /\ received = 0
        /\ padding = <<>> /\ buf = <<>> /\ wait_phase = "SPARSE_HEADER"
        /\ handle_status = "STATUS_OK" /\ unhandle_buf = <<>>
        /\ chunks_processed = 0 /\ chunk_remain_data_size = 0
        /\ image_address_offset = 0 /\ disk = <<>>
        /\ written = [at |-> 0, length |-> 0]
    BY DEF UnsparseInit
  <1>2. File \in Seq(FileWord) /\ Len(File) \in Nat /\ Len(img.chunks) \in Nat
    BY <1>1, FileIsSeq, ImageHas
  <1>3. UnsparseTyped BY <1>1, <1>2 DEF UnsparseTyped
  <1>4. IsEnd(<<>>, File, 0) /\ Len(<<>>) = 0 BY <1>2, EmptyEnd
  <1>5. StreamKept BY <1>1, <1>4 DEF StreamKept
  <1>6. Position
    <2>1. Len(padding) = 0 /\ Len(buf) = 0 /\ received = 0 BY <1>1
    <2>2. Consumed = 0 BY <2>1 DEF Consumed
    <2> QED BY <2>2, <1>1 DEF Position, AtFileHeader
  <1>7. Placed
    <2>1. {p \in DOMAIN Unsparsed : p < 0} = {} BY <1>1, UnsparsedPlaces
    <2>2. <<>> = [p \in {} |-> Unsparsed[p]] OBVIOUS
    <2> QED BY <2>1, <2>2, <1>1 DEF Placed
  <1>8. HeaderKept BY <1>1 DEF HeaderKept
  <1>9. Blocks
    <2>1. 0 % Block = 0 BY UnsparseAssumption
    <2> QED BY <2>1, <1>1 DEF Blocks, WholeBlocks
  <1> QED BY <1>3, <1>5, <1>6, <1>7, <1>8, <1>9 DEF UnsparseIInv

\* The steps that leave the parser alone leave alone what it has done.
LEMMA ParserStays ==
  ASSUME UnsparseIInv, img' = img, UNCHANGED parser_vars
  PROVE  Placed' /\ HeaderKept' /\ Blocks'
  <1>1. Unsparsed' = Unsparsed BY ImageStays
  <1>2. Placed' BY <1>1 DEF parser_vars, UnsparseIInv, Placed
  <1>3. HeaderKept'
    BY DEF parser_vars, UnsparseIInv, HeaderKept, Words, Word
  <1>4. Blocks' BY DEF parser_vars, UnsparseIInv, Blocks, WholeBlocks
  <1> QED BY <1>2, <1>3, <1>4

LEMMA NextPackageKeeps ==
  ASSUME UnsparseIInv, NextPackage
  PROVE  UnsparseIInv'
  <1>1. /\ buf = <<>> /\ handle_status = "STATUS_OK" /\ received < Len(File)
        /\ received' = Least(received + package, Len(File))
        /\ buf' = padding \o SubSeq(File, received + 1, received')
        /\ padding' = <<>>
        /\ img' = img /\ package' = package /\ wait_phase' = wait_phase
        /\ handle_status' = handle_status /\ UNCHANGED parser_vars
    BY DEF NextPackage
  <1>2. /\ File \in Seq(FileWord) /\ Len(File) \in Nat
        /\ received \in 0..Len(File) /\ IsEnd(padding, File, received)
        /\ Len(padding) \in 0..received /\ Len(buf) = 0
        /\ (padding = <<>> <=> Len(padding) = 0)
    BY <1>1, Known
  <1>3. package \in Nat /\ package >= FileHeader /\ package >= ChunkHeader - 1
        /\ FileHeader \in Nat /\ FileHeader > 0 /\ ChunkHeader \in Nat
    BY UnsparseAssumption DEF UnsparseIInv, UnsparseTyped
  <1>4. /\ received' \in received..Len(File)
        /\ received' = received + package \/ received' = Len(File)
    BY <1>1, <1>2, <1>3 DEF Least
  <1>5. File' = File BY <1>1, ImageStays
  <1>6. IsEnd(buf', File, received')
        /\ Len(buf') = Len(padding) + (received' - received)
    <2> DEFINE q == received'
    <2>1. q \in received..Len(File) BY <1>4
    <2>2. buf' = padding \o SubSeq(File, received + 1, q) BY <1>1
    <2> HIDE DEF q
    <2>3. IsEnd(padding \o SubSeq(File, received + 1, q), File, q)
          /\ Len(padding \o SubSeq(File, received + 1, q))
               = Len(padding) + (q - received)
      BY <2>1, <1>2, EndGrown
    <2> QED BY <2>2, <2>3 DEF q
  <1>7. received' \in 0..Len(File) BY <1>2, <1>4
  <1>8. IsEnd(padding', File, received') /\ Len(padding') = 0
    BY <1>1, <1>2, <1>7, EmptyEnd
  <1>9. Consumed' = Consumed
    BY <1>2, <1>4, <1>6, <1>8 DEF Consumed
  <1>10. UnsparseTyped'
    BY <1>1, <1>5, <1>7 DEF parser_vars, UnsparseIInv, UnsparseTyped
  <1>11. StreamKept' BY <1>1, <1>5, <1>6, <1>8 DEF StreamKept
  <1>12. Position'
    <2>1. Position BY DEF UnsparseIInv
    <2>2. HeaderAt' = HeaderAt /\ PlaceOf' = PlaceOf BY <1>1, ImageStays
    <2>3. wait_phase # "CHUNK_DATA" => padding = <<>>
      BY DEF UnsparseIInv, StreamKept
    <2>4. ASSUME AtFileHeader, wait_phase = "SPARSE_HEADER" PROVE AtFileHeader'
      <3>1. Len(padding) = 0 /\ Consumed = 0
        BY <1>2, <2>3, <2>4 DEF AtFileHeader
      <3>2. received = 0 BY <3>1, <1>2 DEF Consumed
      <3>3. Len(buf') >= FileHeader
        <4>1. FileHeader <= Len(File)
          BY FileIsSeq DEF UnsparseIInv, UnsparseTyped
        <4>2. received' = package \/ received' = Len(File)
          BY <3>2, <1>3, <1>4
        <4> DEFINE q == received'
                   b == Len(buf')
        <4>3. b = Len(padding) + (q - received) /\ q \in received..Len(File)
          BY <1>4, <1>6
        <4> HIDE DEF q, b
        <4>4. b = q /\ q \in Nat BY <4>3, <3>1, <3>2, <1>2
        <4>5. q = package \/ q = Len(File) BY <4>2 DEF q
        <4>6. b >= FileHeader BY <4>1, <4>4, <4>5, <1>2, <1>3
        <4> QED BY <4>6 DEF b
      <3> QED BY <2>4, <3>3, <1>1, <1>9 DEF AtFileHeader, parser_vars
    <2>5. ASSUME AtChunkHeader, wait_phase = "CHUNK_HEADER"
          PROVE  AtChunkHeader'
      <3>1. Len(padding) = 0 BY <1>2, <2>3, <2>5
      <3>2. Len(buf') >= ChunkHeader - 1 \/ received' = Len(File)
        <4>1. Len(buf') = received' - received BY <3>1, <1>2, <1>4, <1>6
        <4>2. CASE received' = received + package
          <5>1. Len(buf') = package BY <4>1, <4>2, <1>2, <1>3
          <5> QED BY <5>1, <1>3
        <4> QED BY <4>2, <1>4
      <3> QED BY <2>2, <2>5, <3>2, <1>1, <1>5, <1>9
            DEF AtChunkHeader, parser_vars
    <2> QED BY <2>1, <2>2, <2>4, <2>5, <1>1, <1>9
          DEF Position, InChunk, Size, parser_vars
  <1> QED BY <1>1, <1>10, <1>11, <1>12, ParserStays DEF UnsparseIInv

LEMMA CarryKeeps ==
  ASSUME UnsparseIInv, Carry
  PROVE  UnsparseIInv'
  <1>1. /\ handle_status = "STATUS_SPARSE_INCOMPLETE"
        /\ padding' = buf /\ buf' = <<>> /\ handle_status' = "STATUS_OK"
        /\ img' = img /\ package' = package /\ received' = received
        /\ wait_phase' = wait_phase /\ UNCHANGED parser_vars
    BY DEF Carry, leftover
  <1>2. /\ File \in Seq(FileWord) /\ Len(File) \in Nat
        /\ received \in 0..Len(File) /\ IsEnd(buf, File, received)
        /\ Len(buf) \in 0..received
    BY Known
  <1>3. /\ buf # <<>> /\ wait_phase = "CHUNK_DATA"
        /\ Len(buf) < Block /\ Len(buf) < chunk_remain_data_size
    BY <1>1 DEF UnsparseIInv, StreamKept
  <1>4. Len(padding) = 0 BY <1>3, Known
  <1>5. IsEnd(buf', File, received) /\ Len(buf') = 0 BY <1>1, <1>2, EmptyEnd
  <1>6. Consumed' = Consumed BY <1>1, <1>2, <1>4, <1>5 DEF Consumed
  <1>7. File' = File BY <1>1, ImageStays
  <1>8. UnsparseTyped'
    BY <1>1, <1>7 DEF parser_vars, UnsparseIInv, UnsparseTyped
  <1>9. StreamKept'
    BY <1>1, <1>2, <1>3, <1>5, <1>7 DEF StreamKept, parser_vars
  <1>10. Position'
    <2>1. Position BY DEF UnsparseIInv
    <2>2. HeaderAt' = HeaderAt /\ PlaceOf' = PlaceOf BY <1>1, ImageStays
    <2> QED BY <2>1, <2>2, <1>1, <1>3, <1>6
          DEF Position, InChunk, Size, parser_vars
  <1> QED BY <1>1, <1>8, <1>9, <1>10, ParserStays DEF UnsparseIInv

-----------------------------------------------------------------------------
(* The turns of the parser.                                                *)

\* A turn that takes part of the buffer keeps the rest.
LEMMA TurnKeepsStream ==
  ASSUME UnsparseIInv, Parsing(wait_phase), IsEnd(buf', File, received),
         handle_status' \in {"STATUS_OK", "STATUS_EMMC_ERR"}
  PROVE  /\ StreamKept' /\ Len(buf') \in Nat
         /\ Consumed' = Consumed + Len(buf) - Len(buf')
  <1>1. /\ img' = img /\ package' = package /\ received' = received
        /\ padding' = padding /\ buf # <<>>
    BY DEF Parsing
  <1>2. /\ padding = <<>> /\ Len(padding) = 0 /\ Len(buf) \in 0..received
        /\ received \in Nat /\ IsEnd(padding, File, received)
    BY <1>1, Known
  <1>3. File' = File BY <1>1, ImageStays
  <1>4. Len(buf') \in 0..received BY DEF IsEnd
  <1>5. StreamKept' BY <1>1, <1>2, <1>3 DEF StreamKept
  <1>6. Consumed' = Consumed + Len(buf) - Len(buf')
    <2> DEFINE b == Len(buf)
               c == Len(buf')
    <2>1. Consumed = received - 0 - b /\ Consumed' = received - 0 - c
      BY <1>1, <1>2 DEF Consumed
    <2>2. b \in Nat /\ c \in Nat BY <1>2, <1>4
    <2> HIDE DEF b, c
    <2>3. Consumed' = Consumed + b - c BY <2>1, <2>2, <1>2
    <2> QED BY <2>3 DEF b, c
  <1> QED BY <1>4, <1>5, <1>6

\* Behind a chunk the parser is at the header of the next.
LEMMA AtNextHeader ==
  ASSUME img \in Image, img' = img, unhandle_buf' = <<>>,
         chunks_processed' \in 0..Len(img.chunks),
         Consumed' = HeaderAt[chunks_processed' + 1] - 1,
         image_address_offset' = PlaceOf[chunks_processed' + 1]
  PROVE  AtChunkHeader'
  <1> DEFINE h == HeaderAt[chunks_processed' + 1]
  <1>1. h \in Nat /\ h >= 1 BY ChunkPlaces
  <1>2. HeaderAt' = HeaderAt /\ PlaceOf' = PlaceOf /\ File' = File
    BY ImageStays
  <1> HIDE DEF h
  <1>3. SubSeq(File, h, h - 1) = <<>> BY <1>1, FileIsSeq
  <1>4. Len(<<>>) = 0 /\ 0 \in 0..(ChunkHeader - 1) BY UnsparseAssumption
  <1>5. h - 1 = h - 1 + 0 BY <1>1
  <1>6. HeaderAt'[chunks_processed' + 1] = h /\ Consumed' = h - 1
    BY <1>2 DEF h
  <1>7. Len(unhandle_buf') = 0 BY <1>4
  <1> QED BY <1>2, <1>3, <1>4, <1>5, <1>6, <1>7 DEF AtChunkHeader

\* What is written in whole blocks at the start of a block ends at one.
LEMMA WriteKeepsBlocks ==
  ASSUME Blocks, image_address_offset \in Nat,
         NEW data, Len(data) \in Nat, Len(data) % Block = 0, emmc_write(data)
  PROVE  Blocks' /\ image_address_offset' = image_address_offset + Len(data)
  <1>1. image_address_offset % Block = 0 BY DEF Blocks
  <1>2. /\ image_address_offset' = image_address_offset + Len(data)
        /\ written' = [at |-> image_address_offset, length |-> Len(data)]
    BY DEF emmc_write
  <1>3. image_address_offset' % Block = 0 BY <1>1, <1>2, BlocksPlus
  <1> QED BY <1>1, <1>2, <1>3 DEF Blocks, WholeBlocks

LEMMA WaitSparseHeaderKeeps ==
  ASSUME UnsparseIInv, WaitSparseHeader
  PROVE  UnsparseIInv' /\ Len(buf') < Len(buf)
  <1>1. /\ Parsing("SPARSE_HEADER") /\ wait_phase = "SPARSE_HEADER"
        /\ Len(buf) >= FileHeader /\ unhandle_buf' = <<>>
        /\ chunks_processed' = 0 /\ chunk_remain_data_size' = 0
        /\ image_address_offset' = 0
        /\ handle_status' = "STATUS_OK" /\ wait_phase' = "CHUNK_HEADER"
        /\ buf' = Drop(buf, FileHeader) /\ disk' = disk /\ written' = written
        /\ img' = img /\ package' = package /\ received' = received
    BY DEF WaitSparseHeader, Parsing, set_unsparse_status
  <1>2. Consumed = 0 /\ image_address_offset = 0
    BY <1>1 DEF UnsparseIInv, Position, AtFileHeader
  <1>3. FileHeader \in Nat \ {0} BY UnsparseAssumption
  <1>4. IsEnd(buf', File, received) /\ Len(buf') = Len(buf) - FileHeader
        /\ Len(buf) \in Nat
    <2>1. FileHeader \in 0..Len(buf) /\ Len(buf) \in Nat BY <1>1, <1>3, Known
    <2> QED BY <2>1, <1>1, Known, EndDropped
  <1>5. StreamKept' /\ Consumed' = Consumed + Len(buf) - Len(buf')
    BY <1>1, <1>4, TurnKeepsStream
  <1>6. Consumed' = FileHeader BY <1>2, <1>3, <1>4, <1>5
  <1>7. AtChunkHeader'
    <2>1. img \in Image BY Known
    <2>2. HeaderAt[1] = FileHeader + 1 /\ PlaceOf[1] = 0 /\ 0 + 1 = 1
          /\ 0 \in 0..Len(img.chunks)
      BY <2>1, Places, ImageHas
    <2>3. Consumed' = HeaderAt[chunks_processed' + 1] - 1
      BY <2>2, <1>1, <1>3, <1>6
    <2> QED BY <2>1, <2>2, <2>3, <1>1, AtNextHeader
  <1>8. File' = File /\ Unsparsed' = Unsparsed BY <1>1, ImageStays
  <1>9. UnsparseTyped'
    <2>1. Len(img.chunks) \in Nat BY Known, ImageHas
    <2> QED BY <2>1, <1>1, <1>8 DEF UnsparseIInv, UnsparseTyped
  <1>10. Position' BY <1>1, <1>7 DEF Position
  <1>11. Placed' BY <1>1, <1>2, <1>8 DEF UnsparseIInv, Placed
  <1>12. HeaderKept' BY <1>1 DEF HeaderKept
  <1>13. Blocks' BY <1>1, <1>2 DEF UnsparseIInv, Blocks, WholeBlocks
  <1>14. Len(buf') < Len(buf) BY <1>3, <1>4
  <1> QED BY <1>5, <1>9, <1>10, <1>11, <1>12, <1>13, <1>14 DEF UnsparseIInv

LEMMA WaitChunkCrcKeeps ==
  ASSUME UnsparseIInv, WaitChunkCrc
  PROVE  UnsparseIInv' /\ Len(buf') < Len(buf)
  <1>1. /\ Parsing("CHUNK_CRC") /\ wait_phase = "CHUNK_CRC" /\ buf # <<>>
        /\ chunk_remain_data_size' = 0
        /\ handle_status' = "STATUS_OK" /\ wait_phase' = "CHUNK_HEADER"
        /\ buf' = Drop(buf, 1) /\ disk' = disk /\ written' = written
        /\ unhandle_buf' = unhandle_buf /\ chunk_hdr' = chunk_hdr
        /\ chunks_processed' = chunks_processed
        /\ image_address_offset' = image_address_offset
        /\ img' = img /\ package' = package /\ received' = received
    BY DEF WaitChunkCrc, Parsing, set_unsparse_status
  <1> DEFINE k == chunks_processed
  <1>2. /\ unhandle_buf = <<>> /\ k > 0 /\ img.chunks[k].type = "CRC"
        /\ Consumed = HeaderAt[k + 1] - 1 - 1
        /\ image_address_offset + chunk_remain_data_size = PlaceOf[k + 1]
        /\ chunk_remain_data_size <= Size(k)
    BY <1>1 DEF UnsparseIInv, Position, InChunk
  <1>3. /\ img \in Image /\ k \in 0..Len(img.chunks) /\ Len(img.chunks) \in Nat
        /\ chunk_remain_data_size \in Nat /\ image_address_offset \in Nat
    BY Known, ImageHas DEF UnsparseIInv, UnsparseTyped
  <1>4. k \in 1..Len(img.chunks) BY <1>2, <1>3
  <1>5. image_address_offset = PlaceOf[k + 1]
    <2>1. Size(k) = 0 BY <1>2, <1>3, <1>4, SizeIsBlocks
    <2> QED BY <2>1, <1>2, <1>3
  <1>6. IsEnd(buf', File, received) /\ Len(buf') = Len(buf) - 1
        /\ Len(buf) \in Nat
    <2>1. 1 \in 0..Len(buf) /\ Len(buf) \in Nat BY <1>1, Known
    <2> QED BY <2>1, <1>1, Known, EndDropped
  <1>7. StreamKept' /\ Consumed' = Consumed + Len(buf) - Len(buf')
    BY <1>1, <1>6, TurnKeepsStream
  <1>8. Consumed' = HeaderAt[k + 1] - 1
    <2>1. HeaderAt[k + 1] \in Nat BY <1>3, ChunkPlaces
    <2> QED BY <2>1, <1>2, <1>6, <1>7
  <1>9. AtChunkHeader' BY <1>1, <1>2, <1>3, <1>5, <1>8, AtNextHeader
  <1>10. File' = File /\ Unsparsed' = Unsparsed BY <1>1, ImageStays
  <1>11. UnsparseTyped' BY <1>1, <1>10 DEF UnsparseIInv, UnsparseTyped
  <1>12. Position' BY <1>1, <1>9 DEF Position
  <1>13. Placed' BY <1>1, <1>10 DEF UnsparseIInv, Placed
  <1>14. HeaderKept' BY <1>1 DEF UnsparseIInv, HeaderKept, Words, Word
  <1>15. Blocks' BY <1>1 DEF UnsparseIInv, Blocks, WholeBlocks
  <1>16. Len(buf') < Len(buf) BY <1>6
  <1> QED BY <1>7, <1>11, <1>12, <1>13, <1>14, <1>15, <1>16 DEF UnsparseIInv

\* What is known in the middle of a chunk.
LEMMA InAChunk ==
  ASSUME UnsparseIInv, NEW type, NEW more, InChunk(type, more)
  PROVE  /\ img \in Image /\ chunks_processed \in 1..Len(img.chunks)
         /\ img.chunks[chunks_processed].type = type
         /\ chunk_remain_data_size \in Nat /\ chunk_remain_data_size % Block = 0
         /\ image_address_offset \in Nat
         /\ Size(chunks_processed) \in Nat
         /\ chunk_remain_data_size <= Size(chunks_processed)
         /\ PlaceOf[chunks_processed] \in Nat
         /\ PlaceOf[chunks_processed + 1] \in Nat
         /\ PlaceOf[chunks_processed + 1] =
              PlaceOf[chunks_processed] + Size(chunks_processed)
         /\ image_address_offset + chunk_remain_data_size =
              PlaceOf[chunks_processed + 1]
         /\ HeaderAt[chunks_processed] \in Nat
         /\ HeaderAt[chunks_processed + 1] \in Nat
         /\ HeaderAt[chunks_processed + 1] =
              HeaderAt[chunks_processed] + ChunkHeader
                + DataWords(chunks_processed)
         /\ DataWords(chunks_processed) \in Nat /\ ChunkHeader \in Nat
         /\ Consumed = HeaderAt[chunks_processed + 1] - 1 - more
  <1>1. img \in Image /\ chunks_processed \in 0..Len(img.chunks)
        /\ chunk_remain_data_size \in Nat /\ image_address_offset \in Nat
        /\ Len(img.chunks) \in Nat
    BY Known, ImageHas DEF UnsparseIInv, UnsparseTyped
  <1>2. chunks_processed \in 1..Len(img.chunks) BY <1>1 DEF InChunk
  <1>3. Size(chunks_processed) \in Nat /\ DataWords(chunks_processed) \in Nat
    BY <1>1, <1>2, SizeIsBlocks
  <1>4. /\ PlaceOf[chunks_processed] \in Nat
        /\ PlaceOf[chunks_processed + 1] \in Nat
        /\ PlaceOf[chunks_processed + 1] =
             PlaceOf[chunks_processed] + Size(chunks_processed)
        /\ HeaderAt[chunks_processed] \in Nat
        /\ HeaderAt[chunks_processed + 1] \in Nat
        /\ HeaderAt[chunks_processed + 1] =
             HeaderAt[chunks_processed] + ChunkHeader
               + DataWords(chunks_processed)
    BY <1>1, <1>2, ChunkPlaces
  <1> QED BY <1>1, <1>2, <1>3, <1>4, UnsparseAssumption DEF InChunk

LEMMA WaitChunkFillKeeps ==
  ASSUME UnsparseIInv, WaitChunkFill
  PROVE  /\ UnsparseIInv'
         /\ Len(buf') < Len(buf) \/ handle_status' # "STATUS_OK"
         /\ image_address_offset' >= image_address_offset
  <1> DEFINE k == chunks_processed
             r == chunk_remain_data_size
             o == image_address_offset
  <1>1. /\ Parsing("CHUNK_FILL") /\ wait_phase = "CHUNK_FILL" /\ buf # <<>>
        /\ handle_status = "STATUS_OK"
        /\ img' = img /\ package' = package /\ received' = received
        /\ unhandle_buf' = unhandle_buf /\ chunk_hdr' = chunk_hdr
        /\ chunks_processed' = chunks_processed
    BY DEF WaitChunkFill, Parsing
  <1>2. PICK n \in 0..r :
          /\ emmc_write([j \in 1..n |-> buf[1]])
          /\ chunk_remain_data_size' = r - n
          /\ \/ /\ n = r /\ handle_status' = "STATUS_OK"
                /\ wait_phase' = "CHUNK_HEADER" /\ buf' = Drop(buf, 1)
             \/ /\ n < r /\ n % FillCache = 0
                /\ handle_status' = "STATUS_EMMC_ERR"
                /\ wait_phase' = "CHUNK_FILL" /\ buf' = buf
    BY DEF WaitChunkFill, set_unsparse_status
  <1>3. InChunk("FILL", 1) /\ r = Size(k)
    BY <1>1 DEF UnsparseIInv, Position
  <1>4. /\ img \in Image /\ k \in 1..Len(img.chunks)
        /\ img.chunks[k].type = "FILL"
        /\ r \in Nat /\ r % Block = 0 /\ o \in Nat
        /\ PlaceOf[k] \in Nat /\ PlaceOf[k + 1] = PlaceOf[k] + r
        /\ o + r = PlaceOf[k + 1]
        /\ HeaderAt[k] \in Nat /\ HeaderAt[k + 1] \in Nat
        /\ HeaderAt[k + 1] = HeaderAt[k] + ChunkHeader + DataWords(k)
        /\ ChunkHeader \in Nat /\ Consumed = HeaderAt[k + 1] - 1 - 1
    BY <1>3, InAChunk
  <1>5. DataWords(k) = 1 BY <1>4 DEF DataWords
  <1>6. o = PlaceOf[k] BY <1>4
  <1>7. n \in Nat /\ n <= r /\ n % Block = 0
    <2>1. n \in Nat /\ n <= r BY <1>4
    <2> QED BY <2>1, <1>2, <1>4, CachesAreBlocks
  <1>8. Len(buf) \in Nat /\ Len(buf) > 0 /\ Len(buf) <= received
        /\ received \in Nat /\ buf \in Seq(FileWord)
        /\ Consumed = received - Len(buf)
    <2>1. padding = <<>> /\ Len(padding) = 0 /\ Len(buf) \in 0..received
          /\ Len(buf) # 0 /\ received \in Nat /\ buf \in Seq(FileWord)
      BY <1>1, Known
    <2> QED BY <2>1 DEF Consumed
  <1>9. buf[1] = Word("data", k, 1)
    <2>1. 1 \in 1..Len(buf) BY <1>8
    <2>2. buf[1] = File[received - Len(buf) + 1] BY <2>1, Known
    <2>3. received - Len(buf) + 1 = HeaderAt[k] + ChunkHeader + 1 - 1
      <3> DEFINE b == Len(buf)
                 h == HeaderAt[k]
                 e == HeaderAt[k + 1]
      <3>1. /\ b \in Nat /\ h \in Nat /\ e = h + ChunkHeader + 1
            /\ received - b = e - 1 - 1 /\ ChunkHeader \in Nat
        BY <1>4, <1>5, <1>8
      <3> HIDE DEF b, h, e
      <3>2. received - b + 1 = h + ChunkHeader + 1 - 1 BY <3>1
      <3> QED BY <3>2 DEF b, h
    <2>4. File[HeaderAt[k] + ChunkHeader + 1 - 1] = Word("data", k, 1)
      <3>1. 1 \in 1..DataWords(k) BY <1>5
      <3> QED BY <3>1, <1>4, FileWords
    <2> QED BY <2>2, <2>3, <2>4
  <1> DEFINE data == [j \in 1..n |-> buf[1]]
  <1>10. /\ data \in Seq({buf[1]}) /\ Len(data) = n
         /\ \A j \in 1..Len(data) : data[j] = Word("data", k, 1)
    BY <1>7, <1>9
  <1>11. emmc_write(data) BY <1>2
  <1> HIDE DEF data
  <1>12. Placed'
    <2>1. PlaceOf[k] <= o /\ o + Len(data) <= PlaceOf[k + 1]
      <3> DEFINE a == PlaceOf[k]
                 b == PlaceOf[k + 1]
      <3>1. o \in Nat /\ r \in Nat /\ b = a + r /\ o = a BY <1>4, <1>6
      <3>2. n \in Nat /\ n <= r /\ Len(data) = n BY <1>7, <1>10
      <3> HIDE DEF a, b, o, r
      <3>3. a <= o /\ o + n <= b BY <3>1, <3>2
      <3> QED BY <3>2, <3>3 DEF a, b
    <2>2. Placed BY DEF UnsparseIInv
    <2> QED BY <2>1, <2>2, <1>1, <1>4, <1>10, <1>11, WritePlaces
  <1>13. Blocks' /\ image_address_offset' = o + n
    <2>1. Blocks BY DEF UnsparseIInv
    <2> QED BY <2>1, <1>4, <1>7, <1>10, <1>11, WriteKeepsBlocks
  <1>14. HeaderKept' BY <1>1 DEF UnsparseIInv, HeaderKept, Words, Word
  <1>15. File' = File /\ HeaderAt' = HeaderAt /\ PlaceOf' = PlaceOf
    BY <1>1, ImageStays
  <1>16. UnsparseTyped'
    <2>1. r - n \in Nat /\ o + n \in Nat
      <3>1. r \in Nat /\ o \in Nat /\ n \in Nat /\ n <= r BY <1>4, <1>7
      <3> HIDE DEF r, o
      <3> QED BY <3>1
    <2> QED BY <2>1, <1>1, <1>2, <1>13, <1>15
          DEF UnsparseIInv, UnsparseTyped
  <1>17. image_address_offset' >= image_address_offset
    BY <1>4, <1>7, <1>13
  <1>18. CASE n = r /\ handle_status' = "STATUS_OK"
              /\ wait_phase' = "CHUNK_HEADER" /\ buf' = Drop(buf, 1)
    <2>1. IsEnd(buf', File, received) /\ Len(buf') = Len(buf) - 1
      <3>1. 1 \in 0..Len(buf) BY <1>8
      <3> QED BY <3>1, <1>18, Known, EndDropped
    <2>2. StreamKept' /\ Consumed' = Consumed + Len(buf) - Len(buf')
      BY <1>1, <1>18, <2>1, TurnKeepsStream
    <2>3. Consumed' = HeaderAt[k + 1] - 1
      <3> DEFINE h == HeaderAt[k + 1]
                 b == Len(buf)
                 c == Len(buf')
                 d == Consumed
                 e == Consumed'
      <3>1. h \in Nat /\ d = h - 1 - 1 BY <1>4
      <3>2. b \in Nat /\ c = b - 1 BY <1>8, <2>1
      <3>3. e = d + b - c BY <2>2
      <3> HIDE DEF h, b, c, d, e
      <3>4. e = h - 1 BY <3>1, <3>2, <3>3
      <3> QED BY <3>4 DEF e, h
    <2>4. unhandle_buf' = <<>> /\ image_address_offset' = PlaceOf[k + 1]
      BY <1>1, <1>3, <1>4, <1>13, <1>18 DEF InChunk
    <2>5. AtChunkHeader'
      <3>1. chunks_processed' \in 0..Len(img.chunks) BY <1>1, <1>4
      <3> QED BY <3>1, <2>3, <2>4, <1>1, <1>4, AtNextHeader
    <2>6. Position' BY <2>5, <1>18 DEF Position
    <2>7. Len(buf') < Len(buf) BY <2>1, <1>8
    <2> QED BY <2>2, <2>6, <2>7, <1>12, <1>13, <1>14, <1>16, <1>17
          DEF UnsparseIInv
  <1>19. CASE n < r /\ handle_status' = "STATUS_EMMC_ERR"
              /\ wait_phase' = "CHUNK_FILL" /\ buf' = buf
    <2>1. IsEnd(buf', File, received) BY <1>19, Known
    <2>2. StreamKept' /\ Consumed' = Consumed + Len(buf) - Len(buf')
      BY <1>1, <1>19, <2>1, TurnKeepsStream
    <2>3. Consumed' = Consumed BY <1>1, <1>19 DEF Consumed, Parsing
    <2>4. (r - n) % Block = 0 BY <1>4, <1>7, BlocksPlus
    <2>5. /\ image_address_offset' + chunk_remain_data_size' = PlaceOf[k + 1]
          /\ chunk_remain_data_size' <= r
      BY <1>2, <1>4, <1>7, <1>13
    <2>6. Position'
      BY <2>3, <2>4, <2>5, <1>1, <1>2, <1>3, <1>15, <1>19
      DEF Position, InChunk, Size
    <2> QED BY <2>2, <2>6, <1>12, <1>13, <1>14, <1>16, <1>17, <1>19
          DEF UnsparseIInv
  <1> QED BY <1>2, <1>18, <1>19

LEMMA WaitChunkDataKeeps ==
  ASSUME UnsparseIInv, WaitChunkData
  PROVE  /\ UnsparseIInv'
         /\ Len(buf') < Len(buf) \/ handle_status' # "STATUS_OK"
         /\ image_address_offset' >= image_address_offset
  <1> DEFINE k == chunks_processed
             r == chunk_remain_data_size
             o == image_address_offset
             size == Len(buf)
             ends == size >= r
             n == IF ends THEN r ELSE whole_blocks(size)
  <1>1. /\ Parsing("CHUNK_DATA") /\ wait_phase = "CHUNK_DATA" /\ buf # <<>>
        /\ handle_status = "STATUS_OK" /\ padding' = padding
        /\ img' = img /\ package' = package /\ received' = received
    BY DEF WaitChunkData, Parsing
  <1>2. InChunk("RAW", r) /\ r > 0
    BY <1>1 DEF UnsparseIInv, Position
  <1>3. /\ img \in Image /\ k \in 1..Len(img.chunks)
        /\ img.chunks[k].type = "RAW"
        /\ r \in Nat /\ r % Block = 0 /\ o \in Nat
        /\ Size(k) \in Nat /\ r <= Size(k)
        /\ PlaceOf[k] \in Nat /\ PlaceOf[k + 1] = PlaceOf[k] + Size(k)
        /\ o + r = PlaceOf[k + 1]
        /\ HeaderAt[k] \in Nat /\ HeaderAt[k + 1] \in Nat
        /\ HeaderAt[k + 1] = HeaderAt[k] + ChunkHeader + DataWords(k)
        /\ ChunkHeader \in Nat /\ Consumed = HeaderAt[k + 1] - 1 - r
    BY <1>2, InAChunk
  <1>4. DataWords(k) = Size(k) BY <1>3 DEF DataWords
  <1>5. size \in Nat /\ size > 0 /\ size <= received
        /\ received \in Nat /\ buf \in Seq(FileWord)
        /\ Consumed = received - size /\ padding = <<>>
    <2>1. padding = <<>> /\ Len(padding) = 0 /\ size \in 0..received
          /\ size # 0 /\ received \in Nat /\ buf \in Seq(FileWord)
      BY <1>1, Known
    <2> QED BY <2>1 DEF Consumed
  <1>6. n \in Nat /\ n <= size /\ n <= r /\ n % Block = 0
        /\ (~ends /\ n = 0 => size < Block)
    <2>1. /\ whole_blocks(size) \in Nat /\ whole_blocks(size) <= size
          /\ whole_blocks(size) % Block = 0
          /\ whole_blocks(size) = 0 => size < Block
      BY <1>5, WholeBlocksOf
    <2>2. CASE ends
      <3>1. n = r BY <2>2
      <3>2. r \in Nat /\ r % Block = 0 /\ r <= size BY <2>2, <1>3
      <3> QED BY <2>2, <3>1, <3>2
    <2>3. CASE ~ends
      <3>1. n = whole_blocks(size) BY <2>3
      <3>2. r \in Nat /\ size < r BY <2>3, <1>3, <1>5
      <3> HIDE DEF n, size, r
      <3> QED BY <2>1, <3>1, <3>2, <1>5
    <2> QED BY <2>2, <2>3
  <1>7. File' = File /\ HeaderAt' = HeaderAt /\ PlaceOf' = PlaceOf
    BY <1>1, ImageStays
  <1>8. CASE /\ ~ends /\ n = 0
             /\ handle_status' = "STATUS_SPARSE_INCOMPLETE"
             /\ wait_phase' = "CHUNK_DATA" /\ buf' = buf
             /\ UNCHANGED parser_vars
    <2>1. Consumed' = Consumed BY <1>1, <1>8 DEF Consumed
    <2>2. UnsparseTyped'
      BY <1>1, <1>7, <1>8 DEF parser_vars, UnsparseIInv, UnsparseTyped
    <2>3. size < Block /\ size < r BY <1>3, <1>5, <1>6, <1>8
    <2>4. StreamKept'
      BY <2>3, <1>1, <1>5, <1>7, <1>8
      DEF parser_vars, UnsparseIInv, StreamKept
    <2>5. Position'
      BY <2>1, <1>1, <1>2, <1>7, <1>8 DEF Position, InChunk, Size, parser_vars
    <2> QED BY <2>2, <2>4, <2>5, <1>1, <1>3, <1>8, ParserStays
          DEF UnsparseIInv, parser_vars
  <1>9. CASE /\ handle_status' = "STATUS_EMMC_ERR" /\ wait_phase' = wait_phase
             /\ buf' = buf /\ UNCHANGED parser_vars
    <2>1. Consumed' = Consumed BY <1>1, <1>9 DEF Consumed
    <2>2. UnsparseTyped'
      BY <1>1, <1>7, <1>9 DEF parser_vars, UnsparseIInv, UnsparseTyped
    <2>3. StreamKept'
      BY <1>1, <1>5, <1>7, <1>9 DEF parser_vars, UnsparseIInv, StreamKept
    <2>4. Position'
      BY <2>1, <1>1, <1>2, <1>7, <1>9 DEF Position, InChunk, Size, parser_vars
    <2> QED BY <2>2, <2>3, <2>4, <1>1, <1>3, <1>9, ParserStays
          DEF UnsparseIInv, parser_vars
  <1>10. CASE /\ ~(~ends /\ n = 0)
              /\ emmc_write(SubSeq(buf, 1, n))
              /\ chunk_remain_data_size' = r - n
              /\ handle_status' = "STATUS_OK"
              /\ wait_phase' = IF ends THEN "CHUNK_HEADER" ELSE "CHUNK_DATA"
              /\ buf' = Drop(buf, n)
              /\ UNCHANGED <<unhandle_buf, chunk_hdr, chunks_processed>>
    <2> DEFINE data == SubSeq(buf, 1, n)
    <2>1. /\ IsEnd(buf', File, received) /\ Len(buf') = size - n
          /\ data \in Seq(FileWord) /\ Len(data) = n
          /\ \A j \in 1..n : data[j] = File[received - size + j]
      <3>1. n \in 0..Len(buf) BY <1>5, <1>6
      <3>2. buf' = Drop(buf, n) BY <1>10
      <3>3. IsEnd(buf, File, received) /\ File \in Seq(FileWord)
            /\ received \in 0..Len(File)
        BY Known
      <3> HIDE DEF n
      <3> QED BY <3>1, <3>2, <3>3, EndDropped
    <2>2. StreamKept' /\ Consumed' = Consumed + size - Len(buf')
      BY <1>1, <1>10, <2>1, TurnKeepsStream
    <2>3. n > 0 BY <1>2, <1>6, <1>10
    <2>4. emmc_write(data) BY <1>10
    <2> DEFINE h == HeaderAt[k]
               e == HeaderAt[k + 1]
               a == PlaceOf[k]
               z == PlaceOf[k + 1]
               len == Size(k)
    <2>5. /\ h \in Nat /\ e = h + ChunkHeader + len /\ ChunkHeader \in Nat
          /\ a \in Nat /\ z = a + len /\ len \in Nat /\ o + r = z
          /\ received - size = e - 1 - r /\ Consumed = e - 1 - r
          /\ r \in Nat /\ o \in Nat /\ r <= len /\ received \in Nat
          /\ size \in Nat /\ n \in Nat /\ n <= r /\ n <= size
      <3> HIDE DEF n
      <3> QED BY <1>3, <1>4, <1>5, <1>6
    <2> HIDE DEF data, n, ends, size, h, e, a, z, len
    <2>6. \A j \in 1..Len(data) : data[j] = Word("data", k, o - PlaceOf[k] + j)
      <3> TAKE j \in 1..Len(data)
      <3> DEFINE i == Size(k) - r + j
      <3>1. j \in 1..n /\ j \in Nat BY <2>1, <1>6
      <3>2. i \in 1..DataWords(k) /\ o - PlaceOf[k] + j = i
            /\ received - size + j = HeaderAt[k] + ChunkHeader + i - 1
        <4>1. i = len - r + j /\ DataWords(k) = len BY <1>4 DEF len
        <4> HIDE DEF i, o, r
        <4>2. i \in 1..len /\ o - a + j = i
              /\ received - size + j = h + ChunkHeader + i - 1
          BY <3>1, <4>1, <2>5
        <4> QED BY <4>1, <4>2 DEF a, h
      <3> HIDE DEF i
      <3>3. File[HeaderAt[k] + ChunkHeader + i - 1] = Word("data", k, i)
        BY <3>2, <1>3, FileWords
      <3> QED BY <3>1, <3>2, <3>3, <2>1
    <2>7. Placed'
      <3>1. PlaceOf[k] <= o /\ o + Len(data) <= PlaceOf[k + 1]
        <4>1. a <= o /\ o + n <= z
          <5> HIDE DEF o, r
          <5> QED BY <2>5
        <4> QED BY <4>1, <2>1 DEF a, z
      <3>2. Placed BY DEF UnsparseIInv
      <3> QED BY <3>1, <3>2, <2>1, <2>4, <2>6, <1>1, <1>3, WritePlaces
    <2>8. Blocks' /\ image_address_offset' = o + n
      <3>1. Blocks BY DEF UnsparseIInv
      <3> QED BY <3>1, <2>1, <2>4, <1>3, <1>6, WriteKeepsBlocks
    <2>9. HeaderKept' BY <1>1, <1>10 DEF UnsparseIInv, HeaderKept, Words, Word
    <2>10. UnsparseTyped'
      <3>1. r - n \in Nat /\ o + n \in Nat
        <4> HIDE DEF o, r
        <4> QED BY <2>5
      <3> QED BY <3>1, <2>8, <1>1, <1>7, <1>10
            DEF UnsparseIInv, UnsparseTyped
    <2>11. Consumed' = HeaderAt[k + 1] - 1 - (r - n)
      <3>1. Consumed' = Consumed + size - (size - n) BY <2>1, <2>2
      <3> HIDE DEF r
      <3>2. Consumed' = e - 1 - (r - n) BY <3>1, <2>5
      <3> QED BY <3>2 DEF e
    <2>12. Position'
      <3>1. CASE ends
        <4>1. n = r BY <3>1 DEF n
        <4>2. Consumed' = HeaderAt[k + 1] - 1 BY <4>1, <2>11, <1>3
        <4>3. unhandle_buf' = <<>> /\ image_address_offset' = PlaceOf[k + 1]
          BY <4>1, <2>8, <1>2, <1>3, <1>10 DEF InChunk
        <4>4. chunks_processed' \in 0..Len(img.chunks) /\ chunks_processed' = k
          BY <1>3, <1>10
        <4>5. AtChunkHeader' BY <4>2, <4>3, <4>4, <1>1, <1>3, AtNextHeader
        <4> QED BY <4>5, <3>1, <1>10 DEF Position
      <3>2. CASE ~ends
        <4>1. (r - n) % Block = 0 BY <1>3, <1>6, BlocksPlus
        <4>2. r - n > 0
          <5>1. n <= size /\ ~(size >= r) BY <1>6, <3>2 DEF ends
          <5> QED BY <5>1, <1>3, <1>5, <1>6
        <4>3. /\ image_address_offset' + chunk_remain_data_size' = PlaceOf[k + 1]
              /\ chunk_remain_data_size' <= Size(k)
              /\ chunk_remain_data_size' = r - n
          BY <2>8, <1>3, <1>6, <1>10
        <4>4. /\ unhandle_buf' = <<>> /\ chunks_processed' = k /\ k > 0
              /\ wait_phase' = "CHUNK_DATA"
          BY <3>2, <1>2, <1>10 DEF InChunk
        <4> QED BY <4>1, <4>2, <4>3, <4>4, <2>11, <1>1, <1>3, <1>7
              DEF Position, InChunk, Size
      <3> QED BY <3>1, <3>2
    <2>13. Len(buf') < Len(buf)
      <3>1. Len(buf') < size BY <2>1, <2>3, <2>5
      <3> QED BY <3>1 DEF size
    <2>14. image_address_offset' >= image_address_offset
      <3> HIDE DEF r
      <3> QED BY <2>5, <2>8
    <2> QED BY <2>2, <2>7, <2>8, <2>9, <2>10, <2>12, <2>13, <2>14
          DEF UnsparseIInv
  <1> QED BY <1>8, <1>9, <1>10
        DEF WaitChunkData, incomplete, set_unsparse_status, emmc_fails,
            parser_vars

\* The parser that looks for a header has a chunk left to look for, and the
\* buffer goes on where it is.
LEMMA AtAHeader ==
  ASSUME UnsparseIInv, Parsing("CHUNK_HEADER")
  PROVE  /\ AtChunkHeader /\ img \in Image /\ Len(img.chunks) \in Nat
         /\ chunks_processed \in 0..Len(img.chunks)
         /\ chunks_processed + 1 \in 1..Len(img.chunks)
         /\ Len(buf) \in Nat /\ Len(buf) > 0
         /\ received = Consumed + Len(buf) /\ received <= Len(File)
         /\ Len(File) \in Nat /\ Consumed \in Nat
         /\ HeaderAt[chunks_processed + 1] \in Nat
         /\ HeaderAt[chunks_processed + 1] >= 1
         /\ HeaderAt[chunks_processed + 1] + ChunkHeader - 1 <= Len(File)
         /\ Len(unhandle_buf) \in 0..(ChunkHeader - 1)
         /\ Consumed =
              HeaderAt[chunks_processed + 1] - 1 + Len(unhandle_buf)
         /\ ChunkHeader \in Nat \ {0, 1}
  <1> DEFINE k == chunks_processed
             n == Len(img.chunks)
             len == Len(File)
             u == Len(unhandle_buf)
             b == Len(buf)
             h == HeaderAt[k + 1]
  <1>1. /\ wait_phase = "CHUNK_HEADER" /\ buf # <<>>
        /\ AtChunkHeader /\ img \in Image /\ n \in Nat /\ k \in 0..n
    BY Known, ImageHas DEF Parsing, UnsparseIInv, Position
  <1>2. b \in Nat /\ b > 0 /\ received = Consumed + b /\ received <= len
        /\ len \in Nat /\ Consumed \in Nat
    <2>1. padding = <<>> /\ Len(padding) = 0 /\ b \in 0..received /\ b # 0
          /\ received \in 0..len /\ len \in Nat /\ Consumed \in Nat
      BY <1>1, Known
    <2> QED BY <2>1 DEF Consumed
  <1>3. u \in 0..(ChunkHeader - 1) /\ Consumed = h - 1 + u
        /\ ChunkHeader \in Nat \ {0, 1}
    BY <1>1, UnsparseAssumption DEF AtChunkHeader
  <1>4. h \in Nat /\ h >= 1 BY <1>1, ChunkPlaces
  <1>5. k + 1 \in 1..n
    <2>1. CASE k = n
      <3>1. len = h - 1 BY <2>1, <1>1, FileIsSeq
      <3> HIDE DEF len, u, b, h
      <3> QED BY <3>1, <1>2, <1>3, <1>4
    <2> QED BY <2>1, <1>1
  <1>6. h + ChunkHeader - 1 <= len
    <2> DEFINE e == HeaderAt[(k + 1) + 1]
               d == DataWords(k + 1)
    <2>1. e \in Nat /\ e - 1 <= len /\ e = h + ChunkHeader + d
      BY <1>1, <1>5, ChunkPlaces
    <2>2. d \in Nat BY <1>1, <1>5, SizeIsBlocks
    <2> HIDE DEF e, d, len, h
    <2> QED BY <2>1, <2>2, <1>2, <1>3, <1>4
  <1> QED BY <1>1, <1>2, <1>3, <1>4, <1>5, <1>6

\* The part of a header at the end of a package: no other came before it.
LEMMA HeaderPartKeeps ==
  ASSUME UnsparseIInv, Parsing("CHUNK_HEADER"),
         Len(unhandle_buf) + Len(buf) < ChunkHeader, unhandle_buf' = buf,
         set_unsparse_status("STATUS_OK", "CHUNK_HEADER", <<>>),
         UNCHANGED <<chunk_hdr, chunks_processed, chunk_remain_data_size,
                     image_address_offset, disk, written>>
  PROVE  UnsparseIInv' /\ Len(buf') < Len(buf)
  <1> DEFINE k == chunks_processed
             len == Len(File)
             u == Len(unhandle_buf)
             b == Len(buf)
             h == HeaderAt[k + 1]
  <1>1. /\ wait_phase = "CHUNK_HEADER" /\ handle_status = "STATUS_OK"
        /\ img' = img /\ package' = package /\ received' = received
        /\ handle_status' = "STATUS_OK" /\ wait_phase' = "CHUNK_HEADER"
        /\ buf' = <<>>
    BY DEF Parsing, set_unsparse_status
  <1>2. /\ AtChunkHeader /\ b \in Nat /\ b > 0
        /\ received = Consumed + b /\ received <= len
        /\ len \in Nat /\ Consumed \in Nat /\ h \in Nat /\ h >= 1
        /\ h + ChunkHeader - 1 <= len /\ u \in 0..(ChunkHeader - 1)
        /\ Consumed = h - 1 + u /\ ChunkHeader \in Nat
    BY AtAHeader
  <1>3. u = 0
    <2>1. u = 0 \/ b >= ChunkHeader - 1 \/ received = len
      <3>1. CASE unhandle_buf = <<>>
        <4>1. Len(<<>>) = 0 OBVIOUS
        <4> QED BY <4>1, <3>1
      <3> QED BY <3>1, <1>2 DEF AtChunkHeader, Parsing
    <2>2. u + b < ChunkHeader OBVIOUS
    <2> HIDE DEF len, u, b, h
    <2> QED BY <2>1, <2>2, <1>2
  <1>4. /\ img \in Image /\ File \in Seq(FileWord) /\ received \in 0..Len(File)
        /\ IsEnd(buf, File, received)
    BY Known
  <1>5. IsEnd(buf', File, received) /\ Len(buf') = 0 BY <1>1, <1>4, EmptyEnd
  <1>6. StreamKept' /\ Consumed' = Consumed + b - Len(buf')
    BY <1>1, <1>5, TurnKeepsStream
  <1>7. Consumed' = received /\ received - b + 1 = h /\ b \in 0..(ChunkHeader - 1)
        /\ Consumed' = h - 1 + b
    <2> DEFINE c == Len(buf')
    <2>1. u + b < ChunkHeader /\ c = 0 /\ Consumed' = Consumed + b - c
      BY <1>5, <1>6
    <2> HIDE DEF len, u, b, h, c
    <2> QED BY <2>1, <1>2, <1>3
  <1>8. HeaderAt' = HeaderAt /\ PlaceOf' = PlaceOf /\ File' = File
        /\ Unsparsed' = Unsparsed
    BY <1>1, ImageStays
  <1>9. AtChunkHeader'
    <2>1. unhandle_buf' = SubSeq(File, h, Consumed')
      BY <1>4, <1>7 DEF IsEnd
    <2>2. HeaderAt'[chunks_processed' + 1] = h BY <1>8
    <2>3. Len(unhandle_buf') = b OBVIOUS
    <2>4. image_address_offset' = PlaceOf'[chunks_processed' + 1]
      BY <1>2, <1>8 DEF AtChunkHeader
    <2> HIDE DEF h, b
    <2> QED BY <2>1, <2>2, <2>3, <2>4, <1>1, <1>7, <1>8 DEF AtChunkHeader
  <1>10. UnsparseTyped' BY <1>1, <1>8 DEF UnsparseIInv, UnsparseTyped
  <1>11. Position' BY <1>1, <1>9 DEF Position
  <1>12. Placed' BY <1>8 DEF UnsparseIInv, Placed
  <1>13. HeaderKept' BY DEF UnsparseIInv, HeaderKept, Words, Word
  <1>14. Blocks' BY DEF UnsparseIInv, Blocks, WholeBlocks
  <1>15. Len(buf') < Len(buf) BY <1>2, <1>5
  <1> QED BY <1>6, <1>10, <1>11, <1>12, <1>13, <1>14, <1>15 DEF UnsparseIInv

\* A header that is there is the next chunk's, though it came in two parts.
LEMMA WholeHeaderIs ==
  ASSUME UnsparseIInv, Parsing("CHUNK_HEADER"),
         Len(unhandle_buf) + Len(buf) >= ChunkHeader
  PROVE  /\ whole_header = Words("chunk", chunks_processed + 1, ChunkHeader)
         /\ ChunkHeader - Len(unhandle_buf) \in 0..Len(buf)
         /\ ChunkHeader - Len(unhandle_buf) > 0
  <1> DEFINE k == chunks_processed + 1
             len == Len(File)
             u == Len(unhandle_buf)
             b == Len(buf)
             h == HeaderAt[k]
             all == SubSeq(File, h, received)
             hdr == SubSeq(File, h, h + ChunkHeader - 1)
  <1>1. /\ AtChunkHeader /\ b \in Nat /\ b > 0 /\ k \in 1..Len(img.chunks)
        /\ received = Consumed + b /\ received <= len
        /\ len \in Nat /\ Consumed \in Nat /\ h \in Nat /\ h >= 1
        /\ h + ChunkHeader - 1 <= len /\ u \in 0..(ChunkHeader - 1)
        /\ Consumed = h - 1 + u /\ ChunkHeader \in Nat \ {0, 1}
    BY AtAHeader
  <1>2. File \in Seq(FileWord) /\ img \in Image BY Known
  <1>3. u + b >= ChunkHeader OBVIOUS
  <1>4. /\ h \in 1..len /\ h \in 1..(len + 1) /\ received \in 1..len
        /\ Consumed \in (h - 1)..len /\ received \in Consumed..len
        /\ received - b + 1 = Consumed + 1
        /\ ChunkHeader \in 1..(received - h + 1) /\ 1 \in 1..(received - h + 1)
        /\ h + 1 - 1 = h
        /\ ChunkHeader - u \in 0..b /\ ChunkHeader - u > 0
    <2> HIDE DEF len, u, b, h
    <2> QED BY <1>1, <1>3
  <1>5. unhandle_buf \o buf = all
    <2>1. unhandle_buf = SubSeq(File, h, Consumed) BY <1>1 DEF AtChunkHeader
    <2>2. buf = SubSeq(File, Consumed + 1, received)
      <3>1. IsEnd(buf, File, received) BY Known
      <3> QED BY <3>1, <1>4 DEF IsEnd
    <2>3. SubSeq(File, h, Consumed) \o SubSeq(File, Consumed + 1, received)
            = SubSeq(File, h, received)
      <3> HIDE DEF h
      <3> QED BY <1>2, <1>4, ConcatAdjacentSubSeq
    <2> QED BY <2>1, <2>2, <2>3
  <1>6. SubSeq(all, 1, ChunkHeader) = hdr
    <2> HIDE DEF h, len
    <2>1. SubSeq(SubSeq(File, h, received), 1, ChunkHeader)
            = SubSeq(File, h + 1 - 1, h + ChunkHeader - 1)
      <3>1. Len(File) = len BY DEF len
      <3>2. File \in Seq(FileWord) BY <1>2
      <3> QED BY <3>1, <3>2, <1>4, SubSeqOfSubSeq
    <2> QED BY <2>1, <1>4
  <1>7. whole_header = hdr BY <1>5, <1>6 DEF whole_header
  <1>8. /\ hdr \in Seq(FileWord) /\ Len(hdr) = ChunkHeader
        /\ \A j \in 1..ChunkHeader : hdr[j] = File[h + j - 1]
    <2> DEFINE z == h + ChunkHeader - 1
    <2>1. z \in Int /\ h \in Int /\ h <= z /\ z - h + 1 = ChunkHeader
          /\ h..z \subseteq 1..len
      <3> HIDE DEF h, len
      <3> QED BY <1>1
    <2>2. \A i \in h..z : File[i] \in FileWord
      <3>1. \A i \in 1..len : File[i] \in FileWord BY <1>2
      <3> HIDE DEF h, z, len
      <3> QED BY <3>1, <2>1
    <2> HIDE DEF h, z
    <2>3. /\ SubSeq(File, h, z) \in Seq(FileWord)
          /\ Len(SubSeq(File, h, z)) = ChunkHeader
          /\ \A j \in 1..ChunkHeader : SubSeq(File, h, z)[j] = File[h + j - 1]
      BY <2>1, <2>2, SubSeqProperties
    <2> QED BY <2>3 DEF z
  <1>9. \A j \in 1..ChunkHeader : File[h + j - 1] = Word("chunk", k, j)
    BY <1>1, <1>2, FileWords
  <1>10. hdr = Words("chunk", k, ChunkHeader)
    <2> HIDE DEF hdr, h, k
    <2>1. hdr = [j \in 1..ChunkHeader |-> hdr[j]] BY <1>1, <1>8
    <2>2. \A j \in 1..ChunkHeader : hdr[j] = Word("chunk", k, j)
      BY <1>8, <1>9
    <2> QED BY <2>1, <2>2 DEF Words
  <1> QED BY <1>4, <1>7, <1>10

LEMMA WaitChunkHeaderKeeps ==
  ASSUME UnsparseIInv, WaitChunkHeader
  PROVE  /\ UnsparseIInv' /\ Len(buf') < Len(buf)
         /\ image_address_offset' >= image_address_offset
  <1> DEFINE k == chunks_processed + 1
             t == img.chunks[k].type
             m == ChunkHeader - Len(unhandle_buf)
             b == Len(buf)
             h == HeaderAt[k]
             e == HeaderAt[k + 1]
             a == PlaceOf[k]
             z == PlaceOf[k + 1]
  <1>1. /\ Parsing("CHUNK_HEADER") /\ wait_phase = "CHUNK_HEADER"
        /\ handle_status = "STATUS_OK"
        /\ img' = img /\ package' = package /\ received' = received
    BY DEF WaitChunkHeader, Parsing
  <1>2. /\ AtChunkHeader /\ img \in Image /\ Len(img.chunks) \in Nat
        /\ k \in 1..Len(img.chunks) /\ chunks_processed \in 0..Len(img.chunks)
        /\ b \in Nat /\ Consumed \in Nat
        /\ h \in Nat /\ Len(unhandle_buf) \in 0..(ChunkHeader - 1)
        /\ Consumed = h - 1 + Len(unhandle_buf)
        /\ ChunkHeader \in Nat \ {0, 1}
    BY <1>1, AtAHeader
  <1>3. CASE Len(unhandle_buf) + b < ChunkHeader
    <2>1. ~(chunks_processed >= Len(img.chunks)) BY <1>2
    <2>2. /\ unhandle_buf' = buf
          /\ set_unsparse_status("STATUS_OK", "CHUNK_HEADER", <<>>)
          /\ UNCHANGED <<chunk_hdr, chunks_processed, chunk_remain_data_size,
                         image_address_offset, disk, written>>
      BY <2>1, <1>3 DEF WaitChunkHeader
    <2>3. image_address_offset \in Nat BY DEF UnsparseIInv, UnsparseTyped
    <2> QED BY <2>2, <2>3, <1>1, <1>3, HeaderPartKeeps
  <1>4. CASE Len(unhandle_buf) + b >= ChunkHeader
    <2>1. /\ whole_header = Words("chunk", k, ChunkHeader)
          /\ m \in 0..b /\ m > 0
      BY <1>1, <1>4, WholeHeaderIs
    <2>2. whole_header[1] = Word("chunk", k, 1)
          /\ whole_header[2] = Word("chunk", k, 2)
      <3>1. 1 \in 1..ChunkHeader /\ 2 \in 1..ChunkHeader BY <1>2
      <3> QED BY <3>1, <2>1 DEF Words
    <2>3. t \in Type /\ t # "UNKNOWN" BY <1>2, ImageHas DEF Type
    <2>4. /\ unhandle_buf' = <<>> /\ chunk_hdr' = whole_header
          /\ chunk_remain_data_size' = IF t = "DONT_CARE" THEN 0 ELSE Size(k)
          /\ image_address_offset' =
               image_address_offset + IF t = "DONT_CARE" THEN Size(k) ELSE 0
          /\ chunks_processed' = k
          /\ handle_status' = "STATUS_OK"
          /\ wait_phase' = CASE t = "RAW" -> "CHUNK_DATA"
                             [] t = "FILL" -> "CHUNK_FILL"
                             [] t = "CRC" -> "CHUNK_CRC"
                             [] t = "DONT_CARE" -> "CHUNK_HEADER"
          /\ buf' = Drop(buf, m) /\ disk' = disk /\ written' = written
      <3> DEFINE hdr == whole_header
                 type == IF hdr[1].part = "chunk" /\ hdr[1].at = 1
                         THEN img.chunks[hdr[1].of].type ELSE "UNKNOWN"
                 data == IF hdr[2].part = "chunk" /\ hdr[2].at = 2
                         THEN img.chunks[hdr[2].of].blocks * img.blk_sz ELSE 1
      <3>1. type = t BY <2>2 DEF Word
      <3>2. data = Size(k) BY <2>2 DEF Word, Size
      <3>3. ~(chunks_processed >= Len(img.chunks))
            /\ ~(Len(unhandle_buf) + Len(buf) < ChunkHeader)
        BY <1>2, <1>4, SMTT(30)
      <3>4. /\ unhandle_buf' = <<>>
            /\ chunk_hdr' = hdr
            /\ chunk_remain_data_size' = IF type = "DONT_CARE" THEN 0 ELSE data
            /\ image_address_offset' =
                 image_address_offset + IF type = "DONT_CARE" THEN data ELSE 0
            /\ IF type = "UNKNOWN"
               THEN /\ handle_status' = "STATUS_UNKNOWN_SPARSE_CHUNK_TYPE"
                    /\ UNCHANGED <<wait_phase, buf, chunks_processed>>
               ELSE /\ chunks_processed' = chunks_processed + 1
                    /\ set_unsparse_status("STATUS_OK",
                         CASE type = "RAW" -> "CHUNK_DATA"
                           [] type = "FILL" -> "CHUNK_FILL"
                           [] type = "CRC" -> "CHUNK_CRC"
                           [] type = "DONT_CARE" -> "CHUNK_HEADER",
                         Drop(buf, ChunkHeader - Len(unhandle_buf)))
            /\ UNCHANGED <<disk, written>>
        BY <3>3, Zenon DEF WaitChunkHeader
      <3> HIDE DEF type, data
      <3>5. /\ unhandle_buf' = <<>> /\ chunk_hdr' = whole_header
            /\ chunk_remain_data_size' = IF t = "DONT_CARE" THEN 0 ELSE Size(k)
            /\ image_address_offset' =
                 image_address_offset + IF t = "DONT_CARE" THEN Size(k) ELSE 0
            /\ disk' = disk /\ written' = written
        BY <3>1, <3>2, <3>4
      <3>6. chunks_processed' = k
            /\ set_unsparse_status("STATUS_OK",
                 CASE t = "RAW" -> "CHUNK_DATA"
                   [] t = "FILL" -> "CHUNK_FILL"
                   [] t = "CRC" -> "CHUNK_CRC"
                   [] t = "DONT_CARE" -> "CHUNK_HEADER", Drop(buf, m))
        BY <3>1, <3>4, <2>3
      <3> QED BY <3>5, <3>6 DEF set_unsparse_status
    <2>5. /\ e \in Nat /\ e = h + ChunkHeader + DataWords(k)
          /\ a \in Nat /\ z \in Nat /\ z = a + Size(k) /\ a % Block = 0
          /\ image_address_offset = a
          /\ Size(k) \in Nat /\ DataWords(k) \in Nat /\ Size(k) % Block = 0
          /\ (Size(k) = 0 <=> t = "CRC")
      <3>1. /\ Size(k) \in Nat /\ DataWords(k) \in Nat /\ Size(k) % Block = 0
            /\ (Size(k) = 0 <=> t = "CRC")
        BY <1>2, SizeIsBlocks
      <3>2. k \in 0..Len(img.chunks) BY <1>2
      <3>3. a % Block = 0 BY <1>2, ChunkPlaces
      <3>4. /\ e \in Nat /\ e = h + ChunkHeader + DataWords(k)
            /\ a \in Nat /\ z \in Nat /\ z = a + Size(k)
        BY <3>2, <1>2, ChunkPlaces
      <3>5. image_address_offset = a BY <1>2 DEF AtChunkHeader
      <3> QED BY <3>1, <3>3, <3>4, <3>5
    <2>6. IsEnd(buf', File, received) /\ Len(buf') = b - m
      <3>1. m \in 0..Len(buf) /\ buf' = Drop(buf, m) BY <2>1, <2>4
      <3>2. IsEnd(buf, File, received) /\ File \in Seq(FileWord)
            /\ received \in 0..Len(File)
        BY Known
      <3> HIDE DEF m
      <3>3. IsEnd(Drop(buf, m), File, received)
            /\ Len(Drop(buf, m)) = Len(buf) - m
        <4>1. \A i \in 0..Len(buf) :
                IsEnd(Drop(buf, i), File, received)
                /\ Len(Drop(buf, i)) = Len(buf) - i
          BY <3>2, EndDropped
        <4> QED BY <3>1, <4>1
      <3> QED BY <3>1, <3>3
    <2>7. StreamKept' /\ Consumed' = Consumed + b - Len(buf')
      BY <1>1, <2>4, <2>6, TurnKeepsStream
    <2>8. Consumed' = e - 1 - DataWords(k)
      <3> DEFINE u == Len(unhandle_buf)
                 d == DataWords(k)
                 c == Len(buf')
      <3>1. /\ m = ChunkHeader - u /\ c = b - m /\ Consumed' = Consumed + b - c
            /\ Consumed = h - 1 + u /\ e = h + ChunkHeader + d
            /\ u \in Nat /\ d \in Nat /\ h \in Nat /\ b \in Nat
            /\ ChunkHeader \in Nat
        BY <1>2, <2>5, <2>6, <2>7
      <3> HIDE DEF u, d, c, m, h, e, b
      <3>2. Consumed' = e - 1 - d BY <3>1
      <3> QED BY <3>2 DEF d
    <2>9. HeaderAt' = HeaderAt /\ PlaceOf' = PlaceOf /\ File' = File
          /\ Unsparsed' = Unsparsed
      BY <1>1, ImageStays
    <2>10. k + 1 = chunks_processed' + 1 /\ chunks_processed' \in 0..Len(img.chunks)
          /\ chunks_processed' > 0
      BY <1>2, <2>4
    <2>11. /\ image_address_offset' = IF t = "DONT_CARE" THEN z ELSE a
          /\ image_address_offset' \in Nat
          /\ chunk_remain_data_size' \in Nat
          /\ chunk_remain_data_size' % Block = 0
          /\ chunk_remain_data_size' <= Size(k)
          /\ (t # "DONT_CARE" => chunk_remain_data_size' = Size(k)
                /\ image_address_offset' + chunk_remain_data_size' = z)
      <3>1. 0 % Block = 0 BY UnsparseAssumption
      <3>2. CASE t = "DONT_CARE"
        <4>1. chunk_remain_data_size' = 0
              /\ image_address_offset' = image_address_offset + Size(k)
          BY <3>2, <2>4
        <4> QED BY <4>1, <3>1, <3>2, <2>5
      <3>3. CASE t # "DONT_CARE"
        <4>1. chunk_remain_data_size' = Size(k)
              /\ image_address_offset' = image_address_offset + 0
          BY <3>3, <2>4
        <4> QED BY <4>1, <3>3, <2>5
      <3> QED BY <3>2, <3>3
    <2>12. UnsparseTyped'
      <3>1. wait_phase' \in {"CHUNK_HEADER", "CHUNK_DATA", "CHUNK_FILL",
                             "CHUNK_CRC"}
        BY <2>3, <2>4 DEF Type
      <3> QED BY <3>1, <2>4, <2>9, <2>10, <2>11, <1>1
            DEF UnsparseIInv, UnsparseTyped
    <2>13. ASSUME NEW type, t = type, t # "DONT_CARE",
                  NEW more, Consumed' = e - 1 - more
           PROVE  InChunk(type, more)'
      BY <2>4, <2>9, <2>10, <2>11, <2>13, <1>1 DEF InChunk, Size
    <2>14. Position'
      <3>1. CASE t = "RAW"
        <4>1. DataWords(k) = Size(k) BY <3>1 DEF DataWords
        <4>2. InChunk("RAW", chunk_remain_data_size)'
          BY <4>1, <3>1, <2>4, <2>8, <2>9, <2>10, <2>11, <1>1
          DEF InChunk, Size
        <4>3. chunk_remain_data_size' > 0 BY <3>1, <2>5, <2>11
        <4> QED BY <4>2, <4>3, <3>1, <2>4 DEF Position
      <3>2. CASE t = "FILL"
        <4>1. DataWords(k) = 1 BY <3>2 DEF DataWords
        <4>2. InChunk("FILL", 1)' BY <4>1, <3>2, <2>8, <2>13
        <4>3. chunk_remain_data_size' = Size(chunks_processed)'
          BY <3>2, <2>4, <2>11, <1>1 DEF Size
        <4> QED BY <4>2, <4>3, <3>2, <2>4 DEF Position
      <3>3. CASE t = "CRC"
        <4>1. DataWords(k) = 1 BY <3>3 DEF DataWords
        <4>2. InChunk("CRC", 1)' BY <4>1, <3>3, <2>8, <2>13
        <4> QED BY <4>2, <3>3, <2>4 DEF Position
      <3>4. CASE t = "DONT_CARE"
        <4>1. DataWords(k) = 0 BY <3>4 DEF DataWords
        <4>2. Consumed' = e - 1 BY <4>1, <2>5, <2>8
        <4>3. AtChunkHeader'
          BY <4>2, <3>4, <2>4, <2>10, <2>11, <1>1, <1>2, AtNextHeader
        <4> QED BY <4>3, <3>4, <2>4 DEF Position
      <3> QED BY <3>1, <3>2, <3>3, <3>4, <2>3 DEF Type
    <2>15. Placed'
      <3>1. Placed BY DEF UnsparseIInv
      <3>2. CASE t = "DONT_CARE"
        BY <3>1, <3>2, <2>4, <2>5, <2>11, <1>1, <1>2, SkipPlaces
      <3>3. CASE t # "DONT_CARE"
        <4>1. image_address_offset' = image_address_offset
          BY <3>3, <2>5, <2>11
        <4> QED BY <3>1, <4>1, <2>4, <2>9 DEF Placed
      <3> QED BY <3>2, <3>3
    <2>16. HeaderKept' BY <2>1, <2>4 DEF HeaderKept, Words, Word
    <2>17. Blocks'
      <3>1. a % Block = 0 /\ z % Block = 0 BY <2>5, BlocksPlus
      <3>2. image_address_offset' % Block = 0 BY <3>1, <2>11
      <3> QED BY <3>2, <2>4 DEF UnsparseIInv, Blocks, WholeBlocks
    <2>18. Len(buf') < Len(buf) BY <1>2, <2>1, <2>6
    <2>19. image_address_offset' >= image_address_offset
      BY <2>5, <2>11
    <2> QED BY <2>7, <2>12, <2>14, <2>15, <2>16, <2>17, <2>18, <2>19
          DEF UnsparseIInv
  <1> QED BY <1>2, <1>3, <1>4

-----------------------------------------------------------------------------
(* The theorems.                                                           *)

LEMMA UnsparseStutter ==
  ASSUME UnsparseIInv, UNCHANGED unsparse_vars
  PROVE  UnsparseIInv'
  <1>1. /\ img' = img /\ package' = package /\ received' = received
        /\ padding' = padding /\ buf' = buf /\ wait_phase' = wait_phase
        /\ handle_status' = handle_status /\ UNCHANGED parser_vars
    BY DEF unsparse_vars
  <1>2. File' = File /\ HeaderAt' = HeaderAt /\ PlaceOf' = PlaceOf
    BY <1>1, ImageStays
  <1>3. Consumed' = Consumed BY <1>1 DEF Consumed
  <1>4. UnsparseTyped'
    BY <1>1, <1>2 DEF parser_vars, UnsparseIInv, UnsparseTyped
  <1>5. StreamKept' BY <1>1, <1>2 DEF parser_vars, UnsparseIInv, StreamKept
  <1>6. Position'
    BY <1>1, <1>2, <1>3
    DEF parser_vars, UnsparseIInv, Position, AtFileHeader, AtChunkHeader,
        InChunk, Size
  <1> QED BY <1>1, <1>4, <1>5, <1>6, ParserStays DEF UnsparseIInv

LEMMA UnsparseStep ==
  ASSUME UnsparseIInv, [UnsparseNext]_unsparse_vars
  PROVE  UnsparseIInv'
  BY NextPackageKeeps, CarryKeeps, WaitSparseHeaderKeeps,
     WaitChunkHeaderKeeps, WaitChunkFillKeeps, WaitChunkCrcKeeps,
     WaitChunkDataKeeps, UnsparseStutter
  DEF UnsparseNext

LEMMA UnsparseInvariant == UnsparseSpec => []UnsparseIInv
  <1>1. UnsparseInit => UnsparseIInv BY InitIsSound
  <1>2. UnsparseIInv /\ [UnsparseNext]_unsparse_vars => UnsparseIInv'
    BY UnsparseStep
  <1> QED BY <1>1, <1>2, PTL DEF UnsparseSpec

\* When all of the file has come and been looked at, the parser is behind the
\* last chunk.
LEMMA AtTheEnd ==
  ASSUME UnsparseIInv, received = Len(File), buf = <<>>,
         handle_status = "STATUS_OK"
  PROVE  image_address_offset = PlaceOf[Len(img.chunks) + 1]
  <1> DEFINE k == chunks_processed
             n == Len(img.chunks)
             len == Len(File)
             r == chunk_remain_data_size
             h == HeaderAt[k + 1]
             pad == Len(padding)
             u == Len(unhandle_buf)
  <1>1. /\ img \in Image /\ len \in Nat /\ k \in 0..n /\ n \in Nat
        /\ pad \in Nat /\ (padding = <<>> <=> pad = 0) /\ r \in Nat
        /\ Consumed = len - pad
    <2>1. Len(<<>>) = 0 OBVIOUS
    <2> QED BY <2>1, Known, ImageHas
          DEF Consumed, UnsparseIInv, UnsparseTyped
  <1>2. h \in Nat /\ h - 1 <= len BY <1>1, ChunkPlaces
  <1>3. pad > 0 => wait_phase = "CHUNK_DATA" /\ pad < r
    BY <1>1 DEF UnsparseIInv, StreamKept
  <1>4. wait_phase # "SPARSE_HEADER"
    <2>1. FileHeader <= len /\ FileHeader \in Nat \ {0}
      BY <1>1, FileIsSeq, UnsparseAssumption
    <2>2. wait_phase = "SPARSE_HEADER" => Consumed = 0
      BY DEF UnsparseIInv, Position, AtFileHeader
    <2> HIDE DEF len, pad
    <2> QED BY <2>1, <2>2, <1>1, <1>3
  <1>5. wait_phase # "CHUNK_DATA"
    <2>1. wait_phase = "CHUNK_DATA" => r > 0 /\ Consumed = h - 1 - r
      BY DEF UnsparseIInv, Position, InChunk
    <2> HIDE DEF len, pad, h, r
    <2> QED BY <2>1, <1>1, <1>2, <1>3
  <1>6. wait_phase \notin {"CHUNK_FILL", "CHUNK_CRC"}
    <2>1. wait_phase \in {"CHUNK_FILL", "CHUNK_CRC"} => Consumed = h - 1 - 1
      BY DEF UnsparseIInv, Position, InChunk
    <2> HIDE DEF len, pad, h
    <2> QED BY <2>1, <1>1, <1>2, <1>3
  <1>7. wait_phase = "CHUNK_HEADER"
    BY <1>4, <1>5, <1>6 DEF UnsparseIInv, UnsparseTyped
  <1>8. AtChunkHeader /\ pad = 0
    BY <1>1, <1>3, <1>7 DEF UnsparseIInv, Position
  <1>9. k = n
    <2>1. SUFFICES ASSUME k + 1 \in 1..n PROVE FALSE BY <1>1
    <2> DEFINE e == HeaderAt[(k + 1) + 1]
               d == DataWords(k + 1)
    <2>2. e - 1 <= len /\ e = h + ChunkHeader + d /\ d \in Nat
      <3>1. k + 1 \in 0..n BY <1>1, <2>1
      <3> QED BY <3>1, <2>1, <1>1, ChunkPlaces, SizeIsBlocks
    <2>3. u \in 0..(ChunkHeader - 1) /\ Consumed = h - 1 + u
      BY <1>8 DEF AtChunkHeader
    <2>4. ChunkHeader \in Nat BY UnsparseAssumption
    <2> HIDE DEF e, d, len, pad, h, u
    <2> QED BY <2>2, <2>3, <2>4, <1>1, <1>2, <1>8
  <1> QED BY <1>8, <1>9 DEF AtChunkHeader

\* Wherever the packages cut the image: the parser recognises every header,
\* writes whole blocks, each word in its place, and has laid all of the image
\* down when it has come.
THEOREM ImageIsUnsparsed == UnsparseSpec => []UnsparseInv
  <1>1. UnsparseIInv => UnsparseInv
    <2> SUFFICES ASSUME UnsparseIInv PROVE UnsparseInv OBVIOUS
    <2>1. UnsparseTypeOK
      <3>1. Len(padding) < Block
        <4>1. Block \in Nat \ {0} BY UnsparseAssumption
        <4>2. CASE padding = <<>>
          <5>1. Len(padding) = 0 BY <4>2, Known
          <5> QED BY <4>1, <5>1
        <4>3. CASE padding # <<>> BY <4>3 DEF UnsparseIInv, StreamKept
        <4> QED BY <4>2, <4>3
      <3>2. Len(unhandle_buf) < ChunkHeader
        <4>1. ChunkHeader \in Nat \ {0} /\ Len(<<>>) = 0
          BY UnsparseAssumption
        <4>2. unhandle_buf = <<>> \/ Len(unhandle_buf) \in 0..(ChunkHeader - 1)
          BY DEF UnsparseIInv, UnsparseTyped, Position, AtFileHeader,
                 AtChunkHeader, InChunk
        <4> QED BY <4>1, <4>2
      <3> QED BY <3>1, <3>2 DEF UnsparseIInv, UnsparseTyped, UnsparseTypeOK
    <2>2. HeadersRecognised
      BY DEF UnsparseIInv, UnsparseTyped, HeaderKept, HeadersRecognised
    <2>3. WholeBlocks BY DEF UnsparseIInv, Blocks
    <2>4. NothingForgotten
      <3> SUFFICES ASSUME received = Len(File), buf = <<>>,
                          handle_status = "STATUS_OK"
                   PROVE  disk = Unsparsed
        BY DEF NothingForgotten
      <3> DEFINE D == DOMAIN Unsparsed
                 z == PlaceOf[Len(img.chunks) + 1]
      <3>1. image_address_offset = z BY AtTheEnd
      <3>2. D \subseteq 0..(z - 1) /\ z \in Nat
            /\ Unsparsed = [p \in D |-> Unsparsed[p]]
        BY Known, UnsparsedPlaces
      <3>3. disk = [p \in {p \in D : p < z} |-> Unsparsed[p]]
        BY <3>1 DEF UnsparseIInv, Placed
      <3> HIDE DEF D, z
      <3>4. {p \in D : p < z} = D BY <3>2
      <3> QED BY <3>2, <3>3, <3>4
    <2>5. PlacedRight BY DEF UnsparseIInv, Placed, PlacedRight
    <2> QED BY <2>1, <2>2, <2>3, <2>4, <2>5 DEF UnsparseInv
  <1> QED BY <1>1, UnsparseInvariant, PTL

\* The loop of write_sparse_data ends: a turn of it takes a word or more from
\* the buffer, or stops with a status that is not OK.
THEOREM ParserLoopEnds == UnsparseSpec => LoopAdvances
  <1> DEFINE Advances ==
               (handle_status = "STATUS_OK" /\ buf # <<>>) =>
                 (Len(buf') < Len(buf) \/ handle_status' # "STATUS_OK")
  <1>1. UnsparseIInv /\ [UnsparseNext]_unsparse_vars
          => [Advances]_unsparse_vars
    <2> SUFFICES ASSUME UnsparseIInv, UnsparseNext PROVE Advances OBVIOUS
    <2>1. CASE NextPackage BY <2>1 DEF NextPackage
    <2>2. CASE Carry BY <2>2 DEF Carry
    <2> QED BY <2>1, <2>2, WaitSparseHeaderKeeps, WaitChunkHeaderKeeps,
               WaitChunkFillKeeps, WaitChunkCrcKeeps, WaitChunkDataKeeps
            DEF UnsparseNext
  <1> QED BY <1>1, UnsparseInvariant, PTL DEF UnsparseSpec, LoopAdvances

\* However an image comes and whichever write fails, the eMMC is filled from
\* front to back: write_sparse_data implements ImageWriter.
THEOREM ParserIsImageWriter == UnsparseSpec => LaysInOrder
  <1>1. UnsparseInit => Writer!Init BY DEF UnsparseInit, Writer!Init
  <1>2. ASSUME UnsparseIInv, UnsparseIInv', UnsparseNext PROVE Writer!Write
    <2>1. handle_status # "STATUS_EMMC_ERR" /\ img' = img
      BY <1>2 DEF UnsparseNext, NextPackage, Carry, WaitSparseHeader,
                  WaitChunkHeader, WaitChunkFill, WaitChunkCrc,
                  WaitChunkData, Parsing
    <2>2. image_address_offset \in Nat /\ image_address_offset' \in Nat
      BY <1>2 DEF UnsparseIInv, UnsparseTyped
    <2>3. image_address_offset' >= image_address_offset
      <3>1. CASE NextPackage BY <3>1, <2>2 DEF NextPackage, parser_vars
      <3>2. CASE Carry BY <3>2, <2>2 DEF Carry, parser_vars
      <3>3. CASE WaitSparseHeader
        <4>1. image_address_offset = 0
          BY <1>2, <3>3
          DEF WaitSparseHeader, Parsing, UnsparseIInv, Position, AtFileHeader
        <4> QED BY <4>1, <2>2
      <3>4. CASE WaitChunkCrc BY <3>4, <2>2 DEF WaitChunkCrc
      <3>5. CASE WaitChunkHeader \/ WaitChunkFill \/ WaitChunkData
        BY <1>2, <3>5, WaitChunkHeaderKeeps, WaitChunkFillKeeps,
           WaitChunkDataKeeps
      <3> QED BY <1>2, <3>1, <3>2, <3>3, <3>4, <3>5 DEF UnsparseNext
    <2>4. disk' = Writer!Front(Unsparsed, image_address_offset')
      <3>1. Unsparsed' = Unsparsed BY <2>1, ImageStays
      <3>2. Placed' BY <1>2 DEF UnsparseIInv
      <3> QED BY <3>1, <3>2 DEF Placed, Writer!Front
    <2>5. Unsparsed' = Unsparsed BY <2>1, ImageStays
    <2>6. (handle_status = "STATUS_EMMC_ERR")' \in BOOLEAN OBVIOUS
    <2>7. CASE image_address_offset' = image_address_offset
      <3>1. disk = Writer!Front(Unsparsed, image_address_offset)
        BY <1>2 DEF UnsparseIInv, Placed, Writer!Front
      <3>2. disk' = disk BY <3>1, <2>4, <2>7
      <3> QED BY <2>1, <2>5, <2>6, <2>7, <3>2 DEF Writer!Write
    <2>8. CASE image_address_offset' > image_address_offset
      BY <2>1, <2>2, <2>4, <2>5, <2>6, <2>8 DEF Writer!Write
    <2> QED BY <2>2, <2>3, <2>7, <2>8
  <1>3. ASSUME UNCHANGED unsparse_vars PROVE UNCHANGED Writer!writer_vars
    <2>1. img' = img /\ disk' = disk /\ handle_status' = handle_status
          /\ image_address_offset' = image_address_offset
      BY <1>3 DEF unsparse_vars, parser_vars
    <2>2. Unsparsed' = Unsparsed BY <2>1, ImageStays
    <2> QED BY <2>1, <2>2 DEF Writer!writer_vars
  <1>4. UnsparseIInv /\ UnsparseIInv' /\ [UnsparseNext]_unsparse_vars
          => [Writer!Write]_(Writer!writer_vars)
    BY <1>2, <1>3
  <1> QED BY <1>1, <1>4, UnsparseInvariant, PTL
          DEF UnsparseSpec, LaysInOrder, Writer!Spec
=============================================================================
