------------------------------- MODULE Unsparse -------------------------------
(***************************************************************************)
(* The parser of sparse images in the download engine                      *)
(* (mtransfer/sparse_state_machine.c) and the part of write_data that      *)
(* carries what a package leaves over to the next one.  An image comes in  *)
(* packages of a size that has nothing to do with its chunks; what is on   *)
(* the eMMC in the end must not depend on where it was cut.                *)
(*                                                                         *)
(* Lengths are in words of four bytes, of which every part of an image is  *)
(* made.  A word of the image is the record of what it is: part of a chunk *)
(* header, data of a chunk, or padding of the file header.                 *)
(***************************************************************************)
EXTENDS Integers, Sequences

CONSTANTS
  FileHeader,     \* sizeof(sparse_header_t)
  ChunkHeader,    \* sizeof(chunk_header_t)
  Block,          \* STORAGE_BLOCK_SIZE
  FillCache,      \* FILLED_DATA_CACHE_SIZE
  BlockSizes,     \* sparse_header_t.blk_sz of the images
  MaxBlocks,      \* bound: blocks of a chunk
  MaxChunks,      \* bound: chunks of an image
  PackageSizes    \* sizes of a package

ASSUME UnsparseAssumption ==
  /\ FileHeader \in Nat \ {0} /\ ChunkHeader \in Nat \ {0, 1}
  /\ Block \in Nat \ {0}
  /\ FillCache \in Nat \ {0} /\ FillCache % Block = 0
  /\ \A b \in BlockSizes : b \in Nat \ {0} /\ b % Block = 0
  /\ MaxBlocks \in Nat \ {0} /\ MaxChunks \in Nat
  /\ \A p \in PackageSizes :
       p \in Nat /\ p >= FileHeader /\ p >= ChunkHeader - 1

VARIABLES
  img,                 \* the image: its chunks and its block size
  package,             \* the size of a package
  received,            \* words of the image received so far
  padding,             \* the words in front of the next cache
  buf,                 \* status->buf and byte_to_process
  wait_phase,
  handle_status,
  unhandle_buf,        \* m_unsparse_data from here on
  chunk_hdr,
  chunks_processed,
  chunk_remain_data_size,
  image_address_offset,
  disk,                \* what has been written where
  written              \* place and length of the last write

parser_vars == <<unhandle_buf, chunk_hdr, chunks_processed,
                 chunk_remain_data_size, image_address_offset, disk, written>>
unsparse_vars == <<img, package, received, padding, buf, wait_phase,
                   handle_status, parser_vars>>

-----------------------------------------------------------------------------
(* Images.                                                                 *)

Type == {"RAW", "FILL", "DONT_CARE", "CRC"}
Chunk == [type : Type, blocks : 0..MaxBlocks]
Image ==
  [chunks : {s \in UNION {[1..n -> Chunk] : n \in 0..MaxChunks} :
               \A i \in DOMAIN s : s[i].blocks = 0 <=> s[i].type = "CRC"},
   blk_sz : BlockSizes]

Word(part, of, at) == [part |-> part, of |-> of, at |-> at]
Words(part, of, n) == [j \in 1..n |-> Word(part, of, j)]

\* What chunk k takes on the eMMC, and what follows its header in the file.
Size(k) == img.chunks[k].blocks * img.blk_sz
DataWords(k) == CASE img.chunks[k].type = "RAW" -> Size(k)
                  [] img.chunks[k].type \in {"FILL", "CRC"} -> 1
                  [] OTHER -> 0

\* base, and the places that come after it in steps of these lengths.
Sums(base, lengths) ==
  LET sum[k \in 1..(Len(lengths) + 1)] ==
        IF k = 1 THEN base ELSE sum[k - 1] + lengths[k - 1]
  IN  sum

\* Where each chunk begins in the file and on the eMMC, and where the last one
\* ends.
HeaderAt == Sums(FileHeader + 1,
                 [k \in DOMAIN img.chunks |-> ChunkHeader + DataWords(k)])
PlaceOf == Sums(0, [k \in DOMAIN img.chunks |-> Size(k)])

\* The chunk that place p is in.
ChunkAt(starts, p) ==
  CHOOSE k \in DOMAIN img.chunks : starts[k] <= p /\ p < starts[k + 1]

\* The image file.
File ==
  LET starts == HeaderAt
      k(p)   == ChunkAt(starts, p)
      at(p)  == p - starts[k(p)] + 1
  IN  [p \in 1..(starts[Len(img.chunks) + 1] - 1) |->
         IF p <= FileHeader THEN Word("file", 0, p)
         ELSE IF at(p) <= ChunkHeader THEN Word("chunk", k(p), at(p))
         ELSE Word("data", k(p), at(p) - ChunkHeader)]

\* What the eMMC is to hold: the place of every word.
Unsparsed ==
  LET starts  == PlaceOf
      k(p)    == ChunkAt(starts, p)
      type(p) == img.chunks[k(p)].type
  IN  [p \in {p \in 0..(starts[Len(img.chunks) + 1] - 1) :
                type(p) \in {"RAW", "FILL"}} |->
         Word("data", k(p),
              IF type(p) = "FILL" THEN 1 ELSE p - starts[k(p)] + 1)]

-----------------------------------------------------------------------------

UnsparseInit ==
  /\ img \in Image
  /\ package \in PackageSizes
  /\ received = 0
  /\ padding = <<>> /\ buf = <<>>
  /\ wait_phase = "SPARSE_HEADER" /\ handle_status = "STATUS_OK"
  /\ unhandle_buf = <<>> /\ chunk_hdr = <<>>
  /\ chunks_processed = 0
  /\ chunk_remain_data_size = 0
  /\ image_address_offset = 0
  /\ disk = <<>>
  /\ written = [at |-> 0, length |-> 0]

Least(a, b) == IF a < b THEN a ELSE b
Drop(s, n) == SubSeq(s, n + 1, Len(s))

\* write_data gets the next package, with what the one before left over in
\* front of it.
NextPackage ==
  /\ buf = <<>> /\ handle_status = "STATUS_OK" /\ received < Len(File)
  /\ received' = Least(received + package, Len(File))
  /\ buf' = padding \o SubSeq(File, received + 1, received')
  /\ padding' = <<>>
  /\ UNCHANGED <<img, package, wait_phase, handle_status, parser_vars>>

\* What is copied in front of the next cache.
leftover == buf

\* write_data, when the parser came to a leftover: it goes in front of the
\* other cache, which otherwise has none.
Carry ==
  /\ handle_status = "STATUS_SPARSE_INCOMPLETE"
  /\ padding' = leftover
  /\ buf' = <<>>
  /\ handle_status' = "STATUS_OK"
  /\ UNCHANGED <<img, package, received, wait_phase, parser_vars>>

\* set_unsparse_status: what is left of the buffer, and what comes next.
set_unsparse_status(status, phase, rest) ==
  handle_status' = status /\ wait_phase' = phase /\ buf' = rest

\* emmc_write of data at the offset, which goes on.
emmc_write(data) ==
  LET at  == image_address_offset
      new == at..(at + Len(data) - 1)
  IN  /\ disk' = [p \in DOMAIN disk \cup new |->
                    IF p \in new THEN data[p - at + 1] ELSE disk[p]]
      /\ written' = [at |-> at, length |-> Len(data)]
      /\ image_address_offset' = at + Len(data)

\* Variant: the offset goes on before the result is looked at.
emmc_fails_behind ==
  /\ handle_status' = "STATUS_EMMC_ERR"
  /\ image_address_offset' =
       image_address_offset + Least(Len(buf), chunk_remain_data_size)
  /\ UNCHANGED <<wait_phase, buf, unhandle_buf, chunk_hdr, chunks_processed,
                 chunk_remain_data_size, disk, written>>

\* The eMMC does not take it.
emmc_fails ==
  /\ handle_status' = "STATUS_EMMC_ERR"
  /\ UNCHANGED <<wait_phase, buf, parser_vars>>

\* One call of write_sparse_data_internal, in phase.
Parsing(phase) ==
  /\ handle_status = "STATUS_OK" /\ buf # <<>> /\ wait_phase = phase
  /\ UNCHANGED <<img, package, received, padding>>

\* (A first package shorter than the header would be looked at for ever.)
WaitSparseHeader ==
  /\ Parsing("SPARSE_HEADER")
  /\ Len(buf) >= FileHeader
  /\ unhandle_buf' = <<>> /\ chunk_hdr' = <<>> /\ chunks_processed' = 0
  /\ chunk_remain_data_size' = 0 /\ image_address_offset' = 0
  /\ set_unsparse_status("STATUS_OK", "CHUNK_HEADER", Drop(buf, FileHeader))
  /\ UNCHANGED <<disk, written>>

\* Variant: the part that came before is put behind what comes now.
whole_header_swapped == SubSeq(buf \o unhandle_buf, 1, ChunkHeader)

\* A chunk header, of which a part may have come with the package before.
\* Headers are as long as their structs: what the code skips when file_hdr_sz
\* or chunk_hdr_sz says more is left out.
whole_header == SubSeq(unhandle_buf \o buf, 1, ChunkHeader)

\* The header's first word holds the type of its chunk, the second its size.
WaitChunkHeader ==
  /\ Parsing("CHUNK_HEADER")
  /\ IF chunks_processed >= Len(img.chunks)
     THEN /\ set_unsparse_status("STATUS_OK", "CHUNK_HEADER", <<>>)
          /\ UNCHANGED parser_vars
     ELSE IF Len(unhandle_buf) + Len(buf) < ChunkHeader
     THEN /\ unhandle_buf' = buf
          /\ set_unsparse_status("STATUS_OK", "CHUNK_HEADER", <<>>)
          /\ UNCHANGED <<chunk_hdr, chunks_processed, chunk_remain_data_size,
                         image_address_offset, disk, written>>
     ELSE LET hdr  == whole_header
              rest == Drop(buf, ChunkHeader - Len(unhandle_buf))
              type == IF hdr[1].part = "chunk" /\ hdr[1].at = 1
                      THEN img.chunks[hdr[1].of].type ELSE "UNKNOWN"
              data == IF hdr[2].part = "chunk" /\ hdr[2].at = 2
                      THEN img.chunks[hdr[2].of].blocks * img.blk_sz ELSE 1
          IN  /\ unhandle_buf' = <<>>
              /\ chunk_hdr' = hdr
              /\ chunk_remain_data_size' = IF type = "DONT_CARE" THEN 0
                                           ELSE data
              /\ image_address_offset' =
                   image_address_offset + IF type = "DONT_CARE" THEN data
                                          ELSE 0
              /\ IF type = "UNKNOWN"
                 THEN /\ handle_status' = "STATUS_UNKNOWN_SPARSE_CHUNK_TYPE"
                      /\ UNCHANGED <<wait_phase, buf, chunks_processed>>
                 ELSE /\ chunks_processed' = chunks_processed + 1
                      /\ set_unsparse_status("STATUS_OK",
                           CASE type = "RAW" -> "CHUNK_DATA"
                             [] type = "FILL" -> "CHUNK_FILL"
                             [] type = "CRC" -> "CHUNK_CRC"
                             [] type = "DONT_CARE" -> "CHUNK_HEADER", rest)
              /\ UNCHANGED <<disk, written>>

\* The filling is written a cache at a time; any of the writes may fail.
WaitChunkFill ==
  /\ Parsing("CHUNK_FILL")
  /\ \E n \in 0..chunk_remain_data_size :
       /\ emmc_write([j \in 1..n |-> buf[1]])
       /\ chunk_remain_data_size' = chunk_remain_data_size - n
       /\ \/ /\ n = chunk_remain_data_size
             /\ set_unsparse_status("STATUS_OK", "CHUNK_HEADER", Drop(buf, 1))
          \/ /\ n < chunk_remain_data_size /\ n % FillCache = 0
             /\ set_unsparse_status("STATUS_EMMC_ERR", "CHUNK_FILL", buf)
  /\ UNCHANGED <<unhandle_buf, chunk_hdr, chunks_processed>>

WaitChunkCrc ==
  /\ Parsing("CHUNK_CRC")
  /\ chunk_remain_data_size' = 0
  /\ set_unsparse_status("STATUS_OK", "CHUNK_HEADER", Drop(buf, 1))
  /\ UNCHANGED <<unhandle_buf, chunk_hdr, chunks_processed,
                 image_address_offset, disk, written>>

\* size & ~(STORAGE_BLOCK_SIZE - 1)
whole_blocks(size) == (size \div Block) * Block

\* Variant: the buffer is looked at again.
never_incomplete(ends, n) == FALSE

\* Less than a block is left, and the chunk goes on.
incomplete(ends, n) == ~ends /\ n = 0

\* Data of a chunk: to its end, or as many whole blocks as there are.
WaitChunkData ==
  LET size   == Len(buf)
      ends   == size >= chunk_remain_data_size
      n      == IF ends THEN chunk_remain_data_size ELSE whole_blocks(size)
  IN  /\ Parsing("CHUNK_DATA")
      /\ IF incomplete(ends, n)
         THEN /\ set_unsparse_status("STATUS_SPARSE_INCOMPLETE", "CHUNK_DATA",
                                     buf)
              /\ UNCHANGED parser_vars
         ELSE \/ /\ emmc_write(SubSeq(buf, 1, n))
                 /\ chunk_remain_data_size' = chunk_remain_data_size - n
                 /\ set_unsparse_status("STATUS_OK",
                      IF ends THEN "CHUNK_HEADER" ELSE "CHUNK_DATA",
                      Drop(buf, n))
                 /\ UNCHANGED <<unhandle_buf, chunk_hdr, chunks_processed>>
              \/ emmc_fails

UnsparseNext ==
  \/ NextPackage \/ Carry
  \/ WaitSparseHeader \/ WaitChunkHeader
  \/ WaitChunkFill \/ WaitChunkCrc \/ WaitChunkData

UnsparseSpec == UnsparseInit /\ [][UnsparseNext]_unsparse_vars

-----------------------------------------------------------------------------
(* Properties.                                                             *)

\* Every variable has its type; what is left over is less than a block, for
\* which the engine leaves room in front of each cache.
UnsparseTypeOK ==
  /\ received \in 0..Len(File)
  /\ Len(padding) < Block
  /\ Len(unhandle_buf) < ChunkHeader
  /\ wait_phase \in {"SPARSE_HEADER", "CHUNK_HEADER", "CHUNK_DATA",
                     "CHUNK_FILL", "CHUNK_CRC"}
  /\ handle_status \in {"STATUS_OK", "STATUS_SPARSE_INCOMPLETE",
                        "STATUS_EMMC_ERR", "STATUS_UNKNOWN_SPARSE_CHUNK_TYPE"}
  /\ chunks_processed \in 0..Len(img.chunks)
  /\ chunk_remain_data_size \in Nat /\ image_address_offset \in Nat

\* The parser never mistakes data for a header, wherever the packages cut.
HeadersRecognised ==
  /\ handle_status # "STATUS_UNKNOWN_SPARSE_CHUNK_TYPE"
  /\ chunks_processed > 0 =>
       chunk_hdr = Words("chunk", chunks_processed, ChunkHeader)

\* Every word that has been written is where it belongs, at any time.
PlacedRight ==
  LET image == Unsparsed
  IN  \A p \in DOMAIN disk : p \in DOMAIN image /\ disk[p] = image[p]

\* The eMMC is written in whole blocks, at the start of a block.
WholeBlocks == written.at % Block = 0 /\ written.length % Block = 0

\* When the image has come, all of it is on the eMMC: no tail of a package is
\* forgotten.
NothingForgotten ==
  (buf = <<>> /\ handle_status = "STATUS_OK" /\ received = Len(File)) =>
    disk = Unsparsed

\* What holds of the parser between any two turns of its loop.
UnsparseInv ==
  /\ UnsparseTypeOK /\ HeadersRecognised
  /\ PlacedRight /\ WholeBlocks /\ NothingForgotten

\* The loop of write_sparse_data ends: every turn takes something from the
\* buffer or stops with another status, however little is left.
LoopAdvances ==
  [][(handle_status = "STATUS_OK" /\ buf # <<>>) =>
       (Len(buf') < Len(buf) \/ handle_status' # "STATUS_OK")]_unsparse_vars

\* Whatever the packages and whichever write fails, the parser is a writer that
\* fills the eMMC from front to back: at no time is there a hole, and a write
\* that failed is the last.
Writer == INSTANCE ImageWriter WITH
  image   <- Unsparsed,
  store   <- disk,
  reached <- image_address_offset,
  failed  <- handle_status = "STATUS_EMMC_ERR"

LaysInOrder == Writer!Spec
=============================================================================
