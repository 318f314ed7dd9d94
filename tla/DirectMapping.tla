---------------------------- MODULE DirectMapping ----------------------------
(***************************************************************************)
(* The two words that describe memory in asst2 (direct_mapping.h and       *)
(* direct_mapping.c): a byte before each segment, and the 16 bits p_ind in *)
(* the data of each page.  Each packs two flags above a number; the        *)
(* number is not confined to its own bits when it is written, and is       *)
(* masked when it is read.                                                 *)
(***************************************************************************)
EXTENDS Integers

CONSTANT NumSegments    \* segments of a page: the numbers that the size field
                        \* of a header holds, 64 in the code

ASSUME DirectMappingAssumption == NumSegments \in Nat \ {0}

Bit(word, weight) == (word \div weight) % 2 = 1

\* word | (flag << n), weight = 2^n
Or(word, weight, flag) == IF flag /\ ~Bit(word, weight) THEN word + weight ELSE word

-----------------------------------------------------------------------------
(* The byte of a segment: occupied, last of its page, size - 1 *)

Bytes == 0 .. 4 * NumSegments - 1
OCC == 2 * NumSegments
LAST == NumSegments

dm_block_occupied(byte) == Bit(byte, OCC)
dm_is_last_segment(byte) == Bit(byte, LAST)

\* Fault: a size read is not brought back from its normalised form.
dm_block_size_Normalised(byte) == byte % NumSegments

dm_block_size(byte) == (byte % NumSegments) + 1

\* A size out of range spills into the flags above it.
dm_write_metadata(size, occ, last) ==
    Or(Or((size - 1) % (4 * NumSegments), OCC, occ), LAST, last)

\* What a byte says of its segment.
Decoded(byte) == [occ |-> dm_block_occupied(byte),
                  last |-> dm_is_last_segment(byte),
                  size |-> dm_block_size(byte)]

\* What is read after a write.
Header(size, occ, last) == Decoded(dm_write_metadata(size, occ, last))

\* The segment at cell becomes one of the given size, in use, and what is left
\* of it another one.
dm_allocate_block(headers, cell, size) ==
    LET curr == headers[cell]
    IN  IF size < curr.size
        THEN [headers EXCEPT ![cell] = Header(size, TRUE, FALSE),
                             ![cell + size] = Header(curr.size - size, FALSE, curr.last)]
        ELSE [headers EXCEPT ![cell] = Header(size, TRUE, curr.last)]

-----------------------------------------------------------------------------
(* p_ind: occupied, overflows to the next page, index.  It is written with a *)
(* 15-bit mask and read with one of 14 bits                                  *)

pg_block_occupied(p_ind) == Bit(p_ind, 32768)
pg_is_overflow(p_ind) == Bit(p_ind, 16384)
pg_index(p_ind) == p_ind % 16384

pg_write_pagedata(occ, ovf, index) ==
    Or(Or(index % 32768, 32768, occ), 16384, ovf)

\* The data of a page, as read after a write.
Pagedata(pid, occ, ovf, index, length) ==
    LET p_ind == pg_write_pagedata(occ, ovf, index)
    IN  [pid |-> pid, occ |-> pg_block_occupied(p_ind), ovf |-> pg_is_overflow(p_ind),
         index |-> pg_index(p_ind), length |-> length]
=============================================================================
