---------------------------- MODULE AllocatorProofs ----------------------------
(***************************************************************************)
(* What the allocator keeps, for every number of pages, segments, threads  *)
(* and blocks, whatever programs ask for, store in their blocks and free.  *)
(*                                                                         *)
(* What direct_mapping.c writes, it reads, splitting a segment loses none  *)
(* of it, and a thread finds its pages, with their segments, after a swap. *)
(* All that a call reads and writes lies within the block (TypesKept).     *)
(* And in programs that do not allocate after they have freed, the page    *)
(* table finds every page of every thread (PagesFound).  Last, what the    *)
(* headers of a page say of the blocks there, which BlocksProofs needs.    *)
(***************************************************************************)
EXTENDS Allocator, TLAPS, FiniteSetTheorems, WellFoundedInduction

-----------------------------------------------------------------------------
(* Headers and page data *)

\* A number written in the bits below a weight.
LEMMA LowBits ==
    ASSUME NEW low \in Nat, NEW weight \in Nat \ {0}, low < weight
    PROVE  low % weight = low /\ low \div weight = 0
<1>1. low \div weight = 0
  OBVIOUS
<1> QED
  BY <1>1

\* Above a low number, a weight is a digit.
LEMMA HighBits ==
    ASSUME NEW low \in Nat, NEW weight \in Nat \ {0}, low < weight, NEW high \in Nat
    PROVE  /\ (high * weight + low) % weight = low
           /\ (high * weight + low) \div weight = high
  OBVIOUS

\* The two flags of a byte above a number that fits below them.
Flags(occ, last) == (IF occ THEN 2 ELSE 0) + (IF last THEN 1 ELSE 0)

\* The byte that dm_write_metadata stores, when the size fits its field.
LEMMA Written ==
    ASSUME NEW size \in 1 .. NumSegments, NEW occ \in BOOLEAN, NEW last \in BOOLEAN
    PROVE  dm_write_metadata(size, occ, last)
             = Flags(occ, last) * NumSegments + (size - 1)
<1> DEFINE low == size - 1
           mid == IF occ THEN low + OCC ELSE low
<1>1. /\ NumSegments \in Nat \ {0}
      /\ low \in Nat
      /\ low < NumSegments /\ low < 2 * NumSegments /\ low < 4 * NumSegments
  BY DirectMappingAssumption
<1>2. low % (4 * NumSegments) = low
  BY <1>1, LowBits
<1>3. ~Bit(low, OCC) /\ ~Bit(low, LAST)
  <2>1. low \div OCC = 0 /\ low \div LAST = 0
    BY <1>1, LowBits DEF OCC, LAST
  <2> QED
    BY <2>1 DEF Bit
<1>4. Or(low, OCC, occ) = mid
  BY <1>3 DEF Or
<1>5. ~Bit(mid, LAST)
  <2>1. CASE occ
    <3>1. (2 * NumSegments + low) \div NumSegments = 2
      BY <1>1, HighBits
    <3>2. mid = 2 * NumSegments + low
      BY <2>1, <1>1 DEF OCC
    <3> QED
      BY <3>1, <3>2 DEF Bit, LAST
  <2>2. CASE ~occ
    BY <2>2, <1>3
  <2> QED
    BY <2>1, <2>2
<1>6. Or(mid, LAST, last) = IF last THEN mid + NumSegments ELSE mid
  BY <1>5 DEF Or, LAST
<1>7. dm_write_metadata(size, occ, last) = Or(mid, LAST, last)
  BY <1>2, <1>4 DEF dm_write_metadata
<1> QED
  BY <1>1, <1>6, <1>7 DEF Flags, OCC

\* dm_block_occupied, dm_is_last_segment and dm_block_size read back what
\* dm_write_metadata wrote, when the size is that of a segment of a page.
THEOREM HeaderRoundTrip ==
    ASSUME NEW size \in 1 .. NumSegments, NEW occ \in BOOLEAN, NEW last \in BOOLEAN
    PROVE  Header(size, occ, last) = [occ |-> occ, last |-> last, size |-> size]
<1> DEFINE low == size - 1
           byte == dm_write_metadata(size, occ, last)
           flags == Flags(occ, last)
<1>1. /\ NumSegments \in Nat \ {0}
      /\ low \in Nat /\ low < NumSegments /\ low < 2 * NumSegments
      /\ flags \in 0 .. 3
  BY DirectMappingAssumption DEF Flags
<1>2. byte = flags * NumSegments + low
  BY Written
<1>3. byte % NumSegments = low /\ byte \div NumSegments = flags
  <2> HIDE DEF low, byte, flags
  <2> QED
    BY <1>1, <1>2, HighBits
<1>4. byte \div (2 * NumSegments) = IF occ THEN 1 ELSE 0
  <2> DEFINE rest == (IF last THEN NumSegments ELSE 0) + low
  <2>1. rest \in Nat /\ rest < 2 * NumSegments
    BY <1>1
  <2>2. byte = (IF occ THEN 1 ELSE 0) * (2 * NumSegments) + rest
    BY <1>1, <1>2 DEF Flags
  <2>3. (IF occ THEN 1 ELSE 0) \in Nat /\ 2 * NumSegments \in Nat \ {0}
    BY <1>1
  <2> HIDE DEF rest, byte
  <2> QED
    BY <2>1, <2>2, <2>3, HighBits
<1>5. dm_block_occupied(byte) = occ
  BY <1>4 DEF dm_block_occupied, Bit, OCC
<1>6. dm_is_last_segment(byte) = last
  <2>1. flags % 2 = IF last THEN 1 ELSE 0
    BY DEF Flags
  <2> QED
    BY <1>3, <2>1 DEF dm_is_last_segment, Bit, LAST
<1>7. dm_block_size(byte) = size
  BY <1>1, <1>3 DEF dm_block_size
<1> QED
  BY <1>5, <1>6, <1>7 DEF Header, Decoded

\* What a byte says is always a segment: Decoded is total.
LEMMA DecodedType ==
    ASSUME NEW byte \in Int
    PROVE  Decoded(byte) \in [occ : BOOLEAN, last : BOOLEAN, size : 1 .. NumSegments]
<1>1. byte % NumSegments \in 0 .. NumSegments - 1
  BY DirectMappingAssumption
<1> QED
  BY <1>1, DirectMappingAssumption
  DEF Decoded, dm_block_occupied, dm_is_last_segment, dm_block_size, Bit

\* So is what is written, in range or not.
LEMMA HeaderType ==
    ASSUME NEW size \in Int, NEW occ \in BOOLEAN, NEW last \in BOOLEAN
    PROVE  Header(size, occ, last)
             \in [occ : BOOLEAN, last : BOOLEAN, size : 1 .. NumSegments]
<1>1. (size - 1) % (4 * NumSegments) \in Int
  BY DirectMappingAssumption
<1>2. dm_write_metadata(size, occ, last) \in Int
  BY <1>1, DirectMappingAssumption DEF dm_write_metadata, Or, OCC, LAST
<1> QED
  BY <1>2, DecodedType DEF Header

\* dm_allocate_block cuts a segment in two that fill it: the first is in use
\* and of the size asked for, the second is free, has the rest, and is the last
\* of the page if the whole was; no other header changes.
THEOREM AllocateSplits ==
    ASSUME NEW S, S \subseteq Int,
           NEW headers \in [S -> [occ : BOOLEAN, last : BOOLEAN, size : 1 .. NumSegments]],
           NEW cell \in S, NEW size \in 1 .. NumSegments,
           size < headers[cell].size, cell + size \in S
    PROVE  LET cut == dm_allocate_block(headers, cell, size)
           IN  /\ cut[cell] = [occ |-> TRUE, last |-> FALSE, size |-> size]
               /\ ~cut[cell + size].occ
               /\ cut[cell + size].last = headers[cell].last
               /\ cut[cell].size + cut[cell + size].size = headers[cell].size
               /\ \A c \in S \ {cell, cell + size} : cut[c] = headers[c]
<1> DEFINE cut == dm_allocate_block(headers, cell, size)
           curr == headers[cell]
<1>1. /\ curr.size \in 1 .. NumSegments /\ curr.last \in BOOLEAN
      /\ curr.size - size \in 1 .. NumSegments
      /\ NumSegments \in Nat \ {0} /\ cell \in Int
  BY DirectMappingAssumption
<1>2. cell + size # cell
  BY <1>1
<1>3. cut[cell] = Header(size, TRUE, FALSE)
  BY <1>2 DEF dm_allocate_block
<1>4. cut[cell + size] = Header(curr.size - size, FALSE, curr.last)
  BY <1>2 DEF dm_allocate_block
<1>5. cut[cell] = [occ |-> TRUE, last |-> FALSE, size |-> size]
  BY <1>3, HeaderRoundTrip
<1>6. cut[cell + size] = [occ |-> FALSE, last |-> curr.last, size |-> curr.size - size]
  BY <1>1, <1>4, HeaderRoundTrip
<1>7. \A c \in S \ {cell, cell + size} : cut[c] = headers[c]
  BY DEF dm_allocate_block
<1> HIDE DEF cut
<1> QED
  BY <1>1, <1>5, <1>6, <1>7 DEF cut

\* What 14 bits hold.
Indexes == {i \in Nat : i < 16384}

\* pg_block_occupied, pg_is_overflow and pg_index read back what
\* pg_write_pagedata wrote, as long as the index has 14 bits: one more reaches
\* the overflow flag.
THEOREM PagedataRoundTrip ==
    ASSUME NEW pid, NEW occ \in BOOLEAN, NEW ovf \in BOOLEAN,
           NEW index \in Indexes, NEW length
    PROVE  Pagedata(pid, occ, ovf, index, length)
             = [pid |-> pid, occ |-> occ, ovf |-> ovf, index |-> index, length |-> length]
<1> DEFINE flags == (IF occ THEN 2 ELSE 0) + (IF ovf THEN 1 ELSE 0)
           marked == (IF occ THEN 2 ELSE 0) * 16384 + index
           p_ind == pg_write_pagedata(occ, ovf, index)
<1>1. /\ index \in Nat /\ index < 16384 /\ index < 32768
      /\ flags \in Nat /\ (IF occ THEN 2 ELSE 0) \in Nat
      /\ 16384 \in Nat \ {0} /\ 32768 \in Nat \ {0}
  BY DEF Indexes
<1>2. index % 32768 = index /\ index \div 32768 = 0
  BY <1>1, LowBits
<1>3. Or(index, 32768, occ) = marked
  BY <1>1, <1>2 DEF Or, Bit
<1>4. marked \div 16384 = IF occ THEN 2 ELSE 0
  BY <1>1, HighBits
<1>5. p_ind = flags * 16384 + index
  <2>1. ~Bit(marked, 16384)
    BY <1>4 DEF Bit
  <2>2. Or(marked, 16384, ovf) = IF ovf THEN marked + 16384 ELSE marked
    BY <2>1 DEF Or
  <2>3. p_ind = Or(marked, 16384, ovf)
    BY <1>2, <1>3 DEF pg_write_pagedata
  <2> QED
    BY <1>1, <2>2, <2>3
<1>6. p_ind % 16384 = index /\ p_ind \div 16384 = flags
  <2> HIDE DEF flags, p_ind
  <2>1. (flags * 16384 + index) % 16384 = index /\ (flags * 16384 + index) \div 16384 = flags
    BY <1>1, HighBits, SMTT(30)
  <2> QED
    BY <1>5, <2>1
<1>7. pg_block_occupied(p_ind) = occ
  <2> DEFINE rest == (IF ovf THEN 16384 ELSE 0) + index
             high == IF occ THEN 1 ELSE 0
  <2>1. /\ rest \in Nat /\ rest < 32768 /\ high \in Nat
        /\ p_ind = high * 32768 + rest
    BY <1>1, <1>5
  <2>2. p_ind \div 32768 = high
    <3> HIDE DEF rest, high, p_ind
    <3> QED
      BY <1>1, <2>1, HighBits
  <2> QED
    BY <2>2 DEF pg_block_occupied, Bit
<1>8. pg_is_overflow(p_ind) = ovf
  <2>1. flags % 2 = IF ovf THEN 1 ELSE 0
    OBVIOUS
  <2> QED
    BY <1>6, <2>1 DEF pg_is_overflow, Bit
<1>9. pg_index(p_ind) = index
  BY <1>6 DEF pg_index
<1> QED
  BY <1>7, <1>8, <1>9 DEF Pagedata

-----------------------------------------------------------------------------
(* swap *)

\* A cell is a page and a segment of it.
LEMMA CellPage ==
    ASSUME NEW page \in Pages, NEW seg \in 0 .. NumSegments - 1
    PROVE  /\ Cell(page, seg) \in Cells
           /\ Cell(page, seg) \div NumSegments = page
           /\ Cell(page, seg) % NumSegments = seg
<1>1. NumSegments \in Nat \ {0} /\ NumPages \in Nat \ {0}
    BY DirectMappingAssumption, AllocatorAssumption
<1>2. page \in Nat /\ seg \in Nat /\ seg < NumSegments /\ page <= NumPages - 1
    BY <1>1 DEF Pages
<1>3. /\ (page * NumSegments + seg) \div NumSegments = page
      /\ (page * NumSegments + seg) % NumSegments = seg
    BY <1>1, <1>2
<1>4. page * NumSegments + seg < NumPages * NumSegments
    BY <1>1, <1>2
<1>5. page * NumSegments + seg \in Nat /\ NumPages * NumSegments \in Nat
    BY <1>1, <1>2
<1>6. QED
    BY <1>3, <1>4, <1>5 DEF Cell, Cells

\* The block: pages, headers and page table of the types that TypeOK names.
PageRecords == [pid : Owners, occ : BOOLEAN, ovf : BOOLEAN, index : Pages, length : 1 .. NumPages]
HeaderRecords == [occ : BOOLEAN, last : BOOLEAN, size : 1 .. NumSegments]
Memory == [pages : [Pages -> PageRecords], headers : [Cells -> HeaderRecords],
           ht : [Owners -> [Pages -> Pages \cup {NoPage}]]]

\* The page table finds thread p's page at index.
Finds(m, p, index) ==
    LET page == ht_get(m, p, index)
    IN  page # NoPage /\ m.pages[page].pid = p /\ m.pages[page].index = index

\* ht_put writes one entry.
LEMMA PutEntry ==
    ASSUME NEW m \in Memory, NEW p \in Owners, NEW i \in Pages, NEW page \in Pages
    PROVE  /\ ht_put(m, p, i, page) \in Memory
           /\ \A r \in Owners, k \in Pages :
                 ht_put(m, p, i, page).ht[r][k] =
                    IF r = p /\ k = i THEN page ELSE m.ht[r][k]
BY DEF Memory, ht_put

\* What the page table has for a thread and an index when two pages change places.
LEMMA EntriesSwapped ==
    ASSUME NEW m \in Memory, NEW a \in Pages, NEW b \in Pages, NEW r \in Owners, NEW k \in Pages
    PROVE  /\ SwapEntries(m, a, b) \in Memory
           /\ SwapEntries(m, a, b).ht[r][k] =
                IF m.pages[b].pid = r /\ m.pages[b].index = k THEN a
                ELSE IF m.pages[a].pid = r /\ m.pages[a].index = k THEN b
                ELSE m.ht[r][k]
<1> DEFINE p == m.pages[a].pid
           i == m.pages[a].index
           q == m.pages[b].pid
           j == m.pages[b].index
           v == ht_put(m, p, i, b)
           w == ht_put(v, q, j, a)
<1>1. p \in Owners /\ i \in Pages /\ q \in Owners /\ j \in Pages
    BY DEF Memory, PageRecords
<1>2. SwapEntries(m, a, b) = w
    BY DEF SwapEntries
<1> HIDE DEF p, i, q, j
<1>3. v \in Memory /\ v.ht[r][k] = IF r = p /\ k = i THEN b ELSE m.ht[r][k]
    BY <1>1, PutEntry
<1> HIDE DEF v
<1>4. w \in Memory /\ w.ht[r][k] = IF r = q /\ k = j THEN a ELSE v.ht[r][k]
    BY <1>1, <1>3, PutEntry
<1> HIDE DEF w
<1>5. QED
    BY <1>2, <1>3, <1>4 DEF p, i, q, j

\* swap moves two pages' data, with their segments, and leaves the others.
LEMMA SwapMoves ==
    ASSUME NEW m \in Memory, NEW a \in Pages, NEW b \in Pages
    PROVE  LET from(page) == CASE page = a -> b [] page = b -> a [] OTHER -> page
           IN  \A page \in Pages :
                  /\ swap(m, a, b).pages[page] = m.pages[from(page)]
                  /\ \A seg \in 0 .. NumSegments - 1 :
                        swap(m, a, b).headers[Cell(page, seg)] = m.headers[Cell(from(page), seg)]
<1> DEFINE from(page) == CASE page = a -> b [] page = b -> a [] OTHER -> page
<1>1. ASSUME a = b PROVE swap(m, a, b) = m /\ \A page : from(page) = page
    BY <1>1 DEF swap
<1>2. CASE a # b
    <2> DEFINE w == SwapEntries(m, a, b)
               r == [w EXCEPT !.pages = [page \in Pages |-> m.pages[from(page)]],
                              !.headers = [c \in Cells |->
                    m.headers[Cell(from(c \div NumSegments), c % NumSegments)]]]
    <2>1. swap(m, a, b) = r
        BY <1>2 DEF swap
    <2>2. w \in Memory
        <3>1. 0 \in Owners
            BY DEF Owners
        <3>2. QED
            BY <3>1, EntriesSwapped
    <2> HIDE DEF w
    <2>3. /\ r.pages = [page \in Pages |-> m.pages[from(page)]]
          /\ r.headers = [c \in Cells |->
                m.headers[Cell(from(c \div NumSegments), c % NumSegments)]]
        BY <2>2 DEF Memory
    <2> HIDE DEF r
    <2>4. ASSUME NEW page \in Pages, NEW seg \in 0 .. NumSegments - 1
          PROVE  r.headers[Cell(page, seg)] = m.headers[Cell(from(page), seg)]
        BY <2>3, CellPage
    <2>5. \A page \in Pages : r.pages[page] = m.pages[from(page)]
        BY <2>3
    <2>6. QED
        BY <2>1, <2>4, <2>5
<1>3. QED
    BY <1>1, <1>2

\* After a swap a thread finds its pages, each with the segments it had, wherever
\* they are now: unless one of the two that change places is a page given back,
\* whose data still name the thread and the index.
THEOREM SwapKeepsPages ==
    ASSUME NEW m \in Memory, NEW a \in Pages, NEW b \in Pages,
           NEW p \in Owners, NEW index \in Pages, Finds(m, p, index),
           \A page \in {a, b} : m.pages[page].pid = p /\ m.pages[page].index = index =>
                                    page = ht_get(m, p, index)
    PROVE  LET n == swap(m, a, b)
               before == ht_get(m, p, index)
               after == ht_get(n, p, index)
           IN  /\ Finds(n, p, index)
               /\ n.pages[after] = m.pages[before]
               /\ \A seg \in 0 .. NumSegments - 1 :
                     n.headers[Cell(after, seg)] = m.headers[Cell(before, seg)]
<1> DEFINE n == swap(m, a, b)
           before == ht_get(m, p, index)
           after == ht_get(n, p, index)
           from(page) == CASE page = a -> b [] page = b -> a [] OTHER -> page
<1>1. before \in Pages /\ before = m.ht[p][index] /\ after = n.ht[p][index]
      /\ m.pages[before].pid = p /\ m.pages[before].index = index
    BY DEF Finds, ht_get, Memory
<1>2. CASE a = b
    BY <1>1, <1>2 DEF swap
<1>3. CASE a # b
    <2> DEFINE w == SwapEntries(m, a, b)
    <2>1. /\ w \in Memory
          /\ w.ht[p][index] =
                IF m.pages[b].pid = p /\ m.pages[b].index = index THEN a
                ELSE IF m.pages[a].pid = p /\ m.pages[a].index = index THEN b
                ELSE m.ht[p][index]
        BY EntriesSwapped
    <2>2. n.ht = w.ht
        <3> DEFINE pages == [page \in Pages |-> m.pages[from(page)]]
                   headers == [c \in Cells |->
                      m.headers[Cell(from(c \div NumSegments), c % NumSegments)]]
        <3>1. n = [w EXCEPT !.pages = pages, !.headers = headers]
            BY <1>3 DEF swap
        <3> HIDE DEF w, pages, headers
        <3>2. QED
            BY <2>1, <3>1 DEF Memory
    <2> HIDE DEF w, n
    <2>3. after \in Pages /\ from(after) = before
        BY <1>1, <1>3, <2>1, <2>2
    <2> HIDE DEF before, after
    <2>4. /\ n.pages[after] = m.pages[before]
          /\ \A seg \in 0 .. NumSegments - 1 :
                n.headers[Cell(after, seg)] = m.headers[Cell(before, seg)]
        BY <2>3, SwapMoves DEF n
    <2>5. ht_get(n, p, index) = after /\ after # NoPage
        BY <2>3 DEF after, Pages, NoPage
    <2>6. Finds(n, p, index)
        BY <1>1, <2>4, <2>5 DEF Finds
    <2>7. QED
        BY <2>4, <2>6 DEF n, before, after
<1>4. QED
    BY <1>2, <1>3

-----------------------------------------------------------------------------
(* Types, for whatever programs ask for, free and store *)

Segments == 0 .. NumSegments - 1
Blocks == [cell : Cells, len : Nat \ {0}]
Views == [first : NoPage .. NumPages, last : NoPage .. NumPages - 1]

\* The variables of myallocate, of page_allocate and of swapping the pages taken.
MallocCalls ==
    [id : Pids, size : Nat \ {0}, segments : Nat \ {0}, first : Int, last : NoPage .. NumPages - 1,
     free_page : Pages \cup {NoPage}, num_free : Nat, pi : Int, si : Nat, ovf : Nat,
     contig : Nat, start : Unassigned .. NumPages, start_seg : Segments \cup {NoSegment}]

TakeCalls ==
    [id : Pids, segments : Nat \ {0}, free_page : Pages \cup {NoPage}, pi : NoPage .. NumPages,
     n : Nat, last_len : 1 .. NumSegments, taken : Seq(Pages), seg : Segments,
     actual : NoPage .. NumPages]

PlaceCalls == [id : Pids, segments : Nat \ {0}, taken : Seq(Pages), i : Nat \ {0}, cell : Cells]

\* Those of mydeallocate and of free_process_pages.
FreeCalls ==
    [id : Pids, cell : Cells, first : Int, last : NoPage .. NumPages - 1, pi : Int, si : Nat,
     ovf : Nat, at : Pages \cup {NoPage}, prev_free : BOOLEAN, prev : Cells, prev_size : Nat]

ReleaseCalls ==
    [id : Pids, first : Int, last : NoPage .. NumPages - 1, pi : Int, si : Nat, ovf : Nat,
     free_start : Int]

\* A run of free segments was assigned its start when it began ...
SearchStart == loc.contig # 0 => loc.start \in Pages

\* ... the pages to take are there, as far as their indexes go: a call that has
\* none to begin with wants one, and knows where unless memory is full.
TakeRoom ==
    /\ loc.pi + loc.n <= NumPages
    /\ loc.taken = << >> => loc.n # 0
    /\ loc.free_page # NoPage => loc.pi # NoPage /\ loc.actual # NoPage

\* What the variables of the call in progress are.
CallOK ==
    /\ pc = "idle" => loc = NoCall
    /\ pc = "search" => loc \in MallocCalls /\ loc.start # NumPages /\ SearchStart
    /\ pc = "pages" => loc \in MallocCalls /\ loc.start # Unassigned
    /\ pc = "take" => loc \in TakeCalls /\ TakeRoom
    /\ pc = "place" => loc \in PlaceCalls /\ loc.i <= Len(loc.taken)
    /\ pc \in {"turn", "scan"} => loc \in FreeCalls
    /\ pc = "scan" => loc.at \in Pages
    /\ pc = "release" => loc \in ReleaseCalls

TypeInv ==
    /\ mem \in Memory
    /\ view \in [Pids -> Views]
    /\ blocks \in [Pids -> SUBSET Blocks]
    /\ pc \in {"idle", "search", "pages", "take", "place", "turn", "scan", "release"}
    /\ freed \in BOOLEAN
    /\ halt \in {"none", "nomem", "badfree", "crash"}
    /\ CallOK

\* Dividing a size by the size of a segment or a page.
LEMMA Quotient ==
    ASSUME NEW n \in Nat, NEW d \in Nat \ {0}
    PROVE  n \div d \in Nat /\ n % d \in 0 .. d - 1
OBVIOUS

\* What is known of the constants.
LEMMA Parameters ==
    /\ NumPages \in Nat \ {0} /\ NumPages <= 16384
    /\ NumSegments \in Nat \ {0} /\ SEGMENTSIZE \in Nat \ {0}
    /\ page_size \in Nat \ {0}
<1>1. NumPages \in Nat \ {0} /\ NumPages <= 16384 /\ SEGMENTSIZE \in Nat \ {0}
    BY AllocatorAssumption
<1>2. NumSegments \in Nat \ {0}
    BY DirectMappingAssumption
<1>3. page_size \in Nat \ {0}
    BY <1>1, <1>2 DEF page_size
<1>4. QED
    BY <1>1, <1>2, <1>3

\* Page numbers are indexes, which have 14 bits.
LEMMA PageNumbers == Pages \subseteq Indexes /\ Pages \subseteq Nat /\ NoPage \notin Pages
<1>1. \A page \in Pages : page \in Nat /\ page < 16384
    BY Parameters DEF Pages
<1>2. Pages \subseteq Indexes
    BY <1>1 DEF Indexes
<1>3. Pages \subseteq Nat
    BY Parameters DEF Pages
<1>4. NoPage \notin Pages
    BY <1>3 DEF NoPage
<1>5. QED
    BY <1>2, <1>3, <1>4

\* Pages belong to threads, or to none: then they name thread 0.
LEMMA OwnerIds == Pids \subseteq Owners /\ 0 \in Owners
BY DEF Owners

\* Page data reads back as written, and is page data.
LEMMA PagedataType ==
    ASSUME NEW pid \in Owners, NEW occ \in BOOLEAN, NEW ovf \in BOOLEAN,
           NEW index \in Pages, NEW length \in 1 .. NumPages
    PROVE  /\ Pagedata(pid, occ, ovf, index, length) \in PageRecords
           /\ Pagedata(pid, occ, ovf, index, length)
                = [pid |-> pid, occ |-> occ, ovf |-> ovf, index |-> index, length |-> length]
<1>1. index \in Indexes
    BY PageNumbers
<1>2. Pagedata(pid, occ, ovf, index, length)
        = [pid |-> pid, occ |-> occ, ovf |-> ovf, index |-> index, length |-> length]
    BY <1>1, PagedataRoundTrip
<1>3. QED
    BY <1>2 DEF PageRecords

\* A header that is written is a header.
LEMMA HeaderIn ==
    ASSUME NEW size \in Int, NEW occ \in BOOLEAN, NEW last \in BOOLEAN
    PROVE  Header(size, occ, last) \in HeaderRecords
BY HeaderType DEF HeaderRecords

\* swap keeps the types.
LEMMA SwapType ==
    ASSUME NEW m \in Memory, NEW a \in Pages, NEW b \in Pages
    PROVE  swap(m, a, b) \in Memory
<1> DEFINE from(page) == CASE page = a -> b [] page = b -> a [] OTHER -> page
           w == SwapEntries(m, a, b)
           pages == [page \in Pages |-> m.pages[from(page)]]
           headers == [c \in Cells |->
                          m.headers[Cell(from(c \div NumSegments), c % NumSegments)]]
<1>1. w \in Memory
    <2>1. 0 \in Owners
        BY DEF Owners
    <2>2. QED
        BY <2>1, EntriesSwapped
<1>2. \A page \in Pages : from(page) \in Pages
    OBVIOUS
<1>3. pages \in [Pages -> PageRecords]
    BY <1>2 DEF Memory
<1>4. ASSUME NEW c \in Cells
      PROVE  c \div NumSegments \in Pages /\ c % NumSegments \in 0 .. NumSegments - 1
    BY Parameters DEF Cells, Pages
<1>5. headers \in [Cells -> HeaderRecords]
    BY <1>2, <1>4, CellPage DEF Memory
<1>6. swap(m, a, b) = IF a = b THEN m ELSE [w EXCEPT !.pages = pages, !.headers = headers]
    BY DEF swap
<1> HIDE DEF w, pages, headers
<1>7. QED
    BY <1>1, <1>3, <1>5, <1>6 DEF Memory

\* Cutting a segment and merging it with the next keep the types.
LEMMA AllocateType ==
    ASSUME NEW headers \in [Cells -> HeaderRecords], NEW cell \in Cells, NEW size \in Int
    PROVE  dm_allocate_block(headers, cell, size) \in [Cells -> HeaderRecords]
<1>1. headers[cell] \in HeaderRecords
    OBVIOUS
<1>2. /\ headers[cell].size \in Int /\ headers[cell].size - size \in Int
      /\ headers[cell].last \in BOOLEAN
    BY <1>1 DEF HeaderRecords
<1>3. /\ Header(size, TRUE, FALSE) \in HeaderRecords
      /\ Header(headers[cell].size - size, FALSE, headers[cell].last) \in HeaderRecords
      /\ Header(size, TRUE, headers[cell].last) \in HeaderRecords
    BY <1>2, HeaderIn
<1>4. QED
    BY <1>3 DEF dm_allocate_block

\* Merging a free segment with the next leaves headers.
LEMMA MergeType ==
    ASSUME NEW headers \in [Cells -> HeaderRecords], NEW cell \in Cells, NEW size \in Int,
           cell + size \in Cells
    PROVE  MergeNext(headers, cell, size) \in [Cells -> HeaderRecords]
<1> DEFINE next == headers[cell + size]
<1>1. next \in HeaderRecords
    OBVIOUS
<1>2. size + next.size \in Int /\ next.last \in BOOLEAN
    BY <1>1 DEF HeaderRecords
<1>3. Header(size + next.size, FALSE, next.last) \in HeaderRecords
    BY <1>2, HeaderIn
<1>4. QED
    BY <1>3 DEF MergeNext

\* A set of numbers has a least one.
LEMMA LeastOf ==
    ASSUME NEW S, S \subseteq Nat, S # {}
    PROVE  \E least \in S : \A n \in S : least <= n
<1>1. PICK least \in S : \A n \in S : ~(<< n, least >> \in OpToRel(<, Nat))
    BY ONLY S \subseteq Nat, S # {}, WFMin, NatLessThanWellFounded, Zenon
<1>2. ASSUME NEW n \in S PROVE least <= n
    <2>1. least \in Nat /\ n \in Nat
        OBVIOUS
    <2>2. ~(n < least)
        BY <1>1, <2>1 DEF OpToRel
    <2>3. QED
        BY <2>1, <2>2
<1>3. QED
    BY <1>2

\* find_contig_space finds the first page nobody has, if there is one.
LEMMA FirstFound ==
    ASSUME mem \in Memory
    PROVE  /\ LeastFree \in Pages \cup {NoPage}
           /\ LeastFree = NoPage <=> FreePages = {}
           /\ FreePages # {} =>
                 LeastFree \in FreePages /\ \A page \in FreePages : LeastFree <= page
<1>1. FreePages \subseteq Nat /\ FreePages \subseteq Pages
    BY DEF FreePages, Pages
<1>2. ASSUME FreePages # {}
      PROVE  \E least \in FreePages : \A page \in FreePages : least <= page
    <2> HIDE DEF FreePages
    <2>1. QED
        BY <1>1, <1>2, LeastOf
<1>3. ASSUME FreePages # {}
      PROVE  Min(FreePages) \in FreePages /\ \A page \in FreePages : Min(FreePages) <= page
    BY <1>2, <1>3 DEF Min
<1>4. NoPage \notin Pages
    BY PageNumbers
<1>5. QED
    BY <1>1, <1>3, <1>4 DEF LeastFree

\* The first state, and then each step, one action at a time.
LEMMA InitTypes == Init => TypeInv
<1> SUFFICES ASSUME Init PROVE TypeInv
    OBVIOUS
<1>1. \A page \in Pages : Released(0, page) \in PageRecords
    <2>1. 0 \in Owners /\ 1 \in 1 .. NumPages
        BY Parameters, OwnerIds
    <2>2. QED
        BY <2>1, PagedataType, Zenon DEF Released
<1>2. Header(NumSegments, FALSE, TRUE) \in HeaderRecords
    <2>1. NumSegments \in Int
        BY Parameters
    <2>2. QED
        BY <2>1, HeaderIn, Zenon
<1>3. mem \in Memory
    BY <1>1, <1>2 DEF Init, Memory
<1>4. view \in [Pids -> Views]
    BY Parameters DEF Init, Views, NoView, NoPage
<1>5. QED
    BY <1>3, <1>4 DEF Init, TypeInv, CallOK

\* What a block is given: the types, and the call is over.
LEMMA GiveType ==
    ASSUME TypeInv, NEW m \in Memory, NEW cell \in Cells, NEW len \in Nat \ {0},
           loc.id \in Pids, Give(m, cell, len), UNCHANGED << view, freed, halt >>
    PROVE  TypeInv'
<1>1. mem' \in Memory
    BY DEF Give
<1>2. blocks' \in [Pids -> SUBSET Blocks]
    BY DEF Give, TypeInv, Blocks
<1>3. pc' = "idle" /\ loc' = NoCall
    BY DEF Give
<1>4. QED
    BY <1>1, <1>2, <1>3 DEF TypeInv, CallOK

\* The walks move on by what the headers say.
LEMMA LengthType ==
    ASSUME NEW h \in HeaderRecords, loc.si \in Nat, loc.si < NumSegments
    PROVE  Length(h) \in 1 .. NumSegments
<1>1. h.size \in 1 .. NumSegments
    BY DEF HeaderRecords
<1>2. NumSegments - loc.si \in 1 .. NumSegments
    BY Parameters
<1>3. QED
    BY <1>1, <1>2 DEF Length

\* myallocate begins where its thread's pages do.
LEMMA MallocTypes == ASSUME TypeInv, NEW p \in Pids, NEW size \in Sizes, Malloc(p, size)
                     PROVE  TypeInv'
<1>1. size \in Nat \ {0} /\ size \div SEGMENTSIZE + 1 \in Nat \ {0}
    <2>1. size \in Nat \ {0} /\ SEGMENTSIZE \in Nat \ {0}
        BY AllocatorAssumption
    <2>2. size \div SEGMENTSIZE \in Nat
        BY ONLY <2>1, SEGMENTSIZE \in Nat \ {0}, Quotient
    <2>3. QED
        BY <2>1, <2>2
<1>2. Cardinality(FreePages) \in Nat
    <2>1. IsFiniteSet(Pages)
        BY Parameters, FS_Interval DEF Pages
    <2>2. FreePages \subseteq Pages
        BY DEF FreePages
    <2>3. QED
        BY <2>1, <2>2, FS_Subset, FS_CardinalityType
<1>3. LeastFree \in Pages \cup {NoPage}
    BY FirstFound DEF TypeInv
<1>4. view[p].first \in Int /\ view[p].last \in NoPage .. NumPages - 1
    <2>1. view[p] \in Views
        BY DEF TypeInv
    <2>2. QED
        BY <2>1 DEF Views, NoPage
<1>5. /\ Unassigned \in Unassigned .. NumPages /\ Unassigned # NumPages
      /\ NoSegment \in Segments \cup {NoSegment}
    BY Parameters DEF Unassigned, NoSegment
<1>6. loc' \in MallocCalls /\ SearchStart' /\ loc'.start # NumPages
    BY <1>1, <1>2, <1>3, <1>4, <1>5 DEF Malloc, MallocCalls, SearchStart
<1>7. QED
    BY <1>6 DEF Malloc, TypeInv, CallOK

\* A walk goes on in the page it is in, or in a later one.
LEMMA NextPageMalloc ==
    ASSUME NEW page \in PageRecords, NEW ovf \in Nat, loc \in MallocCalls
    PROVE  LET next == NextPage(page, ovf)
           IN  next \in MallocCalls /\ next.pi >= loc.pi /\ next.id = loc.id
               /\ next.first = loc.first /\ next.last = loc.last
               /\ next.free_page = loc.free_page /\ next.segments = loc.segments
               /\ next.contig = loc.contig /\ next.start = loc.start
<1>1. page.length \in Nat \ {0} /\ loc.pi \in Int
    BY Parameters DEF PageRecords, MallocCalls
<1>2. /\ loc.pi + page.length - 1 \in Int /\ loc.pi + page.length - 1 >= loc.pi
      /\ loc.pi + 1 \in Int /\ loc.pi + 1 >= loc.pi
    BY <1>1
<1>3. QED
    BY <1>2 DEF NextPage, MallocCalls

\* The same, past a segment of len.
LEMMA AdvanceMalloc ==
    ASSUME NEW page \in PageRecords, NEW ovf \in Nat, NEW len \in 1 .. NumSegments,
           loc \in MallocCalls
    PROVE  LET next == Advance(page, ovf, len)
           IN  next \in MallocCalls /\ next.pi >= loc.pi /\ next.id = loc.id
               /\ next.first = loc.first /\ next.last = loc.last
               /\ next.free_page = loc.free_page /\ next.segments = loc.segments
               /\ next.contig = loc.contig /\ next.start = loc.start
<1>1. loc.si + len \in Nat /\ loc.pi >= loc.pi
    BY DEF MallocCalls
<1>2. CASE loc.si + len < NumSegments
    BY <1>1, <1>2 DEF Advance, MallocCalls
<1>3. CASE ~(loc.si + len < NumSegments)
    BY <1>3, NextPageMalloc DEF Advance
<1>4. QED
    BY <1>2, <1>3

\* The same for the walk of free_ptr, ...
LEMMA NextPageFree ==
    ASSUME NEW page \in PageRecords, NEW ovf \in Nat, loc \in FreeCalls
    PROVE  LET next == NextPage(page, ovf)
           IN  next \in FreeCalls /\ next.pi >= loc.pi /\ next.id = loc.id
               /\ next.cell = loc.cell /\ next.first = loc.first /\ next.last = loc.last
               /\ next.at = loc.at
<1>1. page.length \in Nat \ {0} /\ loc.pi \in Int
    BY Parameters DEF PageRecords, FreeCalls
<1>2. /\ loc.pi + page.length - 1 \in Int /\ loc.pi + page.length - 1 >= loc.pi
      /\ loc.pi + 1 \in Int /\ loc.pi + 1 >= loc.pi
    BY <1>1
<1>3. QED
    BY <1>2 DEF NextPage, FreeCalls

LEMMA AdvanceFree ==
    ASSUME NEW page \in PageRecords, NEW ovf \in Nat, NEW len \in 1 .. NumSegments,
           loc \in FreeCalls
    PROVE  LET next == Advance(page, ovf, len)
           IN  next \in FreeCalls /\ next.pi >= loc.pi /\ next.id = loc.id
               /\ next.cell = loc.cell /\ next.first = loc.first /\ next.last = loc.last
               /\ next.at = loc.at
<1>1. loc.si + len \in Nat /\ loc.pi >= loc.pi
    BY DEF FreeCalls
<1>2. CASE loc.si + len < NumSegments
    BY <1>1, <1>2 DEF Advance, FreeCalls
<1>3. CASE ~(loc.si + len < NumSegments)
    BY <1>3, NextPageFree DEF Advance
<1>4. QED
    BY <1>2, <1>3

\* ... and for that of free_process_pages.
LEMMA NextPageRelease ==
    ASSUME NEW page \in PageRecords, NEW ovf \in Nat, loc \in ReleaseCalls
    PROVE  LET next == NextPage(page, ovf)
           IN  next \in ReleaseCalls /\ next.pi >= loc.pi /\ next.id = loc.id
               /\ next.first = loc.first /\ next.last = loc.last /\ next.free_start = loc.free_start
<1>1. page.length \in Nat \ {0} /\ loc.pi \in Int
    BY Parameters DEF PageRecords, ReleaseCalls
<1>2. /\ loc.pi + page.length - 1 \in Int /\ loc.pi + page.length - 1 >= loc.pi
      /\ loc.pi + 1 \in Int /\ loc.pi + 1 >= loc.pi
    BY <1>1
<1>3. QED
    BY <1>2 DEF NextPage, ReleaseCalls

LEMMA AdvanceRelease ==
    ASSUME NEW page \in PageRecords, NEW ovf \in Nat, NEW len \in 1 .. NumSegments,
           loc \in ReleaseCalls
    PROVE  LET next == Advance(page, ovf, len)
           IN  next \in ReleaseCalls /\ next.pi >= loc.pi /\ next.id = loc.id
               /\ next.first = loc.first /\ next.last = loc.last /\ next.free_start = loc.free_start
<1>1. loc.si + len \in Nat /\ loc.pi >= loc.pi
    BY DEF ReleaseCalls
<1>2. CASE loc.si + len < NumSegments
    BY <1>1, <1>2 DEF Advance, ReleaseCalls
<1>3. CASE ~(loc.si + len < NumSegments)
    BY <1>3, NextPageRelease DEF Advance
<1>4. QED
    BY <1>2, <1>3

\* Segments that a walk skips at the start of the next page.
LEMMA OverflowType ==
    ASSUME NEW h \in HeaderRecords, NEW page \in PageRecords, loc.ovf \in Nat
    PROVE  Overflow(h, page) \in Nat
<1>1. h.size \in Nat /\ h.last \in BOOLEAN /\ page.ovf \in BOOLEAN
    BY Parameters DEF HeaderRecords, PageRecords
<1>2. QED
    BY <1>1 DEF Overflow

\* The page that a walk is in, and the header it looks at.
LEMMA WalkTypes ==
    ASSUME mem \in Memory, loc.id \in Owners, Actual # NoPage, loc.si \in Nat
    PROVE  /\ Actual \in Pages /\ loc.pi \in Pages /\ Actual = mem.ht[loc.id][loc.pi]
           /\ mem.pages[Actual] \in PageRecords
           /\ loc.si < NumSegments =>
                /\ Cell(Actual, loc.si) \in Cells /\ Cell(loc.pi, loc.si) \in Cells
                /\ Here \in HeaderRecords
                /\ Length(Here) \in 1 .. NumSegments
<1>1. Actual \in Pages /\ loc.pi \in Pages /\ Actual = mem.ht[loc.id][loc.pi]
    BY DEF Actual, ht_get, Memory
<1>2. mem.pages[Actual] \in PageRecords
    BY <1>1 DEF Memory
<1>3. ASSUME loc.si < NumSegments
      PROVE  /\ Cell(Actual, loc.si) \in Cells /\ Cell(loc.pi, loc.si) \in Cells
             /\ Here \in HeaderRecords
             /\ Length(Here) \in 1 .. NumSegments
    <2>1. loc.si \in 0 .. NumSegments - 1
        BY <1>3, Parameters
    <2>2. Cell(Actual, loc.si) \in Cells /\ Cell(loc.pi, loc.si) \in Cells
        BY <1>1, <2>1, CellPage
    <2>3. Here \in HeaderRecords
        BY <2>2 DEF Here, Memory
    <2>4. QED
        BY <1>3, <2>2, <2>3, LengthType
<1>4. QED
    BY <1>1, <1>2, <1>3

\* A run of free segments has a start in the thread's pages.
LEMMA SearchTypes == ASSUME TypeInv, Search PROVE TypeInv'
<1> DEFINE page == mem.pages[Actual]
           len == Length(Here)
           new == ~Here.occ /\ loc.contig = 0
           contig == IF Here.occ THEN 0 ELSE loc.contig + len
           start == CASE Here.occ -> NoIndex [] new -> loc.pi [] OTHER -> loc.start
           start_seg == IF new \/ (Here.last /\ loc.pi = loc.last)
                        THEN loc.si ELSE loc.start_seg
           ovf == Overflow(Here, page)
           next == Advance(page, ovf, len)
<1>1. /\ loc \in MallocCalls /\ SearchStart /\ loc.start # NumPages
      /\ mem \in Memory /\ pc = "search" /\ Actual # NoPage /\ loc.si < NumSegments
    BY DEF TypeInv, CallOK, Search, Walking, At
<1>2. /\ loc.id \in Pids /\ loc.si \in Nat /\ loc.pi \in Int /\ loc.ovf \in Nat
      /\ loc.contig \in Nat /\ loc.segments \in Nat \ {0} /\ loc.start \in Unassigned .. NumPages
      /\ loc.start_seg \in Segments \cup {NoSegment}
    BY <1>1 DEF MallocCalls
<1>3. loc.id \in Owners
    BY <1>2, OwnerIds
<1>4. /\ Actual \in Pages /\ loc.pi \in Pages /\ page \in PageRecords
      /\ Cell(Actual, loc.si) \in Cells /\ Cell(loc.pi, loc.si) \in Cells
      /\ Here \in HeaderRecords /\ len \in 1 .. NumSegments
    BY <1>1, <1>2, <1>3, WalkTypes
<1>5. Here.occ \in BOOLEAN /\ Here.last \in BOOLEAN
    BY <1>4 DEF HeaderRecords
<1>6. contig \in Nat
    BY <1>2, <1>4, <1>5, Parameters
<1>7. start_seg \in Segments \cup {NoSegment}
    BY <1>1, <1>2, Parameters DEF Segments
<1>8. /\ start \in Unassigned .. NumPages /\ start # NumPages
      /\ contig # 0 => start \in Pages
    <2>1. loc.pi \in 0 .. NumPages - 1
        BY <1>4 DEF Pages
    <2>2. CASE Here.occ
        BY <2>2, Parameters DEF Unassigned, NoIndex
    <2>3. CASE new
        BY <1>4, <2>1, <2>3, Parameters DEF Unassigned
    <2>4. CASE ~Here.occ /\ ~new
        BY <1>1, <1>2, <2>4 DEF SearchStart
    <2>5. QED
        BY <2>2, <2>3, <2>4, <1>5
<1>9. ovf \in Nat
    BY <1>2, <1>4, OverflowType
<1> HIDE DEF page, len, contig, start, start_seg, ovf
<1>10. CASE /\ contig < loc.segments
            /\ loc' = [next EXCEPT !.contig = contig, !.start = start, !.start_seg = start_seg]
            /\ UNCHANGED << mem, blocks, pc >>
    <2>1. next \in MallocCalls
        BY <1>1, <1>4, <1>9, AdvanceMalloc
    <2> HIDE DEF next
    <2>2. loc' \in MallocCalls /\ loc'.contig = contig /\ loc'.start = start
        BY <1>1, <1>6, <1>7, <1>8, <1>9, <1>10, <2>1 DEF MallocCalls
    <2>3. QED
        BY <1>1, <1>8, <1>10, <2>2 DEF TypeInv, CallOK, SearchStart, Search
<1>11. CASE Give(swap([mem EXCEPT !.headers =
                           dm_allocate_block(@, Cell(Actual, loc.si), loc.segments)],
                      Actual, loc.pi),
                 Cell(loc.pi, loc.si), loc.segments)
    <2> DEFINE m == [mem EXCEPT !.headers =
                        dm_allocate_block(@, Cell(Actual, loc.si), loc.segments)]
    <2>1. mem.headers \in [Cells -> HeaderRecords]
        BY <1>1 DEF Memory
    <2>2. dm_allocate_block(mem.headers, Cell(Actual, loc.si), loc.segments)
             \in [Cells -> HeaderRecords]
        BY <1>2, <1>4, <2>1, AllocateType
    <2>3. m \in Memory
        BY <1>1, <2>2 DEF Memory
    <2> HIDE DEF m
    <2>4. swap(m, Actual, loc.pi) \in Memory
        BY <1>4, <2>3, SwapType
    <2>5. Give(swap(m, Actual, loc.pi), Cell(loc.pi, loc.si), loc.segments)
        BY <1>11 DEF m
    <2>6. UNCHANGED << view, freed, halt >>
        BY DEF Search
    <2>7. QED
        BY <1>2, <1>4, <2>4, <2>5, <2>6, GiveType
<1>12. CASE /\ contig >= loc.segments /\ len < loc.segments
            /\ loc' = [loc EXCEPT !.free_page = NoPage, !.start = start, !.start_seg = start_seg]
            /\ pc' = "pages"
            /\ UNCHANGED << mem, blocks >>
    <2>1. start \in Pages
        BY <1>2, <1>6, <1>8, <1>12
    <2>2. start # Unassigned
        BY <2>1, PageNumbers DEF Unassigned
    <2>3. loc' \in MallocCalls /\ loc'.start = start
        BY <1>1, <1>7, <1>8, <1>12 DEF MallocCalls
    <2>4. QED
        BY <1>1, <1>12, <2>2, <2>3 DEF TypeInv, CallOK, Search
<1>13. QED
    BY <1>10, <1>11, <1>12 DEF Search, page, len, contig, start, start_seg, ovf

\* Numbers of pages and of segments, also of less than nothing.
LEMMA Counts ==
    ASSUME NEW size \in Int
    PROVE  /\ PageCount(size) \in Int
           /\ SegmentsInLast(size) \in 1 .. NumSegments
           /\ size > 0 - page_size => PageCount(size) >= 0
           /\ size >= 0 => PageCount(size) >= 1
<1> DEFINE q == size \div page_size
           r == size % page_size
<1>1. page_size \in Nat \ {0} /\ SEGMENTSIZE \in Nat \ {0} /\ NumSegments \in Nat \ {0}
    BY Parameters
<1>2. q \in Int /\ r \in 0 .. page_size - 1 /\ size = page_size * q + r
    BY <1>1
<1>3. r \div SEGMENTSIZE \in 0 .. NumSegments - 1
    <2> DEFINE d == r \div SEGMENTSIZE
               e == r % SEGMENTSIZE
    <2>1. d \in Nat /\ e \in Nat /\ r = SEGMENTSIZE * d + e
        BY <1>1, <1>2
    <2>2. page_size = SEGMENTSIZE * NumSegments
        BY <1>1 DEF page_size
    <2> HIDE DEF d, e, r
    <2>3. SEGMENTSIZE * d < SEGMENTSIZE * NumSegments
        BY <1>1, <1>2, <2>1, <2>2
    <2>4. d < NumSegments
        BY <1>1, <2>1, <2>3
    <2>5. QED
        BY <1>1, <2>1, <2>4 DEF d
<1>4. size > 0 - page_size => q >= -1
    <2> HIDE DEF q, r
    <2>1. SUFFICES ASSUME q <= -2 PROVE size <= 0 - page_size
        BY <1>1, <1>2
    <2>2. page_size * q <= page_size * (-2)
        BY <1>1, <1>2, <2>1
    <2>3. QED
        BY <1>1, <1>2, <2>2
<1>5. size >= 0 => q >= 0
    <2> HIDE DEF q, r
    <2>1. SUFFICES ASSUME q <= -1 PROVE size < 0
        BY <1>1, <1>2
    <2>2. page_size * q <= page_size * (-1)
        BY <1>1, <1>2, <2>1
    <2>3. QED
        BY <1>1, <1>2, <2>2
<1>6. PageCount(size) = q + 1 /\ SegmentsInLast(size) = r \div SEGMENTSIZE + 1
    BY DEF PageCount, SegmentsInLast
<1> HIDE DEF q, r
<1>7. QED
    BY <1>1, <1>2, <1>3, <1>4, <1>5, <1>6

\* The pages that a size needs, and the segments of the last one, in order of size.
LEMMA CountsGrow ==
    ASSUME NEW less \in Int, NEW more \in Int, less <= more
    PROVE  PageCount(less) <= PageCount(more)
<1> DEFINE p == less \div page_size
           q == more \div page_size
<1>1. page_size \in Nat \ {0}
    BY Parameters
<1>2. /\ p \in Int /\ page_size * p <= less
      /\ q \in Int /\ more < page_size * q + page_size
    BY <1>1
<1>3. PageCount(less) = p + 1 /\ PageCount(more) = q + 1
    BY DEF PageCount
<1> HIDE DEF p, q
<1>4. SUFFICES ASSUME q + 1 <= p PROVE FALSE
    BY <1>2, <1>3
<1>5. page_size * (q + 1) <= page_size * p
    BY <1>1, <1>2, <1>4
<1>6. page_size * (q + 1) = page_size * q + page_size
    BY <1>1, <1>2
<1>7. QED
    BY <1>1, <1>2, <1>5, <1>6

\* What is left of a size for the pages after the segments from seg on.
LEMMA LeftOver ==
    ASSUME NEW size \in Nat \ {0}, NEW seg \in Segments
    PROVE  LET left == size - (NumSegments - seg) * SEGMENTSIZE
           IN  left \in Int /\ left <= size /\ left > 0 - page_size
<1>1. SEGMENTSIZE \in Nat \ {0} /\ NumSegments \in Nat \ {0}
    BY Parameters
<1>2. NumSegments - seg \in Nat /\ NumSegments - seg <= NumSegments
    BY <1>1 DEF Segments
<1>3. (NumSegments - seg) * SEGMENTSIZE \in Nat
    BY <1>1, <1>2
<1>4. (NumSegments - seg) * SEGMENTSIZE <= NumSegments * SEGMENTSIZE
    BY <1>1, <1>2
<1>5. QED
    BY <1>1, <1>3, <1>4 DEF page_size

\* The walk ends without room enough: the pages to take come next.
LEMMA SearchFailsTypes == ASSUME TypeInv, SearchFails \/ SearchFailsFull PROVE TypeInv'
<1>1. loc \in MallocCalls
    BY DEF TypeInv, CallOK, SearchFails, SearchFailsFull, Searched, At
<1>2. /\ loc.last \in NoPage .. NumPages - 1
      /\ loc.start \in Unassigned .. NumPages
    BY <1>1 DEF MallocCalls
<1>3. \E start \in Unassigned .. NumPages :
         start # Unassigned /\ loc' = [loc EXCEPT !.start = start]
    <2>1. CASE SearchFails
        BY <1>2, <2>1, Parameters DEF SearchFails, NoPage, Unassigned
    <2>2. CASE SearchFailsFull
        <3>1. CASE loc.start = Unassigned
            BY <2>2, <3>1, Parameters DEF SearchFailsFull, Unassigned
        <3>2. CASE loc.start # Unassigned
            BY <1>2, <2>2, <3>2 DEF SearchFailsFull
        <3>3. QED
            BY <3>1, <3>2
    <2>3. QED
        BY <2>1, <2>2
<1>4. loc' \in MallocCalls /\ loc'.start # Unassigned
    BY <1>1, <1>3 DEF MallocCalls
<1>5. pc' = "pages" /\ UNCHANGED << mem, view, blocks, freed, halt >>
    BY DEF SearchFails, SearchFailsFull
<1>6. QED
    BY <1>4, <1>5 DEF TypeInv, CallOK

\* TakeFrom asks for pages that the thread may see.
LEMMA TakeFromType ==
    ASSUME TypeInv, pc = "pages",
           NEW pi \in NoPage .. NumPages, NEW n \in Nat, NEW last_len \in 1 .. NumSegments,
           NEW taken \in Seq(Pages), NEW seg \in Segments,
           pi + n <= NumPages, taken = << >> => n # 0, loc.free_page # NoPage => pi # NoPage,
           TakeFrom(pi, n, last_len, taken, seg)
    PROVE  CallOK'
<1>1. loc \in MallocCalls
    BY DEF TypeInv, CallOK
<1>2. /\ loc.id \in Pids /\ loc.segments \in Nat \ {0}
      /\ loc.free_page \in Pages \cup {NoPage}
    BY <1>1 DEF MallocCalls
<1>3. (IF loc.free_page = NoPage THEN pi ELSE loc.free_page) \in NoPage .. NumPages
    <2>1. Pages \subseteq NoPage .. NumPages
        BY Parameters DEF Pages, NoPage
    <2>2. QED
        BY <1>2, <2>1
<1>4. loc' \in TakeCalls /\ TakeRoom'
    BY <1>2, <1>3 DEF TakeFrom, TakeCalls, TakeRoom
<1>5. pc' = "take"
    BY DEF TakeFrom
<1>6. QED
    BY <1>4, <1>5 DEF CallOK

\* What the calls of page_allocate have in common.
LEMMA RoomTypes ==
    ASSUME TypeInv, HasRoom
    PROVE  /\ loc \in MallocCalls /\ pc = "pages"
           /\ loc.id \in Pids /\ loc.size \in Nat \ {0}
           /\ loc.start \in NoIndex .. NumPages /\ loc.free_page \in Pages \cup {NoPage}
           /\ loc.start_seg \in Segments \cup {NoSegment}
           /\ PageCount(loc.size) \in Nat \ {0} /\ SegmentsInLast(loc.size) \in 1 .. NumSegments
           /\ (IF loc.start # NoIndex THEN loc.start ELSE loc.free_page)
                + PageCount(loc.size) < NumPages
<1>1. loc \in MallocCalls /\ pc = "pages" /\ loc.start # Unassigned
    BY DEF TypeInv, CallOK, HasRoom, At
<1>2. /\ loc.id \in Pids /\ loc.size \in Nat \ {0}
      /\ loc.start \in Unassigned .. NumPages /\ loc.free_page \in Pages \cup {NoPage}
      /\ loc.start_seg \in Segments \cup {NoSegment}
    BY <1>1 DEF MallocCalls
<1>3. loc.start \in NoIndex .. NumPages
    BY <1>1, <1>2, Parameters DEF Unassigned, NoIndex
<1>4. PageCount(loc.size) \in Nat \ {0} /\ SegmentsInLast(loc.size) \in 1 .. NumSegments
    <2>1. loc.size \in Int /\ loc.size >= 0
        BY <1>2
    <2>2. QED
        BY <2>1, Counts
<1>5. QED
    BY <1>1, <1>2, <1>3, <1>4 DEF HasRoom

\* The pages taken fit behind the first free one ...
LEMMA FirstPagesTypes == ASSUME TypeInv, FirstPages PROVE TypeInv'
<1>1. HasRoom /\ loc.start = NoIndex /\ UNCHANGED << mem, blocks, freed, halt >>
      /\ view' = [view EXCEPT ![loc.id] = [first |-> loc.free_page, last |-> loc.free_page]]
      /\ TakeFrom(loc.free_page, PageCount(loc.size), SegmentsInLast(loc.size), << >>, 0)
    BY DEF FirstPages
<1>2. /\ loc.id \in Pids /\ loc.free_page \in Pages \cup {NoPage}
      /\ PageCount(loc.size) \in Nat \ {0} /\ SegmentsInLast(loc.size) \in 1 .. NumSegments
      /\ loc.free_page + PageCount(loc.size) < NumPages /\ pc = "pages"
    BY <1>1, RoomTypes
<1>3. loc.free_page \in NoPage .. NumPages - 1
    <2>1. NoPage \in NoPage .. NumPages - 1
        BY Parameters DEF NoPage
    <2>2. ASSUME loc.free_page \in Pages PROVE loc.free_page \in NoPage .. NumPages - 1
        BY <2>2, Parameters DEF Pages, NoPage
    <2>3. QED
        BY <1>2, <2>1, <2>2
<1>4. view' \in [Pids -> Views]
    <2>1. NoPage .. NumPages - 1 \subseteq NoPage .. NumPages
        BY Parameters DEF NoPage
    <2>2. [first |-> loc.free_page, last |-> loc.free_page] \in Views
        BY <1>3, <2>1 DEF Views
    <2>3. QED
        BY <1>1, <2>2 DEF TypeInv
<1>5. CallOK'
    <2> DEFINE n == PageCount(loc.size)
    <2>1. /\ loc.free_page \in NoPage .. NumPages /\ n \in Nat /\ << >> \in Seq(Pages)
          /\ 0 \in Segments /\ loc.free_page + n <= NumPages /\ n # 0
        BY <1>2, <1>3, Parameters DEF Segments, NoPage
    <2> HIDE DEF n
    <2>2. TakeFrom(loc.free_page, n, SegmentsInLast(loc.size), << >>, 0)
        BY <1>1 DEF n
    <2>3. QED
        BY <1>2, <2>1, <2>2, TakeFromType
<1>6. QED
    BY <1>1, <1>4, <1>5 DEF TypeInv, TakeFrom

\* ... or behind the last one that the thread has ...
LEMMA FromNextPageTypes == ASSUME TypeInv, FromNextPage PROVE TypeInv'
<1>1. HasRoom /\ loc.start # NoIndex /\ UNCHANGED << mem, view, blocks, freed, halt >>
      /\ TakeFrom(loc.start + 1, PageCount(loc.size), SegmentsInLast(loc.size), << >>, 0)
    BY DEF FromNextPage
<1> DEFINE n == PageCount(loc.size)
           pi == loc.start + 1
<1>2. /\ loc.start \in NoIndex .. NumPages
      /\ n \in Nat \ {0} /\ SegmentsInLast(loc.size) \in 1 .. NumSegments
      /\ loc.start + n < NumPages /\ pc = "pages"
    BY <1>1, RoomTypes
<1>3. /\ pi \in NoPage .. NumPages /\ pi # NoPage /\ pi + n <= NumPages
      /\ << >> \in Seq(Pages) /\ 0 \in Segments
    BY <1>1, <1>2, Parameters DEF Segments, NoPage, NoIndex
<1>4. TakeFrom(pi, n, SegmentsInLast(loc.size), << >>, 0)
    BY <1>1
<1> HIDE DEF n, pi
<1>5. CallOK'
    BY <1>2, <1>3, <1>4, TakeFromType
<1>6. QED
    BY <1>1, <1>5 DEF TypeInv, TakeFrom

\* ... where the block may begin in the last segments.
LEMMA FromLastSegmentTypes == ASSUME TypeInv, FromLastSegment PROVE TypeInv'
<1> DEFINE first == ht_get(mem, loc.id, loc.start)
           left == loc.size - (NumSegments - loc.start_seg) * SEGMENTSIZE
           n == PageCount(left)
           pi == loc.start + 1
           index == mem.pages[first].index
<1>1. /\ HasRoom /\ StartFree /\ UNCHANGED << view, blocks, freed, halt >>
      /\ mem' = [mem EXCEPT !.headers[StartCell] = Header(SegmentsInLast(left), TRUE, TRUE),
                            !.pages[first] = Pagedata(loc.id, TRUE, TRUE, @.index, n + 1)]
      /\ TakeFrom(pi, n, SegmentsInLast(left), << first >>, loc.start_seg)
    BY DEF FromLastSegment
<1>2. /\ loc.id \in Pids /\ loc.size \in Nat \ {0} /\ loc.start \in NoIndex .. NumPages
      /\ loc.start_seg \in Segments \cup {NoSegment}
      /\ pc = "pages" /\ mem \in Memory
    BY <1>1, RoomTypes DEF TypeInv
<1>3. loc.start # NoIndex /\ loc.start_seg \in Segments /\ first # NoPage
    BY <1>1, <1>2 DEF StartFree
<1>4. /\ PageCount(loc.size) \in Nat \ {0}
      /\ loc.start + PageCount(loc.size) < NumPages
    BY <1>1, <1>3, RoomTypes
<1>5. loc.id \in Owners
    BY <1>2, OwnerIds
<1>6. first \in Pages /\ loc.start \in Pages /\ mem.pages[first] \in PageRecords
    BY <1>2, <1>3, <1>5 DEF ht_get, Memory
<1>7. index \in Pages
    BY <1>6 DEF PageRecords
<1>8. left \in Int /\ left <= loc.size /\ left > 0 - page_size
    BY <1>2, <1>3, LeftOver
<1> HIDE DEF left
<1>9. n \in Nat /\ n <= PageCount(loc.size) /\ SegmentsInLast(left) \in 1 .. NumSegments
    <2>1. loc.size \in Int
        BY <1>2
    <2>2. n \in Int /\ n >= 0 /\ SegmentsInLast(left) \in 1 .. NumSegments
        BY <1>8, Counts
    <2>3. n <= PageCount(loc.size)
        BY <1>8, <2>1, CountsGrow
    <2>4. QED
        BY <2>2, <2>3
<1>10. loc.start \in 0 .. NumPages - 1
    BY <1>6 DEF Pages
<1> HIDE DEF n
<1>11. /\ n + 1 \in 1 .. NumPages
       /\ pi \in NoPage .. NumPages /\ pi # NoPage /\ pi + n <= NumPages
    BY <1>4, <1>9, <1>10, Parameters DEF NoPage
<1>12. mem' \in Memory
    <2>1. TRUE \in BOOLEAN
        OBVIOUS
    <2>2. Pagedata(loc.id, TRUE, TRUE, index, n + 1) \in PageRecords
        BY <1>5, <1>7, <1>11, <2>1, PagedataType, Zenon
    <2>3. SegmentsInLast(left) \in Int
        BY <1>9
    <2>4. Header(SegmentsInLast(left), TRUE, TRUE) \in HeaderRecords
        BY <2>1, <2>3, HeaderIn, Zenon
    <2>5. QED
        BY <1>1, <1>2, <2>2, <2>4 DEF Memory
<1>13. CallOK'
    <2>1. << first >> \in Seq(Pages) /\ << first >> # << >>
        BY <1>6
    <2> HIDE DEF first, pi
    <2>2. TakeFrom(pi, n, SegmentsInLast(left), << first >>, loc.start_seg)
        BY <1>1 DEF first, pi
    <2>3. QED
        BY <1>2, <1>3, <1>9, <1>11, <2>1, <2>2, TakeFromType
<1>14. QED
    BY <1>1, <1>12, <1>13 DEF TypeInv, TakeFrom

\* page_allocate's page: one of the block, and so is the place it is taken for.
LEMMA CandidateTypes ==
    ASSUME TypeInv, Taking, Candidate # NoPage
    PROVE  /\ loc \in TakeCalls /\ TakeRoom /\ loc.n # 0
           /\ Candidate \in Pages /\ loc.pi \in Pages /\ loc.id \in Pids /\ loc.id \in Owners
           /\ mem.pages[Candidate] \in PageRecords
           /\ loc.pi + 1 \in NoPage .. NumPages /\ Candidate + 1 \in NoPage .. NumPages
           /\ loc.n \in 1 .. NumPages
<1>1. loc \in TakeCalls /\ TakeRoom /\ loc.n # 0 /\ loc.actual < NumPages
    BY DEF TypeInv, CallOK, Taking, At
<1>2. /\ loc.id \in Pids /\ loc.n \in Nat /\ loc.pi \in NoPage .. NumPages
      /\ loc.actual \in NoPage .. NumPages
    BY <1>1 DEF TakeCalls
<1>3. loc.id \in Owners
    BY <1>2, OwnerIds
<1>4. ASSUME loc.free_page = NoPage PROVE Candidate \in Pages /\ loc.pi \in Pages
    <2>1. Candidate = ht_get(mem, loc.id, loc.pi)
        BY <1>4 DEF Candidate
    <2>2. loc.pi \in Pages /\ Candidate = mem.ht[loc.id][loc.pi]
        BY <2>1 DEF ht_get
    <2>3. mem.ht[loc.id][loc.pi] \in Pages \cup {NoPage}
        BY <1>3, <2>2 DEF Memory, TypeInv
    <2>4. QED
        BY <2>2, <2>3
<1>5. ASSUME loc.free_page # NoPage PROVE Candidate \in Pages /\ loc.pi \in Pages
    <2>1. Candidate = loc.actual
        BY <1>5 DEF Candidate
    <2>2. loc.pi # NoPage /\ loc.actual # NoPage /\ loc.pi + loc.n <= NumPages
        BY <1>1, <1>5 DEF TakeRoom
    <2>3. loc.actual \in 0 .. NumPages - 1 /\ loc.pi \in 0 .. NumPages - 1
        <3>1. loc.actual \in Int /\ loc.pi \in Int /\ loc.actual >= 0 /\ loc.pi >= 0
            BY <1>2, <2>2 DEF NoPage
        <3>2. loc.n \in Nat /\ loc.n # 0 /\ loc.actual < NumPages
            BY <1>1, <1>2
        <3>3. QED
            BY <2>2, <3>1, <3>2, Parameters
    <2>4. QED
        BY <2>1, <2>3 DEF Pages
<1>6. Candidate \in Pages /\ loc.pi \in Pages
    BY <1>4, <1>5
<1>7. mem.pages[Candidate] \in PageRecords
    BY <1>6 DEF TypeInv, Memory
<1>8. /\ Candidate \in 0 .. NumPages - 1 /\ loc.pi \in 0 .. NumPages - 1
      /\ loc.pi + loc.n <= NumPages
    BY <1>1, <1>6 DEF Pages, TakeRoom
<1>9. /\ loc.pi + 1 \in NoPage .. NumPages /\ Candidate + 1 \in NoPage .. NumPages
      /\ loc.n \in 1 .. NumPages
    BY <1>1, <1>2, <1>8, Parameters DEF NoPage
<1>10. QED
    BY <1>1, <1>2, <1>3, <1>6, <1>7, <1>9

\* A page taken gets the length that is left to take.
LEMMA TakeTypes == ASSUME TypeInv, Take PROVE TypeInv'
<1> DEFINE page == Candidate
           put == ht_put(mem, loc.id, loc.pi, page)
           headers == CutLastPage(mem.headers)
           cut == [put EXCEPT !.headers = headers]
<1>1. /\ loc \in TakeCalls /\ TakeRoom /\ loc.n # 0
      /\ page \in Pages /\ loc.pi \in Pages /\ loc.id \in Pids /\ loc.id \in Owners
      /\ loc.pi + 1 \in NoPage .. NumPages /\ page + 1 \in NoPage .. NumPages
      /\ loc.n \in 1 .. NumPages
    BY CandidateTypes DEF Take
<1>2. /\ loc.last_len \in 1 .. NumSegments /\ loc.taken \in Seq(Pages)
      /\ loc.n \in Nat /\ loc.pi \in NoPage .. NumPages
    BY <1>1 DEF TakeCalls
<1>3. mem \in Memory /\ mem.headers \in [Cells -> HeaderRecords]
    BY DEF TypeInv, Memory
<1>4. put \in Memory
    BY <1>1, <1>3, PutEntry
<1>5. put.headers = mem.headers
    BY DEF ht_put
<1>6. 0 \in 0 .. NumSegments - 1
    BY Parameters
<1>7. Cell(page, 0) \in Cells
    BY <1>1, <1>6, CellPage
<1>8. headers \in [Cells -> HeaderRecords]
    <2> DEFINE start == mem.headers[Cell(page, 0)]
    <2>1. start \in HeaderRecords
        BY <1>3, <1>7
    <2>2. start.size - loc.last_len \in Int /\ start.last \in BOOLEAN
        BY <1>2, <2>1, Parameters DEF HeaderRecords
    <2>3. Header(start.size - loc.last_len, FALSE, start.last) \in HeaderRecords
        <3>1. FALSE \in BOOLEAN
            OBVIOUS
        <3>2. QED
            BY <2>2, <3>1, HeaderIn, Zenon
    <2>4. QED
        BY <1>3, <2>3 DEF CutLastPage
<1> HIDE DEF put, headers
<1>9. cut \in Memory
    BY <1>4, <1>8 DEF Memory
<1>10. cut.headers = headers /\ cut = [put EXCEPT !.headers = CutLastPage(@)]
    BY <1>4, <1>5 DEF Memory, headers
<1> HIDE DEF cut
<1>11. mem' \in Memory
    <2>1. CASE loc.taken = << >>
        <3> DEFINE data == Pagedata(loc.id, TRUE, loc.n # 1, loc.pi, loc.n)
                   given == dm_allocate_block(headers, Cell(page, 0), loc.last_len)
        <3>1. TRUE \in BOOLEAN /\ (loc.n # 1) \in BOOLEAN
            OBVIOUS
        <3>2. data \in PageRecords
            BY <1>1, <3>1, PagedataType, Zenon
        <3>3. loc.last_len \in Int
            BY <1>2
        <3>4. given \in [Cells -> HeaderRecords]
            BY <1>7, <1>8, <3>3, AllocateType
        <3>5. mem' = [cut EXCEPT !.pages[page] = data, !.headers = given]
            BY <1>9, <1>10, <2>1 DEF Take, put, Memory
        <3> HIDE DEF data, given
        <3>6. QED
            BY <1>1, <1>9, <3>2, <3>4, <3>5 DEF Memory
    <2>2. CASE loc.taken # << >>
        <3> DEFINE data == Pagedata(loc.id, TRUE, FALSE, loc.pi, 1)
        <3>1. TRUE \in BOOLEAN /\ FALSE \in BOOLEAN /\ 1 \in 1 .. NumPages
            BY Parameters
        <3>2. data \in PageRecords
            BY <1>1, <3>1, PagedataType, Zenon
        <3>3. mem' = [cut EXCEPT !.pages[page] = data]
            BY <1>10, <2>2 DEF Take, put
        <3> HIDE DEF data
        <3>4. QED
            BY <1>1, <1>9, <3>2, <3>3 DEF Memory
    <2>3. QED
        BY <2>1, <2>2
<1>12. view' \in [Pids -> Views]
    <2>1. view[loc.id] \in Views
        BY <1>1 DEF TypeInv
    <2>2. /\ view[loc.id].first \in NoPage .. NumPages
          /\ view[loc.id].last \in NoPage .. NumPages - 1
        BY <2>1 DEF Views
    <2>3. loc.pi \in NoPage .. NumPages - 1
        <3>1. loc.pi \in 0 .. NumPages - 1
            BY <1>1 DEF Pages
        <3>2. QED
            BY <3>1, Parameters DEF NoPage
    <2>4. [first |-> IF view[loc.id].first > loc.pi THEN loc.pi ELSE view[loc.id].first,
           last |-> IF view[loc.id].last < loc.pi THEN loc.pi ELSE view[loc.id].last] \in Views
        BY <1>2, <2>2, <2>3 DEF Views
    <2>5. QED
        BY <2>4 DEF TypeInv, Take
<1>13. loc' \in TakeCalls /\ TakeRoom'
    <2>1. loc' = [loc EXCEPT !.taken = Append(@, page), !.n = @ - 1,
                             !.pi = @ + 1, !.actual = page + 1]
        BY DEF Take
    <2>2. Append(loc.taken, page) \in Seq(Pages) /\ Append(loc.taken, page) # << >>
        BY <1>1, <1>2
    <2>3. loc.n - 1 \in Nat
        BY <1>1, <1>2
    <2>4. loc' \in TakeCalls
        BY <1>1, <2>1, <2>2, <2>3 DEF TakeCalls
    <2>5. /\ loc'.pi = loc.pi + 1 /\ loc'.n = loc.n - 1 /\ loc'.actual = page + 1
          /\ loc'.taken = Append(loc.taken, page) /\ loc'.free_page = loc.free_page
        BY <1>1, <2>1 DEF TakeCalls
    <2>6. loc.pi \in Nat /\ page \in Nat
        BY <1>1, PageNumbers
    <2> HIDE DEF page
    <2>7. loc'.pi # NoPage /\ loc'.actual # NoPage
        BY <2>5, <2>6 DEF NoPage
    <2>8. loc'.pi + loc'.n <= NumPages
        <3>1. loc.pi + loc.n <= NumPages
            BY <1>1 DEF TakeRoom
        <3>2. QED
            BY <1>2, <2>5, <2>6, <3>1, Parameters
    <2>9. TakeRoom'
        BY <2>2, <2>5, <2>7, <2>8 DEF TakeRoom
    <2>10. QED
        BY <2>4, <2>9
<1>14. QED
    BY <1>11, <1>12, <1>13 DEF TypeInv, CallOK, Take, Taking, At

\* The search for the next free page ends with the block.
LEMMA TakeNextTypes == ASSUME TypeInv, TakeNext PROVE TypeInv'
<1>1. /\ loc \in TakeCalls /\ TakeRoom /\ Candidate + 1 \in NoPage .. NumPages
      /\ Candidate \in Pages
    BY CandidateTypes DEF TakeNext
<1>2. loc' = [loc EXCEPT !.actual = Candidate + 1]
    BY DEF TakeNext
<1>3. loc' \in TakeCalls
    BY <1>1, <1>2 DEF TakeCalls
<1>4. Candidate + 1 # NoPage
    <2>1. Candidate \in Nat
        BY <1>1, PageNumbers
    <2> QED
        BY <2>1 DEF NoPage
<1>5. /\ loc'.pi = loc.pi /\ loc'.n = loc.n /\ loc'.taken = loc.taken
      /\ loc'.free_page = loc.free_page /\ loc'.actual = Candidate + 1
    BY <1>1, <1>2 DEF TakeCalls
<1>6. TakeRoom'
    BY <1>1, <1>4, <1>5 DEF TakeRoom
<1>7. QED
    BY <1>3, <1>6 DEF TypeInv, CallOK, TakeNext, Taking, At

\* At least one page has been taken.
LEMMA TakeEndsTypes == ASSUME TypeInv, TakeEnds PROVE TypeInv'
<1>1. loc \in TakeCalls /\ TakeRoom /\ loc.n = 0 /\ mem \in Memory
    BY DEF TypeInv, CallOK, TakeEnds, At
<1>2. /\ loc.id \in Pids /\ loc.segments \in Nat \ {0} /\ loc.taken \in Seq(Pages)
      /\ loc.seg \in 0 .. NumSegments - 1
    BY <1>1 DEF TakeCalls, Segments
<1>3. loc.taken # << >>
    BY <1>1 DEF TakeRoom
<1>4. loc.taken[1] \in Pages /\ 1 <= Len(loc.taken)
    BY <1>2, <1>3
<1>5. mem.pages[loc.taken[1]].index \in Pages
    BY <1>1, <1>4 DEF Memory, PageRecords
<1>6. Cell(mem.pages[loc.taken[1]].index, loc.seg) \in Cells
    BY <1>2, <1>5, CellPage
<1>7. loc' \in PlaceCalls /\ loc'.i <= Len(loc'.taken)
    BY <1>2, <1>4, <1>6 DEF TakeEnds, PlaceCalls
<1>8. QED
    BY <1>7 DEF TypeInv, CallOK, TakeEnds

\* The pages taken are swapped to indexes within the block.
LEMMA PlaceTypes == ASSUME TypeInv, Place PROVE TypeInv'
<1>1. loc \in PlaceCalls /\ loc.i <= Len(loc.taken) /\ mem \in Memory
    BY DEF TypeInv, CallOK, Place, At
<1>2. /\ loc.id \in Pids /\ loc.segments \in Nat \ {0} /\ loc.taken \in Seq(Pages)
      /\ loc.i \in Nat \ {0} /\ loc.cell \in Cells
    BY <1>1 DEF PlaceCalls
<1>3. loc.taken[loc.i] \in Pages
    BY <1>1, <1>2
<1>4. mem.pages[loc.taken[loc.i]].index \in Pages
    BY <1>1, <1>3 DEF Memory, PageRecords
<1>5. SwapNext \in Memory
    BY <1>1, <1>3, <1>4, SwapType DEF SwapNext
<1>6. ASSUME loc.i < Len(loc.taken), mem' = SwapNext, loc' = [loc EXCEPT !.i = @ + 1],
             UNCHANGED << blocks, pc >>
      PROVE  TypeInv'
    <2>1. loc' \in PlaceCalls
        BY <1>1, <1>2, <1>6 DEF PlaceCalls
    <2>2. loc'.i = loc.i + 1 /\ loc'.taken = loc.taken
        BY <1>1, <1>6 DEF PlaceCalls
    <2>3. Len(loc.taken) \in Nat
        BY <1>2
    <2>4. loc'.i <= Len(loc'.taken)
        BY <1>2, <1>6, <2>2, <2>3
    <2>5. QED
        BY <1>5, <1>6, <2>1, <2>4 DEF TypeInv, CallOK, Place, At
<1>7. ASSUME Give(SwapNext, loc.cell, loc.segments) PROVE TypeInv'
    <2>1. UNCHANGED << view, freed, halt >>
        BY DEF Place
    <2>2. QED
        BY <1>2, <1>5, <1>7, <2>1, GiveType
<1>8. QED
    BY <1>6, <1>7 DEF Place

\* A call that ends the process changes nothing else.
LEMMA EndTypes ==
    ASSUME TypeInv, NEW how \in {"nomem", "badfree", "crash"}, End(how)
    PROVE  TypeInv'
<1>1. CallOK'
    BY DEF TypeInv, CallOK, End, SearchStart, TakeRoom
<1>2. QED
    BY <1>1 DEF TypeInv, End

\* mydeallocate begins where its thread's pages do.
LEMMA FreeTypes == ASSUME TypeInv, NEW p \in Pids, NEW cell \in Cells, Free(p, cell)
                   PROVE  TypeInv'
<1>1. view[p].first \in NoPage .. NumPages /\ view[p].last \in NoPage .. NumPages - 1
    BY DEF TypeInv, Views
<1>2. view[p].first \in Int
    BY <1>1, Parameters DEF NoPage
<1>3. 0 \in Cells
    <2>1. 0 \in Pages /\ 0 \in 0 .. NumSegments - 1
        BY Parameters DEF Pages
    <2>2. Cell(0, 0) = 0
        BY Parameters DEF Cell
    <2>3. QED
        BY <2>1, <2>2, CellPage
<1>4. loc' \in FreeCalls
    BY <1>1, <1>2, <1>3 DEF Free, FreeCalls
<1>5. QED
    BY <1>4 DEF TypeInv, CallOK, Free

\* free_ptr is in a page.
LEMMA TurnPageTypes == ASSUME TypeInv, TurnPage PROVE TypeInv'
<1>1. loc \in FreeCalls /\ mem \in Memory /\ Actual # NoPage
    BY DEF TypeInv, CallOK, TurnPage, Walking, At
<1>2. loc.id \in Owners /\ loc.si \in Nat
    BY <1>1, OwnerIds DEF FreeCalls
<1>3. Actual \in Pages /\ loc.pi \in Pages
    BY <1>1, <1>2, WalkTypes
<1>4. mem' \in Memory
    BY <1>1, <1>3, SwapType DEF TurnPage
<1>5. loc' \in FreeCalls /\ loc'.at \in Pages
    BY <1>1, <1>3 DEF FreeCalls, TurnPage
<1>6. QED
    BY <1>4, <1>5 DEF TypeInv, CallOK, TurnPage

\* Where free_ptr is.
LEMMA ScanTypes ==
    ASSUME TypeInv, At("scan"), loc.si < NumSegments
    PROVE  /\ loc \in FreeCalls /\ loc.at \in Pages /\ loc.id \in Pids /\ mem \in Memory
           /\ ScannedCell \in Cells /\ Scanned \in HeaderRecords
           /\ Length(Scanned) \in 1 .. NumSegments
           /\ mem.pages[loc.at] \in PageRecords
           /\ loc.si \in 0 .. NumSegments - 1
<1>1. loc \in FreeCalls /\ loc.at \in Pages /\ mem \in Memory
    BY DEF TypeInv, CallOK, At
<1>2. loc.si \in Nat /\ loc.id \in Pids
    BY <1>1 DEF FreeCalls
<1>3. loc.si \in 0 .. NumSegments - 1
    BY <1>2, Parameters
<1>4. ScannedCell \in Cells
    BY <1>1, <1>3, CellPage DEF ScannedCell
<1>5. Scanned \in HeaderRecords
    BY <1>1, <1>4 DEF Scanned, Memory
<1>6. Length(Scanned) \in 1 .. NumSegments
    BY <1>2, <1>5, LengthType
<1>7. mem.pages[loc.at] \in PageRecords
    BY <1>1 DEF Memory
<1>8. QED
    BY <1>1, <1>2, <1>3, <1>4, <1>5, <1>6, <1>7

\* The segment before is kept, to be merged.
LEMMA ScanStepTypes == ASSUME TypeInv, Scan PROVE TypeInv'
<1> DEFINE page == mem.pages[loc.at]
           len == Length(Scanned)
           next == Advance(page, Overflow(Scanned, page), len)
<1>1. /\ loc \in FreeCalls /\ loc.at \in Pages /\ ScannedCell \in Cells
      /\ Scanned \in HeaderRecords /\ len \in 1 .. NumSegments /\ page \in PageRecords
    BY ScanTypes DEF Scan
<1>2. loc.ovf \in Nat
    BY <1>1 DEF FreeCalls
<1>3. Overflow(Scanned, page) \in Nat
    BY <1>1, <1>2, OverflowType
<1>4. next \in FreeCalls /\ next.at = loc.at
    BY <1>1, <1>3, AdvanceFree
<1>5. /\ loc' = [next EXCEPT !.prev = ScannedCell, !.prev_free = ~Scanned.occ,
                             !.prev_size = IF Scanned.occ THEN @ ELSE len]
      /\ pc' \in {"scan", "turn"} /\ UNCHANGED << mem, view, blocks, freed, halt >>
    BY DEF Scan
<1> HIDE DEF next
<1>6. loc' \in FreeCalls
    <2>1. len \in Nat
        BY <1>1
    <2>2. Scanned.occ \in BOOLEAN
        BY <1>1 DEF HeaderRecords
    <2> HIDE DEF len
    <2>3. QED
        BY <1>1, <1>4, <1>5, <2>1, <2>2 DEF FreeCalls
<1>7. loc'.at = loc.at
    BY <1>4, <1>5 DEF FreeCalls
<1>8. QED
    BY <1>1, <1>5, <1>6, <1>7 DEF TypeInv, CallOK

\* free_cont_pages and free_ptr write headers and page data of these types.
LEMMA FreeSegmentsType ==
    ASSUME TypeInv, At("scan"), loc.si < NumSegments,
           Scanned.last /\ mem.pages[loc.at].ovf => LastPageOfBlock # NoPage
    PROVE  FreeSegments \in Memory
<1> DEFINE page == mem.pages[loc.at]
           size == Scanned.size
           first == Cell(LastPageOfBlock, 0)
           spans == Scanned.last /\ page.ovf
           m == IF spans THEN free_cont_pages(mem) ELSE mem
           len == Length(Scanned)
<1>1. /\ loc \in FreeCalls /\ loc.at \in Pages /\ mem \in Memory
      /\ ScannedCell \in Cells /\ Scanned \in HeaderRecords /\ len \in 1 .. NumSegments
      /\ page \in PageRecords /\ loc.si \in 0 .. NumSegments - 1
    BY ScanTypes
<1>2. size \in 1 .. NumSegments /\ Scanned.last \in BOOLEAN
    BY <1>1 DEF HeaderRecords
<1>3. page.pid \in Owners /\ page.index \in Pages
    BY <1>1 DEF PageRecords
<1>4. TRUE \in BOOLEAN /\ FALSE \in BOOLEAN /\ 1 \in 1 .. NumPages
    BY Parameters
<1>5. mem.headers \in [Cells -> HeaderRecords]
    BY <1>1 DEF Memory
<1>6. ASSUME spans PROVE free_cont_pages(mem) \in Memory
    <2> DEFINE data == Pagedata(page.pid, TRUE, FALSE, page.index, 1)
               header == Header(size, FALSE, size >= NumSegments)
               cleared == [mem.headers EXCEPT ![first] = header]
               merged == IF size < NumSegments THEN MergeNext(cleared, first, size) ELSE cleared
    <2>1. LastPageOfBlock \in Pages
        <3>1. LastPageOfBlock = ht_get(mem, page.pid, page.index + page.length - 1)
            BY DEF LastPageOfBlock
        <3>2. LastPageOfBlock # NoPage
            BY <1>6
        <3> DEFINE owner == page.pid
                   index == page.index + page.length - 1
        <3>3. /\ LastPageOfBlock = ht_get(mem, owner, index) /\ LastPageOfBlock # NoPage
              /\ owner \in Owners
              /\ mem.ht \in [Owners -> [Pages -> Pages \cup {NoPage}]]
            BY <1>1, <1>3, <3>1, <3>2 DEF Memory
        <3> HIDE DEF owner, index
        <3>4. QED
            BY ONLY <3>3 DEF ht_get
    <2>2. 0 \in 0 .. NumSegments - 1
        BY Parameters
    <2>3. first \in Cells
        BY <2>1, <2>2, CellPage
    <2>4. size \in Int /\ (size >= NumSegments) \in BOOLEAN
        BY <1>2
    <2>5. header \in HeaderRecords
        BY <1>4, <2>4, HeaderIn, Zenon
    <2>6. data \in PageRecords
        BY <1>3, <1>4, PagedataType, Zenon
    <2> HIDE DEF header, data
    <2>7. cleared \in [Cells -> HeaderRecords]
        BY <1>5, <2>5
    <2> HIDE DEF cleared
    <2>8. ASSUME size < NumSegments PROVE first + size \in Cells
        <3>1. size \in 0 .. NumSegments - 1
            BY <1>2, <2>8, Parameters
        <3>2. Cell(LastPageOfBlock, size) \in Cells
            BY <2>1, <3>1, CellPage
        <3>3. LastPageOfBlock \in Nat
            BY <2>1, PageNumbers
        <3>4. first + size = Cell(LastPageOfBlock, size)
            BY <3>1, <3>3, Parameters DEF Cell
        <3>5. QED
            BY <3>2, <3>4
    <2> HIDE DEF first
    <2>9. merged \in [Cells -> HeaderRecords]
        <3>1. ASSUME size < NumSegments
              PROVE  MergeNext(cleared, first, size) \in [Cells -> HeaderRecords]
            BY <2>3, <2>4, <2>7, <2>8, <3>1, MergeType
        <3>2. QED
            BY <2>7, <3>1
    <2> HIDE DEF merged
    <2>10. free_cont_pages(mem) = [mem EXCEPT !.pages[loc.at] = data, !.headers = merged]
        BY DEF free_cont_pages, data, merged, header, cleared, first
    <2>11. QED
        BY <1>1, <2>6, <2>9, <2>10 DEF Memory
<1>7. m \in Memory
    BY <1>1, <1>6
<1> DEFINE header == Header(len, FALSE, Scanned.last)
           cleared == [m.headers EXCEPT ![ScannedCell] = header]
           merged == IF ~Scanned.last /\ loc.si + len < NumSegments
                     THEN MergeNext(cleared, ScannedCell, len) ELSE cleared
           both == Header(loc.prev_size + merged[ScannedCell].size, FALSE,
                          merged[ScannedCell].last)
           joined == IF loc.prev_free THEN [merged EXCEPT ![loc.prev] = both] ELSE merged
<1>8. FreeSegments = [m EXCEPT !.headers = joined]
    BY DEF FreeSegments
<1> HIDE DEF m
<1>9. header \in HeaderRecords
    <2>1. len \in Int
        BY <1>1
    <2>2. QED
        BY <1>2, <1>4, <2>1, HeaderIn, Zenon
<1> HIDE DEF header
<1>10. cleared \in [Cells -> HeaderRecords]
    BY <1>7, <1>9 DEF Memory
<1> HIDE DEF cleared
<1>11. ASSUME loc.si + len < NumSegments PROVE ScannedCell + len \in Cells
    <2>1. loc.si + len \in 0 .. NumSegments - 1
        BY <1>1, <1>11, Parameters
    <2>2. Cell(loc.at, loc.si + len) \in Cells
        BY <1>1, <2>1, CellPage
    <2>3. loc.at \in Nat /\ loc.si \in Nat /\ len \in Nat
        <3>1. loc.at \in Nat
            BY <1>1, PageNumbers
        <3> HIDE DEF len
        <3>2. loc.si \in Nat /\ len \in Nat
            BY <1>1, Parameters
        <3>3. QED
            BY <3>1, <3>2
    <2> HIDE DEF len
    <2>4. ScannedCell + len = Cell(loc.at, loc.si + len)
        BY <2>3, Parameters DEF Cell, ScannedCell
    <2>5. QED
        BY <2>2, <2>4
<1>12. merged \in [Cells -> HeaderRecords]
    <2>1. len \in Int
        BY <1>1
    <2>2. ASSUME loc.si + len < NumSegments
          PROVE  MergeNext(cleared, ScannedCell, len) \in [Cells -> HeaderRecords]
        <3> HIDE DEF len
        <3>1. QED
            BY <1>1, <1>10, <1>11, <2>1, <2>2, MergeType
    <2> HIDE DEF len
    <2>3. QED
        BY <1>10, <2>2
<1> HIDE DEF merged, len
<1>13. both \in HeaderRecords
    <2>1. merged[ScannedCell] \in HeaderRecords
        BY <1>1, <1>12
    <2>2. merged[ScannedCell].size \in Int /\ merged[ScannedCell].last \in BOOLEAN
        BY <2>1 DEF HeaderRecords
    <2>3. loc.prev_size \in Nat
        BY <1>1 DEF FreeCalls
    <2>4. loc.prev_size + merged[ScannedCell].size \in Int
        BY <2>2, <2>3
    <2>5. QED
        BY <1>4, <2>2, <2>4, HeaderIn, Zenon
<1> HIDE DEF both
<1>14. joined \in [Cells -> HeaderRecords]
    BY <1>1, <1>12, <1>13 DEF FreeCalls
<1> HIDE DEF joined
<1>15. QED
    BY <1>7, <1>8, <1>14 DEF Memory

\* What free_ptr merges fits in a header.
LEMMA FoundTypes == ASSUME TypeInv, Found PROVE TypeInv'
<1>1. CASE Scanned.last /\ mem.pages[loc.at].ovf /\ LastPageOfBlock = NoPage
    <2>1. End("crash")
        BY <1>1 DEF Found
    <2>2. QED
        BY <2>1, EndTypes
<1>2. CASE ~(Scanned.last /\ mem.pages[loc.at].ovf /\ LastPageOfBlock = NoPage)
    <2>1. At("scan") /\ loc.si < NumSegments
        BY DEF Found
    <2>2. mem' = FreeSegments /\ FreeSegments \in Memory
        BY <1>2, <2>1, FreeSegmentsType DEF Found
    <2>3. loc \in FreeCalls /\ loc.id \in Pids
        BY <2>1, ScanTypes
    <2>4. loc' = [id |-> loc.id, first |-> loc.first, last |-> loc.last, pi |-> loc.first,
                  si |-> 0, ovf |-> 0, free_start |-> loc.first]
          /\ pc' = "release" /\ freed' = TRUE /\ UNCHANGED << view, halt >>
          /\ blocks' = [blocks EXCEPT ![loc.id] = {b \in @ : b.cell # loc.cell}]
        BY <1>2 DEF Found
    <2>5. loc' \in ReleaseCalls
        BY <2>3, <2>4 DEF FreeCalls, ReleaseCalls
    <2>6. blocks' \in [Pids -> SUBSET Blocks]
        BY <2>3, <2>4 DEF TypeInv
    <2>7. QED
        BY <2>2, <2>4, <2>5, <2>6 DEF TypeInv, CallOK
<1>3. QED
    BY <1>1, <1>2

\* What the walk of free_process_pages writes back.
LEMMA ReleaseTypes == ASSUME TypeInv, Release PROVE TypeInv'
<1> DEFINE page == mem.pages[Actual]
           empty == loc.si = 0 /\ ~Here.occ /\ Here.last
           front == empty /\ loc.free_start = loc.first
           left == IF front THEN Released(loc.id, loc.pi) ELSE page
           next == Advance(left, Overflow(Here, page), Length(Here))
<1>1. loc \in ReleaseCalls /\ mem \in Memory /\ Actual # NoPage
      /\ loc.si < NumSegments /\ loc.pi <= loc.last
    BY DEF TypeInv, CallOK, Release, Walking, At
<1>2. loc.id \in Pids /\ loc.id \in Owners /\ loc.si \in Nat /\ loc.ovf \in Nat
    BY <1>1, OwnerIds DEF ReleaseCalls
<1>3. /\ Actual \in Pages /\ loc.pi \in Pages /\ page \in PageRecords
      /\ Here \in HeaderRecords /\ Length(Here) \in 1 .. NumSegments
    BY <1>1, <1>2, WalkTypes
<1>4. Released(loc.id, loc.pi) \in PageRecords
    <2>1. FALSE \in BOOLEAN /\ 1 \in 1 .. NumPages
        BY Parameters
    <2>2. QED
        BY <1>2, <1>3, <2>1, PagedataType, Zenon DEF Released
<1>5. left \in PageRecords
    BY <1>3, <1>4
<1>6. Overflow(Here, page) \in Nat
    BY <1>2, <1>3, OverflowType
<1>7. /\ loc' = [next EXCEPT !.free_start =
                    CASE Here.occ -> NoPage
                      [] empty /\ loc.free_start = NoPage -> loc.pi
                      [] OTHER -> loc.free_start]
      /\ IF front
         THEN /\ mem' = [ht_delete(mem, loc.id, loc.pi) EXCEPT !.pages[Actual] = left]
              /\ view' = [view EXCEPT ![loc.id].first = loc.pi + 1]
         ELSE UNCHANGED << mem, view >>
      /\ UNCHANGED << blocks, pc, freed, halt >>
    BY DEF Release
<1> HIDE DEF left
<1>8. next \in ReleaseCalls
    BY <1>1, <1>3, <1>5, <1>6, AdvanceRelease
<1> HIDE DEF next
<1>9. loc' \in ReleaseCalls
    <2>1. loc.pi \in Int /\ loc.free_start \in Int /\ NoPage \in Int
        BY <1>1 DEF ReleaseCalls, NoPage
    <2>2. QED
        BY <1>7, <1>8, <2>1 DEF ReleaseCalls
<1>10. ht_delete(mem, loc.id, loc.pi) \in Memory
    BY <1>1, <1>2, <1>3 DEF ht_delete, ht_put, Memory
<1>11. mem' \in Memory
    BY <1>1, <1>3, <1>5, <1>7, <1>10 DEF Memory
<1>12. loc.pi + 1 \in NoPage .. NumPages
    <2>1. loc.pi \in 0 .. NumPages - 1
        BY <1>3 DEF Pages
    <2>2. QED
        BY <2>1, Parameters DEF NoPage
<1>13. view' \in [Pids -> Views]
    BY <1>2, <1>7, <1>12 DEF TypeInv, Views
<1>14. pc = "release"
    BY DEF Release, Walking, At
<1>15. QED
    BY <1>7, <1>9, <1>11, <1>13, <1>14 DEF TypeInv, CallOK

\* A set of page numbers that is not empty has a largest member.
LEMMA GreatestOf ==
    ASSUME NEW S, S \subseteq Pages, S # {}
    PROVE  Max(S) \in S
<1> DEFINE T == {NumPages - n : n \in S}
<1>1. T \subseteq Nat /\ T # {}
    <2>1. ASSUME NEW n \in S PROVE NumPages - n \in Nat
        <3>1. n \in 0 .. NumPages - 1
            BY DEF Pages
        <3>2. QED
            BY <3>1, Parameters
    <2>2. QED
        BY <2>1
<1>2. PICK least \in T : \A n \in T : least <= n
    BY <1>1, LeastOf
<1>3. PICK most \in S : least = NumPages - most
    BY <1>2
<1>4. \A n \in S : n <= most
    <2> TAKE n \in S
    <2>1. least <= NumPages - n
        BY <1>2
    <2>2. n \in Nat /\ most \in Nat
        BY PageNumbers
    <2>3. QED
        BY <1>3, <2>1, <2>2, Parameters
<1>5. QED
    BY <1>4 DEF Max

\* The indexes of the pages given back are in the thread's memory.
LEMMA ReleaseEndsTypes == ASSUME TypeInv, ReleaseEnds PROVE TypeInv'
<1> DEFINE tail == IF loc.free_start \notin {NoPage, loc.first} THEN FreeTail ELSE {}
           page(index) == ht_get(mem, loc.id, index)
           last == IF tail # {} THEN loc.free_start - 1 ELSE view[loc.id].last
           lost == \E index \in tail : page(index) = NoPage
<1>1. loc \in ReleaseCalls /\ mem \in Memory
    BY DEF TypeInv, CallOK, ReleaseEnds, At
<1>2. loc.id \in Pids /\ loc.id \in Owners
    BY <1>1, OwnerIds DEF ReleaseCalls
<1>3. ASSUME lost PROVE TypeInv'
    <2>1. End("crash")
        BY <1>3 DEF ReleaseEnds
    <2>2. QED
        BY <2>1, EndTypes
<1>4. ASSUME ~lost PROVE TypeInv'
    <2>1. /\ mem' = [mem EXCEPT
                !.pages = [a \in Pages |->
                    IF \E index \in tail : page(index) = a
                    THEN Released(loc.id, Max({index \in tail : page(index) = a}))
                    ELSE @[a]],
                !.ht[loc.id] = [index \in Pages |->
                    IF index \in tail THEN NoPage ELSE @[index]]]
          /\ view' = [view EXCEPT ![loc.id] =
                        IF @.first > last THEN NoView ELSE [@ EXCEPT !.last = last]]
          /\ pc' = "idle" /\ loc' = NoCall /\ UNCHANGED << blocks, freed, halt >>
        BY <1>4 DEF ReleaseEnds
    <2>2. tail \subseteq Pages
        BY <1>4 DEF ht_get
    <2> HIDE DEF tail
    <2>3. ASSUME NEW a \in Pages, \E index \in tail : page(index) = a
          PROVE  Released(loc.id, Max({index \in tail : page(index) = a})) \in PageRecords
        <3> DEFINE at == {index \in tail : page(index) = a}
        <3>1. at \subseteq Pages /\ at # {}
            BY <2>2, <2>3
        <3> HIDE DEF at
        <3>2. Max(at) \in Pages
            BY <3>1, GreatestOf
        <3>3. FALSE \in BOOLEAN /\ 1 \in 1 .. NumPages
            BY Parameters
        <3>4. Released(loc.id, Max(at)) \in PageRecords
            BY <1>2, <3>2, <3>3, PagedataType, Zenon DEF Released
        <3>5. QED
            BY <3>4 DEF at
    <2> DEFINE pages == [a \in Pages |->
                            IF \E index \in tail : page(index) = a
                            THEN Released(loc.id, Max({index \in tail : page(index) = a}))
                            ELSE mem.pages[a]]
               entries == [index \in Pages |->
                            IF index \in tail THEN NoPage ELSE mem.ht[loc.id][index]]
    <2>4. pages \in [Pages -> PageRecords]
        BY <1>1, <2>3 DEF Memory
    <2>5. entries \in [Pages -> Pages \cup {NoPage}]
        BY <1>1, <1>2 DEF Memory
    <2>6. mem' = [mem EXCEPT !.pages = pages, !.ht[loc.id] = entries]
        BY <2>1, Zenon
    <2> HIDE DEF pages, entries
    <2>7. mem' \in Memory
        BY <1>1, <1>2, <2>4, <2>5, <2>6 DEF Memory
    <2>8. last \in NoPage .. NumPages - 1
        <3>1. view[loc.id].last \in NoPage .. NumPages - 1
            BY <1>2 DEF TypeInv, Views
        <3>2. ASSUME tail # {} PROVE loc.free_start - 1 \in NoPage .. NumPages - 1
            <4>1. tail = FreeTail
                BY <3>2 DEF tail
            <4>2. loc.free_start \in Int /\ loc.last \in Int
                BY <1>1, Parameters DEF ReleaseCalls, NoPage
            <4>3. loc.free_start \in FreeTail
                BY <3>2, <4>1, <4>2 DEF FreeTail
            <4>4. loc.free_start \in 0 .. NumPages - 1
                BY <2>2, <4>1, <4>3 DEF Pages
            <4>5. QED
                BY <4>4, Parameters DEF NoPage
        <3>3. QED
            BY <3>1, <3>2
    <2> HIDE DEF last
    <2>9. NoView \in Views
        BY Parameters DEF NoView, Views, NoPage
    <2>10. view' \in [Pids -> Views]
        BY <1>2, <2>1, <2>8, <2>9 DEF TypeInv, Views
    <2>11. QED
        BY <2>1, <2>7, <2>10 DEF TypeInv, CallOK
<1>5. QED
    BY <1>3, <1>4

\* A page without a segment to look at is skipped in all three walks.
LEMMA SkipPageTypes == ASSUME TypeInv, SkipPage PROVE TypeInv'
<1> DEFINE page == mem.pages[IF pc = "scan" THEN loc.at ELSE Actual]
<1>1. /\ pc \in {"search", "scan", "release"} /\ loc' = NextPage(page, loc.ovf)
      /\ pc' = IF pc = "scan" THEN "turn" ELSE pc
      /\ UNCHANGED << mem, view, blocks, freed, halt >>
      /\ pc # "scan" => Actual # NoPage
    BY DEF SkipPage
<1>2. mem \in Memory
    BY DEF TypeInv
<1>3. CASE pc = "search"
    <2>1. loc \in MallocCalls /\ loc.start # NumPages /\ SearchStart
        BY <1>3 DEF TypeInv, CallOK
    <2>2. loc.id \in Owners /\ loc.si \in Nat /\ loc.ovf \in Nat
        BY <2>1, OwnerIds DEF MallocCalls
    <2>3. page \in PageRecords
        BY <1>1, <1>2, <1>3, <2>2, WalkTypes
    <2>4. loc' \in MallocCalls /\ loc'.start = loc.start /\ loc'.contig = loc.contig
        BY <1>1, <2>1, <2>2, <2>3, NextPageMalloc
    <2>5. QED
        BY <1>1, <1>3, <2>1, <2>4 DEF TypeInv, CallOK, SearchStart
<1>4. CASE pc = "scan"
    <2>1. loc \in FreeCalls /\ loc.at \in Pages
        BY <1>4 DEF TypeInv, CallOK
    <2>2. loc.ovf \in Nat /\ page \in PageRecords
        BY <1>2, <1>4, <2>1 DEF FreeCalls, Memory
    <2>3. loc' \in FreeCalls
        BY <1>1, <2>1, <2>2, NextPageFree
    <2>4. QED
        BY <1>1, <1>4, <2>3 DEF TypeInv, CallOK
<1>5. CASE pc = "release"
    <2>1. loc \in ReleaseCalls
        BY <1>5 DEF TypeInv, CallOK
    <2>2. loc.id \in Owners /\ loc.si \in Nat /\ loc.ovf \in Nat
        BY <2>1, OwnerIds DEF ReleaseCalls
    <2>3. page \in PageRecords
        BY <1>1, <1>2, <1>5, <2>2, WalkTypes
    <2>4. loc' \in ReleaseCalls
        BY <1>1, <2>1, <2>2, <2>3, NextPageRelease
    <2>5. QED
        BY <1>1, <1>5, <2>4 DEF TypeInv, CallOK
<1>6. QED
    BY <1>1, <1>3, <1>4, <1>5

\* A store into a block leaves a byte, which a header can be.
LEMMA StoreTypes == ASSUME TypeInv, NEW p \in Pids, Store(p) PROVE TypeInv'
<1>1. /\ pc = "idle" /\ UNCHANGED << view, blocks, pc, loc, freed, halt >>
      /\ \E cell \in Cells, byte \in UserBytes :
            mem' = [mem EXCEPT !.headers[cell] = Decoded(byte)]
    BY DEF Store, At
<1>2. mem' \in Memory
    <2>1. PICK cell \in Cells, byte \in UserBytes :
             mem' = [mem EXCEPT !.headers[cell] = Decoded(byte)]
        BY <1>1
    <2>2. Decoded(byte) \in HeaderRecords
        <3>1. byte \in Int
            BY AllocatorAssumption DEF Bytes
        <3>2. QED
            BY <3>1, DecodedType DEF HeaderRecords
    <2>3. QED
        BY <2>1, <2>2 DEF TypeInv, Memory
<1>3. CallOK'
    BY <1>1 DEF TypeInv, CallOK
<1>4. QED
    BY <1>1, <1>2, <1>3 DEF TypeInv

\* Every step keeps the types.
LEMMA NextTypes == ASSUME TypeInv, [Next]_vars PROVE TypeInv'
<1>1. ASSUME NEW p \in Pids, NEW size \in Sizes, Malloc(p, size) PROVE TypeInv'
    BY <1>1, MallocTypes
<1>2. ASSUME NEW p \in Pids, NEW cell \in Cells, Free(p, cell) PROVE TypeInv'
    BY <1>2, FreeTypes
<1>10. ASSUME NEW p \in Pids, Store(p) PROVE TypeInv'
    BY <1>10, StoreTypes
<1>3. CASE NotEnoughPages
    BY <1>3, EndTypes DEF NotEnoughPages
<1>4. CASE NoRoom
    BY <1>4, EndTypes DEF NoRoom
<1>5. CASE FreeFails
    BY <1>5, EndTypes DEF FreeFails
<1>6. CASE Segfault
    BY <1>6, EndTypes DEF Segfault
<1>7. CASE UNCHANGED vars
    <2>1. CallOK'
        BY <1>7 DEF TypeInv, CallOK, vars, SearchStart, TakeRoom
    <2>2. QED
        BY <1>7, <2>1 DEF TypeInv, vars
<1>8. CASE Step
    BY <1>3, <1>4, <1>5, <1>6, <1>8, SearchTypes, SearchFailsTypes, FirstPagesTypes,
       FromLastSegmentTypes, FromNextPageTypes, TakeTypes, TakeNextTypes, TakeEndsTypes,
       PlaceTypes, TurnPageTypes, ScanStepTypes, FoundTypes, ReleaseTypes, ReleaseEndsTypes,
       SkipPageTypes DEF Step
<1>9. QED
    BY <1>1, <1>2, <1>7, <1>8, <1>10 DEF Next, Rest, Halted

\* The types hold throughout.
LEMMA TypeInvariant == Spec => []TypeInv
<1>1. TypeInv /\ [Next]_vars => TypeInv'
    BY NextTypes
<1>2. QED
    BY <1>1, InitTypes, PTL DEF Spec

\* Whatever programs ask for, store in their blocks and free, myallocate and
\* mydeallocate go where headers and pages are and write what these hold: each
\* index a header leads to, each page number the page table gives, each length
\* taken off the end of a page.
THEOREM TypesKept == Spec => []TypeOK
<1>1. TypeInv => TypeOK
    <2> SUFFICES ASSUME TypeInv PROVE TypeOK
        OBVIOUS
    <2>1. loc.id \in Owners
        BY OwnerIds DEF TypeInv, CallOK, NoCall, MallocCalls, TakeCalls, PlaceCalls, FreeCalls,
                        ReleaseCalls
    <2>2. /\ mem.pages \in [Pages -> PageRecords]
          /\ mem.headers \in [Cells -> HeaderRecords]
          /\ mem.ht \in [Owners -> [Pages -> Pages \cup {NoPage}]]
        BY DEF TypeInv, Memory
    <2>3. \A p \in Pids : \A b \in blocks[p] : b.cell \in Cells /\ b.len \in Nat \ {0}
        BY DEF TypeInv, Blocks
    <2>4. QED
        BY <2>1, <2>2, <2>3 DEF TypeInv, TypeOK, PageRecords, HeaderRecords, Views
<1>2. QED
    BY <1>1, TypeInvariant, PTL

-----------------------------------------------------------------------------
(* The page table, for programs that do not allocate after they have freed.  *)
(* A page table entry is deleted when its page is given back, but a page     *)
(* given back keeps its thread and index, and swap writes the entry again    *)
(* whenever it moves the page.  So does a page not used yet: it names the    *)
(* scheduler, thread 0, which may see another page at that index.            *)

InView(v, p, index) == v[p].first <= index /\ index <= v[p].last

\* The pages in use are the first ones, before page free_page.
FirstFree(m, free_page) ==
    \A page \in Pages : m.pages[page].occ <=> page < free_page

\* Each page that a thread sees is found.  It lies among the pages used so far,
\* the first ones, and so does the place where the thread sees it; ...
Mapped(m, v, used) ==
    \A p \in Pids, index \in Pages : InView(v, p, index) =>
        /\ index < used
        /\ m.ht[p][index] # NoPage /\ m.ht[p][index] < used
        /\ LET page == m.pages[m.ht[p][index]]
           IN  page.occ /\ page.pid = p /\ page.index = index

\* ... no other of these has its thread and index: swap would take its entry.
Unique(m, v, used) ==
    \A page \in Pages :
        LET p == m.pages[page].pid
            index == m.pages[page].index
        IN  page < used /\ p \in Pids /\ InView(v, p, index) => m.ht[p][index] = page

\* Before any page is given back, those used so far are in use, and threads see
\* them, and the page table has no more.
Packed(m, v, used) ==
    /\ FirstFree(m, used)
    /\ \A p \in Pids, index \in Pages : ~InView(v, p, index) => m.ht[p][index] = NoPage
    /\ \A page \in Pages : m.pages[page].occ =>
          m.pages[page].pid \in Pids /\ InView(v, m.pages[page].pid, m.pages[page].index)

PageMap(m, v, gave, used) ==
    Mapped(m, v, used) /\ Unique(m, v, used) /\ (~gave => Packed(m, v, used))

\* A thread sees all pages from its first to its last, or none.
Sighted(v) == \A p \in Pids : v[p].last = NoPage \/ v[p].first <= v[p].last

\* A thread's first call sets its view before it has the first page.
AwaitsFirst == pc = "take" /\ loc.free_page # NoPage /\ view[loc.id].last = loc.pi
Seen == IF AwaitsFirst THEN [view EXCEPT ![loc.id] = NoView] ELSE view

\* page_allocate takes the first free pages, to see them after the others the
\* thread sees; if memory is full, it takes pages that the thread has.
TakeInv ==
    /\ \A k \in DOMAIN loc.taken : mem.pages[loc.taken[k]].occ
    /\ loc.free_page # NoPage =>
          /\ FirstFree(mem, loc.actual)
          /\ loc.pi <= loc.actual
          /\ IF view[loc.id].last = loc.pi
             THEN view[loc.id].first = loc.pi /\ loc.taken = << >>
             ELSE view[loc.id].last = loc.pi - 1

\* free_process_pages looks for the last run of free pages, which begins in the
\* thread's view; when it has just given a page back, it may look there again.
ReleaseInv ==
    /\ loc.first >= 0
    /\ loc.last = view[loc.id].last
    /\ \/ view[loc.id].first <= loc.pi
       \/ loc.pi <= loc.last /\ mem.ht[loc.id][loc.pi] = NoPage
    /\ loc.free_start \in {NoPage, loc.first} \/ view[loc.id].first <= loc.free_start

\* What the call in progress knows of the pages.
CallInv ==
    /\ pc \in {"search", "pages", "take", "place"} => ~freed
    /\ pc \in {"search", "pages"} /\ loc.free_page # NoPage => FirstFree(mem, loc.free_page)
    /\ pc = "pages" /\ loc.free_page # NoPage => loc.start = view[loc.id].last
    /\ pc \in {"search", "turn", "scan"} =>
          view[loc.id].first <= loc.pi /\ loc.last = view[loc.id].last
    /\ pc \in {"turn", "scan"} => loc.first = view[loc.id].first
    /\ pc = "take" => TakeInv
    /\ pc = "place" => \A k \in DOMAIN loc.taken : mem.pages[loc.taken[k]].occ
    /\ pc = "release" => freed /\ ReleaseInv

PagesInv ==
    /\ \A p \in Pids : view[p].first >= 0
    /\ \E used \in Nat : PageMap(mem, Seen, freed, used)
    /\ ~freed => Sighted(Seen)
    /\ CallInv

\* No page is free, and the thread has none: the call is about to crash.
Doomed == pc = "take" /\ loc.pi = NoPage

MapInv ==
    /\ Doomed => loc.n # 0
    /\ halt = "none" /\ ~Doomed => PagesInv

\* After the first myallocate has set the block up, nobody sees a page.
LEMMA FirstView == Init => MapInv
<1> SUFFICES ASSUME Init PROVE MapInv
    OBVIOUS
<1>1. /\ mem.ht = [p \in Owners |-> [index \in Pages |-> NoPage]]
      /\ mem.pages = [page \in Pages |-> Released(0, page)]
      /\ view = [p \in Pids |-> NoView] /\ pc = "idle" /\ freed = FALSE
    BY DEF Init
<1>2. Seen = view /\ ~Doomed
    BY <1>1 DEF Seen, AwaitsFirst, Doomed
<1>3. \A page \in Pages : mem.pages[page].occ = FALSE
    <2> TAKE page \in Pages
    <2>1. FALSE \in BOOLEAN /\ 1 \in 1 .. NumPages
        BY Parameters
    <2>2. Released(0, page) = [pid |-> 0, occ |-> FALSE, ovf |-> FALSE, index |-> page,
                               length |-> 1]
        BY <2>1, OwnerIds, PagedataType, Zenon DEF Released
    <2>3. QED
        BY <1>1, <2>2
<1>4. \A p \in Pids, index \in Pages :
         ~InView(view, p, index) /\ mem.ht[p][index] = NoPage
    <2> TAKE p \in Pids, index \in Pages
    <2>1. view[p].first = NumPages /\ index \in 0 .. NumPages - 1
        BY <1>1 DEF NoView, Pages
    <2>2. ~InView(view, p, index)
        BY <2>1, Parameters DEF InView
    <2>3. mem.ht[p][index] = NoPage
        BY <1>1, OwnerIds
    <2>4. QED
        BY <2>2, <2>3
<1>5. \A p \in Pids : view[p].first >= 0 /\ view[p].last = NoPage
    BY <1>1, Parameters DEF NoView, NoPage
<1>6. \A page \in Pages : ~(page < 0)
    BY DEF Pages
<1>7. Mapped(mem, view, 0)
    BY <1>4 DEF Mapped
<1>8. Unique(mem, view, 0)
    BY <1>6 DEF Unique
<1>9. Packed(mem, view, 0)
    BY <1>3, <1>4, <1>6 DEF Packed, FirstFree
<1>10. \E used \in Nat : PageMap(mem, view, freed, used)
    BY <1>7, <1>8, <1>9 DEF PageMap
<1>11. Sighted(view)
    BY <1>5 DEF Sighted
<1>12. CallInv
    BY <1>1 DEF CallInv
<1>13. QED
    BY <1>2, <1>5, <1>10, <1>11, <1>12 DEF MapInv, PagesInv

\* What the invariant reads of the pages, and of what threads see.
SamePages(m, n) ==
    /\ n.ht = m.ht
    /\ \A page \in Pages : /\ n.pages[page].occ = m.pages[page].occ
                           /\ n.pages[page].pid = m.pages[page].pid
                           /\ n.pages[page].index = m.pages[page].index
SameView(v, w) == \A p \in Pids, index \in Pages : InView(w, p, index) <=> InView(v, p, index)

\* Nothing that the page map reads has changed.
LEMMA SameMap ==
    ASSUME NEW m \in Memory, NEW n \in Memory, NEW v, NEW w, NEW gave, NEW used,
           SamePages(m, n), SameView(v, w), PageMap(m, v, gave, used)
    PROVE  PageMap(n, w, gave, used)
<1>1. /\ m.pages \in [Pages -> PageRecords]
      /\ m.ht \in [Owners -> [Pages -> Pages \cup {NoPage}]]
    BY DEF Memory
<1>2. \A page \in Pages : m.pages[page].index \in Pages
    BY <1>1 DEF PageRecords
<1>3. Mapped(n, w, used)
    <2> SUFFICES ASSUME NEW p \in Pids, NEW index \in Pages, InView(w, p, index)
                 PROVE  /\ index < used
                        /\ n.ht[p][index] # NoPage /\ n.ht[p][index] < used
                        /\ n.pages[n.ht[p][index]].occ /\ n.pages[n.ht[p][index]].pid = p
                        /\ n.pages[n.ht[p][index]].index = index
        BY DEF Mapped
    <2>1. /\ index < used
          /\ m.ht[p][index] # NoPage /\ m.ht[p][index] < used
          /\ m.pages[m.ht[p][index]].occ /\ m.pages[m.ht[p][index]].pid = p
          /\ m.pages[m.ht[p][index]].index = index
        BY DEF PageMap, Mapped, SameView
    <2>2. m.ht[p][index] \in Pages
        BY <1>1, <2>1, OwnerIds
    <2>3. QED
        BY <2>1, <2>2 DEF SamePages
<1>4. Unique(n, w, used)
    BY <1>2 DEF PageMap, Unique, SamePages, SameView
<1>5. ASSUME Packed(m, v, used) PROVE Packed(n, w, used)
    <2>1. FirstFree(n, used)
        BY <1>5 DEF Packed, FirstFree, SamePages
    <2>2. \A p \in Pids, index \in Pages : ~InView(w, p, index) => n.ht[p][index] = NoPage
        BY <1>5 DEF Packed, SamePages, SameView
    <2>3. \A page \in Pages : n.pages[page].occ =>
             n.pages[page].pid \in Pids /\ InView(w, n.pages[page].pid, n.pages[page].index)
        BY <1>2, <1>5 DEF Packed, SamePages, SameView
    <2>4. QED
        BY <2>1, <2>2, <2>3 DEF Packed
<1>6. QED
    BY <1>3, <1>4, <1>5 DEF PageMap

\* Two used pages may change places.  Before any page is given back, both are in use.
LEMMA SwapMap ==
    ASSUME NEW m \in Memory, NEW a \in Pages, NEW b \in Pages, NEW v, NEW gave, NEW used,
           a < used, b < used, PageMap(m, v, gave, used)
    PROVE  /\ PageMap(swap(m, a, b), v, gave, used)
           /\ ~gave => \A page \in Pages : swap(m, a, b).pages[page].occ = m.pages[page].occ
<1> DEFINE n == swap(m, a, b)
           from(page) == CASE page = a -> b [] page = b -> a [] OTHER -> page
<1>1. /\ m.pages \in [Pages -> PageRecords]
      /\ m.ht \in [Owners -> [Pages -> Pages \cup {NoPage}]]
    BY DEF Memory
<1>2. \A page \in Pages : m.pages[page].occ \in BOOLEAN /\ m.pages[page].index \in Pages
    BY <1>1 DEF PageRecords
<1>3. \A page \in Pages : /\ n.pages[page] = m.pages[from(page)] /\ from(page) \in Pages
                          /\ page < used => from(page) < used
    BY SwapMoves
<1>4. Mapped(m, v, used) /\ Unique(m, v, used)
    BY DEF PageMap
<1>5. ASSUME NEW p \in Owners, NEW index \in Pages
      PROVE  n.ht[p][index] =
                IF a # b /\ m.pages[b].pid = p /\ m.pages[b].index = index THEN a
                ELSE IF a # b /\ m.pages[a].pid = p /\ m.pages[a].index = index THEN b
                ELSE m.ht[p][index]
    <2>1. CASE a = b
        BY <2>1 DEF swap
    <2>2. CASE a # b
        <3>1. n.ht = SwapEntries(m, a, b).ht
            BY <2>2, EntriesSwapped DEF swap, Memory
        <3>2. QED
            BY <2>2, <3>1, EntriesSwapped
    <2>3. QED
        BY <2>1, <2>2
<1>6. Mapped(n, v, used)
    <2> SUFFICES ASSUME NEW p \in Pids, NEW index \in Pages, InView(v, p, index)
                 PROVE  /\ index < used
                        /\ n.ht[p][index] # NoPage /\ n.ht[p][index] < used
                        /\ n.pages[n.ht[p][index]].occ /\ n.pages[n.ht[p][index]].pid = p
                        /\ n.pages[n.ht[p][index]].index = index
        BY DEF Mapped
    <2>1. /\ index < used
          /\ m.ht[p][index] # NoPage /\ m.ht[p][index] < used
          /\ m.pages[m.ht[p][index]].occ /\ m.pages[m.ht[p][index]].pid = p
          /\ m.pages[m.ht[p][index]].index = index
        BY <1>4 DEF Mapped
    <2>2. p \in Owners
        BY OwnerIds
    <2>3. ht_get(m, p, index) = m.ht[p][index] /\ ht_get(n, p, index) = n.ht[p][index]
        BY DEF ht_get
    <2>4. Finds(m, p, index)
        BY <2>1, <2>3 DEF Finds
    <2>5. \A page \in {a, b} : m.pages[page].pid = p /\ m.pages[page].index = index =>
                                  page = ht_get(m, p, index)
        BY <1>4, <2>3 DEF Unique
    <2>6. /\ Finds(n, p, index)
          /\ n.pages[ht_get(n, p, index)] = m.pages[ht_get(m, p, index)]
        BY ONLY <2>2, <2>4, <2>5, SwapKeepsPages, m \in Memory, a \in Pages, b \in Pages,
                index \in Pages
    <2>7. n.ht[p][index] < used
        BY <1>5, <2>1, <2>2
    <2>8. QED
        BY <2>1, <2>3, <2>6, <2>7 DEF Finds
<1>7. Unique(n, v, used)
    <2> SUFFICES ASSUME NEW page \in Pages, page < used, n.pages[page].pid \in Pids,
                        InView(v, n.pages[page].pid, n.pages[page].index)
                 PROVE  n.ht[n.pages[page].pid][n.pages[page].index] = page
        BY DEF Unique
    <2> DEFINE p == n.pages[page].pid
               index == n.pages[page].index
    <2>1. n.pages[page] = m.pages[from(page)] /\ from(page) \in Pages /\ from(page) < used
        BY <1>3
    <2>2. p \in Pids /\ p \in Owners /\ index \in Pages /\ InView(v, p, index)
        BY <1>2, <2>1, OwnerIds
    <2>3. m.pages[from(page)].pid = p /\ m.pages[from(page)].index = index
        BY <2>1
    <2> HIDE DEF p, index
    <2>4. \A q \in Pages : q < used /\ m.pages[q].pid = p /\ m.pages[q].index = index =>
                              m.ht[p][index] = q
        BY <1>4, <2>2 DEF Unique
    <2>5. m.ht[p][index] = from(page)
        BY <2>1, <2>3, <2>4
    <2>6. n.ht[p][index] = page
        BY <1>5, <2>2, <2>3, <2>4, <2>5
    <2>7. QED
        BY <2>6 DEF p, index
<1>8. ASSUME Packed(m, v, used)
      PROVE  Packed(n, v, used) /\ \A page \in Pages : n.pages[page].occ = m.pages[page].occ
    <2>1. m.pages[a].occ /\ m.pages[b].occ
        BY <1>8 DEF Packed, FirstFree
    <2>2. \A page \in Pages : n.pages[page].occ = m.pages[page].occ
        BY <1>2, <1>3, <2>1
    <2>3. FirstFree(n, used)
        BY <1>8, <2>2 DEF Packed, FirstFree
    <2>4. \A p \in Pids, index \in Pages : ~InView(v, p, index) => n.ht[p][index] = NoPage
        <3> SUFFICES ASSUME NEW p \in Pids, NEW index \in Pages, ~InView(v, p, index)
                     PROVE  n.ht[p][index] = NoPage
            OBVIOUS
        <3>1. m.ht[p][index] = NoPage
            BY <1>8 DEF Packed
        <3>2. \A page \in {a, b} : ~(m.pages[page].pid = p /\ m.pages[page].index = index)
            BY <1>8, <2>1 DEF Packed
        <3>3. QED
            BY <1>5, <3>1, <3>2, OwnerIds
    <2>5. \A page \in Pages : n.pages[page].occ =>
             n.pages[page].pid \in Pids /\ InView(v, n.pages[page].pid, n.pages[page].index)
        <3> HIDE DEF n
        <3>1. QED
            BY <1>3, <1>8 DEF Packed
    <2>6. QED
        BY <2>2, <2>3, <2>4, <2>5 DEF Packed
<1>9. QED
    BY <1>6, <1>7, <1>8 DEF PageMap

\* From m and v to n and w, a page is added: page a, seen by thread id at pi.
Adds(m, n, v, w, id, pi, a) ==
    /\ \A p \in Pids, index \in Pages :
          InView(w, p, index) <=> (InView(v, p, index) \/ (p = id /\ index = pi))
    /\ \A p \in Pids, index \in Pages :
          n.ht[p][index] = IF p = id /\ index = pi THEN a ELSE m.ht[p][index]
    /\ n.pages[a].occ /\ n.pages[a].pid = id /\ n.pages[a].index = pi
    /\ \A page \in Pages : page # a => n.pages[page] = m.pages[page]

\* page_allocate takes the first free page, for a place no page is seen at.
LEMMA PageAdded ==
    ASSUME NEW m \in Memory, NEW n \in Memory, NEW v, NEW w, NEW used \in Nat,
           NEW id \in Pids, NEW pi \in Pages, NEW a \in Pages,
           PageMap(m, v, FALSE, used), FirstFree(m, a),
           pi <= a, ~InView(v, id, pi), Adds(m, n, v, w, id, pi, a)
    PROVE  /\ PageMap(n, w, FALSE, a + 1) /\ FirstFree(n, a + 1)
           /\ \A page \in Pages : m.pages[page].occ => n.pages[page].occ
<1> /\ \A p \in Pids, index \in Pages :
           InView(w, p, index) <=> (InView(v, p, index) \/ (p = id /\ index = pi))
    /\ \A p \in Pids, index \in Pages :
           n.ht[p][index] = IF p = id /\ index = pi THEN a ELSE m.ht[p][index]
    /\ n.pages[a].occ /\ n.pages[a].pid = id /\ n.pages[a].index = pi
    /\ \A page \in Pages : page # a => n.pages[page] = m.pages[page]
    BY DEF Adds
<1>1. /\ m.pages \in [Pages -> PageRecords]
      /\ m.ht \in [Owners -> [Pages -> Pages \cup {NoPage}]]
    BY DEF Memory
<1>2. \A page \in Pages : m.pages[page].index \in Pages
    BY <1>1 DEF PageRecords
<1>3. Mapped(m, v, used) /\ Unique(m, v, used) /\ Packed(m, v, used)
    BY DEF PageMap
<1>4. \A page \in Pages : page < used <=> page < a
    BY <1>3 DEF Packed, FirstFree
<1>5. \A page \in Pages : page < a + 1 <=> page < a \/ page = a
    BY PageNumbers
<1>6. ~m.pages[a].occ
    <2>1. ~(a < a)
        BY PageNumbers
    <2>2. QED
        BY <2>1 DEF FirstFree
<1>7. \A page \in Pages : m.pages[page].occ => n.pages[page].occ
    OBVIOUS
<1>8. NoPage \notin Pages
    BY PageNumbers
<1>9. Mapped(n, w, a + 1)
    <2> SUFFICES ASSUME NEW p \in Pids, NEW index \in Pages, InView(w, p, index)
                 PROVE  /\ index < a + 1
                        /\ n.ht[p][index] # NoPage /\ n.ht[p][index] < a + 1
                        /\ n.pages[n.ht[p][index]].occ /\ n.pages[n.ht[p][index]].pid = p
                        /\ n.pages[n.ht[p][index]].index = index
        BY DEF Mapped
    <2>1. CASE p = id /\ index = pi
        <3>1. index < a + 1
            BY <2>1, PageNumbers
        <3>2. QED
            BY <1>5, <1>8, <2>1, <3>1
    <2>2. CASE ~(p = id /\ index = pi)
        <3>1. /\ index < used
              /\ m.ht[p][index] # NoPage /\ m.ht[p][index] < used
              /\ m.pages[m.ht[p][index]].occ /\ m.pages[m.ht[p][index]].pid = p
              /\ m.pages[m.ht[p][index]].index = index
            BY <1>3, <2>2 DEF Mapped
        <3>2. m.ht[p][index] \in Pages /\ m.ht[p][index] # a
            BY <1>1, <1>6, <3>1, OwnerIds
        <3>3. n.ht[p][index] = m.ht[p][index]
            BY <2>2
        <3>4. index < a + 1 /\ m.ht[p][index] < a + 1
            BY <1>4, <1>5, <3>1, <3>2
        <3>5. QED
            BY <3>1, <3>2, <3>3, <3>4
    <2>3. QED
        BY <2>1, <2>2
<1>10. Unique(n, w, a + 1)
    <2> SUFFICES ASSUME NEW page \in Pages, page < a + 1, n.pages[page].pid \in Pids,
                        InView(w, n.pages[page].pid, n.pages[page].index)
                 PROVE  n.ht[n.pages[page].pid][n.pages[page].index] = page
        BY DEF Unique
    <2>1. CASE page = a
        BY <2>1
    <2>2. CASE page # a
        <3>1. n.pages[page] = m.pages[page] /\ page < used
            BY <1>4, <1>5, <2>2
        <3>2. m.pages[page].occ
            BY <1>3, <3>1 DEF Packed, FirstFree
        <3>3. InView(v, m.pages[page].pid, m.pages[page].index)
            BY <1>3, <3>2 DEF Packed
        <3>4. m.ht[m.pages[page].pid][m.pages[page].index] = page
            BY <1>3, <3>1, <3>3 DEF Unique
        <3>5. QED
            BY <1>2, <3>1, <3>3, <3>4
    <2>3. QED
        BY <2>1, <2>2
<1>11. FirstFree(n, a + 1)
    <2> SUFFICES ASSUME NEW page \in Pages PROVE n.pages[page].occ <=> page < a + 1
        BY DEF FirstFree
    <2>1. m.pages[page].occ <=> page < a
        BY DEF FirstFree
    <2>2. CASE page = a
        BY <1>5, <2>2
    <2>3. CASE page # a
        BY <1>5, <2>1, <2>3
    <2>4. QED
        BY <2>2, <2>3
<1>12. Packed(n, w, a + 1)
    <2>1. \A p \in Pids, index \in Pages : ~InView(w, p, index) => n.ht[p][index] = NoPage
        BY <1>3 DEF Packed
    <2>2. \A page \in Pages : n.pages[page].occ =>
             n.pages[page].pid \in Pids /\ InView(w, n.pages[page].pid, n.pages[page].index)
        <3> SUFFICES ASSUME NEW page \in Pages, n.pages[page].occ
                     PROVE  n.pages[page].pid \in Pids
                            /\ InView(w, n.pages[page].pid, n.pages[page].index)
            OBVIOUS
        <3>1. CASE page = a
            BY <3>1
        <3>2. CASE page # a
            BY <1>2, <1>3, <3>2 DEF Packed
        <3>3. QED
            BY <3>1, <3>2
    <2>3. QED
        BY <1>11, <2>1, <2>2 DEF Packed
<1>13. QED
    BY <1>7, <1>9, <1>10, <1>11, <1>12 DEF PageMap

\* From m and v to n and w, thread id loses the pages at the indexes in gone.
Removes(m, n, v, w, id, gone) ==
    /\ \A p \in Pids, index \in Pages :
          InView(w, p, index) => InView(v, p, index) /\ ~(p = id /\ index \in gone)
    /\ \A p \in Pids, index \in Pages :
          ~(p = id /\ index \in gone) => n.ht[p][index] = m.ht[p][index]
    /\ \A page \in Pages :
          \/ n.pages[page] = m.pages[page]
          \/ /\ m.pages[page].pid = id /\ m.pages[page].index \in gone
             /\ n.pages[page].pid = id /\ n.pages[page].index \in gone \cap Pages

\* free_process_pages gives pages back.
LEMMA PagesRemoved ==
    ASSUME NEW m \in Memory, NEW n, NEW v, NEW w, NEW id, NEW gone, NEW used,
           PageMap(m, v, TRUE, used), Removes(m, n, v, w, id, gone)
    PROVE  PageMap(n, w, TRUE, used)
<1> /\ \A p \in Pids, index \in Pages :
           InView(w, p, index) => InView(v, p, index) /\ ~(p = id /\ index \in gone)
    /\ \A p \in Pids, index \in Pages :
           ~(p = id /\ index \in gone) => n.ht[p][index] = m.ht[p][index]
    /\ \A page \in Pages :
           \/ n.pages[page] = m.pages[page]
           \/ /\ m.pages[page].pid = id /\ m.pages[page].index \in gone
              /\ n.pages[page].pid = id /\ n.pages[page].index \in gone \cap Pages
    BY DEF Removes
<1>1. /\ m.pages \in [Pages -> PageRecords]
      /\ m.ht \in [Owners -> [Pages -> Pages \cup {NoPage}]]
    BY DEF Memory
<1>2. \A page \in Pages : m.pages[page].index \in Pages
    BY <1>1 DEF PageRecords
<1>3. Mapped(m, v, used) /\ Unique(m, v, used)
    BY DEF PageMap
<1>4. Mapped(n, w, used)
    <2> SUFFICES ASSUME NEW p \in Pids, NEW index \in Pages, InView(w, p, index)
                 PROVE  /\ index < used
                        /\ n.ht[p][index] # NoPage /\ n.ht[p][index] < used
                        /\ n.pages[n.ht[p][index]].occ /\ n.pages[n.ht[p][index]].pid = p
                        /\ n.pages[n.ht[p][index]].index = index
        BY DEF Mapped
    <2>1. InView(v, p, index) /\ ~(p = id /\ index \in gone)
        OBVIOUS
    <2>2. /\ index < used
          /\ m.ht[p][index] # NoPage /\ m.ht[p][index] < used
          /\ m.pages[m.ht[p][index]].occ /\ m.pages[m.ht[p][index]].pid = p
          /\ m.pages[m.ht[p][index]].index = index
        BY <1>3, <2>1 DEF Mapped
    <2>3. m.ht[p][index] \in Pages
        BY <1>1, <2>2, OwnerIds
    <2>4. n.pages[m.ht[p][index]] = m.pages[m.ht[p][index]]
        BY <2>1, <2>2, <2>3
    <2>5. n.ht[p][index] = m.ht[p][index]
        BY <2>1
    <2>6. QED
        BY <2>2, <2>4, <2>5
<1>5. Unique(n, w, used)
    <2> SUFFICES ASSUME NEW page \in Pages, page < used, n.pages[page].pid \in Pids,
                        InView(w, n.pages[page].pid, n.pages[page].index)
                 PROVE  n.ht[n.pages[page].pid][n.pages[page].index] = page
        BY DEF Unique
    <2>1. n.pages[page] = m.pages[page]
        OBVIOUS
    <2>2. /\ InView(v, m.pages[page].pid, m.pages[page].index)
          /\ ~(m.pages[page].pid = id /\ m.pages[page].index \in gone)
        BY <1>2, <2>1
    <2>3. m.ht[m.pages[page].pid][m.pages[page].index] = page
        BY <1>3, <2>1, <2>2 DEF Unique
    <2>4. QED
        BY <1>2, <2>1, <2>2, <2>3
<1>6. QED
    BY <1>4, <1>5 DEF PageMap

\* A step of a call that touches no page.
LEMMA QuietStep ==
    ASSUME PagesInv, UNCHANGED << mem, view, freed >>, Seen' = Seen, CallInv'
    PROVE  PagesInv'
<1>1. \E used \in Nat : PageMap(mem', Seen', freed', used)
    BY DEF PagesInv
<1>2. ~freed' => Sighted(Seen')
    BY DEF PagesInv
<1>3. \A p \in Pids : view'[p].first >= 0
    BY DEF PagesInv
<1>4. QED
    BY <1>1, <1>2, <1>3 DEF PagesInv

\* Outside page_allocate, a thread sees what its view says.
LEMMA SameSeen ==
    /\ pc # "take" => Seen = view
    /\ pc' # "take" => Seen' = view' /\ ~Doomed'
BY DEF Seen, AwaitsFirst, Doomed

\* myallocate begins: the first free page is the one after those used.
LEMMA MallocMap ==
    ASSUME ~ReusesMemory, TypeInv, PagesInv, NEW p \in Pids, NEW size \in Sizes, Malloc(p, size)
    PROVE  MapInv'
<1>1. /\ pc = "idle" /\ pc' = "search" /\ ~freed /\ UNCHANGED << mem, view, freed >>
      /\ loc'.id = p /\ loc'.first = view[p].first /\ loc'.last = view[p].last
      /\ loc'.pi = view[p].first /\ loc'.free_page = LeastFree
    BY DEF Malloc, At
<1>2. Seen = view /\ Seen' = view /\ ~Doomed'
    BY <1>1, SameSeen
<1>3. PICK used \in Nat : FirstFree(mem, used)
    BY <1>1, <1>2 DEF PagesInv, PageMap, Packed
<1>4. ASSUME LeastFree # NoPage PROVE FirstFree(mem, LeastFree)
    <2>1. LeastFree \in FreePages /\ \A page \in FreePages : LeastFree <= page
        BY <1>4, FirstFound DEF TypeInv
    <2>2. LeastFree \in Pages /\ ~mem.pages[LeastFree].occ
        BY <2>1 DEF FreePages
    <2> SUFFICES ASSUME NEW page \in Pages PROVE mem.pages[page].occ <=> page < LeastFree
        BY DEF FirstFree
    <2>3. mem.pages[page].occ => ~(LeastFree <= page)
        <3>1. ~(LeastFree < used) /\ (mem.pages[page].occ => page < used)
            BY <1>3, <2>2 DEF FirstFree
        <3>2. LeastFree \in Nat /\ page \in Nat
            BY <2>2, PageNumbers, Zenon
        <3>3. QED
            BY <3>1, <3>2
    <2>4. ~mem.pages[page].occ => LeastFree <= page
        BY <2>1 DEF FreePages
    <2>5. LeastFree <= page <=> ~(page < LeastFree)
        BY <2>2, PageNumbers
    <2>6. QED
        BY <2>3, <2>4, <2>5
<1>5. view[p].first <= view[p].first
    BY Parameters DEF TypeInv, Views, NoPage
<1>6. CallInv'
    <2>1. LeastFree # NoPage => FirstFree(mem', LeastFree)
        BY <1>1, <1>4
    <2>2. QED
        BY <1>1, <1>5, <2>1 DEF CallInv
<1>7. QED
    BY <1>1, <1>2, <1>6, QuietStep DEF MapInv

\* myallocate returns.
LEMMA GiveMap ==
    ASSUME PagesInv, TypeInv', NEW m \in Memory, NEW cell, NEW len, Give(m, cell, len),
           UNCHANGED << view, freed >>,
           NEW used \in Nat, PageMap(m, view, freed, used), ~freed => Sighted(view)
    PROVE  MapInv'
<1>1. pc' = "idle" /\ mem'.pages = m.pages /\ mem'.ht = m.ht
    BY DEF Give, Memory
<1>2. Seen' = view /\ ~Doomed'
    BY <1>1, SameSeen
<1>3. SamePages(m, mem') /\ SameView(view, view)
    BY <1>1 DEF SamePages, SameView
<1>4. mem' \in Memory
    BY DEF TypeInv
<1>5. PageMap(mem', view, freed, used)
    BY <1>3, <1>4, SameMap
<1>6. CallInv'
    BY <1>1 DEF CallInv
<1>7. QED
    BY <1>2, <1>5, <1>6 DEF MapInv, PagesInv

\* A store changes no page and no entry of the page table.
LEMMA StoreMap == ASSUME TypeInv, PagesInv, NEW p \in Pids, Store(p) PROVE MapInv'
<1>1. /\ pc = "idle" /\ pc' = "idle" /\ UNCHANGED << view, freed >>
      /\ mem'.pages = mem.pages /\ mem'.ht = mem.ht
    BY DEF Store, At, TypeInv, Memory
<1>2. Seen = view /\ Seen' = view /\ ~Doomed'
    BY <1>1, SameSeen
<1>3. PICK used \in Nat : PageMap(mem, view, freed, used)
    BY <1>2 DEF PagesInv
<1>4. PageMap(mem', view, freed, used)
    <2>1. SamePages(mem, mem') /\ SameView(view, view)
        BY <1>1 DEF SamePages, SameView
    <2>2. mem \in Memory /\ mem' \in Memory
        BY StoreTypes DEF TypeInv
    <2>3. QED
        BY <1>3, <2>1, <2>2, SameMap
<1>5. CallInv'
    BY <1>1 DEF CallInv
<1>6. QED
    BY <1>1, <1>2, <1>4, <1>5 DEF MapInv, PagesInv

\* A walk goes over the pages its thread sees.
LEMMA WalkMap ==
    ASSUME TypeInv, PagesInv, pc \in {"search", "turn", "release"}, loc.pi <= loc.last,
           Actual # NoPage
    PROVE  /\ loc.id \in Pids /\ loc.id \in Owners /\ loc.pi \in Pages /\ Actual \in Pages
           /\ Actual = mem.ht[loc.id][loc.pi]
           /\ view[loc.id].first <= loc.pi /\ InView(view, loc.id, loc.pi)
           /\ mem.pages[Actual].occ /\ mem.pages[Actual].pid = loc.id
           /\ mem.pages[Actual].index = loc.pi
           /\ \A used : PageMap(mem, view, freed, used) => loc.pi < used /\ Actual < used
<1>1. loc.id \in Pids /\ loc.si \in Nat
    BY DEF TypeInv, CallOK, MallocCalls, FreeCalls, ReleaseCalls
<1>2. loc.id \in Owners
    BY <1>1, OwnerIds
<1>3. Actual \in Pages /\ loc.pi \in Pages /\ Actual = mem.ht[loc.id][loc.pi]
    BY <1>1, <1>2, WalkTypes DEF TypeInv
<1>4. loc.last = view[loc.id].last /\ view[loc.id].first <= loc.pi
    BY <1>3 DEF PagesInv, CallInv, ReleaseInv
<1>5. InView(view, loc.id, loc.pi)
    BY <1>4 DEF InView
<1>6. Seen = view
    BY SameSeen
<1>7. PICK used \in Nat : Mapped(mem, view, used)
    BY <1>6 DEF PagesInv, PageMap
<1>8. /\ mem.pages[Actual].occ /\ mem.pages[Actual].pid = loc.id
      /\ mem.pages[Actual].index = loc.pi
    BY <1>1, <1>3, <1>5, <1>7 DEF Mapped
<1>9. \A n : PageMap(mem, view, freed, n) => loc.pi < n /\ Actual < n
    BY <1>1, <1>3, <1>5 DEF PageMap, Mapped
<1>10. QED
    BY <1>1, <1>2, <1>3, <1>4, <1>5, <1>8, <1>9

\* segment_allocate: past a segment, to a block it gives, or to page_allocate.
LEMMA SearchMap == ASSUME TypeInv, PagesInv, Search PROVE MapInv'
<1> DEFINE page == mem.pages[Actual]
           len == Length(Here)
           next == Advance(page, Overflow(Here, page), len)
<1>1. /\ pc = "search" /\ loc.pi <= loc.last /\ loc.si < NumSegments /\ Actual # NoPage
      /\ UNCHANGED << view, freed, halt >>
    BY DEF Search, Walking, At
<1>2. loc \in MallocCalls /\ mem \in Memory
    BY <1>1 DEF TypeInv, CallOK
<1>3. /\ loc.id \in Pids /\ loc.id \in Owners /\ loc.si \in Nat /\ loc.ovf \in Nat
      /\ loc.segments \in Nat \ {0} /\ loc.pi \in Int
    BY <1>2, OwnerIds DEF MallocCalls
<1>4. /\ page \in PageRecords /\ Here \in HeaderRecords /\ len \in 1 .. NumSegments
      /\ Actual \in Pages /\ loc.pi \in Pages /\ Cell(Actual, loc.si) \in Cells
    BY <1>1, <1>2, <1>3, WalkTypes
<1>5. Seen = view
    BY <1>1, SameSeen
<1>6. ~freed /\ Sighted(view) /\ \E used \in Nat : PageMap(mem, view, freed, used)
    BY <1>1, <1>5 DEF PagesInv, CallInv
<1>7. ASSUME NEW contig, NEW start, NEW start_seg, UNCHANGED << mem, blocks, pc >>,
             loc' = [next EXCEPT !.contig = contig, !.start = start, !.start_seg = start_seg]
      PROVE  MapInv'
    <2>1. Overflow(Here, page) \in Nat
        BY <1>3, <1>4, OverflowType
    <2>2. /\ next \in MallocCalls /\ next.pi >= loc.pi /\ next.id = loc.id
          /\ next.last = loc.last /\ next.free_page = loc.free_page
        BY <1>2, <1>4, <2>1, AdvanceMalloc
    <2> HIDE DEF next
    <2>3. /\ loc'.pi >= loc.pi /\ loc'.id = loc.id /\ loc'.last = loc.last
          /\ loc'.free_page = loc.free_page /\ loc'.pi \in Int
        BY <1>7, <2>2 DEF MallocCalls
    <2>4. view[loc.id].first <= loc'.pi
        <3>1. view[loc.id].first <= loc.pi
            BY <1>1 DEF PagesInv, CallInv
        <3>2. view[loc.id].first \in Int
            BY <1>3, Parameters DEF TypeInv, Views, NoPage
        <3>3. QED
            BY <1>3, <2>3, <3>1, <3>2
    <2>5. CallInv'
        BY <1>1, <1>7, <2>3, <2>4 DEF PagesInv, CallInv
    <2>6. Seen' = Seen /\ ~Doomed'
        BY <1>1, <1>5, <1>7, SameSeen
    <2>7. QED
        BY <1>1, <1>7, <2>5, <2>6, QuietStep DEF MapInv
<1>8. ASSUME NEW start, NEW start_seg, UNCHANGED << mem, blocks >>, pc' = "pages",
             loc' = [loc EXCEPT !.free_page = NoPage, !.start = start, !.start_seg = start_seg]
      PROVE  MapInv'
    <2>1. loc'.free_page = NoPage
        BY <1>2, <1>8 DEF MallocCalls
    <2>2. CallInv'
        BY <1>1, <1>6, <1>8, <2>1 DEF PagesInv, CallInv
    <2>3. Seen' = Seen /\ ~Doomed'
        BY <1>1, <1>5, <1>8, SameSeen
    <2>4. QED
        BY <1>1, <1>8, <2>2, <2>3, QuietStep DEF MapInv
<1>9. ASSUME Give(swap([mem EXCEPT !.headers =
                            dm_allocate_block(@, Cell(Actual, loc.si), loc.segments)],
                       Actual, loc.pi),
                  Cell(loc.pi, loc.si), loc.segments)
      PROVE  MapInv'
    <2> DEFINE cut == [mem EXCEPT !.headers =
                            dm_allocate_block(@, Cell(Actual, loc.si), loc.segments)]
    <2>1. mem.headers \in [Cells -> HeaderRecords] /\ loc.segments \in Int
        BY <1>2, <1>3 DEF Memory
    <2>2. dm_allocate_block(mem.headers, Cell(Actual, loc.si), loc.segments)
            \in [Cells -> HeaderRecords]
        BY <1>4, <2>1, AllocateType
    <2>3. cut \in Memory
        BY <1>2, <2>2 DEF Memory
    <2>4. SamePages(mem, cut) /\ SameView(view, view)
        BY <1>2 DEF SamePages, SameView, Memory
    <2>5. Give(swap(cut, Actual, loc.pi), Cell(loc.pi, loc.si), loc.segments)
        BY <1>9
    <2> HIDE DEF cut
    <2>6. PICK used \in Nat : PageMap(mem, view, freed, used)
        BY <1>6
    <2>7. PageMap(cut, view, freed, used) /\ loc.pi < used /\ Actual < used
        BY <1>1, <1>2, <2>3, <2>4, <2>6, SameMap, WalkMap
    <2>8. swap(cut, Actual, loc.pi) \in Memory
        BY <1>4, <2>3, SwapType
    <2>9. PageMap(swap(cut, Actual, loc.pi), view, freed, used)
        BY <1>4, <2>3, <2>7, SwapMap
    <2>10. TypeInv'
        BY SearchTypes
    <2>11. QED
        BY <1>1, <1>6, <2>5, <2>8, <2>9, <2>10, GiveMap
<1> DEFINE new == ~Here.occ /\ loc.contig = 0
           contig == IF Here.occ THEN 0 ELSE loc.contig + len
           start == CASE Here.occ -> NoIndex [] new -> loc.pi [] OTHER -> loc.start
           start_seg == IF new \/ (Here.last /\ loc.pi = loc.last)
                        THEN loc.si ELSE loc.start_seg
<1>10. \/ /\ UNCHANGED << mem, blocks, pc >>
          /\ loc' = [next EXCEPT !.contig = contig, !.start = start, !.start_seg = start_seg]
       \/ /\ UNCHANGED << mem, blocks >> /\ pc' = "pages"
          /\ loc' = [loc EXCEPT !.free_page = NoPage, !.start = start,
                                !.start_seg = start_seg]
       \/ Give(swap([mem EXCEPT !.headers =
                            dm_allocate_block(@, Cell(Actual, loc.si), loc.segments)],
                    Actual, loc.pi),
               Cell(loc.pi, loc.si), loc.segments)
    BY DEF Search
<1> HIDE DEF contig, start, start_seg, next
<1>11. QED
    BY <1>7, <1>8, <1>9, <1>10

\* segment_allocate has found nothing.
LEMMA SearchFailsMap == ASSUME TypeInv, PagesInv, SearchFails \/ SearchFailsFull PROVE MapInv'
<1>1. /\ pc = "search" /\ pc' = "pages" /\ loc \in MallocCalls
      /\ UNCHANGED << mem, view, freed >>
    BY DEF SearchFails, SearchFailsFull, Searched, At, TypeInv, CallOK
<1>2. /\ loc'.id = loc.id /\ loc'.free_page = loc.free_page
      /\ loc.free_page # NoPage => loc'.start = loc.last
    BY <1>1 DEF SearchFails, SearchFailsFull, MallocCalls
<1>3. CallInv'
    BY <1>1, <1>2 DEF PagesInv, CallInv
<1>4. Seen' = Seen /\ ~Doomed'
    BY <1>1, SameSeen
<1>5. QED
    BY <1>1, <1>3, <1>4, QuietStep DEF MapInv

\* Where page_allocate begins to take pages.
LEMMA TakeFromPages ==
    ASSUME TypeInv, HasRoom, NEW pi, NEW n, NEW last_len, NEW taken, NEW seg,
           TakeFrom(pi, n, last_len, taken, seg)
    PROVE  /\ pc' = "take" /\ loc'.id = loc.id /\ loc'.free_page = loc.free_page
           /\ loc'.pi = pi /\ loc'.n = n /\ loc'.taken = taken
           /\ loc.free_page # NoPage => loc'.actual = loc.free_page
BY DEF TakeFrom

\* The last index that a thread sees lies below the first free page.
LEMMA LastBelowFree ==
    ASSUME TypeInv, PagesInv, pc = "pages", loc.free_page # NoPage, view[loc.id].last # NoPage
    PROVE  view[loc.id].last + 1 <= loc.free_page
<1>1. loc.id \in Pids /\ loc.free_page \in Pages
    BY DEF TypeInv, CallOK, MallocCalls
<1>2. view[loc.id].last \in NoPage .. NumPages - 1 /\ view[loc.id].first \in Int
    BY <1>1, Parameters DEF TypeInv, Views, NoPage
<1>3. view[loc.id].last \in Pages
    BY <1>2, Parameters DEF Pages, NoPage
<1>4. Seen = view /\ ~freed
    BY SameSeen DEF PagesInv, CallInv
<1>5. view[loc.id].first <= view[loc.id].last
    BY <1>1, <1>4 DEF PagesInv, Sighted
<1>6. InView(view, loc.id, view[loc.id].last)
    BY <1>2, <1>3, <1>5, PageNumbers DEF InView
<1>7. PICK used \in Nat : PageMap(mem, view, freed, used)
    BY <1>4 DEF PagesInv
<1>8. mem.pages[view[loc.id].last].occ
    BY <1>1, <1>3, <1>4, <1>6, <1>7 DEF PageMap, Mapped, Packed, FirstFree
<1>9. view[loc.id].last < loc.free_page
    BY <1>3, <1>8 DEF PagesInv, CallInv, FirstFree
<1>10. view[loc.id].last \in Nat /\ loc.free_page \in Nat
    BY <1>1, <1>3, PageNumbers, Zenon
<1>11. QED
    BY <1>9, <1>10

\* page_allocate for a thread that has no page: it awaits its first.
LEMMA FirstPagesMap == ASSUME TypeInv, PagesInv, FirstPages PROVE MapInv'
<1> DEFINE id == loc.id
<1>1. /\ HasRoom /\ loc.start = NoIndex /\ UNCHANGED << mem, freed, halt >>
      /\ view' = [view EXCEPT ![id] = [first |-> loc.free_page, last |-> loc.free_page]]
      /\ TakeFrom(loc.free_page, PageCount(loc.size), SegmentsInLast(loc.size), << >>, 0)
    BY DEF FirstPages
<1>2. /\ id \in Pids /\ loc.free_page \in Pages \cup {NoPage} /\ pc = "pages"
      /\ PageCount(loc.size) # 0
    BY <1>1, RoomTypes
<1>3. /\ pc' = "take" /\ loc'.id = id /\ loc'.free_page = loc.free_page
      /\ loc'.pi = loc.free_page /\ loc'.n = PageCount(loc.size) /\ loc'.taken = << >>
      /\ loc.free_page # NoPage => loc'.actual = loc.free_page
    BY <1>1, TakeFromPages
<1>4. CASE loc.free_page = NoPage
    BY <1>2, <1>3, <1>4 DEF MapInv, Doomed
<1>5. CASE loc.free_page # NoPage
    <2>1. loc.free_page \in Pages /\ ~Doomed'
        BY <1>2, <1>3, <1>5 DEF Doomed
    <2>2. view[id].last = NoPage
        BY <1>1, <1>2, <1>5 DEF PagesInv, CallInv, NoIndex, NoPage
    <2>3. view \in [Pids -> Views] /\ view[id].first \in Int
        BY <1>2, Parameters DEF TypeInv, Views, NoPage
    <2>4. view'[id] = [first |-> loc.free_page, last |-> loc.free_page]
        BY <1>1, <1>2, <2>3
    <2>5. AwaitsFirst'
        BY <1>3, <1>5, <2>4 DEF AwaitsFirst
    <2>6. Seen' = [view' EXCEPT ![id] = NoView]
        BY <1>3, <2>5 DEF Seen
    <2>7. Seen' = [view EXCEPT ![id] = NoView]
        BY <1>1, <2>3, <2>6
    <2>8. Seen = view
        BY <1>2, SameSeen
    <2>9. SameView(view, Seen')
        <3> SUFFICES ASSUME NEW p \in Pids, NEW index \in Pages
                     PROVE  InView(Seen', p, index) <=> InView(view, p, index)
            BY DEF SameView
        <3>1. CASE p = id
            <4>1. index \in 0 .. NumPages - 1
                BY DEF Pages
            <4>2. ~InView(view, p, index)
                BY <2>2, <2>3, <3>1, <4>1, Parameters DEF InView, NoPage
            <4>3. Seen'[p] = NoView
                BY <2>3, <2>7, <3>1
            <4>4. ~InView(Seen', p, index)
                BY <4>1, <4>3, Parameters DEF InView, NoView
            <4>5. QED
                BY <4>2, <4>4
        <3>2. CASE p # id
            BY <2>3, <2>7, <3>2 DEF InView
        <3>3. QED
            BY <3>1, <3>2
    <2>10. SamePages(mem, mem) /\ mem \in Memory
        BY DEF SamePages, TypeInv
    <2>11. ~freed /\ Sighted(view) /\ \E used \in Nat : PageMap(mem, view, freed, used)
        BY <1>2, <2>8 DEF PagesInv, CallInv
    <2>12. \E used \in Nat : PageMap(mem, Seen', freed, used)
        BY <2>9, <2>10, <2>11, SameMap
    <2>13. Sighted(Seen')
        BY <2>3, <2>7, <2>11 DEF Sighted, NoView, NoPage
    <2>14. \A p \in Pids : view'[p].first >= 0
        <3>1. loc.free_page \in Nat
            BY <2>1, PageNumbers, Zenon
        <3>2. \A p \in Pids : view[p].first >= 0
            BY DEF PagesInv
        <3>3. QED
            BY <1>1, <2>3, <3>1, <3>2
    <2>15. TakeInv'
        <3>1. FirstFree(mem, loc.free_page)
            BY <1>2, <1>5 DEF PagesInv, CallInv
        <3>2. loc.free_page <= loc.free_page
            <4>1. loc.free_page \in Nat
                BY <2>1, PageNumbers, Zenon
            <4>2. QED
                BY <4>1
        <3>3. QED
            BY <1>1, <1>3, <1>5, <2>4, <3>1, <3>2 DEF TakeInv
    <2>16. CallInv'
        BY <1>1, <1>3, <2>11, <2>15 DEF CallInv
    <2>17. QED
        BY <1>1, <2>1, <2>11, <2>12, <2>13, <2>14, <2>16 DEF MapInv, PagesInv
<1>6. QED
    BY <1>4, <1>5

\* The pages that page_allocate adds come after those that the thread sees.
LEMMA TakeAfterMap ==
    ASSUME TypeInv, TypeInv', PagesInv, HasRoom, pc = "pages", loc.start # NoIndex,
           NEW n, NEW last_len, NEW taken, NEW seg,
           TakeFrom(loc.start + 1, n, last_len, taken, seg),
           SamePages(mem, mem'), UNCHANGED << view, freed, halt >>,
           \A k \in DOMAIN taken : mem'.pages[taken[k]].occ
    PROVE  MapInv'
<1> DEFINE pi == loc.start + 1
<1>1. /\ pc' = "take" /\ loc'.id = loc.id /\ loc'.free_page = loc.free_page
      /\ loc'.pi = pi /\ loc'.taken = taken
      /\ loc.free_page # NoPage => loc'.actual = loc.free_page
    BY TakeFromPages
<1>2. loc.id \in Pids /\ loc.start \in NoIndex .. NumPages /\ mem \in Memory /\ mem' \in Memory
    BY RoomTypes DEF TypeInv
<1>3. loc.start \in Nat
    BY <1>2, Parameters DEF NoIndex
<1>4. /\ Seen = view /\ ~freed /\ Sighted(view)
      /\ \E used \in Nat : PageMap(mem, view, freed, used)
    BY SameSeen DEF PagesInv, CallInv
<1>5. ASSUME loc.free_page # NoPage
      PROVE  /\ pi = view[loc.id].last + 1 /\ view[loc.id].last # pi
             /\ view[loc.id].last = pi - 1
             /\ pi <= loc.free_page /\ FirstFree(mem, loc.free_page)
    <2>1. loc.start = view[loc.id].last /\ FirstFree(mem, loc.free_page)
        BY <1>5 DEF PagesInv, CallInv
    <2>2. view[loc.id].last # NoPage
        BY <2>1 DEF NoIndex, NoPage
    <2>3. view[loc.id].last + 1 <= loc.free_page
        BY <1>5, <2>2, LastBelowFree
    <2>4. QED
        BY <1>3, <2>1, <2>3
<1> HIDE DEF pi
<1>6. ~AwaitsFirst'
    BY <1>1, <1>5 DEF AwaitsFirst
<1>7. Seen' = view
    BY <1>6 DEF Seen
<1>8. SameView(view, view)
    BY DEF SameView
<1>9. \E used \in Nat : PageMap(mem', view, freed, used)
    BY <1>2, <1>4, <1>8, SameMap
<1>10. TakeInv'
    <2>1. loc.free_page # NoPage => FirstFree(mem', loc.free_page)
        BY <1>5 DEF FirstFree, SamePages
    <2>2. QED
        BY <1>1, <1>5, <2>1 DEF TakeInv
<1>11. CallInv'
    BY <1>1, <1>4, <1>10 DEF CallInv
<1>12. ~Doomed'
    BY <1>1, <1>3 DEF Doomed, NoPage, pi
<1>13. QED
    BY <1>4, <1>7, <1>9, <1>11, <1>12 DEF MapInv, PagesInv

\* page_allocate begins after the last page.
LEMMA FromNextPageMap == ASSUME TypeInv, PagesInv, FromNextPage PROVE MapInv'
<1>1. /\ HasRoom /\ loc.start # NoIndex /\ UNCHANGED << mem, view, freed, halt >>
      /\ TakeFrom(loc.start + 1, PageCount(loc.size), SegmentsInLast(loc.size), << >>, 0)
    BY DEF FromNextPage
<1>2. SamePages(mem, mem') /\ pc = "pages"
    BY <1>1 DEF SamePages, HasRoom, At
<1>3. TypeInv'
    BY FromNextPageTypes
<1>4. \A k \in DOMAIN << >> : mem'.pages[<< >>[k]].occ
    OBVIOUS
<1>5. QED
    BY <1>1, <1>2, <1>3, <1>4, TakeAfterMap

\* page_allocate begins in the last segments of a page.
LEMMA FromLastSegmentMap == ASSUME TypeInv, PagesInv, FromLastSegment PROVE MapInv'
<1> DEFINE first == ht_get(mem, loc.id, loc.start)
           left == loc.size - (NumSegments - loc.start_seg) * SEGMENTSIZE
           data == Pagedata(loc.id, TRUE, TRUE, mem.pages[first].index, PageCount(left) + 1)
<1>1. /\ HasRoom /\ StartFree /\ UNCHANGED << view, blocks, freed, halt >>
      /\ mem' = [mem EXCEPT
                   !.headers[StartCell] = Header(SegmentsInLast(left), TRUE, TRUE),
                   !.pages[first] = Pagedata(loc.id, TRUE, TRUE, @.index, PageCount(left) + 1)]
      /\ TakeFrom(loc.start + 1, PageCount(left), SegmentsInLast(left), << first >>,
                  loc.start_seg)
    BY DEF FromLastSegment
<1>2. pc = "pages" /\ mem \in Memory /\ mem' \in Memory /\ TypeInv'
    BY <1>1, FromLastSegmentTypes DEF HasRoom, At, TypeInv
<1>3. loc.id \in Pids /\ loc.id \in Owners
    BY <1>1, RoomTypes, OwnerIds
<1>4. loc.start # NoIndex /\ first # NoPage
    BY <1>1 DEF StartFree
<1>5. loc.start \in Pages /\ first = mem.ht[loc.id][loc.start] /\ first \in Pages
    BY <1>2, <1>3, <1>4 DEF ht_get, Memory
<1>6. PICK used \in Nat : Mapped(mem, view, used) /\ Packed(mem, view, used)
    BY <1>2, SameSeen DEF PagesInv, CallInv, PageMap
<1>7. InView(view, loc.id, loc.start)
    BY <1>3, <1>4, <1>5, <1>6 DEF Packed
<1>8. /\ mem.pages[first].occ /\ mem.pages[first].pid = loc.id
      /\ mem.pages[first].index = loc.start
    BY <1>3, <1>5, <1>6, <1>7 DEF Mapped
<1> HIDE DEF first
<1>9. mem'.pages = [mem.pages EXCEPT ![first] = data] /\ mem'.ht = mem.ht
    BY <1>1, <1>2 DEF Memory
<1>10. /\ mem.pages \in [Pages -> PageRecords] /\ mem'.pages[first] = data
       /\ data \in PageRecords
    <2> HIDE DEF data
    <2>1. mem.pages \in [Pages -> PageRecords] /\ mem'.pages \in [Pages -> PageRecords]
        BY <1>2 DEF Memory
    <2>2. QED
        BY <1>5, <1>9, <2>1
<1>11. data.occ = TRUE /\ data.pid = loc.id /\ data.index = loc.start
    <2>1. mem.pages[first].index \in Indexes /\ TRUE \in BOOLEAN
        BY <1>5, <1>8, PageNumbers
    <2>2. data = [pid |-> loc.id, occ |-> TRUE, ovf |-> TRUE,
                  index |-> mem.pages[first].index, length |-> PageCount(left) + 1]
        BY <2>1, PagedataRoundTrip, Zenon
    <2> HIDE DEF data
    <2>3. QED
        BY <1>8, <2>2
<1> HIDE DEF data, left
<1>12. mem.pages[first].occ = TRUE
    BY <1>5, <1>8, <1>10 DEF PageRecords
<1>13. SamePages(mem, mem')
    BY <1>8, <1>9, <1>10, <1>11, <1>12 DEF SamePages
<1>14. \A k \in DOMAIN << first >> : mem'.pages[<< first >>[k]].occ
    BY <1>10, <1>11
<1>15. TakeFrom(loc.start + 1, PageCount(left), SegmentsInLast(left), << first >>,
                loc.start_seg)
    BY <1>1 DEF first, left
<1>16. QED
    BY <1>1, <1>2, <1>4, <1>13, <1>14, <1>15, TakeAfterMap

\* What page_allocate writes when it takes a page, as far as the map goes.
LEMMA TakeWrites ==
    ASSUME TypeInv, Take
    PROVE  /\ mem' \in Memory
           /\ mem'.ht = [mem.ht EXCEPT ![loc.id][loc.pi] = Candidate]
           /\ \A page \in Pages : page # Candidate => mem'.pages[page] = mem.pages[page]
           /\ mem'.pages[Candidate].occ = TRUE
           /\ mem'.pages[Candidate].pid = loc.id /\ mem'.pages[Candidate].index = loc.pi
<1> DEFINE put == ht_put(mem, loc.id, loc.pi, Candidate)
           cut == [put EXCEPT !.headers = CutLastPage(@)]
           first == Pagedata(loc.id, TRUE, loc.n # 1, loc.pi, loc.n)
           other == Pagedata(loc.id, TRUE, FALSE, loc.pi, 1)
           data == IF loc.taken = << >> THEN first ELSE other
<1>1. /\ Candidate \in Pages /\ loc.pi \in Pages /\ loc.id \in Owners /\ loc.n \in 1 .. NumPages
    BY CandidateTypes DEF Take
<1>2. mem \in Memory /\ mem' \in Memory
    BY TakeTypes DEF TypeInv
<1>3. mem' = IF loc.taken = << >>
             THEN [cut EXCEPT !.pages[Candidate] = first,
                      !.headers = dm_allocate_block(@, Cell(Candidate, 0), loc.last_len)]
             ELSE [cut EXCEPT !.pages[Candidate] = other]
    BY DEF Take
<1>4. put \in Memory /\ put.pages = mem.pages
      /\ put.ht = [mem.ht EXCEPT ![loc.id][loc.pi] = Candidate]
    BY <1>1, <1>2, PutEntry DEF ht_put, Memory
<1> HIDE DEF put
<1>5. cut.pages = mem.pages /\ cut.ht = put.ht /\ DOMAIN cut = {"pages", "headers", "ht"}
    BY <1>4 DEF Memory
<1> HIDE DEF cut, first, other
<1>6. mem'.pages = [mem.pages EXCEPT ![Candidate] = data] /\ mem'.ht = put.ht
    BY <1>3, <1>5
<1>7. /\ first.occ = TRUE /\ first.pid = loc.id /\ first.index = loc.pi
      /\ other.occ = TRUE /\ other.pid = loc.id /\ other.index = loc.pi
    <2>1. TRUE \in BOOLEAN /\ FALSE \in BOOLEAN /\ (loc.n # 1) \in BOOLEAN /\ 1 \in 1 .. NumPages
        BY Parameters
    <2>2. first = [pid |-> loc.id, occ |-> TRUE, ovf |-> loc.n # 1, index |-> loc.pi,
                   length |-> loc.n]
        BY <1>1, <2>1, PagedataType, Zenon DEF first
    <2>3. other = [pid |-> loc.id, occ |-> TRUE, ovf |-> FALSE, index |-> loc.pi, length |-> 1]
        BY <1>1, <2>1, PagedataType, Zenon DEF other
    <2>4. QED
        BY <2>2, <2>3
<1>8. mem.pages \in [Pages -> PageRecords]
    BY <1>2 DEF Memory
<1>9. QED
    BY <1>1, <1>2, <1>4, <1>6, <1>7, <1>8

\* page_allocate takes a page: the first free one, or one it has.
LEMMA TakeMap == ASSUME TypeInv, PagesInv, ~Doomed, Take PROVE MapInv'
<1> DEFINE id == loc.id
           pi == loc.pi
           a == Candidate
<1>1. /\ loc \in TakeCalls /\ TakeRoom /\ a \in Pages /\ pi \in Pages /\ id \in Pids
      /\ id \in Owners /\ pc = "take"
    BY CandidateTypes DEF Take, Taking, At
<1>2. /\ mem \in Memory /\ mem' \in Memory /\ view \in [Pids -> Views]
      /\ mem'.ht = [mem.ht EXCEPT ![id][pi] = a]
      /\ \A page \in Pages : page # a => mem'.pages[page] = mem.pages[page]
      /\ mem'.pages[a].occ = TRUE /\ mem'.pages[a].pid = id /\ mem'.pages[a].index = pi
    BY TakeWrites DEF TypeInv
<1>3. ~freed /\ UNCHANGED << blocks, pc, freed, halt >>
    BY <1>1 DEF Take, PagesInv, CallInv
<1>4. /\ \E used \in Nat : PageMap(mem, Seen, freed, used)
      /\ Sighted(Seen) /\ TakeInv /\ \A p \in Pids : view[p].first >= 0
    BY <1>1, <1>3 DEF PagesInv, CallInv
<1>5. /\ loc'.pi = pi + 1 /\ loc'.actual = a + 1 /\ loc'.id = id
      /\ loc'.taken = Append(loc.taken, a) /\ loc'.free_page = loc.free_page
    BY <1>1 DEF Take, TakeCalls
<1>6. view' = [view EXCEPT ![id] =
                [first |-> IF @.first > pi THEN pi ELSE @.first,
                 last |-> IF @.last < pi THEN pi ELSE @.last]]
    BY DEF Take
<1>7. pi \in Nat /\ a \in Nat
    BY <1>1, PageNumbers, Zenon
<1>8. view[id].first \in NoPage .. NumPages /\ view[id].last \in NoPage .. NumPages - 1
    BY <1>1, <1>2 DEF Views
<1>9. view[id].first \in Nat /\ view[id].last \in Int
    <2>1. view[id].first >= 0
        BY <1>1, <1>4
    <2>2. QED
        BY <1>8, <2>1, Parameters DEF NoPage
<1>10. /\ view'[id].first = IF view[id].first > pi THEN pi ELSE view[id].first
       /\ view'[id].last = IF view[id].last < pi THEN pi ELSE view[id].last
       /\ \A p \in Pids : p # id => view'[p] = view[p]
    BY <1>1, <1>2, <1>6
<1>11. \A p \in Pids : view'[p].first >= 0
    <2> TAKE p \in Pids
    <2>1. CASE p = id
        BY <1>7, <1>9, <1>10, <2>1
    <2>2. CASE p # id
        BY <1>4, <1>10, <2>2
    <2>3. QED
        BY <2>1, <2>2
<1>12. ~Doomed'
    BY <1>5, <1>7 DEF Doomed, NoPage
<1>13. ASSUME \A page \in Pages : mem.pages[page].occ => mem'.pages[page].occ
       PROVE  \A k \in DOMAIN loc'.taken : mem'.pages[loc'.taken[k]].occ
    <2> TAKE k \in DOMAIN loc'.taken
    <2>1. loc.taken \in Seq(Pages) /\ k \in 1 .. Len(loc.taken) + 1
        BY <1>1, <1>5 DEF TakeCalls
    <2>2. CASE k = Len(loc.taken) + 1
        <3>1. loc'.taken[k] = a
            BY <1>5, <2>1, <2>2
        <3>2. QED
            BY <1>2, <3>1
    <2>3. CASE k # Len(loc.taken) + 1
        <3>1. k \in DOMAIN loc.taken /\ loc'.taken[k] = loc.taken[k] /\ loc.taken[k] \in Pages
            BY <1>5, <2>1, <2>3
        <3>2. mem.pages[loc.taken[k]].occ
            BY <1>4, <3>1 DEF TakeInv
        <3>3. QED
            BY <1>13, <3>1, <3>2
    <2>4. QED
        BY <2>2, <2>3
<1> HIDE DEF a
<1>14. CASE loc.free_page = NoPage
    <2>1. a = ht_get(mem, id, pi) /\ a # NoPage
        BY <1>14 DEF Candidate, a, Take
    <2>2. a = mem.ht[id][pi]
        BY <1>1, <2>1 DEF ht_get
    <2>3. Seen = view /\ Seen' = view'
        BY <1>5, <1>14 DEF Seen, AwaitsFirst
    <2> PICK used \in Nat : PageMap(mem, view, freed, used)
        BY <1>4, <2>3
    <2>4. InView(view, id, pi)
        BY <1>1, <1>3, <2>1, <2>2 DEF PageMap, Packed
    <2>5. mem.pages[a].occ /\ mem.pages[a].pid = id /\ mem.pages[a].index = pi
        BY <1>1, <2>2, <2>4 DEF PageMap, Mapped
    <2>6. mem'.ht = mem.ht
        BY <1>1, <1>2, <2>2 DEF Memory
    <2>7. mem.pages[a].occ = TRUE
        BY <1>1, <1>2, <2>5 DEF Memory, PageRecords
    <2>8. SamePages(mem, mem')
        BY <1>2, <2>5, <2>6, <2>7 DEF SamePages
    <2>9. \A p \in Pids : view'[p].first = view[p].first /\ view'[p].last = view[p].last
        <3>1. view[id].first <= pi /\ pi <= view[id].last
            BY <2>4 DEF InView
        <3>2. view'[id].first = view[id].first /\ view'[id].last = view[id].last
            BY <1>7, <1>9, <1>10, <3>1
        <3>3. QED
            BY <1>10, <3>2
    <2>10. SameView(view, view')
        BY <2>9 DEF SameView, InView
    <2>11. PageMap(mem', view', freed, used)
        BY <1>2, <2>8, <2>10, SameMap
    <2>12. Sighted(view')
        BY <1>4, <2>3, <2>9 DEF Sighted
    <2>13. \A page \in Pages : mem.pages[page].occ => mem'.pages[page].occ
        BY <2>8 DEF SamePages
    <2>14. TakeInv'
        BY <1>5, <1>13, <1>14, <2>13 DEF TakeInv
    <2>15. CallInv'
        BY <1>1, <1>3, <2>14 DEF CallInv
    <2>16. QED
        BY <1>3, <1>11, <1>12, <2>3, <2>11, <2>12, <2>15 DEF MapInv, PagesInv
<1>15. CASE loc.free_page # NoPage
    <2>1. a = loc.actual
        BY <1>15 DEF Candidate, a
    <2>2. FirstFree(mem, a) /\ pi <= a
        BY <1>4, <1>15, <2>1 DEF TakeInv
    <2>3. IF view[id].last = pi THEN view[id].first = pi ELSE view[id].last = pi - 1
        BY <1>4, <1>15 DEF TakeInv
    <2>4. view'[id].first <= pi /\ view'[id].last = pi
        BY <1>7, <1>9, <1>10, <2>3
    <2>5. ~AwaitsFirst'
        BY <1>5, <1>7, <2>4 DEF AwaitsFirst
    <2>6. Seen' = view'
        BY <2>5 DEF Seen
    <2>7. /\ AwaitsFirst <=> view[id].last = pi
          /\ Seen = IF view[id].last = pi THEN [view EXCEPT ![id] = NoView] ELSE view
        BY <1>1, <1>15 DEF AwaitsFirst, Seen
    <2>8. ~InView(Seen, id, pi)
        <3>1. CASE view[id].last = pi
            <4>1. Seen[id] = NoView
                BY <1>1, <1>2, <2>7, <3>1
            <4>2. pi \in 0 .. NumPages - 1
                BY <1>1 DEF Pages
            <4>3. QED
                BY <4>1, <4>2, Parameters DEF InView, NoView
        <3>2. CASE view[id].last # pi
            BY <1>7, <2>3, <2>7, <3>2 DEF InView
        <3>3. QED
            BY <3>1, <3>2
    <2>9. \A p \in Pids, index \in Pages :
             InView(view', p, index) <=> (InView(Seen, p, index) \/ (p = id /\ index = pi))
        <3> TAKE p \in Pids, index \in Pages
        <3>1. CASE p # id
            <4>1. view'[p] = view[p] /\ Seen[p] = view[p]
                BY <1>2, <1>10, <2>7, <3>1
            <4>2. QED
                BY <3>1, <4>1 DEF InView
        <3>2. CASE p = id /\ view[id].last = pi
            <4>1. Seen[id] = NoView
                BY <1>1, <1>2, <2>7, <3>2
            <4>2. index \in 0 .. NumPages - 1
                BY DEF Pages
            <4>3. ~InView(Seen, id, index)
                BY <4>1, <4>2, Parameters DEF InView, NoView
            <4>4. view'[id].first = pi /\ view'[id].last = pi
                BY <1>7, <1>9, <1>10, <2>3, <3>2
            <4>5. InView(view', id, index) <=> index = pi
                BY <1>7, <4>2, <4>4, Parameters DEF InView
            <4>6. QED
                BY <3>2, <4>3, <4>5
        <3>3. CASE p = id /\ view[id].last # pi
            <4>1. Seen = view /\ view[id].last = pi - 1
                BY <2>3, <2>7, <3>3
            <4>2. index \in Nat
                BY PageNumbers, Zenon
            <4>3. InView(view', id, index) <=> (view'[id].first <= index /\ index <= pi)
                BY <2>4 DEF InView
            <4>4. InView(view, id, index) <=> (view[id].first <= index /\ index <= pi - 1)
                BY <4>1 DEF InView
            <4>5. view'[id].first = IF view[id].first > pi THEN pi ELSE view[id].first
                BY <1>10
            <4>6. QED
                BY <1>7, <1>9, <3>3, <4>1, <4>2, <4>3, <4>4, <4>5
        <3>4. QED
            BY <3>1, <3>2, <3>3
    <2>10. \A p \in Pids, index \in Pages :
              mem'.ht[p][index] = IF p = id /\ index = pi THEN a ELSE mem.ht[p][index]
        BY <1>1, <1>2, OwnerIds DEF Memory
    <2>11. /\ PageMap(mem', view', FALSE, a + 1) /\ FirstFree(mem', a + 1)
           /\ \A page \in Pages : mem.pages[page].occ => mem'.pages[page].occ
        <3>1. Adds(mem, mem', Seen, view', id, pi, a)
            BY <1>2, <2>9, <2>10 DEF Adds
        <3>2. PICK used \in Nat : PageMap(mem, Seen, FALSE, used)
            BY <1>3, <1>4 DEF PageMap
        <3>3. QED
            BY <1>1, <1>2, <2>2, <2>8, <3>1, <3>2, PageAdded, Zenon
    <2>12. Sighted(view')
        <3>1. \A p \in Pids : p # id => Seen[p] = view[p]
            BY <1>2, <2>7
        <3>2. QED
            BY <1>4, <1>10, <2>4, <3>1 DEF Sighted
    <2>13. TakeInv'
        <3>1. \A k \in DOMAIN loc'.taken : mem'.pages[loc'.taken[k]].occ
            BY <1>13, <2>11
        <3>2. loc'.pi <= loc'.actual /\ view'[loc'.id].last # loc'.pi
              /\ view'[loc'.id].last = loc'.pi - 1
            BY <1>5, <1>7, <2>2, <2>4
        <3>3. FirstFree(mem', loc'.actual)
            BY <1>5, <2>11
        <3>4. QED
            BY <3>1, <3>2, <3>3 DEF TakeInv
    <2>14. CallInv'
        BY <1>1, <1>3, <2>13 DEF CallInv
    <2>15. \E used \in Nat : PageMap(mem', view', freed', used)
        <3>1. PageMap(mem', view', freed', a + 1) /\ a + 1 \in Nat
            BY <1>3, <1>7, <2>11 DEF PageMap
        <3>2. QED
            BY <3>1
    <2>16. QED
        BY <1>11, <1>12, <2>6, <2>12, <2>14, <2>15 DEF MapInv, PagesInv
<1>16. QED
    BY <1>14, <1>15

\* page_allocate passes over a page of another thread.
LEMMA TakeNextMap == ASSUME TypeInv, PagesInv, TakeNext PROVE MapInv'
<1>1. /\ loc \in TakeCalls /\ TakeRoom /\ Candidate \in Pages /\ loc.pi \in Pages /\ pc = "take"
    BY CandidateTypes DEF TakeNext, Taking, At
<1>2. UNCHANGED << mem, view, pc, freed, halt >> /\ loc' = [loc EXCEPT !.actual = Candidate + 1]
    BY DEF TakeNext
<1>3. /\ loc'.pi = loc.pi /\ loc'.id = loc.id /\ loc'.free_page = loc.free_page
      /\ loc'.taken = loc.taken
    BY <1>1, <1>2 DEF TakeCalls
<1>4. TakeInv
    BY <1>1 DEF PagesInv, CallInv
<1>5. loc.free_page = NoPage
    <2> SUFFICES ASSUME loc.free_page # NoPage PROVE FALSE
        OBVIOUS
    <2>1. Candidate = loc.actual /\ FirstFree(mem, loc.actual)
        BY <1>4 DEF Candidate, TakeInv
    <2>2. ~(Candidate < Candidate)
        BY <1>1, PageNumbers
    <2>3. ~mem.pages[Candidate].occ
        BY <1>1, <2>1, <2>2 DEF FirstFree
    <2>4. QED
        BY <2>3 DEF TakeNext, Takes
<1>6. TakeInv'
    BY <1>2, <1>3, <1>4, <1>5 DEF TakeInv
<1>7. CallInv'
    BY <1>1, <1>2, <1>6 DEF PagesInv, CallInv
<1>8. Seen' = Seen
    BY <1>2, <1>3, <1>5 DEF Seen, AwaitsFirst
<1>9. ~Doomed'
    BY <1>1, <1>3, PageNumbers DEF Doomed
<1>10. QED
    BY <1>2, <1>7, <1>8, <1>9, QuietStep DEF MapInv

\* page_allocate has its pages.
LEMMA TakeEndsMap == ASSUME TypeInv, PagesInv, TakeEnds PROVE MapInv'
<1>1. /\ pc = "take" /\ pc' = "place" /\ loc.n = 0 /\ loc'.taken = loc.taken
      /\ UNCHANGED << mem, view, freed, halt >>
    BY DEF TakeEnds, At
<1>2. TakeRoom /\ TakeInv /\ ~freed
    BY <1>1 DEF TypeInv, CallOK, PagesInv, CallInv
<1>3. ~AwaitsFirst
    BY <1>1, <1>2 DEF AwaitsFirst, TakeInv, TakeRoom
<1>4. Seen' = Seen /\ ~Doomed'
    BY <1>1, <1>3, SameSeen DEF Seen
<1>5. CallInv'
    BY <1>1, <1>2 DEF CallInv, TakeInv
<1>6. QED
    BY <1>1, <1>4, <1>5, QuietStep DEF MapInv

\* Each page taken is swapped to where the thread sees it.
LEMMA PlaceMap == ASSUME TypeInv, PagesInv, Place PROVE MapInv'
<1> DEFINE a == loc.taken[loc.i]
           b == mem.pages[a].index
<1>1. /\ loc \in PlaceCalls /\ loc.i <= Len(loc.taken) /\ mem \in Memory /\ pc = "place"
      /\ UNCHANGED << view, freed, halt >>
    BY DEF TypeInv, CallOK, Place, At
<1>2. loc.taken \in Seq(Pages) /\ loc.i \in Nat \ {0}
    BY <1>1 DEF PlaceCalls
<1>3. a \in Pages /\ loc.i \in DOMAIN loc.taken
    BY <1>1, <1>2
<1>4. b \in Pages
    BY <1>1, <1>3 DEF Memory, PageRecords
<1>5. /\ ~freed /\ Sighted(view) /\ \E used \in Nat : PageMap(mem, view, freed, used)
      /\ \A k \in DOMAIN loc.taken : mem.pages[loc.taken[k]].occ
    BY <1>1, SameSeen DEF PagesInv, CallInv
<1>6. mem.pages[a].occ
    BY <1>3, <1>5
<1> PICK used \in Nat : PageMap(mem, view, freed, used)
    BY <1>5
<1>7. a < used /\ b < used
    <2>1. Mapped(mem, view, used) /\ Packed(mem, view, used)
        BY <1>5 DEF PageMap
    <2>2. a < used
        BY <1>3, <1>6, <2>1 DEF Packed, FirstFree
    <2>3. mem.pages[a].pid \in Pids /\ InView(view, mem.pages[a].pid, b)
        BY <1>3, <1>6, <2>1 DEF Packed
    <2>4. QED
        BY <1>4, <2>1, <2>2, <2>3 DEF Mapped
<1>8. SwapNext = swap(mem, a, b)
    BY DEF SwapNext
<1> HIDE DEF a, b
<1>9. /\ SwapNext \in Memory
      /\ PageMap(SwapNext, view, freed, used)
      /\ \A page \in Pages : SwapNext.pages[page].occ = mem.pages[page].occ
    BY <1>1, <1>3, <1>4, <1>5, <1>7, <1>8, SwapType, SwapMap
<1>10. ASSUME mem' = SwapNext, loc' = [loc EXCEPT !.i = @ + 1], UNCHANGED << blocks, pc >>
       PROVE  MapInv'
    <2>1. loc'.taken = loc.taken
        BY <1>1, <1>10 DEF PlaceCalls
    <2>2. \A k \in DOMAIN loc.taken : loc.taken[k] \in Pages
        BY <1>2
    <2>3. \A k \in DOMAIN loc'.taken : mem'.pages[loc'.taken[k]].occ
        BY <1>5, <1>9, <1>10, <2>1, <2>2
    <2>4. CallInv'
        BY <1>1, <1>5, <1>10, <2>3 DEF CallInv
    <2>5. Seen' = view /\ ~Doomed'
        BY <1>1, <1>10, SameSeen
    <2>6. QED
        BY <1>1, <1>5, <1>9, <1>10, <2>4, <2>5 DEF MapInv, PagesInv
<1>11. ASSUME Give(SwapNext, loc.cell, loc.segments) PROVE MapInv'
    <2>1. TypeInv'
        BY PlaceTypes
    <2>2. QED
        BY <1>1, <1>5, <1>9, <1>11, <2>1, GiveMap
<1>12. QED
    BY <1>10, <1>11 DEF Place

\* mydeallocate begins.
LEMMA FreeMap == ASSUME TypeInv, PagesInv, NEW p \in Pids, NEW cell \in Cells, Free(p, cell)
                 PROVE  MapInv'
<1>1. /\ pc = "idle" /\ pc' = "turn" /\ loc'.id = p /\ loc'.first = view[p].first
      /\ loc'.last = view[p].last /\ loc'.pi = view[p].first
      /\ UNCHANGED << mem, view, freed, halt >>
    BY DEF Free, At
<1>2. view[p].first <= view[p].first
    BY Parameters DEF TypeInv, Views, NoPage
<1>3. CallInv'
    BY <1>1, <1>2 DEF CallInv
<1>4. Seen' = Seen /\ ~Doomed'
    BY <1>1, SameSeen
<1>5. QED
    BY <1>1, <1>3, <1>4, QuietStep DEF MapInv

\* free_ptr moves the page that holds the pointer.
LEMMA TurnPageMap == ASSUME TypeInv, PagesInv, TurnPage PROVE MapInv'
<1>1. /\ pc = "turn" /\ pc' = "scan" /\ loc \in FreeCalls /\ mem \in Memory /\ Actual # NoPage
      /\ loc.pi <= loc.last /\ UNCHANGED << view, freed, halt >>
      /\ mem' = IF loc.pi = SoughtPage THEN swap(mem, loc.pi, Actual) ELSE mem
      /\ loc' = [loc EXCEPT !.at = IF loc.pi = SoughtPage THEN loc.pi ELSE Actual,
                            !.prev_free = FALSE, !.prev_size = 0]
    BY DEF TypeInv, CallOK, TurnPage, Walking, At
<1>2. /\ loc.pi \in Pages /\ Actual \in Pages /\ mem.pages[Actual].occ
      /\ \A used : PageMap(mem, view, freed, used) => loc.pi < used /\ Actual < used
    BY <1>1, WalkMap
<1>3. /\ loc'.id = loc.id /\ loc'.pi = loc.pi /\ loc'.first = loc.first /\ loc'.last = loc.last
    BY <1>1 DEF FreeCalls
<1>4. /\ Seen = view /\ Seen' = view /\ ~Doomed'
    BY <1>1, SameSeen
<1>5. PICK used \in Nat : PageMap(mem, view, freed, used)
    BY <1>4 DEF PagesInv
<1>6. PageMap(swap(mem, loc.pi, Actual), view, freed, used)
    BY <1>1, <1>2, <1>5, SwapMap
<1>7. \E n \in Nat : PageMap(mem', view, freed, n)
    BY <1>1, <1>5, <1>6
<1>8. CallInv'
    BY <1>1, <1>3 DEF PagesInv, CallInv
<1>9. QED
    BY <1>1, <1>4, <1>5, <1>7, <1>8 DEF MapInv, PagesInv

\* free_ptr goes on to the next segment.
LEMMA ScanMap == ASSUME TypeInv, PagesInv, Scan PROVE MapInv'
<1> DEFINE page == mem.pages[loc.at]
           len == Length(Scanned)
           next == Advance(page, Overflow(Scanned, page), len)
<1>1. /\ loc \in FreeCalls /\ loc.id \in Pids /\ pc = "scan"
      /\ Scanned \in HeaderRecords /\ len \in 1 .. NumSegments /\ page \in PageRecords
    BY ScanTypes DEF Scan, At
<1>2. loc.ovf \in Nat /\ loc.pi \in Int
    BY <1>1 DEF FreeCalls
<1>3. Overflow(Scanned, page) \in Nat
    BY <1>1, <1>2, OverflowType
<1>4. /\ next \in FreeCalls /\ next.pi >= loc.pi /\ next.id = loc.id
      /\ next.first = loc.first /\ next.last = loc.last
    BY <1>1, <1>3, AdvanceFree
<1>5. /\ loc' = [next EXCEPT !.prev = ScannedCell, !.prev_free = ~Scanned.occ,
                             !.prev_size = IF Scanned.occ THEN @ ELSE len]
      /\ pc' \in {"scan", "turn"} /\ UNCHANGED << mem, view, blocks, freed, halt >>
    BY DEF Scan
<1> HIDE DEF next
<1>6. /\ loc'.pi >= loc.pi /\ loc'.id = loc.id /\ loc'.first = loc.first
      /\ loc'.last = loc.last /\ loc'.pi \in Int
    BY <1>4, <1>5 DEF FreeCalls
<1>7. view[loc.id].first <= loc'.pi
    <2>1. view[loc.id].first <= loc.pi
        BY <1>1 DEF PagesInv, CallInv
    <2>2. view[loc.id].first \in Int
        BY <1>1, Parameters DEF TypeInv, Views, NoPage
    <2>3. QED
        BY <1>2, <1>6, <2>1, <2>2
<1>8. CallInv'
    BY <1>1, <1>5, <1>6, <1>7 DEF PagesInv, CallInv
<1>9. Seen' = Seen /\ ~Doomed'
    BY <1>1, <1>5, SameSeen
<1>10. QED
    BY <1>5, <1>8, <1>9, QuietStep DEF MapInv

\* free_ptr frees the block: its pages are single again.
LEMMA FoundMap == ASSUME TypeInv, PagesInv, Found, halt' = "none" PROVE MapInv'
<1> DEFINE page == mem.pages[loc.at]
           data == Pagedata(page.pid, TRUE, FALSE, page.index, 1)
<1>1. ~(Scanned.last /\ page.ovf /\ LastPageOfBlock = NoPage)
    BY DEF Found, End
<1>2. /\ mem' = FreeSegments /\ freed' = TRUE /\ pc' = "release" /\ UNCHANGED << view, halt >>
      /\ loc' = [id |-> loc.id, first |-> loc.first, last |-> loc.last,
                 pi |-> loc.first, si |-> 0, ovf |-> 0, free_start |-> loc.first]
    BY <1>1 DEF Found
<1>3. /\ loc \in FreeCalls /\ loc.at \in Pages /\ loc.id \in Pids /\ mem \in Memory
      /\ page \in PageRecords /\ pc = "scan"
    BY ScanTypes DEF Found, At
<1>4. mem' \in Memory
    BY FoundTypes DEF TypeInv
<1>5. data.occ = TRUE /\ data.pid = page.pid /\ data.index = page.index
    <2>1. /\ TRUE \in BOOLEAN /\ FALSE \in BOOLEAN /\ 1 \in 1 .. NumPages
          /\ page.pid \in Owners /\ page.index \in Pages
        BY <1>3, Parameters DEF PageRecords
    <2>2. data = [pid |-> page.pid, occ |-> TRUE, ovf |-> FALSE, index |-> page.index,
                  length |-> 1]
        BY <2>1, PagedataType, Zenon
    <2> HIDE DEF data
    <2>3. QED
        BY <2>2
<1>6. mem'.ht = mem.ht /\ mem'.pages \in {mem.pages, [mem.pages EXCEPT ![loc.at] = data]}
    <2>0. PICK m \in {mem, free_cont_pages(mem)} :
             \E headers : FreeSegments = [m EXCEPT !.headers = headers]
        BY DEF FreeSegments
    <2>1. PICK headers : FreeSegments = [m EXCEPT !.headers = headers]
        BY <2>0
    <2>2. PICK headers2 :
             free_cont_pages(mem) = [mem EXCEPT !.pages[loc.at] = data, !.headers = headers2]
        BY DEF free_cont_pages
    <2> HIDE DEF data
    <2>3. m.ht = mem.ht /\ m.pages \in {mem.pages, [mem.pages EXCEPT ![loc.at] = data]}
          /\ DOMAIN m = {"pages", "headers", "ht"}
        BY <1>3, <2>0, <2>2 DEF Memory
    <2>4. QED
        BY <1>2, <2>1, <2>3
<1> HIDE DEF data
<1>7. \A a \in Pages : /\ mem'.pages[a].pid = mem.pages[a].pid
                       /\ mem'.pages[a].index = mem.pages[a].index
                       /\ mem.pages[a].occ => mem'.pages[a].occ
    <2> TAKE a \in Pages
    <2>1. mem.pages \in [Pages -> PageRecords]
        BY <1>3 DEF Memory
    <2>2. mem'.pages[a] = mem.pages[a] \/ (a = loc.at /\ mem'.pages[a] = data)
        BY <1>3, <1>6, <2>1
    <2>3. QED
        BY <1>5, <2>2
<1>8. Seen = view /\ Seen' = view /\ ~Doomed'
    BY <1>2, <1>3, SameSeen
<1> PICK used \in Nat : Mapped(mem, view, used) /\ Unique(mem, view, used)
    BY <1>8 DEF PagesInv, PageMap
<1>9. /\ \A p \in Pids : view[p].first >= 0
      /\ loc.last = view[loc.id].last /\ loc.first = view[loc.id].first
    BY <1>3, <1>8 DEF PagesInv, CallInv
<1>10. \A p \in Pids, index \in Pages : mem.ht[p][index] \in Pages \cup {NoPage}
    BY <1>3, OwnerIds DEF Memory
<1>11. Mapped(mem', view, used)
    BY <1>6, <1>7, <1>10 DEF Mapped
<1>12. Unique(mem', view, used)
    BY <1>6, <1>7 DEF Unique
<1>13. ReleaseInv'
    <2>1. loc.first <= loc.first
        BY <1>3, <1>9, Parameters DEF TypeInv, Views, NoPage
    <2>2. loc.first >= 0
        BY <1>3, <1>9
    <2>3. QED
        BY <1>2, <1>9, <2>1, <2>2 DEF ReleaseInv
<1>14. CallInv'
    BY <1>2, <1>13 DEF CallInv
<1>15. QED
    BY <1>2, <1>8, <1>9, <1>11, <1>12, <1>14 DEF MapInv, PagesInv, PageMap

\* free_process_pages gives back the page at the front, or goes on.
LEMMA ReleaseMap == ASSUME TypeInv, PagesInv, Release PROVE MapInv'
<1> DEFINE id == loc.id
           pi == loc.pi
           page == mem.pages[Actual]
           empty == loc.si = 0 /\ ~Here.occ /\ Here.last
           front == empty /\ loc.free_start = loc.first
           left == IF front THEN Released(id, pi) ELSE page
           next == Advance(left, Overflow(Here, page), Length(Here))
           free_start == CASE Here.occ -> NoPage
                           [] empty /\ loc.free_start = NoPage -> pi
                           [] OTHER -> loc.free_start
<1>1. loc \in ReleaseCalls /\ mem \in Memory /\ mem' \in Memory /\ Actual # NoPage
      /\ loc.si < NumSegments /\ pi <= loc.last /\ pc = "release"
    BY ReleaseTypes DEF TypeInv, CallOK, Release, Walking, At
<1>2. /\ id \in Pids /\ id \in Owners /\ pi \in Pages /\ Actual \in Pages
      /\ view[id].first <= pi /\ InView(view, id, pi)
      /\ page.pid = id /\ page.index = pi
    BY <1>1, WalkMap
<1>3. loc.si \in Nat /\ loc.ovf \in Nat /\ loc.free_start \in Int /\ loc.first \in Int
    BY <1>1 DEF ReleaseCalls
<1>4. page \in PageRecords /\ Here \in HeaderRecords /\ Length(Here) \in 1 .. NumSegments
    BY <1>1, <1>2, <1>3, WalkTypes
<1>5. Released(id, pi) = [pid |-> id, occ |-> FALSE, ovf |-> FALSE, index |-> pi, length |-> 1]
    <2>1. FALSE \in BOOLEAN /\ 1 \in 1 .. NumPages
        BY Parameters
    <2>2. QED
        BY <1>2, <2>1, PagedataType, Zenon DEF Released
<1>6. left \in PageRecords
    <2>1. Released(id, pi) \in PageRecords
        BY <1>2, <1>5, Parameters DEF PageRecords
    <2>2. QED
        BY <1>4, <2>1
<1>7. Overflow(Here, page) \in Nat
    BY <1>3, <1>4, OverflowType
<1>8. pi \in Nat /\ view[id].first \in Int
    <2>1. pi \in Nat
        BY <1>2, PageNumbers, Zenon
    <2>2. view[id].first \in Int
        BY <1>2, Parameters DEF TypeInv, Views, NoPage
    <2>3. QED
        BY <2>1, <2>2
<1>9. /\ loc' = [next EXCEPT !.free_start = free_start]
      /\ IF front
         THEN /\ mem' = [ht_delete(mem, id, pi) EXCEPT !.pages[Actual] = left]
              /\ view' = [view EXCEPT ![id].first = pi + 1]
         ELSE UNCHANGED << mem, view >>
      /\ UNCHANGED << blocks, pc, freed, halt >>
    BY DEF Release
<1>10. front => next.pi \in {pi, pi + 1}
    <2>1. ASSUME front PROVE next = NextPage(Released(id, pi), Overflow(Here, page))
        <3>1. loc.si + Length(Here) = NumSegments
            BY <2>1, Parameters DEF Length
        <3>2. ~(loc.si + Length(Here) < NumSegments)
            BY <3>1, Parameters
        <3>3. QED
            BY <2>1, <3>2 DEF Advance
    <2>2. Released(id, pi).length = 1
        BY <1>5
    <2>3. NextPage(Released(id, pi), Overflow(Here, page)).pi \in {pi, pi + 1}
        BY <1>1, <1>8, <2>2 DEF NextPage, ReleaseCalls
    <2>4. QED
        BY <2>1, <2>3
<1> HIDE DEF left
<1>11. /\ next \in ReleaseCalls /\ next.pi >= pi /\ next.id = id
       /\ next.first = loc.first /\ next.last = loc.last
    BY <1>1, <1>4, <1>6, <1>7, AdvanceRelease
<1> HIDE DEF next, free_start
<1>12. /\ loc'.pi = next.pi /\ loc'.id = id /\ loc'.first = loc.first /\ loc'.last = loc.last
       /\ loc'.free_start = free_start /\ next.pi \in Int
    BY <1>9, <1>11 DEF ReleaseCalls
<1>13. /\ Seen = view /\ Seen' = view' /\ ~Doomed'
    BY <1>1, <1>9, SameSeen
<1>14. /\ \E used \in Nat : PageMap(mem, view, freed, used)
       /\ \A p \in Pids : view[p].first >= 0
       /\ freed /\ ReleaseInv
    BY <1>1, <1>13 DEF PagesInv, CallInv
<1>15. ASSUME front PROVE MapInv'
    <2>1. /\ mem'.pages = [mem.pages EXCEPT ![Actual] = Released(id, pi)]
          /\ mem'.ht = [mem.ht EXCEPT ![id][pi] = NoPage]
          /\ view' = [view EXCEPT ![id].first = pi + 1]
        BY <1>1, <1>9, <1>15 DEF ht_delete, ht_put, Memory, left
    <2>2. /\ mem.pages \in [Pages -> PageRecords] /\ view \in [Pids -> Views]
          /\ mem.ht \in [Owners -> [Pages -> Pages \cup {NoPage}]]
        BY <1>1 DEF Memory, TypeInv
    <2>3. /\ view'[id].first = pi + 1 /\ view'[id].last = view[id].last
          /\ \A p \in Pids : p # id => view'[p] = view[p]
        BY <1>2, <2>1, <2>2 DEF Views
    <2>4. Removes(mem, mem', view, view', id, {pi})
        <3>1. \A p \in Pids, index \in Pages :
                 InView(view', p, index) => InView(view, p, index) /\ ~(p = id /\ index \in {pi})
            <4> SUFFICES ASSUME NEW p \in Pids, NEW index \in Pages, InView(view', p, index)
                         PROVE  InView(view, p, index) /\ ~(p = id /\ index \in {pi})
                OBVIOUS
            <4>1. CASE p = id
                <5>1. index \in Nat
                    BY PageNumbers, Zenon
                <5>2. pi + 1 <= index /\ index <= view[id].last
                    BY <2>3, <4>1 DEF InView
                <5>3. view[id].first <= index /\ index # pi
                    BY <1>2, <1>8, <5>1, <5>2
                <5>4. QED
                    BY <4>1, <5>2, <5>3 DEF InView
            <4>2. CASE p # id
                BY <2>3, <4>2 DEF InView
            <4>3. QED
                BY <4>1, <4>2
        <3>2. \A p \in Pids, index \in Pages :
                 ~(p = id /\ index \in {pi}) => mem'.ht[p][index] = mem.ht[p][index]
            BY <1>2, <2>1, <2>2, OwnerIds
        <3>3. \A a \in Pages :
                 \/ mem'.pages[a] = mem.pages[a]
                 \/ /\ mem.pages[a].pid = id /\ mem.pages[a].index \in {pi}
                    /\ mem'.pages[a].pid = id /\ mem'.pages[a].index \in {pi} \cap Pages
            <4> TAKE a \in Pages
            <4>1. CASE a = Actual
                <5>1. mem'.pages[a] = Released(id, pi)
                    BY <2>1, <2>2, <4>1
                <5>2. mem'.pages[a].pid = id /\ mem'.pages[a].index = pi
                    BY <1>5, <5>1
                <5>3. QED
                    BY <1>2, <4>1, <5>2
            <4>2. CASE a # Actual
                BY <2>1, <2>2, <4>2
            <4>3. QED
                BY <4>1, <4>2
        <3>4. QED
            BY <3>1, <3>2, <3>3 DEF Removes
    <2>5. \E used \in Nat : PageMap(mem', view', freed, used)
        <3>1. PICK used \in Nat : PageMap(mem, view, TRUE, used)
            BY <1>14 DEF PageMap
        <3>2. PageMap(mem', view', TRUE, used)
            BY <1>1, <2>4, <3>1, PagesRemoved, Zenon
        <3>3. QED
            BY <1>14, <3>2 DEF PageMap
    <2>6. \A p \in Pids : view'[p].first >= 0
        BY <1>8, <1>14, <2>3
    <2>7. free_start = loc.free_start /\ loc.free_start = loc.first
        <3>1. loc.first # NoPage
            BY <1>14 DEF ReleaseInv, NoPage
        <3>2. QED
            BY <1>15, <3>1 DEF free_start
    <2>8. mem'.ht[id][pi] = NoPage
        BY <1>2, <2>1, <2>2
    <2>9. view'[id].first <= loc'.pi \/ (loc'.pi <= loc'.last /\ mem'.ht[id][loc'.pi] = NoPage)
        <3>1. CASE next.pi = pi
            BY <1>1, <1>12, <2>8, <3>1
        <3>2. CASE next.pi = pi + 1
            BY <1>8, <1>12, <2>3, <3>2
        <3>3. QED
            BY <1>10, <1>15, <3>1, <3>2 DEF next, left
    <2>10. ReleaseInv'
        BY <1>12, <1>14, <2>3, <2>7, <2>9 DEF ReleaseInv
    <2>11. CallInv'
        BY <1>1, <1>9, <1>14, <2>10 DEF CallInv
    <2>12. QED
        BY <1>9, <1>13, <1>14, <2>5, <2>6, <2>11 DEF MapInv, PagesInv
<1>16. ASSUME ~front PROVE MapInv'
    <2>1. UNCHANGED << mem, view >>
        BY <1>9, <1>16
    <2>2. view[id].first <= loc'.pi
        BY <1>2, <1>8, <1>11, <1>12
    <2>3. free_start \in {NoPage, loc.first} \/ view[id].first <= free_start
        BY <1>2, <1>14 DEF ReleaseInv, free_start
    <2>4. ReleaseInv'
        BY <1>12, <1>14, <2>1, <2>2, <2>3 DEF ReleaseInv
    <2>5. CallInv'
        BY <1>1, <1>9, <1>14, <2>4 DEF CallInv
    <2>6. QED
        BY <1>9, <1>13, <2>1, <2>5, QuietStep DEF MapInv
<1>17. QED
    BY <1>15, <1>16

\* free_process_pages gives back the pages at the end.
LEMMA ReleaseEndsMap == ASSUME TypeInv, PagesInv, ReleaseEnds, halt' = "none" PROVE MapInv'
<1> DEFINE id == loc.id
           tail == IF loc.free_start \notin {NoPage, loc.first} THEN FreeTail ELSE {}
           page(index) == ht_get(mem, id, index)
           last == IF tail # {} THEN loc.free_start - 1 ELSE view[id].last
           pages == [a \in Pages |->
                        IF \E index \in tail : page(index) = a
                        THEN Released(id, Max({index \in tail : page(index) = a}))
                        ELSE mem.pages[a]]
           entries == [index \in Pages |->
                        IF index \in tail THEN NoPage ELSE mem.ht[id][index]]
<1>1. /\ loc \in ReleaseCalls /\ mem \in Memory /\ pc = "release" /\ view \in [Pids -> Views]
    BY DEF TypeInv, CallOK, ReleaseEnds, At
<1>2. /\ id \in Pids /\ id \in Owners /\ loc.free_start \in Int
      /\ loc.last \in NoPage .. NumPages - 1
    BY <1>1, OwnerIds DEF ReleaseCalls
<1>3. ~\E index \in tail : page(index) = NoPage
    BY DEF ReleaseEnds, End
<1>4. /\ mem' = [mem EXCEPT !.pages = [a \in Pages |->
                    IF \E index \in tail : page(index) = a
                    THEN Released(id, Max({index \in tail : page(index) = a}))
                    ELSE @[a]],
                  !.ht[id] = [index \in Pages |-> IF index \in tail THEN NoPage ELSE @[index]]]
      /\ view' = [view EXCEPT ![id] = IF @.first > last THEN NoView ELSE [@ EXCEPT !.last = last]]
      /\ pc' = "idle" /\ UNCHANGED << blocks, freed, halt >>
    BY <1>3 DEF ReleaseEnds
<1>5. mem' = [mem EXCEPT !.pages = pages, !.ht[id] = entries]
    BY <1>4, Zenon
<1>6. mem'.pages = pages /\ mem'.ht = [mem.ht EXCEPT ![id] = entries]
    <2> HIDE DEF pages, entries
    <2>1. QED
        BY <1>1, <1>5 DEF Memory
<1>7. /\ Seen = view /\ Seen' = view' /\ ~Doomed'
    BY <1>1, <1>4, SameSeen
<1> PICK used \in Nat : Mapped(mem, view, used) /\ Unique(mem, view, used)
    BY <1>7 DEF PagesInv, PageMap
<1>8. /\ \A p \in Pids : view[p].first >= 0
      /\ freed /\ ReleaseInv
    BY <1>1, <1>7 DEF PagesInv, CallInv
<1>9. tail \subseteq Pages
    BY <1>3 DEF ht_get
<1>10. /\ view[id].first \in Int /\ view[id].last \in Int /\ loc.last = view[id].last
       /\ loc.last \in Int
    BY <1>1, <1>2, <1>8, Parameters DEF Views, NoPage, ReleaseInv
<1>11. ASSUME tail # {}
       PROVE  tail = loc.free_start .. loc.last /\ view[id].first <= loc.free_start
    BY <1>8, <1>11 DEF FreeTail, ReleaseInv
<1> HIDE DEF tail
<1>12. \A index \in tail : InView(view, id, index) /\ index \in Pages /\ index >= loc.free_start
    <2> TAKE index \in tail
    <2>1. index \in loc.free_start .. loc.last /\ view[id].first <= loc.free_start
        BY <1>11
    <2>2. view[id].first <= index /\ index <= view[id].last /\ index >= loc.free_start
        BY <1>2, <1>10, <2>1
    <2>3. QED
        BY <1>9, <2>2 DEF InView
<1>13. \A index \in tail : /\ page(index) = mem.ht[id][index] /\ page(index) \in Pages
                           /\ mem.pages[page(index)].pid = id
                           /\ mem.pages[page(index)].index = index
    <2> TAKE index \in tail
    <2>1. index \in Pages /\ InView(view, id, index) /\ page(index) # NoPage
        BY <1>3, <1>12
    <2>2. page(index) = mem.ht[id][index] /\ page(index) \in Pages
        BY <1>1, <1>2, <2>1 DEF ht_get, Memory
    <2>3. mem.pages[page(index)].pid = id /\ mem.pages[page(index)].index = index
        BY <1>2, <2>1, <2>2 DEF Mapped
    <2>4. QED
        BY <2>2, <2>3
<1>14. ASSUME NEW index \in Pages, InView(view', id, index)
       PROVE  InView(view, id, index) /\ index \notin tail
    <2>1. index \in 0 .. NumPages - 1
        BY DEF Pages
    <2>2. view[id].first <= last
        <3> SUFFICES ASSUME view[id].first > last PROVE FALSE
            <4>1. last \in Int
                BY <1>2, <1>10
            <4>2. QED
                BY <1>10, <4>1
        <3>1. view'[id] = NoView
            BY <1>1, <1>2, <1>4
        <3>2. QED
            BY <1>14, <2>1, <3>1, Parameters DEF InView, NoView
    <2>3. ~(view[id].first > last)
        <3>1. last \in Int
            BY <1>2, <1>10
        <3>2. QED
            BY <1>10, <2>2, <3>1
    <2>4. view'[id].first = view[id].first /\ view'[id].last = last
        BY <1>1, <1>2, <1>4, <2>3 DEF Views
    <2>5. view[id].first <= index /\ index <= last
        BY <1>14, <2>4 DEF InView
    <2>6. CASE tail = {}
        BY <2>5, <2>6 DEF InView
    <2>7. CASE tail # {}
        <3>1. loc.free_start \in tail
            <4>1. tail = loc.free_start .. loc.last
                BY <1>11, <2>7
            <4>2. QED
                BY <1>2, <1>10, <2>7, <4>1
        <3>2. loc.free_start <= view[id].last
            BY <1>12, <3>1 DEF InView
        <3>3. index <= loc.free_start - 1
            BY <2>5, <2>7
        <3>4. index <= view[id].last /\ ~(index >= loc.free_start)
            BY <1>2, <1>10, <2>1, <3>2, <3>3, Parameters
        <3>5. QED
            BY <1>12, <2>5, <3>4 DEF InView
    <2>8. QED
        BY <2>6, <2>7
<1>15. \A p \in Pids : p # id => view'[p] = view[p]
    BY <1>1, <1>4
<1>16. Removes(mem, mem', view, view', id, tail)
    <2>1. \A p \in Pids, index \in Pages :
             InView(view', p, index) => InView(view, p, index) /\ ~(p = id /\ index \in tail)
        <3> SUFFICES ASSUME NEW p \in Pids, NEW index \in Pages, InView(view', p, index)
                     PROVE  InView(view, p, index) /\ ~(p = id /\ index \in tail)
            OBVIOUS
        <3>1. CASE p = id
            BY <1>14, <3>1
        <3>2. CASE p # id
            BY <1>15, <3>2 DEF InView
        <3>3. QED
            BY <3>1, <3>2
    <2>2. \A p \in Pids, index \in Pages :
             ~(p = id /\ index \in tail) => mem'.ht[p][index] = mem.ht[p][index]
        BY <1>1, <1>2, <1>6, OwnerIds DEF Memory
    <2>3. \A a \in Pages :
             \/ mem'.pages[a] = mem.pages[a]
             \/ /\ mem.pages[a].pid = id /\ mem.pages[a].index \in tail
                /\ mem'.pages[a].pid = id /\ mem'.pages[a].index \in tail \cap Pages
        <3> TAKE a \in Pages
        <3> DEFINE at == {index \in tail : page(index) = a}
        <3>1. CASE \E index \in tail : page(index) = a
            <4>1. mem'.pages[a] = Released(id, Max(at))
                BY <1>6, <3>1
            <4>2. at \subseteq Pages /\ at # {}
                BY <1>9, <3>1
            <4>3. Max(at) \in at
                <5> HIDE DEF at
                <5>1. QED
                    BY <4>2, GreatestOf
            <4>4. Max(at) \in tail /\ Max(at) \in Pages
                BY <1>9, <4>3
            <4> HIDE DEF at
            <4>5. FALSE \in BOOLEAN /\ 1 \in 1 .. NumPages
                BY Parameters
            <4>6. Released(id, Max(at))
                    = [pid |-> id, occ |-> FALSE, ovf |-> FALSE, index |-> Max(at), length |-> 1]
                BY <1>2, <4>4, <4>5, PagedataType, Zenon DEF Released
            <4>7. mem'.pages[a].pid = id /\ mem'.pages[a].index = Max(at)
                BY <4>1, <4>6
            <4>8. mem.pages[a].pid = id /\ mem.pages[a].index \in tail
                BY <1>13, <3>1
            <4>9. QED
                BY <4>4, <4>7, <4>8
        <3>2. CASE ~\E index \in tail : page(index) = a
            BY <1>6, <3>2
        <3>3. QED
            BY <3>1, <3>2
    <2>4. QED
        BY <2>1, <2>2, <2>3 DEF Removes
<1>17. PageMap(mem', view', TRUE, used)
    <2>1. PageMap(mem, view, TRUE, used)
        BY DEF PageMap
    <2>2. QED
        BY <1>1, <1>16, <2>1, PagesRemoved, Zenon
<1>18. \A p \in Pids : view'[p].first >= 0
    <2> TAKE p \in Pids
    <2>1. CASE p = id
        <3>1. view'[p].first \in {NumPages, view[p].first}
            BY <1>1, <1>2, <1>4, <2>1 DEF NoView, Views
        <3>2. QED
            BY <1>8, <3>1, Parameters
    <2>2. CASE p # id
        BY <1>8, <1>15, <2>2
    <2>3. QED
        BY <2>1, <2>2
<1>19. CallInv'
    BY <1>4 DEF CallInv
<1>20. QED
    BY <1>4, <1>7, <1>8, <1>17, <1>18, <1>19 DEF MapInv, PagesInv, PageMap

\* A walk skips a page that the block before it fills.
LEMMA SkipPageMap == ASSUME TypeInv, PagesInv, SkipPage PROVE MapInv'
<1> DEFINE page == mem.pages[IF pc = "scan" THEN loc.at ELSE Actual]
<1>1. /\ pc \in {"search", "scan", "release"} /\ loc' = NextPage(page, loc.ovf)
      /\ pc' = IF pc = "scan" THEN "turn" ELSE pc
      /\ UNCHANGED << mem, view, blocks, freed, halt >>
      /\ pc # "scan" => Actual # NoPage
      /\ loc.pi <= loc.last
    BY DEF SkipPage, Walking
<1>2. mem \in Memory
    BY DEF TypeInv
<1>3. Seen' = Seen /\ ~Doomed'
    BY <1>1, SameSeen
<1>4. \A p \in Pids : view[p].first \in Int
    BY Parameters DEF TypeInv, Views, NoPage
<1>5. CASE pc = "search"
    <2>1. loc \in MallocCalls
        BY <1>5 DEF TypeInv, CallOK
    <2>2. /\ loc.id \in Pids /\ loc.id \in Owners /\ loc.si \in Nat /\ loc.ovf \in Nat
          /\ loc.pi \in Int
        BY <2>1, OwnerIds DEF MallocCalls
    <2>3. page \in PageRecords
        BY <1>1, <1>2, <1>5, <2>2, WalkTypes
    <2>4. /\ loc' \in MallocCalls /\ loc'.pi >= loc.pi /\ loc'.id = loc.id
          /\ loc'.last = loc.last /\ loc'.free_page = loc.free_page
        BY <1>1, <2>1, <2>2, <2>3, NextPageMalloc
    <2>5. view[loc.id].first <= loc'.pi
        <3>1. view[loc.id].first <= loc.pi /\ loc'.pi \in Int
            BY <1>5, <2>4 DEF PagesInv, CallInv, MallocCalls
        <3>2. QED
            BY <1>4, <2>2, <2>4, <3>1
    <2>6. CallInv'
        BY <1>1, <1>5, <2>4, <2>5 DEF PagesInv, CallInv
    <2>7. QED
        BY <1>1, <1>3, <2>6, QuietStep DEF MapInv
<1>6. CASE pc = "scan"
    <2>1. loc \in FreeCalls /\ loc.at \in Pages
        BY <1>6 DEF TypeInv, CallOK
    <2>2. loc.id \in Pids /\ loc.pi \in Int /\ loc.ovf \in Nat /\ page \in PageRecords
        BY <1>2, <1>6, <2>1 DEF FreeCalls, Memory
    <2>3. /\ loc' \in FreeCalls /\ loc'.pi >= loc.pi /\ loc'.id = loc.id
          /\ loc'.first = loc.first /\ loc'.last = loc.last
        BY <1>1, <2>1, <2>2, NextPageFree
    <2>4. view[loc.id].first <= loc'.pi
        <3>1. view[loc.id].first <= loc.pi /\ loc'.pi \in Int
            BY <1>6, <2>3 DEF PagesInv, CallInv, FreeCalls
        <3>2. QED
            BY <1>4, <2>2, <2>3, <3>1
    <2>5. CallInv'
        BY <1>1, <1>6, <2>3, <2>4 DEF PagesInv, CallInv
    <2>6. QED
        BY <1>1, <1>3, <2>5, QuietStep DEF MapInv
<1>7. CASE pc = "release"
    <2>1. loc \in ReleaseCalls
        BY <1>7 DEF TypeInv, CallOK
    <2>2. /\ loc.id \in Pids /\ loc.id \in Owners /\ loc.si \in Nat /\ loc.ovf \in Nat
          /\ loc.pi \in Int
        BY <2>1, OwnerIds DEF ReleaseCalls
    <2>3. page \in PageRecords
        BY <1>1, <1>2, <1>7, <2>2, WalkTypes
    <2>4. /\ loc' \in ReleaseCalls /\ loc'.pi >= loc.pi /\ loc'.id = loc.id
          /\ loc'.first = loc.first /\ loc'.last = loc.last /\ loc'.free_start = loc.free_start
        BY <1>1, <2>1, <2>2, <2>3, NextPageRelease
    <2>5. view[loc.id].first <= loc'.pi
        <3>1. view[loc.id].first <= loc.pi
            BY <1>1, <1>7, WalkMap
        <3>2. loc'.pi \in Int
            BY <2>4 DEF ReleaseCalls
        <3>3. QED
            BY <1>4, <2>2, <2>4, <3>1, <3>2
    <2>6. ReleaseInv /\ freed
        BY <1>7 DEF PagesInv, CallInv
    <2>7. ReleaseInv'
        BY <1>1, <2>4, <2>5, <2>6 DEF ReleaseInv
    <2>8. CallInv'
        BY <1>1, <1>7, <2>6, <2>7 DEF CallInv
    <2>9. QED
        BY <1>1, <1>3, <2>8, QuietStep DEF MapInv
<1>8. QED
    BY <1>1, <1>5, <1>6, <1>7

\* The process ends, the pages stay as they are.
LEMMA EndMap ==
    ASSUME MapInv, NEW how \in {"nomem", "badfree", "crash"}, End(how)
    PROVE  MapInv'
BY DEF MapInv, Doomed, End

\* A call that is doomed crashes next.
LEMMA DoomedStep ==
    ASSUME TypeInv, MapInv, Doomed, Next
    PROVE  Segfault \/ Halted
<1>1. loc \in TakeCalls /\ TakeRoom /\ pc = "take" /\ loc.pi = NoPage /\ loc.n # 0
    BY DEF Doomed, TypeInv, CallOK, MapInv
<1>2. Candidate = NoPage
    BY <1>1, PageNumbers DEF TakeRoom, Candidate, ht_get
<1>3. QED
    BY <1>1, <1>2 DEF Next, Step, Malloc, Free, Store, Search, NotEnoughPages, SearchFails,
                      SearchFailsFull, Searched, NoRoom, FirstPages, FromLastSegment,
                      FromNextPage, HasRoom, Take,
                      TakeNext, TakeEnds, Place, TurnPage, Scan, FreeFails, Found, Release,
                      ReleaseEnds, SkipPage, Rest, Walking, At

\* A step of such a call.
LEMMA DoomedMap ==
    ASSUME TypeInv, MapInv, Doomed, Next
    PROVE  MapInv'
<1>1. Segfault \/ Halted
    BY DoomedStep
<1>2. CASE Segfault
    BY <1>2, EndMap DEF Segfault
<1>3. CASE Halted
    BY <1>3 DEF Halted, vars, MapInv, Doomed, TypeInv
<1>4. QED
    BY <1>1, <1>2, <1>3

\* Each step keeps the page map.
LEMMA NextMap ==
    ASSUME ~ReusesMemory, TypeInv, MapInv, [Next]_vars
    PROVE  MapInv'
<1>1. CASE UNCHANGED vars
    <2>1. Seen' = Seen /\ Doomed' = Doomed /\ CallInv' = CallInv
        BY <1>1 DEF vars, Seen, AwaitsFirst, Doomed, CallInv, TakeInv, ReleaseInv
    <2>2. QED
        BY <1>1, <2>1, QuietStep DEF vars, MapInv, PagesInv
<1>2. CASE Next /\ Doomed
    BY <1>2, DoomedMap
<1>3. CASE Next /\ ~Doomed /\ halt # "none"
    <2>1. Halted
        BY <1>3 DEF Next, Step, Malloc, Free, Store, Search, NotEnoughPages, SearchFails,
                    SearchFailsFull, Searched, NoRoom, FirstPages, FromLastSegment, FromNextPage, HasRoom, Take,
                    TakeNext, TakeEnds, Taking, Place, TurnPage, Scan, FreeFails, Found, Release,
                    ReleaseEnds, SkipPage, Segfault, Rest, Walking, At
    <2>2. QED
        BY <1>1, <2>1 DEF Halted
<1>4. CASE Next /\ ~Doomed /\ halt = "none"
    <2>1. PagesInv
        BY <1>4 DEF MapInv
    <2>2. ASSUME NEW p \in Pids, NEW size \in Sizes, Malloc(p, size) PROVE MapInv'
        BY <2>1, <2>2, MallocMap
    <2>3. ASSUME NEW p \in Pids, NEW cell \in Cells, Free(p, cell) PROVE MapInv'
        BY <2>1, <2>3, FreeMap
    <2>12. ASSUME NEW p \in Pids, Store(p) PROVE MapInv'
        BY <2>1, <2>12, StoreMap
    <2>4. CASE NotEnoughPages
        BY <2>4, EndMap DEF NotEnoughPages
    <2>5. CASE NoRoom
        BY <2>5, EndMap DEF NoRoom
    <2>6. CASE FreeFails
        BY <2>6, EndMap DEF FreeFails
    <2>7. CASE Segfault
        BY <2>7, EndMap DEF Segfault
    <2>8. CASE Found
        <3>1. End("crash") \/ halt' = "none"
            BY <1>4, <2>8 DEF Found
        <3>2. QED
            BY <2>1, <2>8, <3>1, FoundMap, EndMap
    <2>9. CASE ReleaseEnds
        <3>1. End("crash") \/ halt' = "none"
            BY <1>4, <2>9 DEF ReleaseEnds
        <3>2. QED
            BY <2>1, <2>9, <3>1, ReleaseEndsMap, EndMap
    <2>10. CASE Step
        BY <1>4, <2>1, <2>4, <2>5, <2>6, <2>7, <2>8, <2>9, <2>10, SearchMap, SearchFailsMap,
           FirstPagesMap, FromLastSegmentMap, FromNextPageMap, TakeMap, TakeNextMap, TakeEndsMap,
           PlaceMap, TurnPageMap, ScanMap, ReleaseMap, SkipPageMap DEF Step
    <2>11. QED
        BY <1>1, <1>4, <2>2, <2>3, <2>10, <2>12 DEF Next, Rest, Halted
<1>5. QED
    BY <1>1, <1>2, <1>3, <1>4

\* In a program that does not allocate after it has freed, whatever it asks for
\* and whatever it frees, each page of a thread is found through the page table
\* whenever no call is in progress: page_allocate, swap and free_process_pages
\* keep page table and page data in agreement for all threads, also for those
\* whose pages they move out of the way.  (After a page is given back and taken
\* by another thread, they do not: run stale_page.)
THEOREM PagesFound ==
    ASSUME ~ReusesMemory
    PROVE  Spec => []PagesMapped
<1>1. Init => MapInv
    BY FirstView
<1>2. TypeInv /\ MapInv /\ [Next]_vars => MapInv'
    BY NextMap
<1>3. TypeInv /\ MapInv => PagesMapped
    <2> SUFFICES ASSUME TypeInv, MapInv, Idle, NEW p \in Pids,
                        NEW index \in view[p].first .. view[p].last
                 PROVE  /\ mem.ht[p][index] # NoPage
                        /\ mem.pages[mem.ht[p][index]].occ
                        /\ mem.pages[mem.ht[p][index]].pid = p
                        /\ mem.pages[mem.ht[p][index]].index = index
        BY DEF PagesMapped
    <2>1. Seen = view /\ PagesInv
        BY SameSeen DEF Idle, MapInv, Doomed
    <2>2. view[p].first >= 0 /\ view[p].first \in NoPage .. NumPages
          /\ view[p].last \in NoPage .. NumPages - 1
        BY <2>1 DEF PagesInv, TypeInv, Views
    <2>3. view[p].first <= index /\ index <= view[p].last /\ index \in 0 .. NumPages - 1
        BY <2>2, Parameters DEF NoPage
    <2>4. index \in Pages /\ InView(view, p, index)
        BY <2>3 DEF Pages, InView
    <2>5. QED
        BY <2>1, <2>4 DEF PagesInv, PageMap, Mapped
<1>4. QED
    BY <1>1, <1>2, <1>3, TypeInvariant, PTL DEF Spec

-----------------------------------------------------------------------------
(* The segments of a page, for blocks that are no longer than a page.  The   *)
(* headers of a page are read from the first one on, each says where the     *)
(* next one is: those behind are left from before                            *)

\* Whether segment s of the page seen at i is in one of the blocks B of its thread.
Busy(B, i, s) == \E b \in B : Cell(i, s) \in CellsOf(b)

\* Segment s has a header that is read: a block begins there, or free segments do.
Starts(B, i, s) == \E b \in B : b.cell = Cell(i, s)
FreeStart(B, i, s) == ~Busy(B, i, s) /\ (s = 0 \/ Busy(B, i, s - 1))
AtStart(B, i, s) == Starts(B, i, s) \/ FreeStart(B, i, s)

\* A block begins in the page seen at i, or before, and ends after it; ...
Spans(B, i) == \E b \in B : b.cell < Cell(i + 1, 0) /\ Cell(i + 1, 0) < b.cell + b.len

\* ... one that begins before the page ends where it does.
Fills(B, i) == \E b \in B : b.cell < Cell(i, 0) /\ b.cell + b.len = Cell(i + 1, 0)

\* Blocks, none longer than a page, that share no segment.
Separate(B) ==
    /\ \A b \in B : b.cell \in Nat /\ b.len \in 1 .. NumSegments
    /\ \A b \in B, c \in B : b # c => b.cell + b.len <= c.cell \/ c.cell + c.len <= b.cell

\* The header of a block of len segments from segment s of a page on: if it is
\* the last one of its page, it says what the block has of the next page.
BlockHeader(h, s, len) ==
    /\ h.occ
    /\ IF s + len <= NumSegments
       THEN h.size = len /\ (h.last <=> s + len = NumSegments)
       ELSE h.size = s + len - NumSegments /\ h.last

\* The header of free segments, which end at a block or with the page.
FreeHeader(h, B, i, s) ==
    /\ ~h.occ
    /\ s + h.size <= NumSegments
    /\ \A t \in s .. s + h.size - 1 : ~Busy(B, i, t)
    /\ IF h.last THEN s + h.size = NumSegments
                 ELSE s + h.size < NumSegments /\ Busy(B, i, s + h.size)

\* The headers and the data of the page seen at i describe the blocks.
Describes(headers, page, B, i) ==
    /\ \A s \in Segments :
          /\ \A b \in B : b.cell = Cell(i, s) => BlockHeader(headers[s], s, b.len)
          /\ FreeStart(B, i, s) => FreeHeader(headers[s], B, i, s)
    /\ page.ovf <=> Spans(B, i)
    /\ page.length = IF Spans(B, i) THEN 2 ELSE 1

\* Cells are numbered page by page.
LEMMA CellSum ==
    ASSUME NEW i \in Int, NEW s \in Int
    PROVE  /\ Cell(i, s) \in Int /\ Cell(i, 0) \in Int
           /\ Cell(i, s) = Cell(i, 0) + s
           /\ Cell(i + 1, 0) = Cell(i, 0) + NumSegments
<1>1. NumSegments \in Nat \ {0}
    BY DirectMappingAssumption
<1>2. i * NumSegments \in Int /\ (i + 1) * NumSegments = i * NumSegments + NumSegments
    BY <1>1
<1>3. QED
    BY <1>1, <1>2 DEF Cell

\* A page ends before the ones behind it begin.
LEMMA CellBelow ==
    ASSUME NEW i \in Int, NEW j \in Int, i < j
    PROVE  Cell(i, 0) + NumSegments <= Cell(j, 0)
<1>1. NumSegments \in Nat \ {0}
    BY DirectMappingAssumption
<1>2. (i + 1) * NumSegments <= j * NumSegments
    BY <1>1
<1>3. i * NumSegments \in Int /\ (i + 1) * NumSegments = i * NumSegments + NumSegments
    BY <1>1
<1>4. QED
    BY <1>1, <1>2, <1>3 DEF Cell

\* Every cell is a segment of a page.
LEMMA CellSplit ==
    ASSUME NEW c \in Cells
    PROVE  /\ c \div NumSegments \in Pages /\ c % NumSegments \in Segments
           /\ c = Cell(c \div NumSegments, c % NumSegments)
<1>1. NumSegments \in Nat \ {0} /\ NumPages \in Nat \ {0}
    BY DirectMappingAssumption, AllocatorAssumption
<1>2. c \in Nat /\ c < NumPages * NumSegments
    <2>1. NumPages * NumSegments \in Nat
        BY <1>1
    <2>2. QED
        BY <2>1 DEF Cells
<1> DEFINE q == c \div NumSegments
           r == c % NumSegments
<1>3. q \in Nat /\ r \in 0 .. NumSegments - 1 /\ c = q * NumSegments + r
    BY <1>1, <1>2
<1>4. q < NumPages
    <2> HIDE DEF q, r
    <2>1. SUFFICES ASSUME q >= NumPages PROVE FALSE
        BY <1>1, <1>3
    <2>2. q * NumSegments >= NumPages * NumSegments
        BY <1>1, <1>3, <2>1
    <2>3. q * NumSegments \in Nat /\ NumPages * NumSegments \in Nat
        BY <1>1, <1>3
    <2>4. QED
        BY <1>2, <1>3, <2>2, <2>3
<1>5. QED
    BY <1>1, <1>3, <1>4 DEF Cell, Pages, Segments

\* A segment is in a block.
LEMMA BusyIn ==
    ASSUME NEW B, Separate(B), NEW i \in Int, NEW s \in Int
    PROVE  /\ Busy(B, i, s) <=> \E b \in B : b.cell <= Cell(i, s) /\ Cell(i, s) < b.cell + b.len
           /\ Starts(B, i, s) => Busy(B, i, s)
<1>1. Cell(i, s) \in Int
    BY CellSum
<1>2. \A b \in B : b.cell \in Nat /\ b.len \in 1 .. NumSegments /\ NumSegments \in Nat
    BY DirectMappingAssumption DEF Separate
<1>3. QED
    BY <1>1, <1>2 DEF Busy, Starts, CellsOf

\* A segment in a block, behind one that is not in it, is the block's first.
LEMMA BlockBegins ==
    ASSUME NEW B, Separate(B), NEW i \in Int, NEW s \in Int, Busy(B, i, s),
           ~Busy(B, i, s - 1) \/ \E b \in B : b.cell + b.len = Cell(i, s)
    PROVE  Starts(B, i, s)
<1>1. PICK c \in B : c.cell <= Cell(i, s) /\ Cell(i, s) < c.cell + c.len
    BY BusyIn
<1>2. Cell(i, s) \in Int /\ Cell(i, s - 1) = Cell(i, s) - 1
    <2>1. s - 1 \in Int
        OBVIOUS
    <2>2. Cell(i, s) = Cell(i, 0) + s /\ Cell(i, s - 1) = Cell(i, 0) + (s - 1) /\ Cell(i, 0) \in Int
        BY <2>1, CellSum
    <2> HIDE DEF Cell
    <2>3. QED
        BY <2>2
<1>3. c.cell \in Nat /\ c.len \in Nat
    BY DirectMappingAssumption DEF Separate
<1>4. CASE ~Busy(B, i, s - 1)
    <2>1. ~(c.cell <= Cell(i, s - 1) /\ Cell(i, s - 1) < c.cell + c.len)
        BY <1>4, BusyIn
    <2>2. c.cell = Cell(i, s)
        BY <1>1, <1>2, <1>3, <2>1
    <2>3. QED
        BY <2>2 DEF Starts
<1>5. CASE \E b \in B : b.cell + b.len = Cell(i, s)
    <2>1. PICK b \in B : b.cell + b.len = Cell(i, s)
        BY <1>5
    <2>2. b.cell \in Nat /\ b.len \in Nat /\ b.len > 0
        BY DirectMappingAssumption DEF Separate
    <2>3. b # c
        BY <1>1, <1>2, <1>3, <2>1, <2>2
    <2>4. b.cell + b.len <= c.cell \/ c.cell + c.len <= b.cell
        BY <2>3 DEF Separate
    <2>5. c.cell = Cell(i, s)
        BY <1>1, <1>2, <1>3, <2>1, <2>2, <2>4
    <2>6. QED
        BY <2>5 DEF Starts
<1>6. QED
    BY <1>4, <1>5

\* The cell behind the segments that begin at segment s of the page seen at i.
EndCell(h, page, i, s) ==
    CASE ~h.last -> Cell(i, s + h.size)
      [] h.last /\ page.ovf -> Cell(i + 1, h.size)
      [] h.last /\ ~page.ovf -> Cell(i + 1, 0)

\* What a walk finds at a header: a block and where it ends, ...
LEMMA AtBlock ==
    ASSUME NEW B, Separate(B), NEW i \in Int, NEW s \in Segments,
           NEW headers, NEW page, Describes(headers, page, B, i),
           NEW b \in B, b.cell = Cell(i, s)
    PROVE  LET h == headers[s]
           IN  /\ h.occ
               /\ EndCell(h, page, i, s) = b.cell + b.len
               /\ IF h.last THEN s + b.len >= NumSegments
                            ELSE h.size = b.len /\ s + h.size < NumSegments
               /\ h.last /\ page.ovf => /\ s + b.len = NumSegments + h.size
                                        /\ h.size \in 1 .. NumSegments
                                        /\ page.length = 2
               /\ h.last /\ ~page.ovf => s + b.len = NumSegments /\ page.length = 1
<1> DEFINE h == headers[s]
<1>1. /\ Cell(i, 0) \in Int
      /\ Cell(i, s) = Cell(i, 0) + s
      /\ Cell(i + 1, 0) = Cell(i, 0) + NumSegments
    BY CellSum DEF Segments
<1>2. NumSegments \in Nat \ {0} /\ s \in Nat /\ s < NumSegments
    BY DirectMappingAssumption DEF Segments
<1>3. b.cell \in Nat /\ b.len \in 1 .. NumSegments
    BY DEF Separate
<1>4. BlockHeader(h, s, b.len)
    BY DEF Describes
<1>5. /\ page.ovf <=> Spans(B, i)
      /\ page.length = IF Spans(B, i) THEN 2 ELSE 1
    BY DEF Describes
<1>6. CASE s + b.len > NumSegments
    <2>1. h.occ /\ h.last /\ h.size = s + b.len - NumSegments
        BY <1>2, <1>3, <1>4, <1>6 DEF BlockHeader
    <2>2. Spans(B, i)
        BY <1>1, <1>2, <1>3, <1>6 DEF Spans
    <2>3. h.size \in 1 .. NumSegments
        BY <1>2, <1>3, <1>6, <2>1
    <2>4. Cell(i + 1, h.size) = Cell(i + 1, 0) + h.size
        <3>1. i + 1 \in Int /\ h.size \in Int
            BY <2>3
        <3> HIDE DEF h
        <3>2. QED
            BY <3>1, CellSum
    <2>5. EndCell(h, page, i, s) = Cell(i + 1, h.size)
        BY <1>5, <2>1, <2>2 DEF EndCell
    <2>6. EndCell(h, page, i, s) = b.cell + b.len
        BY <1>1, <1>2, <1>3, <2>1, <2>4, <2>5
    <2>7. QED
        BY <1>2, <1>3, <1>5, <1>6, <2>1, <2>2, <2>3, <2>6
<1>7. CASE s + b.len <= NumSegments
    <2>1. h.occ /\ h.size = b.len /\ (h.last <=> s + b.len = NumSegments)
        BY <1>2, <1>3, <1>4, <1>7 DEF BlockHeader
    <2>2. CASE s + b.len < NumSegments
        <3>1. ~h.last
            BY <1>2, <1>3, <2>1, <2>2
        <3>2. EndCell(h, page, i, s) = Cell(i, s + b.len)
            BY <2>1, <3>1 DEF EndCell
        <3>3. Cell(i, s + b.len) = Cell(i, 0) + (s + b.len)
            <4>1. s + b.len \in Int
                BY <1>2, <1>3
            <4>2. QED
                BY <4>1, CellSum
        <3>4. QED
            BY <1>1, <1>2, <1>3, <2>1, <2>2, <3>1, <3>2, <3>3
    <2>3. CASE s + b.len = NumSegments
        <3>1. h.last
            BY <2>1, <2>3
        <3>2. ~Spans(B, i)
            <4> SUFFICES ASSUME NEW c \in B, c.cell < Cell(i + 1, 0), Cell(i + 1, 0) < c.cell + c.len
                         PROVE  FALSE
                BY DEF Spans
            <4>1. c # b
                BY <1>1, <1>2, <1>3, <2>3
            <4>2. c.cell + c.len <= b.cell \/ b.cell + b.len <= c.cell
                BY <4>1 DEF Separate
            <4>3. c.cell \in Nat /\ c.len \in 1 .. NumSegments
                BY DEF Separate
            <4>4. QED
                BY <1>1, <1>2, <1>3, <2>3, <4>2, <4>3
        <3>3. EndCell(h, page, i, s) = Cell(i + 1, 0)
            BY <1>5, <3>1, <3>2 DEF EndCell
        <3>4. EndCell(h, page, i, s) = b.cell + b.len
            BY <1>1, <1>2, <1>3, <2>3, <3>3
        <3>5. ~page.ovf /\ page.length = 1
            BY <1>5, <3>2
        <3>6. QED
            BY <1>2, <1>3, <2>1, <2>3, <3>1, <3>4, <3>5
    <2>4. QED
        BY <1>2, <1>3, <1>7, <2>2, <2>3
<1>8. QED
    BY <1>2, <1>3, <1>6, <1>7

\* ... or free segments, up to a block or the end of the page.
LEMMA AtFree ==
    ASSUME NEW B, Separate(B), NEW i \in Int, NEW s \in Segments,
           NEW headers, NEW page, Describes(headers, page, B, i),
           headers[s].size \in 1 .. NumSegments, FreeStart(B, i, s)
    PROVE  LET h == headers[s]
           IN  /\ ~h.occ
               /\ s + h.size <= NumSegments
               /\ EndCell(h, page, i, s) = Cell(i, s + h.size)
               /\ \A t \in s .. s + h.size - 1 : ~Busy(B, i, t)
               /\ IF h.last THEN /\ s + h.size = NumSegments
                                 /\ ~page.ovf /\ page.length = 1
                            ELSE s + h.size < NumSegments /\ Starts(B, i, s + h.size)
<1> DEFINE h == headers[s]
<1>1. /\ Cell(i, 0) \in Int
      /\ Cell(i, s) = Cell(i, 0) + s
      /\ Cell(i + 1, 0) = Cell(i, 0) + NumSegments
    BY CellSum DEF Segments
<1>2. NumSegments \in Nat \ {0} /\ s \in Nat /\ s < NumSegments /\ h.size \in Nat \ {0}
    BY DirectMappingAssumption DEF Segments
<1>3. FreeHeader(h, B, i, s)
    BY DEF Describes
<1>4. Cell(i, s + h.size) = Cell(i, 0) + (s + h.size)
    <2>1. s + h.size \in Int
        BY <1>2
    <2>2. QED
        BY <2>1, CellSum
<1>5. /\ page.ovf <=> Spans(B, i)
      /\ page.length = IF Spans(B, i) THEN 2 ELSE 1
    BY DEF Describes
<1>6. ASSUME h.last PROVE s + h.size = NumSegments /\ ~Spans(B, i)
    <2>1. s + h.size = NumSegments /\ ~Busy(B, i, NumSegments - 1)
        BY <1>2, <1>3, <1>6 DEF FreeHeader
    <2>2. Cell(i, NumSegments - 1) = Cell(i, 0) + (NumSegments - 1)
        BY <1>2, CellSum
    <2>3. ASSUME NEW b \in B
          PROVE  ~(b.cell < Cell(i + 1, 0) /\ Cell(i + 1, 0) < b.cell + b.len)
        <3>1. b.cell \in Nat /\ b.len \in Nat
            BY DirectMappingAssumption DEF Separate
        <3>2. ~(b.cell <= Cell(i, NumSegments - 1) /\ Cell(i, NumSegments - 1) < b.cell + b.len)
            BY <1>2, <2>1, BusyIn
        <3>3. QED
            BY <1>1, <1>2, <2>2, <3>1, <3>2
    <2>4. QED
        BY <2>1, <2>3 DEF Spans
<1>7. ASSUME ~h.last PROVE s + h.size < NumSegments /\ Starts(B, i, s + h.size)
    <2>1. s + h.size < NumSegments /\ Busy(B, i, s + h.size) /\ ~Busy(B, i, s + h.size - 1)
        BY <1>2, <1>3, <1>7 DEF FreeHeader
    <2>2. QED
        BY <1>2, <2>1, BlockBegins
<1>8. EndCell(h, page, i, s) = Cell(i, s + h.size)
    <2>1. CASE h.last
        <3>1. EndCell(h, page, i, s) = Cell(i + 1, 0)
            BY <1>5, <1>6, <2>1 DEF EndCell
        <3>2. QED
            BY <1>1, <1>2, <1>4, <1>6, <2>1, <3>1
    <2>2. CASE ~h.last
        BY <2>2 DEF EndCell
    <2>3. QED
        BY <2>1, <2>2
<1>9. QED
    BY <1>3, <1>5, <1>6, <1>7, <1>8 DEF FreeHeader

\* A block has no segment of the page seen at i.
Elsewhere(b, i) == b.cell + b.len <= Cell(i, 0) \/ Cell(i, 0) + NumSegments <= b.cell

\* Free segments lie between blocks.
LEMMA FreeRun ==
    ASSUME NEW B, Separate(B), NEW i \in Int, NEW s \in Int, NEW e \in Int, s < e,
           \A t \in s .. e - 1 : ~Busy(B, i, t), NEW b \in B
    PROVE  b.cell + b.len <= Cell(i, s) \/ Cell(i, e) <= b.cell
<1>1. /\ Cell(i, 0) \in Int
      /\ Cell(i, s) = Cell(i, 0) + s
      /\ Cell(i, e) = Cell(i, 0) + e
    BY CellSum
<1>2. b.cell \in Int /\ b.len \in Int /\ b.len > 0
    BY DirectMappingAssumption DEF Separate
<1>3. ASSUME NEW t \in Int, t \in s .. e - 1
      PROVE  ~(b.cell <= Cell(i, 0) + t /\ Cell(i, 0) + t < b.cell + b.len)
    <2>1. ~Busy(B, i, t) /\ Cell(i, t) = Cell(i, 0) + t
        BY <1>3, CellSum
    <2>2. QED
        BY <2>1, BusyIn
<1>4. ASSUME Cell(i, s) < b.cell + b.len, b.cell < Cell(i, e) PROVE FALSE
    <2>1. CASE b.cell <= Cell(i, s)
        <3>1. s \in s .. e - 1
            OBVIOUS
        <3>2. QED
            BY <1>1, <1>3, <1>4, <2>1, <3>1
    <2>2. CASE b.cell > Cell(i, s)
        <3> DEFINE t == b.cell - Cell(i, 0)
        <3>1. t \in Int /\ t \in s .. e - 1 /\ Cell(i, 0) + t = b.cell
            BY <1>1, <1>2, <1>4, <2>2
        <3> HIDE DEF t
        <3>2. QED
            BY <1>2, <1>3, <3>1
    <2>3. QED
        BY <1>1, <1>2, <2>1, <2>2
<1>5. QED
    BY <1>1, <1>2, <1>4

\* Blocks that have none of a page do not matter to it.
LEMMA SameBlocks ==
    ASSUME NEW B, NEW C, Separate(B), Separate(C), NEW i \in Int,
           \A b \in B : b \in C \/ Elsewhere(b, i),
           \A b \in C : b \in B \/ Elsewhere(b, i)
    PROVE  /\ \A s \in Segments : Busy(B, i, s) <=> Busy(C, i, s)
           /\ \A s \in Segments, b \in C : b.cell = Cell(i, s) => b \in B
           /\ Spans(B, i) <=> Spans(C, i)
<1>1. Cell(i, 0) \in Int /\ Cell(i + 1, 0) = Cell(i, 0) + NumSegments
    BY CellSum
<1>2. NumSegments \in Nat \ {0}
    BY DirectMappingAssumption
<1>3. /\ \A b \in B : b.cell \in Int /\ b.len \in Int /\ b.len > 0
      /\ \A b \in C : b.cell \in Int /\ b.len \in Int /\ b.len > 0
    BY <1>2 DEF Separate
<1>4. ASSUME NEW s \in Segments
      PROVE  /\ Cell(i, s) = Cell(i, 0) + s
             /\ s \in Int /\ 0 <= s /\ s < NumSegments
    BY <1>2, CellSum DEF Segments
<1>5. \A s \in Segments : Busy(B, i, s) <=> Busy(C, i, s)
    <2> SUFFICES ASSUME NEW s \in Segments PROVE Busy(B, i, s) <=> Busy(C, i, s)
        OBVIOUS
    <2>1. /\ Busy(B, i, s) <=> \E b \in B : b.cell <= Cell(i, s) /\ Cell(i, s) < b.cell + b.len
          /\ Busy(C, i, s) <=> \E b \in C : b.cell <= Cell(i, s) /\ Cell(i, s) < b.cell + b.len
        BY <1>4, BusyIn
    <2>2. QED
        BY <1>1, <1>2, <1>3, <1>4, <2>1 DEF Elsewhere
<1>6. \A s \in Segments, b \in C : b.cell = Cell(i, s) => b \in B
    BY <1>1, <1>2, <1>3, <1>4 DEF Elsewhere
<1>7. Spans(B, i) <=> Spans(C, i)
    BY <1>1, <1>2, <1>3 DEF Elsewhere, Spans
<1>8. QED
    BY <1>5, <1>6, <1>7

\* So the page still describes the blocks.
LEMMA StillDescribes ==
    ASSUME NEW B, NEW C, Separate(B), Separate(C), NEW i \in Int,
           \A b \in B : b \in C \/ Elsewhere(b, i),
           \A b \in C : b \in B \/ Elsewhere(b, i),
           NEW headers \in [Segments -> HeaderRecords], NEW page, Describes(headers, page, B, i)
    PROVE  Describes(headers, page, C, i)
<1>1. /\ \A s \in Segments : Busy(B, i, s) <=> Busy(C, i, s)
      /\ \A s \in Segments, b \in C : b.cell = Cell(i, s) => b \in B
      /\ Spans(B, i) <=> Spans(C, i)
    BY SameBlocks
<1>2. ASSUME NEW s \in Segments, FreeStart(C, i, s) PROVE FreeHeader(headers[s], C, i, s)
    <2>1. s = 0 \/ s - 1 \in Segments
        BY DirectMappingAssumption DEF Segments
    <2>2. FreeStart(B, i, s)
        BY <1>1, <1>2, <2>1 DEF FreeStart
    <2>3. FreeHeader(headers[s], B, i, s)
        BY <2>2 DEF Describes
    <2>4. headers[s].size \in 1 .. NumSegments
        BY DEF HeaderRecords
    <2>5. /\ \A t \in s .. s + headers[s].size - 1 : t \in Segments
          /\ s + headers[s].size < NumSegments => s + headers[s].size \in Segments
        BY <2>3, <2>4, DirectMappingAssumption DEF FreeHeader, Segments
    <2>6. QED
        BY <1>1, <2>3, <2>5 DEF FreeHeader
<1>3. ASSUME NEW s \in Segments, NEW b \in C, b.cell = Cell(i, s)
      PROVE  BlockHeader(headers[s], s, b.len)
    BY <1>1, <1>3 DEF Describes
<1>4. (page.ovf <=> Spans(C, i)) /\ page.length = IF Spans(C, i) THEN 2 ELSE 1
    BY <1>1 DEF Describes
<1>5. QED
    BY <1>2, <1>3, <1>4, Zenon DEF Describes

\* Only the headers at which something begins matter.
LEMMA OnlyStarts ==
    ASSUME NEW B, NEW i \in Int, NEW headers, NEW others, NEW page, Describes(headers, page, B, i),
           \A s \in Segments : AtStart(B, i, s) => others[s] = headers[s]
    PROVE  Describes(others, page, B, i)
BY DEF Describes, AtStart, Starts

\* Nothing begins inside a block.
LEMMA InsideBlock ==
    ASSUME NEW B, Separate(B), NEW i \in Int, NEW s \in Int, NEW b \in B,
           b.cell < Cell(i, s), Cell(i, s) < b.cell + b.len
    PROVE  ~AtStart(B, i, s)
<1>1. Cell(i, s) \in Int /\ b.cell \in Int /\ b.len \in Int /\ NumSegments \in Nat
    <2>1. Cell(i, s) \in Int
        BY CellSum
    <2>2. QED
        BY <2>1, DirectMappingAssumption DEF Separate
<1>2. Busy(B, i, s)
    BY <1>1, BusyIn
<1>3. ASSUME NEW c \in B, c.cell = Cell(i, s) PROVE FALSE
    <2>1. c # b /\ c.cell \in Int /\ c.len \in Int /\ c.len > 0
        BY <1>1, <1>3 DEF Separate
    <2>2. b.cell + b.len <= c.cell \/ c.cell + c.len <= b.cell
        BY <2>1 DEF Separate
    <2>3. QED
        BY <1>1, <1>3, <2>1, <2>2
<1>4. QED
    BY <1>2, <1>3 DEF AtStart, Starts, FreeStart

\* A header, as its three parts.
IsHeader(h, size, occ, last) == h.size = size /\ (h.occ <=> occ) /\ (h.last <=> last)

\* Segments first to end - 1 of a page, which no block of C has, get one header;
\* outside them C is B, and they go from a block to a block, or to the end of
\* the page.
OneHeader(headers, others, B, C, i, first, end) ==
    /\ \A t \in first .. end - 1 : ~Busy(C, i, t)
    /\ first = 0 \/ Busy(C, i, first - 1)
    /\ end = NumSegments \/ Busy(C, i, end)
    /\ \A t \in Segments : t \in first .. end - 1 \/ (Busy(B, i, t) => Busy(C, i, t))
    /\ IsHeader(others[first], end - first, FALSE, end = NumSegments)
    /\ \A t \in Segments : t \in first .. end - 1 \/ others[t] = headers[t]

LEMMA RunFreed ==
    ASSUME NEW B, NEW C \in SUBSET B, Separate(B), NEW i \in Int,
           NEW headers \in [Segments -> HeaderRecords],
           NEW others \in [Segments -> HeaderRecords],
           NEW page, NEW data, Describes(headers, page, B, i),
           NEW first \in Segments, NEW end \in Int, first < end, end <= NumSegments,
           OneHeader(headers, others, B, C, i, first, end),
           data.ovf <=> Spans(C, i), data.length = IF Spans(C, i) THEN 2 ELSE 1
    PROVE  Describes(others, data, C, i)
<1> SUFFICES ASSUME
           \A t \in first .. end - 1 : ~Busy(C, i, t),
           first = 0 \/ Busy(C, i, first - 1),
           end = NumSegments \/ Busy(C, i, end),
           \A t \in Segments : t \in first .. end - 1 \/ (Busy(B, i, t) => Busy(C, i, t)),
           IsHeader(others[first], end - first, FALSE, end = NumSegments),
           \A t \in Segments : t \in first .. end - 1 \/ others[t] = headers[t]
      PROVE  Describes(others, data, C, i)
    BY DEF OneHeader
<1>1. NumSegments \in Nat \ {0} /\ first \in Nat
    BY DirectMappingAssumption DEF Segments
<1>2. Separate(C)
    BY DEF Separate
<1>3. \A t \in Int : Busy(C, i, t) => Busy(B, i, t)
    BY DEF Busy
<1>4. ASSUME NEW s \in Segments, NEW b \in C, b.cell = Cell(i, s)
      PROVE  BlockHeader(others[s], s, b.len)
    <2>1. s \in Int
        BY DEF Segments
    <2>2. Starts(C, i, s)
        BY <1>4 DEF Starts
    <2>3. Busy(C, i, s)
        BY <1>2, <2>1, <2>2, BusyIn
    <2>4. others[s] = headers[s]
        BY <2>3
    <2>5. QED
        BY <1>4, <2>4 DEF Describes
<1>5. ASSUME NEW s \in Segments, FreeStart(C, i, s) PROVE FreeHeader(others[s], C, i, s)
    <2>1. s \in Nat /\ s < NumSegments
        BY <1>1 DEF Segments
    <2>2. CASE s \in first .. end - 1
        <3>1. s = first
            <4>1. SUFFICES ASSUME s # first PROVE FALSE
                OBVIOUS
            <4>2. s - 1 \in first .. end - 1 /\ s # 0
                BY <1>1, <2>1, <2>2, <4>1
            <4>3. QED
                BY <1>5, <4>2 DEF FreeStart
        <3>2. others[s].size = end - first /\ ~others[s].occ /\ (others[s].last <=> end = NumSegments)
            BY <3>1 DEF IsHeader
        <3>3. s + others[s].size = end
            BY <1>1, <3>1, <3>2
        <3>4. QED
            BY <1>1, <3>1, <3>2, <3>3 DEF FreeHeader
    <2>3. CASE s \notin first .. end - 1
        <3> DEFINE h == headers[s]
        <3>1. others[s] = h
            BY <2>3
        <3>2. ~Busy(C, i, s) /\ (s = 0 \/ Busy(C, i, s - 1))
            BY <1>5 DEF FreeStart
        <3>3. ~Busy(B, i, s) /\ (s = 0 \/ Busy(B, i, s - 1))
            BY <1>3, <2>1, <2>3, <3>2
        <3>4. FreeHeader(h, B, i, s)
            BY <3>3 DEF FreeStart, Describes
        <3>5. /\ ~h.occ /\ s + h.size <= NumSegments
              /\ \A t \in s .. s + h.size - 1 : ~Busy(C, i, t)
              /\ IF h.last THEN s + h.size = NumSegments
                           ELSE s + h.size < NumSegments /\ Busy(B, i, s + h.size)
            <4>1. h.size \in 1 .. NumSegments
                BY DEF HeaderRecords
            <4>2. \A t \in s .. s + h.size - 1 : t \in Int
                BY <2>1, <4>1
            <4>3. QED
                BY <1>3, <3>4, <4>2 DEF FreeHeader
        <3>6. ASSUME ~h.last PROVE Busy(C, i, s + h.size)
            <4> DEFINE e == s + h.size
            <4>1. h.size \in 1 .. NumSegments
                BY DEF HeaderRecords
            <4>2. e \in Segments /\ Busy(B, i, e)
                BY <1>1, <2>1, <3>5, <3>6, <4>1 DEF Segments
            <4>3. e \notin first .. end - 1
                <5>1. SUFFICES ASSUME e \in first .. end - 1 PROVE FALSE
                    OBVIOUS
                <5>2. s < first
                    BY <1>1, <2>1, <2>3, <4>1, <5>1
                <5>3. first - 1 \in s .. s + h.size - 1
                    BY <1>1, <2>1, <4>1, <5>1, <5>2
                <5>4. Busy(C, i, first - 1)
                    BY <1>1, <2>1, <5>2
                <5>5. QED
                    BY <3>5, <5>3, <5>4
            <4>4. QED
                BY <4>2, <4>3
        <3>7. QED
            BY <3>1, <3>5, <3>6 DEF FreeHeader
    <2>4. QED
        BY <2>2, <2>3
<1>6. QED
    BY <1>4, <1>5, Zenon DEF Describes

\* A block takes the first n of some free segments.
LEMMA RunUsed ==
    ASSUME NEW B, Separate(B), NEW i \in Int, NEW s \in Segments, FreeStart(B, i, s),
           NEW headers \in [Segments -> HeaderRecords],
           NEW others \in [Segments -> HeaderRecords],
           NEW page, Describes(headers, page, B, i),
           NEW n \in 1 .. headers[s].size, NEW C, NEW new, new.cell = Cell(i, s), new.len = n,
           Cell(i, s) \in Nat, C = B \cup {new},
           IsHeader(others[s], n, TRUE, s + n = NumSegments),
           n < headers[s].size =>
               IsHeader(others[s + n], headers[s].size - n, FALSE, headers[s].last),
           \A t \in Segments : t = s \/ (n < headers[s].size /\ t = s + n) \/ others[t] = headers[t]
    PROVE  Separate(C) /\ Describes(others, page, C, i)
<1> DEFINE h == headers[s]
<1>1. /\ NumSegments \in Nat \ {0} /\ s \in Nat /\ s < NumSegments
      /\ h.size \in 1 .. NumSegments /\ n \in Nat \ {0} /\ n <= h.size
    BY DirectMappingAssumption DEF Segments, HeaderRecords
<1>2. /\ ~h.occ /\ s + h.size <= NumSegments
      /\ \A t \in s .. s + h.size - 1 : ~Busy(B, i, t)
      /\ IF h.last THEN s + h.size = NumSegments
                   ELSE s + h.size < NumSegments /\ Busy(B, i, s + h.size)
    BY DEF Describes, FreeHeader
<1>3. /\ Cell(i, 0) \in Int /\ Cell(i, s) = Cell(i, 0) + s
      /\ Cell(i + 1, 0) = Cell(i, 0) + NumSegments
      /\ Cell(i, s + n) = Cell(i, 0) + (s + n)
    <2>1. s \in Int /\ s + n \in Int
        BY <1>1
    <2>2. QED
        BY <2>1, CellSum
<1>4. ASSUME NEW b \in B PROVE b.cell + b.len <= Cell(i, s) \/ Cell(i, s + n) <= b.cell
    <2>1. s + n \in Int /\ s \in Int /\ s < s + n /\ \A t \in s .. (s + n) - 1 : t \in s .. s + h.size - 1
        BY <1>1
    <2>2. \A t \in s .. (s + n) - 1 : ~Busy(B, i, t)
        BY <1>2, <2>1
    <2> HIDE DEF h
    <2>3. QED
        BY ONLY Separate(B), i \in Int, <2>1, <2>2, b \in B, FreeRun
<1>5. Separate(C)
    <2>1. new.cell \in Nat /\ new.len \in 1 .. NumSegments
        BY <1>1
    <2>2. ASSUME NEW b \in C, NEW c \in C, b # c
          PROVE  b.cell + b.len <= c.cell \/ c.cell + c.len <= b.cell
        <3>1. CASE b \in B /\ c \in B
            BY <2>2, <3>1 DEF Separate
        <3>2. ASSUME NEW d \in B PROVE d.cell + d.len <= new.cell \/ new.cell + new.len <= d.cell
            BY <1>1, <1>3, <1>4
        <3>3. QED
            BY <2>2, <3>1, <3>2
    <2>3. QED
        BY <2>1, <2>2 DEF Separate
<1>6. ASSUME NEW t \in Int PROVE Busy(C, i, t) <=> Busy(B, i, t) \/ t \in s .. s + n - 1
    <2>1. Cell(i, t) = Cell(i, 0) + t
        BY CellSum
    <2>2. Busy(C, i, t) <=> \E b \in C : b.cell <= Cell(i, t) /\ Cell(i, t) < b.cell + b.len
        BY <1>5, BusyIn
    <2>3. Busy(B, i, t) <=> \E b \in B : b.cell <= Cell(i, t) /\ Cell(i, t) < b.cell + b.len
        BY BusyIn
    <2>4. (new.cell <= Cell(i, t) /\ Cell(i, t) < new.cell + new.len) <=> t \in s .. s + n - 1
        BY <1>1, <1>3, <2>1
    <2>5. QED
        BY <2>2, <2>3, <2>4
<1>7. Spans(C, i) <=> Spans(B, i)
    BY <1>1, <1>2, <1>3 DEF Spans
<1>8. ASSUME NEW t \in Segments, NEW b \in C, b.cell = Cell(i, t)
      PROVE  BlockHeader(others[t], t, b.len)
    <2>1. t \in Nat /\ t < NumSegments /\ Cell(i, t) = Cell(i, 0) + t
        <3>1. t \in Nat /\ t < NumSegments
            BY <1>1 DEF Segments
        <3>2. QED
            BY <3>1, CellSum
    <2>2. CASE b = new
        <3>1. t = s
            BY <1>1, <1>3, <1>8, <2>1, <2>2
        <3>2. s + n <= NumSegments /\ b.len = n
            BY <1>1, <1>2, <2>2
        <3>3. QED
            BY <3>1, <3>2 DEF BlockHeader, IsHeader
    <2>3. CASE b \in B
        <3>1. Busy(B, i, t)
            <4>1. Starts(B, i, t)
                BY <1>8, <2>3 DEF Starts
            <4>2. QED
                BY <2>1, <4>1, BusyIn
        <3>2. t \notin s .. s + h.size - 1
            BY <1>2, <3>1
        <3>3. others[t] = headers[t]
            BY <1>1, <2>1, <3>2
        <3>4. QED
            BY <1>8, <2>3, <3>3 DEF Describes
    <2>4. QED
        BY <2>2, <2>3
<1>9. ASSUME NEW t \in Segments, FreeStart(C, i, t) PROVE FreeHeader(others[t], C, i, t)
    <2>1. t \in Nat /\ t < NumSegments
        BY <1>1 DEF Segments
    <2>2. ~Busy(B, i, t) /\ t \notin s .. s + n - 1 /\ (t = 0 \/ Busy(C, i, t - 1))
        <3>1. ~Busy(C, i, t) /\ (t = 0 \/ Busy(C, i, t - 1))
            BY <1>9 DEF FreeStart
        <3>2. Busy(C, i, t) <=> Busy(B, i, t) \/ t \in s .. s + n - 1
            <4>1. t \in Int
                BY <2>1
            <4>2. QED
                BY ONLY <1>6, <4>1
        <3>3. QED
            BY <3>1, <3>2
    <2>3. CASE t = s + n
        <3>1. n < h.size
            BY <1>1, <1>2, <2>1, <2>2, <2>3
        <3>2. others[t].size = h.size - n /\ ~others[t].occ /\ (others[t].last <=> h.last)
            BY <2>3, <3>1 DEF IsHeader
        <3>3. t + others[t].size = s + h.size
            BY <1>1, <2>3, <3>2
        <3>4. ASSUME NEW r \in t .. s + h.size - 1 PROVE ~Busy(C, i, r)
            <4>1. r \in Int /\ r \in s .. s + h.size - 1 /\ r \notin s .. s + n - 1
                BY <1>1, <2>3
            <4>2. ~Busy(B, i, r)
                BY <1>2, <4>1
            <4>3. QED
                BY <1>6, <4>1, <4>2
        <3>5. ~h.last => Busy(C, i, s + h.size)
            BY <1>1, <1>2, <1>6
        <3>6. QED
            <4>1. \A r \in t .. t + others[t].size - 1 : ~Busy(C, i, r)
                <5>1. t + others[t].size - 1 = s + h.size - 1
                    BY <1>1, <2>1, <3>2, <3>3
                <5>2. QED
                    BY ONLY <3>4, <5>1
            <4>2. IF others[t].last THEN t + others[t].size = NumSegments
                  ELSE t + others[t].size < NumSegments /\ Busy(C, i, t + others[t].size)
                BY <1>2, <3>2, <3>3, <3>5
            <4>3. t + others[t].size <= NumSegments
                BY <1>2, <3>3
            <4>4. QED
                BY <3>2, <4>1, <4>2, <4>3 DEF FreeHeader
    <2>4. CASE t # s + n
        <3> DEFINE g == headers[t]
        <3>1. t = 0 \/ Busy(B, i, t - 1)
            BY <1>1, <1>6, <2>1, <2>2, <2>4
        <3>2. FreeHeader(g, B, i, t) /\ others[t] = g
            <4>1. t # s
                BY <1>1, <2>2
            <4>2. others[t] = g
                BY <2>4, <4>1
            <4>3. QED
                BY <2>2, <3>1, <4>2 DEF FreeStart, Describes
        <3>3. g.size \in 1 .. NumSegments
            BY DEF HeaderRecords
        <3>4. ASSUME NEW r \in t .. t + g.size - 1, r \in s .. s + n - 1 PROVE FALSE
            <4>1. t < s
                BY <1>1, <2>1, <2>2, <3>3, <3>4
            <4>2. Busy(B, i, s - 1)
                BY <1>1, <2>1, <4>1 DEF FreeStart
            <4>3. s - 1 \in t .. t + g.size - 1
                BY <1>1, <2>1, <3>3, <3>4, <4>1
            <4>4. QED
                BY <3>2, <4>2, <4>3 DEF FreeHeader
        <3>5. \A r \in t .. t + g.size - 1 : ~Busy(C, i, r)
            <4>1. \A r \in t .. t + g.size - 1 : r \in Int
                BY <2>1, <3>3
            <4>2. QED
                BY <1>6, <3>2, <3>4, <4>1 DEF FreeHeader
        <3>6. ~g.last => Busy(C, i, t + g.size)
            <4>1. t + g.size \in Int
                BY <2>1, <3>3
            <4>2. QED
                BY <1>6, <3>2, <4>1 DEF FreeHeader
        <3>7. QED
            BY <3>2, <3>5, <3>6 DEF FreeHeader
    <2>5. QED
        BY <2>3, <2>4
<1>10. (page.ovf <=> Spans(C, i)) /\ page.length = IF Spans(C, i) THEN 2 ELSE 1
    BY <1>7 DEF Describes
<1>11. QED
    BY <1>5, <1>8, <1>9, <1>10, Zenon DEF Describes

\* The last free segments of a page, and the first ones of the next page, become
\* one block: what the first of the two pages says ...
LEMMA RunSpanned ==
    ASSUME NEW B, Separate(B), NEW i \in Int, NEW s \in Segments, FreeStart(B, i, s),
           NEW headers \in [Segments -> HeaderRecords],
           NEW others \in [Segments -> HeaderRecords],
           NEW page, NEW data, Describes(headers, page, B, i), headers[s].last,
           NEW C, NEW new, C = B \cup {new}, Separate(C), new.cell = Cell(i, s),
           NEW over \in 1 .. NumSegments, s + new.len = NumSegments + over,
           IsHeader(others[s], over, TRUE, TRUE),
           \A t \in Segments \ {s} : others[t] = headers[t],
           data.ovf, data.length = 2
    PROVE  Describes(others, data, C, i)
<1> DEFINE h == headers[s]
<1>1. NumSegments \in Nat \ {0} /\ s \in Nat /\ s < NumSegments /\ h.size \in 1 .. NumSegments
    BY DirectMappingAssumption DEF Segments, HeaderRecords
<1>2. s + h.size = NumSegments /\ \A t \in s .. s + h.size - 1 : ~Busy(B, i, t)
    BY DEF Describes, FreeHeader
<1>3. /\ Cell(i, 0) \in Int /\ Cell(i, s) = Cell(i, 0) + s
      /\ Cell(i + 1, 0) = Cell(i, 0) + NumSegments
    <2>1. s \in Int
        BY <1>1
    <2>2. QED
        BY <2>1, CellSum
<1>4. new.len \in Nat \ {0} /\ new.len = (NumSegments - s) + over
    <2>1. new.len \in 1 .. NumSegments
        BY DEF Separate
    <2>2. QED
        BY <1>1, <2>1
<1>5. ASSUME NEW t \in Int, t < NumSegments PROVE Busy(C, i, t) <=> Busy(B, i, t) \/ t \in s .. NumSegments - 1
    <2>1. Cell(i, t) = Cell(i, 0) + t
        BY CellSum
    <2>2. Busy(C, i, t) <=> \E b \in C : b.cell <= Cell(i, t) /\ Cell(i, t) < b.cell + b.len
        BY BusyIn
    <2>3. Busy(B, i, t) <=> \E b \in B : b.cell <= Cell(i, t) /\ Cell(i, t) < b.cell + b.len
        BY BusyIn
    <2>4. (new.cell <= Cell(i, t) /\ Cell(i, t) < new.cell + new.len) <=> t \in s .. NumSegments - 1
        BY <1>1, <1>3, <1>4, <1>5, <2>1
    <2>5. QED
        BY <2>2, <2>3, <2>4
<1>6. Spans(C, i)
    BY <1>1, <1>3, <1>4 DEF Spans
<1>7. ASSUME NEW t \in Segments, NEW b \in C, b.cell = Cell(i, t)
      PROVE  BlockHeader(others[t], t, b.len)
    <2>1. t \in Nat /\ t < NumSegments /\ Cell(i, t) = Cell(i, 0) + t
        <3>1. t \in Nat /\ t < NumSegments
            BY <1>1 DEF Segments
        <3>2. QED
            BY <3>1, CellSum
    <2>2. CASE b = new
        <3>1. t = s
            BY <1>1, <1>3, <1>7, <2>1, <2>2
        <3>2. ~(s + b.len <= NumSegments) /\ s + b.len - NumSegments = over
            BY <1>1, <1>4, <2>2
        <3>3. QED
            BY <3>1, <3>2 DEF BlockHeader, IsHeader
    <2>3. CASE b \in B
        <3>1. Busy(B, i, t)
            <4>1. Starts(B, i, t)
                BY <1>7, <2>3 DEF Starts
            <4>2. QED
                BY <2>1, <4>1, BusyIn
        <3>2. t # s
            BY <1>1, <1>2, <3>1
        <3>3. others[t] = headers[t]
            BY <3>2
        <3>4. QED
            BY <1>7, <2>3, <3>3 DEF Describes
    <2>4. QED
        BY <2>2, <2>3
<1>8. ASSUME NEW t \in Segments, FreeStart(C, i, t) PROVE FreeHeader(others[t], C, i, t)
    <2> DEFINE g == headers[t]
    <2>1. t \in Nat /\ t < NumSegments
        BY <1>1 DEF Segments
    <2>2. ~Busy(C, i, t) /\ (t = 0 \/ Busy(C, i, t - 1))
        BY <1>8 DEF FreeStart
    <2>3. ~Busy(B, i, t) /\ t < s
        <3>1. t \in Int
            BY <2>1
        <3>2. ~(Busy(B, i, t) \/ t \in s .. NumSegments - 1)
            BY <1>5, <2>1, <2>2, <3>1
        <3>3. QED
            BY <1>1, <2>1, <3>2
    <2>4. t = 0 \/ Busy(B, i, t - 1)
        <3>1. t - 1 \in Int /\ t - 1 < NumSegments /\ t - 1 \notin s .. NumSegments - 1
            BY <1>1, <2>1, <2>3
        <3>2. Busy(C, i, t - 1) <=> Busy(B, i, t - 1) \/ t - 1 \in s .. NumSegments - 1
            BY ONLY <1>5, <3>1
        <3>3. QED
            BY <2>2, <3>1, <3>2
    <2>5. FreeHeader(g, B, i, t) /\ others[t] = g
        <3>1. t # s
            BY <1>1, <2>1, <2>3
        <3>2. others[t] = g
            BY <3>1
        <3>3. QED
            BY <2>3, <2>4, <3>2 DEF FreeStart, Describes
    <2>6. g.size \in 1 .. NumSegments
        BY DEF HeaderRecords
    <2>7. t + g.size - 1 < s
        <3>1. SUFFICES ASSUME t + g.size - 1 >= s PROVE FALSE
            BY <1>1, <2>1, <2>6
        <3>2. s - 1 \in t .. t + g.size - 1
            BY <1>1, <2>1, <2>3, <2>6, <3>1
        <3>3. Busy(B, i, s - 1)
            BY <1>1, <2>1, <2>3 DEF FreeStart
        <3>4. QED
            BY <2>5, <3>2, <3>3 DEF FreeHeader
    <2>8. \A r \in t .. t + g.size - 1 : ~Busy(C, i, r)
        <3>1. \A r \in t .. t + g.size - 1 : r \in Int /\ r < NumSegments /\ r \notin s .. NumSegments - 1
            BY <1>1, <2>1, <2>6, <2>7
        <3>2. QED
            BY <1>5, <2>5, <3>1 DEF FreeHeader
    <2>9. ~g.last /\ t + g.size < NumSegments /\ Busy(C, i, t + g.size)
        <3>1. t + g.size \in Int /\ t + g.size < NumSegments
            BY <1>1, <2>1, <2>6, <2>7
        <3>2. ~g.last /\ Busy(B, i, t + g.size)
            BY <2>5, <3>1 DEF FreeHeader
        <3>3. QED
            BY <1>5, <3>1, <3>2
    <2>10. QED
        BY <2>5, <2>8, <2>9 DEF FreeHeader
<1>9. (data.ovf <=> Spans(C, i)) /\ data.length = IF Spans(C, i) THEN 2 ELSE 1
    BY <1>6
<1>10. QED
    BY <1>7, <1>8, <1>9, Zenon DEF Describes

\* ... and what a page says that only one block uses: one that begins in it, or
\* before it.
LEMMA OneBlock ==
    ASSUME NEW C, Separate(C), NEW i \in Int, NEW b \in C, b.cell <= Cell(i, 0),
           NEW end \in 1 .. NumSegments, b.cell + b.len = Cell(i, end),
           \A c \in C : c = b \/ Elsewhere(c, i),
           NEW others, NEW data, ~data.ovf, data.length = 1,
           b.cell = Cell(i, 0) => IsHeader(others[0], end, TRUE, end = NumSegments),
           end < NumSegments => IsHeader(others[end], NumSegments - end, FALSE, TRUE)
    PROVE  Describes(others, data, C, i)
<1>1. NumSegments \in Nat \ {0} /\ end \in Nat \ {0} /\ end <= NumSegments
    BY DirectMappingAssumption
<1>2. /\ Cell(i, 0) \in Int /\ Cell(i + 1, 0) = Cell(i, 0) + NumSegments
      /\ Cell(i, end) = Cell(i, 0) + end
    <2>1. end \in Int
        BY <1>1
    <2>2. QED
        BY <2>1, CellSum
<1>3. \A c \in C : c.cell \in Int /\ c.len \in Int /\ c.len > 0
    BY <1>1 DEF Separate
<1>4. ASSUME NEW t \in Segments PROVE t \in Nat /\ t < NumSegments /\ Cell(i, t) = Cell(i, 0) + t
    <2>1. t \in Nat /\ t < NumSegments
        BY <1>1 DEF Segments
    <2>2. QED
        BY <2>1, CellSum
<1>5. ASSUME NEW t \in Segments PROVE Busy(C, i, t) <=> t < end
    <2>1. Busy(C, i, t) <=> \E c \in C : c.cell <= Cell(i, t) /\ Cell(i, t) < c.cell + c.len
        BY <1>4, BusyIn
    <2>2. (b.cell <= Cell(i, t) /\ Cell(i, t) < b.cell + b.len) <=> t < end
        BY <1>1, <1>2, <1>3, <1>4
    <2>3. \A c \in C : Elsewhere(c, i) => ~(c.cell <= Cell(i, t) /\ Cell(i, t) < c.cell + c.len)
        BY <1>1, <1>2, <1>3, <1>4 DEF Elsewhere
    <2>4. QED
        BY <2>1, <2>2, <2>3
<1>6. ~Spans(C, i)
    <2>1. ASSUME NEW c \in C PROVE ~(c.cell < Cell(i + 1, 0) /\ Cell(i + 1, 0) < c.cell + c.len)
        <3>1. CASE c = b
            BY <1>1, <1>2, <1>3, <3>1
        <3>2. CASE Elsewhere(c, i)
            BY <1>1, <1>2, <1>3, <3>2 DEF Elsewhere
        <3>3. QED
            BY <3>1, <3>2
    <2>2. QED
        BY <2>1 DEF Spans
<1>7. ASSUME NEW t \in Segments, NEW c \in C, c.cell = Cell(i, t)
      PROVE  BlockHeader(others[t], t, c.len)
    <2>1. c = b /\ t = 0
        BY <1>1, <1>2, <1>3, <1>4, <1>7 DEF Elsewhere
    <2>2. b.len = end
        BY <1>1, <1>2, <1>3, <1>4, <1>7, <2>1
    <2>3. b.cell = Cell(i, 0)
        BY <1>7, <2>1
    <2>4. QED
        BY <1>1, <2>1, <2>2, <2>3 DEF BlockHeader, IsHeader
<1>8. ASSUME NEW t \in Segments, FreeStart(C, i, t) PROVE FreeHeader(others[t], C, i, t)
    <2>1. ~(t < end) /\ (t = 0 \/ Busy(C, i, t - 1))
        BY <1>5, <1>8 DEF FreeStart
    <2>2. t = end
        <3>1. SUFFICES ASSUME t # end PROVE FALSE
            OBVIOUS
        <3>2. t - 1 \in Segments /\ ~(t - 1 < end) /\ t # 0
            BY <1>1, <1>4, <2>1, <3>1 DEF Segments
        <3>3. QED
            BY <1>5, <2>1, <3>2
    <2>3. others[t].size = NumSegments - end /\ ~others[t].occ /\ others[t].last
        BY <1>4, <2>2 DEF IsHeader
    <2>4. \A r \in t .. NumSegments - 1 : ~Busy(C, i, r)
        <3>1. \A r \in t .. NumSegments - 1 : r \in Segments /\ ~(r < end)
            BY <1>1, <1>4, <2>2 DEF Segments
        <3>2. QED
            BY <1>5, <3>1
    <2>5. t + others[t].size = NumSegments /\ t + others[t].size - 1 = NumSegments - 1
        BY <1>1, <2>2, <2>3
    <2>6. \A r \in t .. t + others[t].size - 1 : ~Busy(C, i, r)
        BY <2>4, <2>5
    <2>7. t + others[t].size <= NumSegments
        BY <1>1, <2>5
    <2>8. QED
        BY <2>3, <2>5, <2>6, <2>7 DEF FreeHeader
<1>9. (data.ovf <=> Spans(C, i)) /\ data.length = IF Spans(C, i) THEN 2 ELSE 1
    BY <1>6
<1>10. QED
    BY <1>7, <1>8, <1>9, Zenon DEF Describes

================================================================================
