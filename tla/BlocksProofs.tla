----------------------------- MODULE BlocksProofs -----------------------------
(***************************************************************************)
(* The blocks of the allocator, for every number of pages, segments,       *)
(* threads and blocks, in programs whose sizes are below a page, that do   *)
(* not allocate after they have freed, that store into a block only while  *)
(* the page of its thread lies there, and that free no pointer into a page *)
(* its thread sees elsewhere.  All pages of all threads and their segments *)
(* describe the blocks that the threads have: in every step of a call but  *)
(* those in which it moves a page, which are described with the block that *)
(* is about to be returned.  So blocks are disjoint and within the memory  *)
(* of their thread (BlocksApart), the pages of a block that is returned    *)
(* are where its address says (BlocksResident), free frees the block it is *)
(* asked for, or no such block exists (OnlyBlocksFreed), and a thread      *)
(* without blocks has given all its pages back (PagesReturned).            *)
(***************************************************************************)
EXTENDS AllocatorProofs

-----------------------------------------------------------------------------
(* What is asked of a program.  A block of a page or more takes page_allocate *)
(* through several pages, what a page table entry says of a page that was     *)
(* given back and taken by another thread is wrong (run stale_page), and      *)
(* what a thread stores into a block whose page another thread has moved      *)
(* falls on the headers of the page that lies there now (run displaced)       *)

\* A block takes one page, or the end of one and the beginning of the next.

SmallSizes == \A size \in Sizes : size < page_size

-----------------------------------------------------------------------------
(* The segments of all pages *)

\* The headers and the data of the page that thread p sees at index i.
Sheet(m, p, i) == [s \in Segments |-> m.headers[Cell(m.ht[p][i], s)]]
PageAt(m, p, i) == m.pages[m.ht[p][i]]

\* The pages that threads see describe the blocks they have.
Drawn(m, v, held) ==
    \A p \in Pids, i \in Pages :
        InView(v, p, i) => Describes(Sheet(m, p, i), PageAt(m, p, i), held[p], i)

\* Until a block is freed, a page's free segments are its last ones, ...
Stacked(v, held) ==
    \A p \in Pids, i \in Pages : InView(v, p, i) =>
        /\ Busy(held[p], i, 0)
        /\ \A s \in Segments : s # 0 /\ Busy(held[p], i, s) => Busy(held[p], i, s - 1)

\* ... and a page nobody has is as the first myallocate left it.
Fresh(m) ==
    \A page \in Pages :
        ~m.pages[page].occ => IsHeader(m.headers[Cell(page, 0)], NumSegments, FALSE, TRUE)

\* Pages in use are seen by their threads.
Owned(m, v) ==
    \A page \in Pages : LET data == m.pages[page] IN
        data.occ => /\ data.pid \in Pids /\ InView(v, data.pid, data.index)
                    /\ m.ht[data.pid][data.index] = page

\* Blocks lie in the memory that their thread sees.
Within(v, bs) ==
    \A p \in Pids : \A b \in bs[p] :
        Cell(v[p].first, 0) <= b.cell /\ b.cell + b.len <= Cell(v[p].last + 1, 0)

\* A thread that sees pages has blocks.
Snug(v, bs, but) ==
    \A p \in Pids \ but : v[p].first <= v[p].last => bs[p] # {}

\* A page that some thread sees at index i lies at i: its thread's own, or that of
\* another thread that sees memory there.
Settled(m, v, id, but) ==
    \A p \in Pids, i \in Pages :
        InView(v, p, i) => m.pages[i].index = i \/ (p = id /\ i \in but)

\* What the memory says of the blocks.
Layout(m, v, held, gave) ==
    /\ \A p \in Pids : Separate(held[p])
    /\ Drawn(m, v, held)
    /\ ~gave => Stacked(v, held) /\ Fresh(m)
    /\ Owned(m, v)

-----------------------------------------------------------------------------
(* The block that a call is about to give belongs to its thread as soon as   *)
(* page_allocate marks its first page                                        *)

InFlight ==
    CASE pc = "take" /\ loc.taken # << >> ->
            {[cell |-> Cell(mem.pages[loc.taken[1]].index, loc.seg), len |-> loc.segments]}
      [] pc = "place" -> {[cell |-> loc.cell, len |-> loc.segments]}
      [] OTHER -> {}
Held == [p \in Pids |-> IF p = loc.id THEN blocks[p] \cup InFlight ELSE blocks[p]]

\* The page taken last is not where its thread sees it yet.
Moving ==
    IF pc = "place" \/ (pc = "take" /\ loc.n = 0) THEN {view[loc.id].last} ELSE {}
Releasing == IF pc = "release" THEN {loc.id} ELSE {}

BlocksInv ==
    /\ Layout(mem, Seen, Held, freed)
    /\ Within(Seen, blocks)
    /\ Snug(Seen, Held, Releasing)
    /\ Settled(mem, Seen, loc.id, Moving)

Own == blocks[loc.id]

\* A walk is at a segment with a header that is read, or at a page that the block
\* before it fills.
WalkInv ==
    loc.pi <= loc.last =>
        /\ view[loc.id].first <= loc.pi
        /\ IF loc.si < NumSegments
           THEN /\ AtStart(Own, loc.pi, loc.si)
                /\ pc = "turn" => loc.si = 0 \/ Busy(Own, loc.pi, loc.si - 1)
           ELSE loc.si = NumSegments /\ loc.ovf = NumSegments /\ Fills(Own, loc.pi)

\* What a malloc asks for.
Asks == loc.size < page_size /\ loc.segments = loc.size \div SEGMENTSIZE + 1

\* The last segment of the thread's memory, as the search has seen it: if it is
\* free, it is too short.
LastSegment ==
    /\ loc.start_seg \in Segments
    /\ AtStart(Own, loc.last, loc.start_seg)
    /\ LET h == Sheet(mem, loc.id, loc.last)[loc.start_seg]
       IN  h.last /\ (h.occ \/ NumSegments - loc.start_seg < loc.segments)

\* segment_allocate: a run of free segments that is too short has ended with its
\* page, and a block begins the next one.
SearchInv ==
    /\ Asks
    /\ loc.first = view[loc.id].first
    /\ loc.contig # 0 => loc.si = 0
    /\ loc.start = Unassigned => loc.pi = loc.first
    /\ loc.start \in {Unassigned, NoIndex, loc.pi - 1}
    /\ IF loc.first <= loc.last
       THEN loc.pi <= loc.last + 1 /\ (loc.pi > loc.last => LastSegment)
       ELSE loc.pi = loc.first /\ loc.start_seg = NoSegment

PagesKnown ==
    /\ Asks
    /\ loc.first = view[loc.id].first /\ loc.last = view[loc.id].last
    /\ IF loc.first <= loc.last THEN LastSegment /\ loc.start \in {NoIndex, loc.last}
                                ELSE loc.start_seg = NoSegment

\* The page is the caller's, at index i.
IsAt(page, i) == page \in Pages /\ mem.pages[page].pid = loc.id /\ mem.pages[page].index = i

\* page_allocate: one page for the block, or a second one for the end of a block
\* that begins in the thread's last segments.
TakeKnown ==
    /\ loc.segments \in 1 .. NumSegments
    /\ loc.n \in {0, 1}
    /\ loc.free_page = NoPage => loc.n = 1 /\ Candidate = NoPage
    /\ IF loc.taken = << >>
       THEN loc.n = 1 /\ loc.seg = 0 /\ loc.last_len = loc.segments
       ELSE \E i \in Pages :
            /\ InView(Seen, loc.id, i) /\ IsAt(loc.taken[1], i)
            /\ IF loc.seg + loc.segments <= NumSegments
               THEN loc.n = 0 /\ Len(loc.taken) = 1 /\ i = view[loc.id].last
               ELSE /\ loc.seg + loc.segments = NumSegments + loc.last_len
                    /\ IF loc.n = 1
                       THEN Len(loc.taken) = 1 /\ i = view[loc.id].last /\ loc.pi = i + 1
                       ELSE /\ Len(loc.taken) = 2 /\ i + 1 = view[loc.id].last
                            /\ IsAt(loc.taken[2], i + 1) /\ loc.taken[2] > i

\* swap: the first of two pages does not lie where the second one goes.
PlaceKnown ==
    \E i \in Pages, s \in Segments :
        /\ InView(view, loc.id, i)
        /\ loc.cell = Cell(i, s) /\ loc.segments \in 1 .. NumSegments
        /\ IF s + loc.segments <= NumSegments
           THEN Len(loc.taken) = 1 /\ i = view[loc.id].last /\ IsAt(loc.taken[1], i)
           ELSE /\ Len(loc.taken) = 2 /\ i + 1 = view[loc.id].last
                /\ IsAt(loc.taken[2], i + 1) /\ loc.taken[2] > i
                /\ IF loc.i = 1 THEN IsAt(loc.taken[1], i) ELSE IsAt(i, i)

\* Where the pointer points, the thread has no page that it sees elsewhere.
Astray(p, cell) ==
    LET index == cell \div NumSegments
    IN  mem.pages[index].pid = p /\ mem.pages[index].index # index

\* free_ptr: the block is not behind the walk, and what the walk knows of the
\* segments before.
FreeKnown ==
    /\ ~Astray(loc.id, loc.cell)
    /\ \A b \in Own : b.cell = loc.cell => Cell(loc.pi, loc.si) <= b.cell
    /\ pc = "scan" =>
        /\ loc.pi <= loc.last /\ loc.at = mem.ht[loc.id][loc.pi]
        /\ loc.pi = SoughtPage => loc.at = loc.pi
        /\ IF loc.prev_free
           THEN \E s \in Segments :
                  /\ s < loc.si
                  /\ loc.prev = Cell(loc.at, s) /\ loc.prev_size = loc.si - s
                  /\ FreeStart(Own, loc.pi, s)
                  /\ \A t \in s .. loc.si - 1 : ~Busy(Own, loc.pi, t)
           ELSE loc.si = 0 \/ Busy(Own, loc.pi, loc.si - 1)

\* free_process_pages: whether a block begins before the walk, ...
Passed == \E b \in Own : b.cell < Cell(loc.pi, loc.si)

\* ... and where the free segments just before the walk begin.
ReleaseKnown ==
    /\ loc.first <= view[loc.id].first
    /\ loc.free_start # loc.first <=> Passed
    /\ loc.free_start = loc.first => view[loc.id].first = loc.pi
    /\ loc.free_start \notin {NoPage, loc.first} =>
          \A b \in Own : \/ b.cell + b.len <= Cell(loc.free_start, 0)
                         \/ Cell(loc.pi, loc.si) <= b.cell

BlocksKnown ==
    /\ BlocksInv
    /\ pc \in {"search", "turn", "scan", "release"} => WalkInv
    /\ pc = "search" => SearchInv
    /\ pc = "pages" => PagesKnown
    /\ pc = "take" => TakeKnown
    /\ pc = "place" => PlaceKnown
    /\ pc \in {"turn", "scan"} => FreeKnown
    /\ pc = "release" => ReleaseKnown

LayoutInv == halt = "none" /\ ~Doomed => BlocksKnown

-----------------------------------------------------------------------------
(* Steps on the pages *)

\* A cell tells its page and its segment.
LEMMA SameCell ==
    ASSUME NEW a \in Pages, NEW b \in Pages, NEW s \in Segments, NEW t \in Segments,
           Cell(a, s) = Cell(b, t)
    PROVE  a = b /\ s = t
BY CellPage DEF Segments

\* The page that a thread sees, and its headers.
LEMMA SheetType ==
    ASSUME NEW m \in Memory, NEW p \in Pids, NEW i \in Pages, m.ht[p][i] # NoPage
    PROVE  /\ m.ht[p][i] \in Pages
           /\ Sheet(m, p, i) \in [Segments -> HeaderRecords]
           /\ PageAt(m, p, i) \in PageRecords
           /\ \A s \in Segments : Cell(m.ht[p][i], s) \in Cells
<1>1. m.ht[p][i] \in Pages
    BY OwnerIds DEF Memory
<1>2. \A s \in Segments : Cell(m.ht[p][i], s) \in Cells
    BY <1>1, CellPage DEF Segments
<1>3. Sheet(m, p, i) \in [Segments -> HeaderRecords]
    BY <1>2 DEF Sheet, Memory
<1>4. PageAt(m, p, i) \in PageRecords
    BY <1>1 DEF PageAt, Memory
<1>5. QED
    BY <1>1, <1>2, <1>3, <1>4

\* What a thread sees at an index is found, and is that.
LEMMA SeenPage ==
    ASSUME NEW m \in Memory, NEW v, NEW gave, NEW used, PageMap(m, v, gave, used),
           NEW p \in Pids, NEW i \in Pages, InView(v, p, i)
    PROVE  /\ m.ht[p][i] # NoPage /\ m.ht[p][i] \in Pages
           /\ m.ht[p][i] < used /\ i < used
           /\ m.pages[m.ht[p][i]].occ
           /\ m.pages[m.ht[p][i]].pid = p /\ m.pages[m.ht[p][i]].index = i
           /\ \A q \in Pids, j \in Pages :
                 InView(v, q, j) /\ m.ht[q][j] = m.ht[p][i] => q = p /\ j = i
           /\ \A page \in Pages :
                 page < used /\ m.pages[page].pid = p /\ m.pages[page].index = i =>
                     m.ht[p][i] = page
<1>1. Mapped(m, v, used) /\ Unique(m, v, used)
    BY DEF PageMap
<1>2. m.ht[p][i] # NoPage /\ m.ht[p][i] < used /\ i < used
      /\ m.pages[m.ht[p][i]].occ
      /\ m.pages[m.ht[p][i]].pid = p /\ m.pages[m.ht[p][i]].index = i
    BY <1>1 DEF Mapped
<1>3. m.ht[p][i] \in Pages
    BY <1>2, SheetType
<1>4. \A q \in Pids, j \in Pages :
          InView(v, q, j) /\ m.ht[q][j] = m.ht[p][i] => q = p /\ j = i
    BY <1>1, <1>2 DEF Mapped
<1>5. \A page \in Pages :
          page < used /\ m.pages[page].pid = p /\ m.pages[page].index = i => m.ht[p][i] = page
    BY <1>1 DEF Unique
<1>6. QED
    BY <1>2, <1>3, <1>4, <1>5

\* swap moves a page's data and headers together.
LEMMA SwapSheet ==
    ASSUME NEW m \in Memory, NEW a \in Pages, NEW b \in Pages, NEW v, NEW gave, NEW used,
           a < used, b < used, PageMap(m, v, gave, used),
           NEW p \in Pids, NEW i \in Pages, InView(v, p, i)
    PROVE  /\ Sheet(swap(m, a, b), p, i) = Sheet(m, p, i)
           /\ PageAt(swap(m, a, b), p, i) = PageAt(m, p, i)
<1> DEFINE n == swap(m, a, b)
<1>1. /\ m.ht[p][i] # NoPage /\ m.ht[p][i] \in Pages /\ p \in Owners
      /\ m.pages[m.ht[p][i]].pid = p /\ m.pages[m.ht[p][i]].index = i
      /\ \A page \in Pages :
            page < used /\ m.pages[page].pid = p /\ m.pages[page].index = i => m.ht[p][i] = page
    BY SeenPage, OwnerIds
<1>2. ht_get(m, p, i) = m.ht[p][i] /\ ht_get(n, p, i) = n.ht[p][i]
    BY DEF ht_get
<1>3. Finds(m, p, i)
    BY <1>1, <1>2 DEF Finds
<1>4. \A page \in {a, b} : m.pages[page].pid = p /\ m.pages[page].index = i =>
                              page = ht_get(m, p, i)
    BY <1>1, <1>2
<1>5. /\ n.pages[ht_get(n, p, i)] = m.pages[ht_get(m, p, i)]
      /\ \A seg \in 0 .. NumSegments - 1 :
            n.headers[Cell(ht_get(n, p, i), seg)] = m.headers[Cell(ht_get(m, p, i), seg)]
    BY ONLY <1>1, <1>3, <1>4, SwapKeepsPages, m \in Memory, a \in Pages, b \in Pages, i \in Pages
<1>6. QED
    BY <1>2, <1>5 DEF Sheet, PageAt, Segments

\* What swap does to the page table.
LEMMA SwapTable ==
    ASSUME NEW m \in Memory, NEW a \in Pages, NEW b \in Pages, NEW p \in Owners, NEW i \in Pages
    PROVE  swap(m, a, b).ht[p][i] =
              IF a # b /\ m.pages[b].pid = p /\ m.pages[b].index = i THEN a
              ELSE IF a # b /\ m.pages[a].pid = p /\ m.pages[a].index = i THEN b
              ELSE m.ht[p][i]
<1>1. CASE a = b
    BY <1>1 DEF swap
<1>2. CASE a # b
    <2>1. swap(m, a, b).ht = SwapEntries(m, a, b).ht
        BY <1>2, EntriesSwapped DEF swap, Memory
    <2>2. QED
        BY <1>2, <2>1, EntriesSwapped
<1>3. QED
    BY <1>1, <1>2

\* After a swap, too, pages in use are seen by their threads.
LEMMA SwapOwned ==
    ASSUME NEW m \in Memory, NEW a \in Pages, NEW b \in Pages, NEW v, NEW gave, NEW used,
           a < used, b < used, PageMap(m, v, gave, used), Owned(m, v)
    PROVE  Owned(swap(m, a, b), v)
<1> DEFINE n == swap(m, a, b)
           from(page) == CASE page = a -> b [] page = b -> a [] OTHER -> page
<1> SUFFICES ASSUME NEW page \in Pages, n.pages[page].occ
             PROVE  /\ n.pages[page].pid \in Pids
                    /\ InView(v, n.pages[page].pid, n.pages[page].index)
                    /\ n.ht[n.pages[page].pid][n.pages[page].index] = page
    BY DEF Owned
<1> DEFINE p == n.pages[page].pid
           i == n.pages[page].index
<1>1. n.pages[page] = m.pages[from(page)] /\ from(page) \in Pages
    BY SwapMoves
<1>2. /\ m.pages[from(page)].occ /\ m.pages[from(page)].pid = p /\ m.pages[from(page)].index = i
    BY <1>1
<1>3. i \in Pages
    BY <1>1 DEF Memory, PageRecords
<1> HIDE DEF p, i
<1>4. p \in Pids /\ p \in Owners /\ InView(v, p, i) /\ m.ht[p][i] = from(page)
    BY <1>1, <1>2, OwnerIds DEF Owned
<1>5. \A x \in Pages : x < used /\ m.pages[x].pid = p /\ m.pages[x].index = i => m.ht[p][i] = x
    BY <1>3, <1>4, SeenPage
<1>6. n.ht[p][i] = page
    <2>1. n.ht[p][i] = IF a # b /\ m.pages[b].pid = p /\ m.pages[b].index = i THEN a
                       ELSE IF a # b /\ m.pages[a].pid = p /\ m.pages[a].index = i THEN b
                       ELSE m.ht[p][i]
        BY <1>3, <1>4, SwapTable
    <2> HIDE DEF n
    <2>2. QED
        BY <1>2, <1>4, <1>5, <2>1
<1>7. QED
    BY <1>4, <1>6 DEF p, i

\* A page that lies where it is seen stays there if one of two pages that change
\* places goes where it is seen.
LEMMA SwapStays ==
    ASSUME NEW m \in Memory, NEW a \in Pages, NEW b \in Pages,
           m.pages[a].index = b \/ m.pages[b].index = a
    PROVE  /\ \A i \in Pages : m.pages[i].index = i => swap(m, a, b).pages[i].index = i
           /\ swap(m, a, b).pages[b] = m.pages[a] /\ swap(m, a, b).pages[a] = m.pages[b]
           /\ \A i \in Pages \ {a, b} : swap(m, a, b).pages[i] = m.pages[i]
<1> DEFINE n == swap(m, a, b)
           from(page) == CASE page = a -> b [] page = b -> a [] OTHER -> page
<1>1. \A page \in Pages : n.pages[page] = m.pages[from(page)]
    BY SwapMoves
<1> HIDE DEF n
<1>2. n.pages[b] = m.pages[a] /\ n.pages[a] = m.pages[b]
    BY <1>1
<1>3. \A i \in Pages \ {a, b} : n.pages[i] = m.pages[i]
    BY <1>1
<1>4. \A i \in Pages : m.pages[i].index = i => n.pages[i].index = i
    BY <1>2, <1>3
<1>5. QED
    BY <1>2, <1>3, <1>4 DEF n

\* So the memory says the same of the blocks after a swap.
LEMMA SwapLayout ==
    ASSUME NEW m \in Memory, NEW a \in Pages, NEW b \in Pages, NEW v, NEW gave, NEW used,
           a < used, b < used, PageMap(m, v, gave, used),
           NEW held, Layout(m, v, held, gave)
    PROVE  Layout(swap(m, a, b), v, held, gave)
<1> DEFINE n == swap(m, a, b)
<1>1. Drawn(n, v, held)
    <2> SUFFICES ASSUME NEW p \in Pids, NEW i \in Pages, InView(v, p, i)
                 PROVE  Describes(Sheet(n, p, i), PageAt(n, p, i), held[p], i)
        BY DEF Drawn
    <2>1. Sheet(n, p, i) = Sheet(m, p, i) /\ PageAt(n, p, i) = PageAt(m, p, i)
        BY SwapSheet
    <2> HIDE DEF n
    <2>2. Describes(Sheet(m, p, i), PageAt(m, p, i), held[p], i)
        BY DEF Layout, Drawn
    <2>3. QED
        BY <2>1, <2>2
<1>2. ASSUME ~gave PROVE Fresh(n)
    <2>1. FirstFree(m, used) /\ Fresh(m)
        BY <1>2 DEF Layout, PageMap, Packed
    <2>2. m.pages[a].occ /\ m.pages[b].occ
        BY <2>1 DEF FirstFree
    <2>3. ASSUME NEW page \in Pages, ~n.pages[page].occ
          PROVE  IsHeader(n.headers[Cell(page, 0)], NumSegments, FALSE, TRUE)
        <3>1. 0 \in 0 .. NumSegments - 1
            BY DirectMappingAssumption
        <3> DEFINE from(x) == CASE x = a -> b [] x = b -> a [] OTHER -> x
        <3>2. /\ n.pages[page] = m.pages[from(page)]
              /\ n.headers[Cell(page, 0)] = m.headers[Cell(from(page), 0)]
            BY <3>1, SwapMoves
        <3> HIDE DEF n
        <3>3. from(page) = page /\ ~m.pages[page].occ
            BY <2>2, <2>3, <3>2
        <3>4. QED
            BY <2>1, <3>2, <3>3 DEF Fresh
    <2>4. QED
        BY <2>3 DEF Fresh
<1>3. Owned(n, v)
    BY SwapOwned DEF Layout
<1>4. QED
    BY <1>1, <1>2, <1>3 DEF Layout

\* Where a block ends, or a page that ends with free segments, something begins.
LEMMA BlockEnds ==
    ASSUME NEW B, Separate(B), NEW i \in Int, NEW t \in Int, NEW b \in B,
           b.cell + b.len = Cell(i, t)
    PROVE  AtStart(B, i, t) /\ Busy(B, i, t - 1)
<1>1. Cell(i, 0) \in Int /\ Cell(i, t) = Cell(i, 0) + t /\ Cell(i, t - 1) = Cell(i, 0) + (t - 1)
    <2>1. t - 1 \in Int
        OBVIOUS
    <2>2. QED
        BY <2>1, CellSum
<1>2. b.cell \in Nat /\ b.len \in Nat \ {0}
    BY DirectMappingAssumption DEF Separate
<1>3. Busy(B, i, t - 1)
    <2>1. b.cell <= Cell(i, t - 1) /\ Cell(i, t - 1) < b.cell + b.len
        BY <1>1, <1>2
    <2>2. t - 1 \in Int
        OBVIOUS
    <2>3. QED
        BY <2>1, <2>2, BusyIn
<1>4. CASE Busy(B, i, t)
    BY <1>3, <1>4, BlockBegins DEF AtStart
<1>5. CASE ~Busy(B, i, t)
    BY <1>3, <1>5 DEF AtStart, FreeStart
<1>6. QED
    BY <1>3, <1>4, <1>5

\* At the first segment of a page, behind a free one or before all blocks.
LEMMA PageBegins ==
    ASSUME NEW B, Separate(B), NEW i \in Int, ~Busy(B, i, 0 - 1)
    PROVE  AtStart(B, i, 0)
BY BlockBegins DEF AtStart, FreeStart

\* The position after the header h at segment s of the page seen at i.
PageAfter(h, i) == IF h.last THEN i + 1 ELSE i
SegmentAfter(h, page, s) ==
    CASE ~h.last -> s + h.size
      [] h.last /\ page.ovf -> h.size
      [] h.last /\ ~page.ovf -> 0

\* What a walk goes past is one block, or no block, and something begins after it.
LEMMA WalkOn ==
    ASSUME NEW B, Separate(B), NEW i \in Int, NEW s \in Segments, AtStart(B, i, s),
           NEW headers \in [Segments -> HeaderRecords], NEW page, Describes(headers, page, B, i),
           NEW h, h = headers[s]
    PROVE  LET j == PageAfter(h, i)
               t == SegmentAfter(h, page, s)
           IN  /\ h.occ <=> Starts(B, i, s)
               /\ ~h.occ => FreeStart(B, i, s)
               /\ h.last => page.length = IF page.ovf THEN 2 ELSE 1
               /\ h.size \in 1 .. NumSegments /\ t \in Nat /\ t <= NumSegments
               /\ Cell(j, t) = EndCell(h, page, i, s) /\ Cell(i, s) < Cell(j, t)
               /\ ~h.last => s + h.size < NumSegments
               /\ ~h.last /\ ~h.occ => Starts(B, i, s + h.size)
               /\ h.last /\ ~h.occ => ~page.ovf /\ s + h.size = NumSegments
               /\ \A b \in B : b.cell <= Cell(i, s) \/ Cell(j, t) <= b.cell
               /\ \A b \in B : b.cell = Cell(i, s) => h.occ /\ b.cell + b.len = Cell(j, t)
               /\ ~h.occ => \A b \in B : b.cell + b.len <= Cell(i, s) \/ Cell(j, t) <= b.cell
               /\ IF t < NumSegments
                  THEN AtStart(B, j, t) /\ (h.occ /\ t # 0 => Busy(B, j, t - 1))
                  ELSE t = NumSegments /\ h.last /\ page.ovf /\ Fills(B, j)
<1> DEFINE j == PageAfter(h, i)
           t == SegmentAfter(h, page, s)
<1>1. h \in HeaderRecords /\ h.size \in 1 .. NumSegments /\ NumSegments \in Nat \ {0}
      /\ s \in Nat /\ s < NumSegments
    BY DirectMappingAssumption DEF HeaderRecords, Segments
<1>2. Cell(j, t) = EndCell(h, page, i, s)
    BY DEF PageAfter, SegmentAfter, EndCell
<1>3. page.length = IF page.ovf THEN 2 ELSE 1
    BY DEF Describes
<1>4. /\ Cell(i, 0) \in Int /\ Cell(i, s) = Cell(i, 0) + s
      /\ Cell(i + 1, 0) = Cell(i, 0) + NumSegments
    BY <1>1, CellSum
<1>5. \A b \in B : b.cell \in Nat /\ b.len \in Nat \ {0} /\ b.len <= NumSegments
    BY <1>1 DEF Separate
<1>6. CASE Starts(B, i, s)
    <2>1. PICK b \in B : b.cell = Cell(i, s)
        BY <1>6 DEF Starts
    <2>2. /\ h.occ /\ EndCell(h, page, i, s) = b.cell + b.len
          /\ IF h.last THEN s + b.len >= NumSegments
                       ELSE h.size = b.len /\ s + h.size < NumSegments
        BY <2>1, AtBlock
    <2>3. t \in Nat /\ t <= NumSegments
        BY <1>1, <2>2 DEF SegmentAfter
    <2>4. Cell(j, t) = b.cell + b.len /\ Cell(i, s) < Cell(j, t)
        BY <1>2, <1>5, <2>1, <2>2
    <2>5. \A c \in B : c = b \/ c.cell + c.len <= b.cell \/ b.cell + b.len <= c.cell
        BY DEF Separate
    <2>6. \A c \in B : c.cell <= Cell(i, s) \/ Cell(j, t) <= c.cell
        BY <1>5, <2>1, <2>4, <2>5
    <2>7. \A c \in B : c.cell = Cell(i, s) => c.cell + c.len = Cell(j, t)
        BY <1>5, <2>1, <2>4, <2>5
    <2>8. j \in Int
        BY DEF PageAfter
    <2> HIDE DEF t, j
    <2>9. CASE t < NumSegments
        <3>1. AtStart(B, j, t) /\ Busy(B, j, t - 1)
            BY <2>3, <2>4, <2>8, BlockEnds
        <3>2. QED
            BY <1>1, <1>2, <1>3, <1>6, <2>2, <2>3, <2>4, <2>6, <2>7, <2>9, <3>1 DEF t, j
    <2>10. CASE ~(t < NumSegments)
        <3>1. t = NumSegments
            BY <1>1, <2>3, <2>10
        <3>2. h.last /\ page.ovf /\ j = i + 1
            BY <1>1, <2>2, <3>1 DEF t, j, SegmentAfter, PageAfter
        <3>3. Cell(j, t) = Cell(j + 1, 0) /\ Cell(i, s) < Cell(j, 0)
            <4>1. /\ Cell(j, 0) \in Int /\ Cell(j, NumSegments) = Cell(j, 0) + NumSegments
                  /\ Cell(j + 1, 0) = Cell(j, 0) + NumSegments
                <5>1. NumSegments \in Int
                    BY <1>1
                <5>2. QED
                    BY <2>8, <5>1, CellSum
            <4>2. QED
                BY <1>1, <1>4, <3>1, <3>2, <4>1
        <3>4. Fills(B, j)
            BY <2>1, <2>4, <3>3 DEF Fills
        <3>5. QED
            BY <1>1, <1>2, <1>3, <1>6, <2>2, <2>3, <2>4, <2>6, <2>7, <2>10, <3>1, <3>2, <3>4
               DEF t, j
    <2>11. QED
        BY <2>9, <2>10
<1>7. CASE ~Starts(B, i, s)
    <2>1. FreeStart(B, i, s)
        BY <1>7 DEF AtStart
    <2>2. /\ ~h.occ
          /\ s + h.size <= NumSegments
          /\ EndCell(h, page, i, s) = Cell(i, s + h.size)
          /\ \A x \in s .. s + h.size - 1 : ~Busy(B, i, x)
          /\ IF h.last THEN /\ s + h.size = NumSegments
                            /\ ~page.ovf /\ page.length = 1
                       ELSE s + h.size < NumSegments /\ Starts(B, i, s + h.size)
        BY <1>1, <2>1, AtFree
    <2>3. t \in Nat /\ t < NumSegments
        BY <1>1, <2>2 DEF SegmentAfter
    <2>4. Cell(i, s + h.size) = Cell(i, 0) + (s + h.size) /\ s + h.size \in Int
        <3>1. s + h.size \in Int
            BY <1>1
        <3>2. QED
            BY <3>1, CellSum
    <2>5. Cell(j, t) = Cell(i, s + h.size) /\ Cell(i, s) < Cell(j, t)
        BY <1>1, <1>2, <1>4, <2>2, <2>4
    <2>6. \A b \in B : b.cell + b.len <= Cell(i, s) \/ Cell(i, s + h.size) <= b.cell
        <3>1. s < s + h.size /\ \A x \in s .. (s + h.size) - 1 : ~Busy(B, i, x)
            BY <1>1, <2>2
        <3>2. s \in Int
            BY <1>1
        <3>3. QED
            BY ONLY <2>4, <3>1, <3>2, FreeRun, Separate(B), i \in Int
    <2>7. \A b \in B : b.cell # Cell(i, s)
        BY <1>7 DEF Starts
    <2>8. AtStart(B, j, t)
        <3>1. CASE ~h.last
            BY <2>2, <3>1 DEF PageAfter, SegmentAfter, AtStart
        <3>2. CASE h.last
            <4>1. j = i + 1 /\ t = 0
                BY <2>2, <3>2 DEF PageAfter, SegmentAfter
            <4>2. Cell(i + 1, 0 - 1) = Cell(i, NumSegments - 1)
                <5>1. NumSegments - 1 \in Int
                    BY <1>1
                <5>2. Cell(i, NumSegments - 1) = Cell(i, 0) + (NumSegments - 1)
                    BY <5>1, CellSum
                <5>3. Cell(i + 1, 0 - 1) = Cell(i + 1, 0) + (0 - 1)
                    BY CellSum
                <5>4. QED
                    BY <1>1, <1>4, <5>2, <5>3
            <4>3. ~Busy(B, i, NumSegments - 1)
                <5>1. NumSegments - 1 \in s .. s + h.size - 1
                    BY <1>1, <2>2, <3>2
                <5>2. QED
                    BY <2>2, <5>1
            <4>4. ~Busy(B, i + 1, 0 - 1)
                BY <4>2, <4>3 DEF Busy
            <4>5. QED
                BY <4>1, <4>4, PageBegins
        <3>3. QED
            BY <3>1, <3>2
    <2> HIDE DEF t, j
    <2>9. \A b \in B : b.cell + b.len <= Cell(i, s) \/ Cell(j, t) <= b.cell
        BY <2>5, <2>6
    <2>10. \A b \in B : b.cell <= Cell(i, s) \/ Cell(j, t) <= b.cell
        BY <1>1, <1>4, <1>5, <2>9
    <2>11. /\ h.occ <=> Starts(B, i, s)
           /\ h.last => page.length = IF page.ovf THEN 2 ELSE 1
           /\ ~h.last => s + h.size < NumSegments
           /\ ~h.last /\ ~h.occ => Starts(B, i, s + h.size)
           /\ h.last /\ ~h.occ => ~page.ovf /\ s + h.size = NumSegments
        BY <1>3, <1>7, <2>2
    <2>12. QED
        BY <1>1, <1>2, <2>1, <2>2, <2>3, <2>5, <2>7, <2>8, <2>9, <2>10, <2>11 DEF t, j
<1>8. QED
    BY <1>6, <1>7

\* What is read of a header just written.
LEMMA HeaderParts ==
    ASSUME NEW size \in 1 .. NumSegments, NEW occ \in BOOLEAN, NEW last \in BOOLEAN
    PROVE  IsHeader(Header(size, occ, last), size, occ, last)
<1>1. Header(size, occ, last) = [occ |-> occ, last |-> last, size |-> size]
    BY HeaderRoundTrip
<1>2. QED
    BY <1>1 DEF IsHeader

-----------------------------------------------------------------------------
(* The blocks, outside page_allocate *)

\* Between the steps of page_allocate, threads have the blocks they got and see
\* what their view says.
LEMMA Calm ==
    ASSUME TypeInv, pc \notin {"take", "place"}
    PROVE  Seen = view /\ Held = blocks /\ Moving = {}
<1>1. Seen = view /\ Moving = {} /\ InFlight = {}
    BY DEF Seen, AwaitsFirst, Moving, InFlight
<1>2. blocks \in [Pids -> SUBSET Blocks]
    BY DEF TypeInv
<1>3. \A p \in Pids : (IF p = loc.id THEN blocks[p] \cup InFlight ELSE blocks[p]) = blocks[p]
    BY <1>1
<1>4. Held = blocks
    BY <1>2, <1>3 DEF Held
<1>5. QED
    BY <1>1, <1>4

\* The same of the state after a step.
LEMMA CalmAfter ==
    ASSUME TypeInv', pc' \notin {"take", "place"}
    PROVE  Seen' = view' /\ Held' = blocks' /\ Moving' = {} /\ ~Doomed'
<1>1. Seen' = view' /\ Moving' = {} /\ InFlight' = {} /\ ~Doomed'
    BY DEF Seen, AwaitsFirst, Moving, InFlight, Doomed
<1>2. blocks' \in [Pids -> SUBSET Blocks]
    BY DEF TypeInv
<1>3. \A p \in Pids : (IF p = loc'.id THEN blocks'[p] \cup InFlight' ELSE blocks'[p]) = blocks'[p]
    BY <1>1
<1>4. Held' = blocks'
    BY <1>2, <1>3 DEF Held
<1>5. QED
    BY <1>1, <1>4

\* So that the invariant says this of them.
LEMMA CalmBlocks ==
    ASSUME TypeInv, BlocksInv, pc \notin {"take", "place"}
    PROVE  /\ Layout(mem, view, blocks, freed) /\ Within(view, blocks)
           /\ Snug(view, blocks, Releasing) /\ \A id : Settled(mem, view, id, {})
<1>1. Seen = view /\ Held = blocks /\ Moving = {}
    BY Calm
<1>2. QED
    BY <1>1 DEF BlocksInv, Settled

\* A step keeps it, outside page_allocate.
LEMMA BlocksAfter ==
    ASSUME TypeInv', pc' \notin {"take", "place"},
           Layout(mem', view', blocks', freed'), Within(view', blocks'),
           Snug(view', blocks', Releasing'), Settled(mem', view', loc'.id, {})
    PROVE  BlocksInv'
<1>1. Seen' = view' /\ Held' = blocks' /\ Moving' = {}
    BY CalmAfter
<1>2. QED
    BY <1>1 DEF BlocksInv

\* A step of a walk changes nothing else.
LEMMA QuietBlocks ==
    ASSUME TypeInv, TypeInv', BlocksInv, UNCHANGED << mem, view, blocks, freed >>,
           pc \notin {"take", "place"}, pc' \notin {"take", "place"}, Releasing' = Releasing
    PROVE  BlocksInv'
<1>1. /\ Layout(mem, view, blocks, freed) /\ Within(view, blocks)
      /\ Snug(view, blocks, Releasing) /\ \A id : Settled(mem, view, id, {})
    BY CalmBlocks
<1>2. /\ Layout(mem', view', blocks', freed') /\ Within(view', blocks')
      /\ Snug(view', blocks', Releasing') /\ Settled(mem', view', loc'.id, {})
    BY <1>1
<1>3. QED
    BY <1>2, BlocksAfter

\* A walk starts at the first page of the thread's memory.
LEMMA WalkStarts ==
    ASSUME NEW v \in [Pids -> Views], NEW bs, NEW p \in Pids, Separate(bs[p]), Within(v, bs)
    PROVE  /\ v[p].first \in Int /\ AtStart(bs[p], v[p].first, 0)
           /\ \A b \in bs[p] : Cell(v[p].first, 0) <= b.cell
<1> DEFINE first == v[p].first
<1>1. first \in Int
    BY Parameters DEF Views, NoPage
<1>2. \A b \in bs[p] : Cell(first, 0) <= b.cell
    BY DEF Within
<1> HIDE DEF first
<1>3. ~Busy(bs[p], first, 0 - 1)
    <2>1. Cell(first, 0) \in Int /\ Cell(first, 0 - 1) = Cell(first, 0) + (0 - 1)
        BY <1>1, CellSum
    <2>2. ~\E b \in bs[p] : b.cell <= Cell(first, 0 - 1) /\ Cell(first, 0 - 1) < b.cell + b.len
        <3>1. \A b \in bs[p] : b.cell \in Int
            BY DEF Separate
        <3>2. QED
            BY <1>2, <2>1, <3>1
    <2>3. QED
        BY <1>1, <2>2, BusyIn
<1>4. AtStart(bs[p], first, 0)
    BY <1>1, <1>3, PageBegins
<1>5. QED
    BY <1>1, <1>2, <1>4 DEF first

\* At first nobody has blocks.
LEMMA FirstBlocks == Init => LayoutInv
<1> SUFFICES ASSUME Init PROVE LayoutInv
    OBVIOUS
<1>1. TypeInv /\ pc = "idle" /\ freed = FALSE /\ loc.id = 0
    BY InitTypes DEF Init, NoCall
<1>2. Seen = view /\ Held = blocks /\ Moving = {}
    BY <1>1, Calm
<1>3. \A p \in Pids : blocks[p] = {} /\ view[p] = NoView
    BY DEF Init
<1>4. \A p \in Pids, i \in Pages : ~InView(view, p, i)
    <2>1. \A p \in Pids : view[p].last = 0 - 1
        BY <1>3 DEF NoView
    <2>2. \A i \in Pages : i \in Nat
        BY PageNumbers
    <2>3. QED
        BY <2>1, <2>2 DEF InView
<1>5. \A page \in Pages : ~mem.pages[page].occ
    <2>1. \A page \in Pages : mem.pages[page] = Released(0, page)
        BY DEF Init
    <2>2. \A page \in Pages : Released(0, page).occ = FALSE
        <3> TAKE page \in Pages
        <3>1. 0 \in Owners /\ 1 \in 1 .. NumPages
            BY OwnerIds, Parameters
        <3>2. Released(0, page) = [pid |-> 0, occ |-> FALSE, ovf |-> FALSE, index |-> page, length |-> 1]
            BY <3>1, PagedataType DEF Released
        <3>3. QED
            BY <3>2
    <2>3. QED
        BY <2>1, <2>2
<1>6. Fresh(mem)
    <2>1. \A c \in Cells : mem.headers[c] = Header(NumSegments, FALSE, TRUE)
        BY DEF Init
    <2>2. IsHeader(Header(NumSegments, FALSE, TRUE), NumSegments, FALSE, TRUE)
        <3>1. NumSegments \in 1 .. NumSegments
            BY Parameters
        <3>2. QED
            BY <3>1, HeaderParts
    <2>3. \A page \in Pages : Cell(page, 0) \in Cells
        BY CellPage, Parameters
    <2>4. QED
        BY <2>1, <2>2, <2>3 DEF Fresh
<1>7. Layout(mem, view, blocks, freed)
    <2>1. \A p \in Pids : Separate(blocks[p])
        BY <1>3 DEF Separate
    <2>2. QED
        BY <1>4, <1>5, <1>6, <2>1 DEF Layout, Drawn, Stacked, Owned
<1>8. Within(view, blocks) /\ Settled(mem, view, loc.id, {})
    BY <1>3, <1>4 DEF Within, Settled
<1>9. Snug(view, blocks, Releasing)
    BY <1>3, Parameters DEF Snug, NoView
<1>10. BlocksInv
    BY <1>2, <1>7, <1>8, <1>9 DEF BlocksInv
<1>11. QED
    BY <1>1, <1>10 DEF LayoutInv, BlocksKnown

\* myallocate begins.
LEMMA MallocBlocks ==
    ASSUME ~ReusesMemory, SmallSizes, TypeInv, TypeInv', PagesInv, BlocksKnown,
           NEW p \in Pids, NEW size \in Sizes, Malloc(p, size)
    PROVE  LayoutInv'
<1>1. /\ pc = "idle" /\ pc' = "search" /\ ~freed /\ UNCHANGED << mem, view, blocks, freed >>
      /\ loc' = [id |-> p, size |-> size, segments |-> size \div SEGMENTSIZE + 1,
                 first |-> view[p].first, last |-> view[p].last,
                 free_page |-> LeastFree, num_free |-> Cardinality(FreePages),
                 pi |-> view[p].first, si |-> 0, ovf |-> 0,
                 contig |-> 0, start |-> Unassigned, start_seg |-> NoSegment]
    BY DEF Malloc, At
<1>2. /\ loc'.id = p /\ loc'.size = size /\ loc'.segments = size \div SEGMENTSIZE + 1
      /\ loc'.first = view[p].first /\ loc'.last = view[p].last /\ loc'.pi = view[p].first
      /\ loc'.si = 0 /\ loc'.contig = 0 /\ loc'.start = Unassigned /\ loc'.start_seg = NoSegment
    BY <1>1
<1>3. /\ Layout(mem, view, blocks, freed) /\ Within(view, blocks)
    BY <1>1, CalmBlocks DEF BlocksKnown
<1>4. BlocksInv'
    BY <1>1, QuietBlocks DEF BlocksKnown, Releasing
<1>5. view[p].first \in Int /\ AtStart(blocks[p], view[p].first, 0) /\ view[p].last \in Int
    <2>1. view \in [Pids -> Views] /\ Separate(blocks[p])
        BY <1>3 DEF TypeInv, Layout
    <2>2. QED
        BY <1>3, <2>1, WalkStarts, Parameters DEF Views, NoPage
<1>6. Asks'
    BY <1>2 DEF Asks, SmallSizes
<1>7. WalkInv'
    BY <1>1, <1>2, <1>5, Parameters DEF WalkInv, Own
<1>8. SearchInv'
    BY <1>1, <1>2, <1>5, <1>6 DEF SearchInv
<1>9. QED
    BY <1>1, <1>4, <1>7, <1>8 DEF LayoutInv, BlocksKnown

-----------------------------------------------------------------------------
(* The walks *)

\* How a walk goes past the header h.
LEMMA AdvanceTo ==
    ASSUME NEW h \in HeaderRecords, NEW page \in PageRecords,
           loc \in MallocCalls \/ loc \in FreeCalls \/ loc \in ReleaseCalls,
           loc.si < NumSegments,
           h.last => page.length = IF page.ovf THEN 2 ELSE 1,
           ~h.last => loc.si + h.size < NumSegments
    PROVE  LET next == Advance(page, Overflow(h, page), Length(h))
           IN  /\ next.pi = PageAfter(h, loc.pi) /\ next.si = SegmentAfter(h, page, loc.si)
               /\ h.last /\ page.ovf => next.ovf = h.size
               /\ loc \in MallocCalls =>
                     /\ next \in MallocCalls
                     /\ next.size = loc.size /\ next.segments = loc.segments
                     /\ next.first = loc.first /\ next.last = loc.last /\ next.id = loc.id
<1> DEFINE len == Length(h)
           ovf == Overflow(h, page)
           next == Advance(page, ovf, len)
<1>1. /\ loc.si \in Nat /\ loc.ovf \in Nat /\ loc.pi \in Int
      /\ h.size \in 1 .. NumSegments /\ NumSegments \in Nat
    BY Parameters DEF MallocCalls, FreeCalls, ReleaseCalls, HeaderRecords
<1>2. len = IF h.last THEN NumSegments - loc.si ELSE h.size
    BY DEF Length
<1>3. ovf = IF h.last THEN IF page.ovf THEN h.size ELSE 0 ELSE loc.ovf
    BY DEF Overflow
<1>4. loc.si + len < NumSegments <=> ~h.last
    BY <1>1, <1>2
<1>8. loc \in MallocCalls =>
                     /\ next \in MallocCalls
                     /\ next.segments = loc.segments
                     /\ next.first = loc.first /\ next.last = loc.last /\ next.id = loc.id
    <2>1. ovf \in Nat /\ len \in 1 .. NumSegments
        BY <1>1, <1>2, <1>3
    <2> HIDE DEF len, ovf
    <2>2. QED
        BY <2>1, AdvanceMalloc
<1>5. CASE ~h.last
    <2>1. next = [loc EXCEPT !.ovf = ovf, !.si = @ + len]
        BY <1>4, <1>5 DEF Advance
    <2>2. len = h.size
        BY <1>2, <1>5
    <2> HIDE DEF next, len, ovf
    <2>3. next.pi = loc.pi /\ next.si = loc.si + h.size
        BY <2>1, <2>2 DEF MallocCalls, FreeCalls, ReleaseCalls
    <2>4. ovf \in Nat /\ len \in Nat
        BY <1>1, <1>3, <1>5, <2>2
    <2>5. loc \in MallocCalls =>
                     /\ next \in MallocCalls
                     /\ next.size = loc.size /\ next.segments = loc.segments
                     /\ next.first = loc.first /\ next.last = loc.last /\ next.id = loc.id
        <3>1. loc \in MallocCalls => next.size = loc.size
            BY <2>1 DEF MallocCalls
        <3>2. QED
            BY <1>8, <3>1
    <2>6. QED
        BY <1>5, <2>3, <2>5 DEF PageAfter, SegmentAfter, next, ovf, len
<1>6. CASE h.last
    <2>1. next = [loc EXCEPT !.ovf = ovf, !.si = ovf,
                             !.pi = IF ovf # 0 THEN @ + page.length - 1 ELSE @ + 1]
        BY <1>4, <1>6 DEF Advance, NextPage
    <2>2. ovf = IF page.ovf THEN h.size ELSE 0
        BY <1>3, <1>6
    <2> HIDE DEF next, len, ovf
    <2>3. (IF ovf # 0 THEN loc.pi + page.length - 1 ELSE loc.pi + 1) = loc.pi + 1
        <3>1. page.length = IF page.ovf THEN 2 ELSE 1
            BY <1>6
        <3>2. QED
            BY <1>1, <2>2, <3>1
    <2>4. next = [loc EXCEPT !.ovf = ovf, !.si = ovf, !.pi = loc.pi + 1]
        BY <2>1, <2>3 DEF MallocCalls, FreeCalls, ReleaseCalls
    <2>5. next.pi = loc.pi + 1 /\ next.si = ovf /\ next.ovf = ovf
        BY <2>4 DEF MallocCalls, FreeCalls, ReleaseCalls
    <2>6. ovf \in Nat /\ loc.pi + 1 \in Int
        BY <1>1, <2>2
    <2>7. loc \in MallocCalls =>
                     /\ next \in MallocCalls
                     /\ next.size = loc.size /\ next.segments = loc.segments
                     /\ next.first = loc.first /\ next.last = loc.last /\ next.id = loc.id
        <3>1. loc \in MallocCalls => next.size = loc.size
            BY <2>4 DEF MallocCalls
        <3>2. QED
            BY <1>8, <3>1
    <2>8. QED
        BY <1>6, <2>2, <2>5, <2>7 DEF PageAfter, SegmentAfter, next, ovf, len
<1>7. QED
    BY <1>5, <1>6

\* What a walk looks at.
LEMMA WalkHeader ==
    ASSUME TypeInv, PagesInv, BlocksKnown, pc \in {"search", "release"}, loc.pi <= loc.last,
           Actual # NoPage, loc.si < NumSegments
    PROVE  /\ loc.id \in Pids /\ loc.pi \in Pages /\ loc.si \in Segments
           /\ Actual \in Pages /\ Actual = mem.ht[loc.id][loc.pi]
           /\ InView(view, loc.id, loc.pi)
           /\ Separate(Own) /\ AtStart(Own, loc.pi, loc.si)
           /\ Sheet(mem, loc.id, loc.pi) \in [Segments -> HeaderRecords]
           /\ mem.pages[Actual] \in PageRecords
           /\ Describes(Sheet(mem, loc.id, loc.pi), mem.pages[Actual], Own, loc.pi)
           /\ Here = Sheet(mem, loc.id, loc.pi)[loc.si] /\ Here \in HeaderRecords
<1>1. /\ loc.id \in Pids /\ loc.pi \in Pages /\ Actual \in Pages
      /\ Actual = mem.ht[loc.id][loc.pi] /\ InView(view, loc.id, loc.pi)
    BY WalkMap
<1>2. mem \in Memory /\ loc.si \in Segments
    BY Parameters DEF TypeInv, CallOK, MallocCalls, ReleaseCalls, Segments
<1>3. Layout(mem, view, blocks, freed)
    BY CalmBlocks DEF BlocksKnown
<1>4. /\ Sheet(mem, loc.id, loc.pi) \in [Segments -> HeaderRecords]
      /\ PageAt(mem, loc.id, loc.pi) \in PageRecords
    <2>1. mem.ht[loc.id][loc.pi] # NoPage
        BY <1>1
    <2>2. QED
        BY <1>1, <1>2, <2>1, SheetType
<1>5. PageAt(mem, loc.id, loc.pi) = mem.pages[Actual]
    BY <1>1 DEF PageAt
<1>6. Separate(Own) /\ Describes(Sheet(mem, loc.id, loc.pi), mem.pages[Actual], Own, loc.pi)
    BY <1>1, <1>3, <1>5 DEF Layout, Drawn, Own
<1>7. AtStart(Own, loc.pi, loc.si)
    BY DEF BlocksKnown, WalkInv
<1>8. Here = Sheet(mem, loc.id, loc.pi)[loc.si]
    BY <1>1, <1>2 DEF Here, Sheet
<1>9. QED
    BY <1>1, <1>2, <1>4, <1>5, <1>6, <1>7, <1>8

\* A walk goes on to where something begins, or to a page that the block it goes
\* past fills.
LEMMA WalkPast ==
    ASSUME NEW B, Separate(B), NEW i \in Int, NEW s \in Segments, AtStart(B, i, s),
           NEW headers \in [Segments -> HeaderRecords], NEW page, Describes(headers, page, B, i),
           NEW h, h = headers[s],
           loc'.pi = PageAfter(h, i), loc'.si = SegmentAfter(h, page, s),
           h.last /\ page.ovf => loc'.ovf = h.size,
           Own' = B, view'[loc'.id].first <= loc'.pi, pc' = "turn" => h.last
    PROVE  WalkInv'
<1> DEFINE j == PageAfter(h, i)
           t == SegmentAfter(h, page, s)
<1>1. IF t < NumSegments
      THEN AtStart(B, j, t) /\ (h.occ /\ t # 0 => Busy(B, j, t - 1))
      ELSE t = NumSegments /\ h.last /\ page.ovf /\ Fills(B, j)
    BY ONLY WalkOn, Separate(B), i \in Int, s \in Segments, AtStart(B, i, s),
            headers \in [Segments -> HeaderRecords], Describes(headers, page, B, i), h = headers[s]
<1>2. h.last /\ ~h.occ => t = 0
    <2>1. h.last /\ ~h.occ => ~page.ovf
        BY ONLY WalkOn, Separate(B), i \in Int, s \in Segments, AtStart(B, i, s),
            headers \in [Segments -> HeaderRecords], Describes(headers, page, B, i), h = headers[s]
    <2>2. QED
        BY <2>1 DEF SegmentAfter
<1>3. h.last /\ page.ovf => t = h.size
    BY DEF SegmentAfter
<1> HIDE DEF j, t
<1>4. loc'.pi = j /\ loc'.si = t
    BY DEF j, t
<1>5. QED
    BY <1>1, <1>2, <1>3, <1>4 DEF WalkInv

-----------------------------------------------------------------------------
(* Steps on the blocks *)

\* Only the pages in A change, their data and their headers.
SameElsewhere(m, n, A) ==
    /\ \A page \in Pages \ A : n.pages[page] = m.pages[page]
    /\ \A c \in Cells : c \div NumSegments \in A \/ n.headers[c] = m.headers[c]

\* The page seen at i has segments of the same blocks in B and C.
SameAt(B, C, i) ==
    /\ \A b \in B : b \in C \/ Elsewhere(b, i)
    /\ \A b \in C : b \in B \/ Elsewhere(b, i)

\* The blocks of thread p change from held to next, and the pages in A, which it
\* sees at the indexes in S: these are as its blocks are, ...
Redraws(m, n, v, w, held, next, p, S, A) ==
    /\ \A q \in Pids : Separate(held[q]) /\ Separate(next[q])
    /\ SameElsewhere(m, n, A)
    /\ \A q \in Pids, j \in Pages : InView(w, q, j) /\ ~(q = p /\ j \in S) =>
          InView(v, q, j) /\ m.ht[q][j] \in Pages \ A /\ n.ht[q][j] = m.ht[q][j]
    /\ \A q \in Pids : q # p => next[q] = held[q]
    /\ \A j \in Pages : InView(w, p, j) /\ j \notin S => SameAt(held[p], next[p], j)
    /\ \A j \in Pages : InView(w, p, j) /\ j \in S =>
          Describes(Sheet(n, p, j), PageAt(n, p, j), next[p], j)

\* ... and hence all are.
LEMMA Redrawn ==
    ASSUME NEW m \in Memory, NEW n \in Memory, NEW v, NEW w, NEW held, NEW next,
           NEW p, NEW S, NEW A, Drawn(m, v, held), Redraws(m, n, v, w, held, next, p, S, A)
    PROVE  Drawn(n, w, next)
<1> SUFFICES ASSUME NEW q \in Pids, NEW j \in Pages, InView(w, q, j)
             PROVE  Describes(Sheet(n, q, j), PageAt(n, q, j), next[q], j)
    BY DEF Drawn
<1>1. CASE q = p /\ j \in S
    BY <1>1 DEF Redraws
<1>2. CASE ~(q = p /\ j \in S)
    <2> DEFINE a == m.ht[q][j]
    <2>1. InView(v, q, j) /\ a \in Pages \ A /\ n.ht[q][j] = a
        BY <1>2 DEF Redraws
    <2>2. a # NoPage
        BY <2>1, PageNumbers
    <2>3. Sheet(m, q, j) \in [Segments -> HeaderRecords]
        BY <2>2, SheetType
    <2>4. Describes(Sheet(m, q, j), PageAt(m, q, j), held[q], j)
        BY <2>1 DEF Drawn
    <2>5. PageAt(n, q, j) = PageAt(m, q, j)
        BY <2>1 DEF PageAt, SameElsewhere, Redraws
    <2>6. Sheet(n, q, j) = Sheet(m, q, j)
        <3> HIDE DEF a
        <3>1. \A s \in Segments : n.headers[Cell(a, s)] = m.headers[Cell(a, s)]
            BY <2>1, CellPage DEF SameElsewhere, Segments, Redraws
        <3>2. n.ht[q][j] = a /\ m.ht[q][j] = a
            BY <2>1 DEF a
        <3>3. QED
            BY <3>1, <3>2 DEF Sheet
    <2>7. SameAt(held[q], next[q], j)
        <3>1. CASE q = p
            BY <1>2, <3>1 DEF Redraws
        <3>2. CASE q # p
            BY <3>2 DEF SameAt, Redraws
        <3>3. QED
            BY <3>1, <3>2
    <2>8. Describes(Sheet(m, q, j), PageAt(m, q, j), next[q], j)
        <3>1. j \in Int /\ Separate(held[q]) /\ Separate(next[q])
            BY PageNumbers DEF Redraws
        <3>2. /\ \A b \in held[q] : b \in next[q] \/ Elsewhere(b, j)
              /\ \A b \in next[q] : b \in held[q] \/ Elsewhere(b, j)
            BY <2>7 DEF SameAt
        <3>3. QED
            BY ONLY <2>3, <2>4, <3>1, <3>2, StillDescribes
    <2>9. QED
        BY <2>5, <2>6, <2>8
<1>3. QED
    BY <1>1, <1>2

\* The pages that a block is in lie where its thread sees them.
LiesAt(m, p, b) == \A cell \in CellsOf(b) :
    LET page == m.pages[cell \div NumSegments]
    IN  page.occ /\ page.pid = p /\ page.index = cell \div NumSegments

\* A program that stores into a block where the page of its thread lies writes
\* over no header that is read.
LEMMA StoredLayout ==
    ASSUME NEW m \in Memory, NEW n \in Memory, NEW v, NEW gave, NEW used,
           PageMap(m, v, gave, used), NEW held, Layout(m, v, held, gave),
           NEW p \in Pids, NEW b \in held[p], NEW cell \in Cells,
           b.cell < cell, cell < b.cell + b.len,
           m.pages[cell \div NumSegments].occ, m.pages[cell \div NumSegments].pid = p,
           m.pages[cell \div NumSegments].index = cell \div NumSegments,
           n.pages = m.pages, n.ht = m.ht,
           \A c \in Cells : c = cell \/ n.headers[c] = m.headers[c]
    PROVE  Layout(n, v, held, gave)
<1>1. ASSUME NEW q \in Pids, NEW j \in Pages, InView(v, q, j), NEW s \in Segments,
             Sheet(n, q, j)[s] # Sheet(m, q, j)[s]
      PROVE  ~AtStart(held[q], j, s)
    <2> DEFINE a == m.ht[q][j]
    <2>1. a \in Pages /\ m.pages[a].pid = q /\ m.pages[a].index = j
        BY <1>1, SeenPage
    <2>2. Cell(a, s) \in Cells /\ Cell(a, s) \div NumSegments = a
        BY <2>1, CellPage DEF Segments
    <2>3. Cell(a, s) = cell
        <3>1. n.headers[Cell(a, s)] # m.headers[Cell(a, s)]
            BY <1>1 DEF Sheet
        <3>2. QED
            BY <2>2, <3>1
    <2>4. q = p /\ j = a
        BY <2>1, <2>2, <2>3
    <2>5. s \in Int /\ j \in Int /\ Separate(held[p])
        BY PageNumbers DEF Segments, Layout
    <2>6. b.cell < Cell(j, s) /\ Cell(j, s) < b.cell + b.len
        BY <2>3, <2>4
    <2>7. ~AtStart(held[p], j, s)
        BY ONLY <2>5, <2>6, InsideBlock, b \in held[p]
    <2>8. QED
        BY <2>4, <2>7
<1>2. Drawn(n, v, held)
    <2> SUFFICES ASSUME NEW q \in Pids, NEW j \in Pages, InView(v, q, j)
                 PROVE  Describes(Sheet(n, q, j), PageAt(n, q, j), held[q], j)
        BY DEF Drawn
    <2>1. PageAt(n, q, j) = PageAt(m, q, j)
        BY DEF PageAt
    <2>2. Describes(Sheet(m, q, j), PageAt(m, q, j), held[q], j)
        BY DEF Layout, Drawn
    <2>3. \A s \in Segments : AtStart(held[q], j, s) => Sheet(n, q, j)[s] = Sheet(m, q, j)[s]
        BY <1>1
    <2>4. j \in Int
        BY PageNumbers
    <2>5. QED
        BY ONLY <2>1, <2>2, <2>3, <2>4, OnlyStarts
<1>3. ASSUME ~gave PROVE Fresh(n)
    <2> SUFFICES ASSUME NEW page \in Pages, ~n.pages[page].occ
                 PROVE  IsHeader(n.headers[Cell(page, 0)], NumSegments, FALSE, TRUE)
        BY DEF Fresh
    <2>1. IsHeader(m.headers[Cell(page, 0)], NumSegments, FALSE, TRUE) /\ ~m.pages[page].occ
        BY <1>3 DEF Layout, Fresh
    <2>2. Cell(page, 0) \in Cells /\ Cell(page, 0) \div NumSegments = page
        BY CellPage, Parameters
    <2>3. Cell(page, 0) # cell
        BY <2>1, <2>2
    <2>4. QED
        BY <2>1, <2>2, <2>3
<1>4. Owned(n, v)
    BY DEF Layout, Owned
<1>5. QED
    BY <1>2, <1>3, <1>4 DEF Layout

\* Pages behind begin behind.
LEMMA CellUpTo ==
    ASSUME NEW i \in Int, NEW j \in Int, i <= j
    PROVE  Cell(i, 0) \in Int /\ Cell(j, 0) \in Int /\ Cell(i, 0) <= Cell(j, 0)
<1>1. Cell(i, 0) \in Int /\ Cell(j, 0) \in Int /\ NumSegments \in Nat
    BY CellSum, DirectMappingAssumption
<1>2. CASE i < j
    BY <1>1, <1>2, CellBelow
<1>3. CASE i = j
    BY <1>1, <1>3
<1>4. QED
    BY <1>2, <1>3

\* A block that lies in one page has no segment of another.
LEMMA InPage ==
    ASSUME NEW i \in Int, NEW s \in Segments, NEW b, b.cell = Cell(i, s), b.len \in Nat \ {0},
           s + b.len <= NumSegments
    PROVE  /\ \A j \in Int : j # i => Elsewhere(b, j)
           /\ Cell(i, 0) <= b.cell /\ b.cell + b.len <= Cell(i + 1, 0)
           /\ i \in Pages => \A c \in CellsOf(b) : c \in Cells /\ c \div NumSegments = i
<1>1. s \in Nat /\ NumSegments \in Nat \ {0}
    BY Parameters DEF Segments
<1>2. Cell(i, 0) \in Int /\ b.cell = Cell(i, 0) + s /\ Cell(i + 1, 0) = Cell(i, 0) + NumSegments
    <2>1. s \in Int
        BY <1>1
    <2>2. Cell(i, s) = Cell(i, 0) + s /\ Cell(i, 0) \in Int /\ Cell(i + 1, 0) = Cell(i, 0) + NumSegments
        BY ONLY <2>1, CellSum, i \in Int
    <2>3. QED
        BY <2>2
<1>3. ASSUME NEW j \in Int, j # i PROVE Elsewhere(b, j)
    <2>1. CASE i < j
        <3>1. Cell(i, 0) + NumSegments <= Cell(j, 0) /\ Cell(j, 0) \in Int
            BY <2>1, CellBelow, CellSum
        <3>2. QED
            BY <1>1, <1>2, <3>1 DEF Elsewhere
    <2>2. CASE j < i
        <3>1. Cell(j, 0) + NumSegments <= Cell(i, 0) /\ Cell(j, 0) \in Int
            BY <2>2, CellBelow, CellSum
        <3>2. QED
            BY <1>1, <1>2, <3>1 DEF Elsewhere
    <2>3. QED
        BY <1>3, <2>1, <2>2
<1>4. ASSUME i \in Pages, NEW c \in CellsOf(b) PROVE c \in Cells /\ c \div NumSegments = i
    <2>1. c \in b.cell .. b.cell + b.len - 1
        BY <1>4 DEF CellsOf
    <2>2. c - Cell(i, 0) \in 0 .. NumSegments - 1
        BY <1>1, <1>2, <2>1
    <2>3. c = Cell(i, c - Cell(i, 0))
        <3>1. c - Cell(i, 0) \in Int /\ c \in Int
            BY <1>2, <2>1
        <3>2. Cell(i, c - Cell(i, 0)) = Cell(i, 0) + (c - Cell(i, 0))
            BY <3>1, CellSum
        <3>3. QED
            BY <1>2, <3>1, <3>2
    <2>4. Cell(i, c - Cell(i, 0)) \in Cells /\ Cell(i, c - Cell(i, 0)) \div NumSegments = i
        BY <1>4, <2>2, CellPage
    <2>5. QED
        BY <2>3, <2>4
<1>5. QED
    BY <1>1, <1>2, <1>3, <1>4

\* dm_allocate_block, at segment s of page a.
LEMMA Allocated ==
    ASSUME NEW headers \in [Cells -> HeaderRecords], NEW a \in Pages, NEW s \in Segments,
           NEW h, h = headers[Cell(a, s)], NEW n \in 1 .. h.size, s + h.size <= NumSegments,
           NEW cut, cut = dm_allocate_block(headers, Cell(a, s), n)
    PROVE  /\ IsHeader(cut[Cell(a, s)], n, TRUE, n = h.size /\ h.last)
           /\ n < h.size => IsHeader(cut[Cell(a, s + n)], h.size - n, FALSE, h.last)
           /\ \A t \in Segments :
                 t = s \/ (n < h.size /\ t = s + n) \/ cut[Cell(a, t)] = headers[Cell(a, t)]
           /\ \A c \in Cells : c \div NumSegments = a \/ cut[c] = headers[c]
           /\ cut \in [Cells -> HeaderRecords]
<1>1. /\ s \in Nat /\ s < NumSegments /\ NumSegments \in Nat \ {0}
      /\ Cell(a, s) \in Cells /\ Cell(a, s) \div NumSegments = a
    BY Parameters, CellPage DEF Segments
<1>2. h \in HeaderRecords /\ h.size \in 1 .. NumSegments /\ h.last \in BOOLEAN
    BY <1>1 DEF HeaderRecords
<1>3. n \in Nat \ {0} /\ n <= h.size /\ n \in 1 .. NumSegments
    BY <1>1, <1>2
<1>4. cut \in [Cells -> HeaderRecords]
    <2>1. n \in Int
        BY <1>3
    <2>2. QED
        BY <1>1, <2>1, AllocateType
<1>5. CASE n < h.size
    <2>1. s + n \in Segments /\ s + n # s
        BY <1>1, <1>2, <1>3, <1>5 DEF Segments
    <2>2. Cell(a, s + n) \in Cells /\ Cell(a, s + n) \div NumSegments = a
        BY <2>1, CellPage DEF Segments
    <2>3. Cell(a, s) + n = Cell(a, s + n)
        <3>1. a \in Int /\ s \in Int /\ s + n \in Int
            BY <1>1, <1>3, PageNumbers
        <3>2. Cell(a, s) = Cell(a, 0) + s /\ Cell(a, s + n) = Cell(a, 0) + (s + n)
              /\ Cell(a, 0) \in Int
            BY <3>1, CellSum
        <3>3. QED
            BY <1>1, <1>3, <3>2
    <2>4. Cell(a, s) # Cell(a, s + n)
        BY <2>1, SameCell
    <2>5. cut = [headers EXCEPT ![Cell(a, s)] = Header(n, TRUE, FALSE),
                                ![Cell(a, s + n)] = Header(h.size - n, FALSE, h.last)]
        BY <1>5, <2>3 DEF dm_allocate_block
    <2>6. cut[Cell(a, s)] = Header(n, TRUE, FALSE)
          /\ cut[Cell(a, s + n)] = Header(h.size - n, FALSE, h.last)
          /\ \A c \in Cells : c = Cell(a, s) \/ c = Cell(a, s + n) \/ cut[c] = headers[c]
        BY <1>1, <2>2, <2>4, <2>5
    <2>7. IsHeader(Header(n, TRUE, FALSE), n, TRUE, FALSE)
        BY <1>3, HeaderParts
    <2>8. IsHeader(Header(h.size - n, FALSE, h.last), h.size - n, FALSE, h.last)
        <3>1. h.size - n \in 1 .. NumSegments
            BY <1>1, <1>2, <1>3, <1>5
        <3>2. QED
            BY <1>2, <3>1, HeaderParts
    <2>9. \A t \in Segments : t = s \/ t = s + n \/ cut[Cell(a, t)] = headers[Cell(a, t)]
        <3> SUFFICES ASSUME NEW t \in Segments, t # s, t # s + n
                     PROVE  cut[Cell(a, t)] = headers[Cell(a, t)]
            OBVIOUS
        <3>1. Cell(a, t) \in Cells /\ Cell(a, t) # Cell(a, s)
            BY CellPage, SameCell DEF Segments
        <3>2. Cell(a, t) # Cell(a, s + n)
            BY <2>1, SameCell
        <3>3. QED
            BY <2>6, <3>1, <3>2
    <2>10. IsHeader(cut[Cell(a, s)], n, TRUE, n = h.size /\ h.last)
        <3>1. ~(n = h.size)
            BY <1>2, <1>3, <1>5
        <3>2. QED
            BY <2>6, <2>7, <3>1 DEF IsHeader
    <2>11. QED
        BY <1>1, <1>4, <1>5, <2>2, <2>6, <2>8, <2>9, <2>10
<1>6. CASE ~(n < h.size)
    <2>1. n = h.size
        BY <1>2, <1>3, <1>6
    <2>2. cut = [headers EXCEPT ![Cell(a, s)] = Header(n, TRUE, h.last)]
        BY <1>6 DEF dm_allocate_block
    <2>3. cut[Cell(a, s)] = Header(n, TRUE, h.last)
          /\ \A c \in Cells : c = Cell(a, s) \/ cut[c] = headers[c]
        BY <1>1, <2>2
    <2>4. IsHeader(Header(n, TRUE, h.last), n, TRUE, h.last)
        BY <1>2, <1>3, HeaderParts
    <2>5. \A t \in Segments : t = s \/ cut[Cell(a, t)] = headers[Cell(a, t)]
        <3> SUFFICES ASSUME NEW t \in Segments, t # s
                     PROVE  cut[Cell(a, t)] = headers[Cell(a, t)]
            OBVIOUS
        <3>1. Cell(a, t) \in Cells /\ Cell(a, t) # Cell(a, s)
            BY CellPage, SameCell DEF Segments
        <3>2. QED
            BY <2>3, <3>1
    <2>6. IsHeader(cut[Cell(a, s)], n, TRUE, n = h.size /\ h.last)
        BY <2>1, <2>3, <2>4 DEF IsHeader
    <2>7. QED
        BY <1>1, <1>4, <1>6, <2>3, <2>5, <2>6
<1>7. QED
    BY <1>5, <1>6

-----------------------------------------------------------------------------
(* myallocate *)

\* A block that appears lies where its thread sees it.
NewResident == \A p \in Pids : \A b \in blocks'[p] \ blocks[p] : IsResident(p, b)'

\* myallocate returns: it has written no header that is read over another one.
LEMMA GiveBlocks ==
    ASSUME TypeInv, TypeInv', loc.id \in Pids, NEW m \in Memory, NEW cell, NEW len,
           Give(m, cell, len), UNCHANGED << view, freed >>,
           NEW used, PageMap(m, view, freed, used), Layout(m, view, blocks', freed),
           LiesAt(m, loc.id, [cell |-> cell, len |-> len]),
           Within(view, blocks'), Snug(view, blocks', {}), NEW id, Settled(m, view, id, {})
    PROVE  LayoutInv' /\ NewResident
<1> DEFINE new == [cell |-> cell, len |-> len]
<1>1. mem' = m
    BY DEF Give
<1>2. mem'.pages = m.pages
    BY <1>1
<1>3. /\ blocks' = [blocks EXCEPT ![loc.id] = @ \cup {new}]
      /\ pc' = "idle"
    BY DEF Give
<1>4. mem' \in Memory /\ blocks \in [Pids -> SUBSET Blocks]
    BY DEF TypeInv
<1> HIDE DEF new
<1>5. blocks'[loc.id] = blocks[loc.id] \cup {new}
      /\ \A p \in Pids : p # loc.id => blocks'[p] = blocks[p]
    BY <1>3, <1>4
<1>6. new.cell = cell /\ new.len = len
    BY DEF new
<1>7. Layout(mem', view, blocks', freed)
    BY <1>1
<1>8. Settled(mem', view, loc'.id, {})
    BY <1>2 DEF Settled
<1>9. BlocksInv'
    BY <1>3, <1>7, <1>8, BlocksAfter DEF Releasing
<1>10. NewResident
    <2> SUFFICES ASSUME NEW p \in Pids, NEW b \in blocks'[p] \ blocks[p]
                 PROVE  IsResident(p, b)'
        BY DEF NewResident
    <2>1. p = loc.id /\ b = new
        BY <1>5
    <2>2. LiesAt(mem', p, b)
        BY <1>2, <2>1 DEF LiesAt, new
    <2>3. QED
        BY <2>2 DEF LiesAt, IsResident, InPlace
<1>11. QED
    BY <1>3, <1>9, <1>10 DEF LayoutInv, BlocksKnown

\* A program stores into its block, which lies where it is.
LEMMA StoreBlocks ==
    ASSUME ~StoresAway, TypeInv, TypeInv', PagesInv, BlocksKnown, NEW p \in Pids, Store(p)
    PROVE  LayoutInv'
<1>1. /\ pc = "idle" /\ pc' = "idle" /\ UNCHANGED << view, blocks, loc, freed >>
      /\ \E b \in blocks[p], cell \in Cells, byte \in UserBytes :
            /\ cell \in b.cell + 1 .. b.cell + b.len - 1
            /\ InPlace(p, cell)
            /\ mem' = [mem EXCEPT !.headers[cell] = Decoded(byte)]
    BY DEF Store, At
<1>2. /\ Layout(mem, view, blocks, freed) /\ Within(view, blocks)
      /\ Snug(view, blocks, {}) /\ Settled(mem, view, loc.id, {})
    BY <1>1, CalmBlocks DEF BlocksKnown, Releasing
<1>3. /\ mem \in Memory /\ mem' \in Memory
      /\ mem'.pages = mem.pages /\ mem'.ht = mem.ht
    BY <1>1 DEF TypeInv, Memory
<1>4. PICK used \in Nat : PageMap(mem, view, freed, used)
    BY <1>1, SameSeen DEF PagesInv
<1>5. Layout(mem', view, blocks, freed)
    <2>1. PICK b \in blocks[p], cell \in Cells, byte \in UserBytes :
             /\ cell \in b.cell + 1 .. b.cell + b.len - 1
             /\ InPlace(p, cell)
             /\ mem' = [mem EXCEPT !.headers[cell] = Decoded(byte)]
        BY <1>1
    <2>2. b.cell < cell /\ cell < b.cell + b.len
        <3>1. b.cell \in Int /\ b.len \in Int /\ cell \in Int
            BY <1>2, <2>1, DirectMappingAssumption DEF Layout, Separate
        <3>2. QED
            BY <2>1, <3>1
    <2>3. \A c \in Cells : c = cell \/ mem'.headers[c] = mem.headers[c]
        BY <1>3, <2>1 DEF Memory
    <2>4. QED
        BY <1>2, <1>3, <1>4, <2>1, <2>2, <2>3, StoredLayout DEF InPlace
<1>6. Settled(mem', view, loc'.id, {})
    BY <1>1, <1>2, <1>3 DEF Settled
<1>7. BlocksInv'
    BY <1>1, <1>2, <1>5, <1>6, BlocksAfter DEF Releasing
<1>8. QED
    BY <1>1, <1>7 DEF LayoutInv, BlocksKnown

\* Until a block is freed, the free segments of a page are its last ones, and not
\* all of it.
LEMMA FreeLast ==
    ASSUME TypeInv, PagesInv, BlocksKnown, ~freed, pc = "search", loc.pi <= loc.last,
           Actual # NoPage, loc.si < NumSegments, ~Here.occ
    PROVE  /\ FreeStart(Own, loc.pi, loc.si) /\ loc.si # 0 /\ Here.last
           /\ loc.si + Here.size = NumSegments /\ Length(Here) = Here.size
           /\ loc.contig = 0
<1> DEFINE headers == Sheet(mem, loc.id, loc.pi)
<1>1. /\ loc.id \in Pids /\ loc.pi \in Pages /\ loc.si \in Segments
      /\ InView(view, loc.id, loc.pi)
      /\ Separate(Own) /\ AtStart(Own, loc.pi, loc.si)
      /\ headers \in [Segments -> HeaderRecords]
      /\ Describes(headers, mem.pages[Actual], Own, loc.pi)
      /\ Here = headers[loc.si] /\ Here \in HeaderRecords
    BY WalkHeader
<1> HIDE DEF headers
<1>2. loc.pi \in Int /\ loc.si \in Nat
    BY <1>1, PageNumbers DEF Segments
<1>3. /\ FreeStart(Own, loc.pi, loc.si) /\ Here.size \in 1 .. NumSegments
      /\ ~Here.last => Starts(Own, loc.pi, loc.si + Here.size)
                       /\ loc.si + Here.size < NumSegments
      /\ Here.last => loc.si + Here.size = NumSegments
    BY ONLY <1>1, <1>2, WalkOn, ~Here.occ
<1>4. Stacked(view, blocks)
    BY CalmBlocks DEF BlocksKnown, Layout
<1>5. loc.si # 0
    <2>1. Busy(Own, loc.pi, 0)
        BY <1>1, <1>4 DEF Stacked, Own
    <2>2. QED
        BY <1>3, <2>1 DEF FreeStart
<1>6. Here.last
    <2> SUFFICES ASSUME ~Here.last PROVE FALSE
        OBVIOUS
    <2> DEFINE t == loc.si + Here.size
    <2>1. t \in Segments /\ t # 0 /\ t - 1 \in loc.si .. loc.si + Here.size - 1
        BY <1>2, <1>3, Parameters DEF Segments
    <2>2. Busy(Own, loc.pi, t)
        <3>1. t \in Int /\ Starts(Own, loc.pi, t)
            BY <1>2, <1>3
        <3> HIDE DEF t
        <3>2. QED
            BY ONLY <1>1, <1>2, <3>1, BusyIn
    <2>3. Busy(Own, loc.pi, t - 1)
        BY <1>1, <1>4, <2>1, <2>2 DEF Stacked, Own
    <2>4. \A x \in loc.si .. loc.si + Here.size - 1 : ~Busy(Own, loc.pi, x)
        BY <1>1, <1>3 DEF Describes, FreeHeader
    <2>5. QED
        BY <2>1, <2>3, <2>4
<1>7. Length(Here) = Here.size
    BY <1>2, <1>3, <1>6 DEF Length
<1>8. loc.contig = 0
    BY <1>5 DEF BlocksKnown, SearchInv
<1>9. QED
    BY <1>3, <1>5, <1>6, <1>7, <1>8

\* segment_allocate goes on: if a run of free segments was too short, a block
\* begins the next page.
LEMMA SearchOn ==
    ASSUME TypeInv, TypeInv', PagesInv, BlocksKnown, Search, pc' = "search",
           UNCHANGED << mem, blocks >>
    PROVE  LayoutInv'
<1> DEFINE page == mem.pages[Actual]
           len == Length(Here)
           next == Advance(page, Overflow(Here, page), len)
           new == ~Here.occ /\ loc.contig = 0
           contig == IF Here.occ THEN 0 ELSE loc.contig + len
           start == CASE Here.occ -> NoIndex [] new -> loc.pi [] OTHER -> loc.start
           start_seg == IF new \/ (Here.last /\ loc.pi = loc.last)
                        THEN loc.si ELSE loc.start_seg
           headers == Sheet(mem, loc.id, loc.pi)
<1>1. /\ pc = "search" /\ loc.pi <= loc.last /\ loc.si < NumSegments /\ Actual # NoPage
      /\ UNCHANGED << view, freed, halt >>
    BY DEF Search, Walking, At
<1>2. /\ contig < loc.segments
      /\ loc' = [next EXCEPT !.contig = contig, !.start = start, !.start_seg = start_seg]
    BY <1>1 DEF Search, Give
<1>3. /\ loc.id \in Pids /\ loc.pi \in Pages /\ loc.si \in Segments
      /\ InView(view, loc.id, loc.pi)
      /\ Separate(Own) /\ AtStart(Own, loc.pi, loc.si)
      /\ headers \in [Segments -> HeaderRecords] /\ page \in PageRecords
      /\ Describes(headers, page, Own, loc.pi)
      /\ Here = headers[loc.si] /\ Here \in HeaderRecords
    BY <1>1, WalkHeader
<1>4. loc \in MallocCalls /\ ~freed /\ loc.last = view[loc.id].last
    BY <1>1, PageNumbers DEF TypeInv, CallOK, PagesInv, CallInv
<1>5. /\ loc.pi \in Int /\ loc.si \in Nat /\ loc.last \in Int /\ loc.segments \in Nat
      /\ NumSegments \in Nat
    <2>1. loc.last \in Int /\ loc.segments \in Nat
        BY <1>4, Parameters DEF MallocCalls, NoPage
    <2>2. loc.pi \in Int
        BY <1>3, PageNumbers
    <2>3. QED
        BY <1>3, <2>1, <2>2, Parameters DEF Segments
<1> HIDE DEF headers
<1>6. /\ Here.last => page.length = IF page.ovf THEN 2 ELSE 1
      /\ Here.size \in 1 .. NumSegments
      /\ ~Here.last => loc.si + Here.size < NumSegments
    BY ONLY <1>3, <1>5, WalkOn
<1>7. ~Here.occ => /\ Here.last /\ contig = NumSegments - loc.si /\ loc.contig = 0
                   /\ ~page.ovf
    <2> SUFFICES ASSUME ~Here.occ PROVE /\ Here.last /\ contig = NumSegments - loc.si
                                        /\ loc.contig = 0 /\ ~page.ovf
        OBVIOUS
    <2>1. Here.last /\ loc.contig = 0
        BY <1>1, <1>4, FreeLast
    <2>2. ~page.ovf
        BY ONLY <1>3, <1>5, <2>1, WalkOn, ~Here.occ
    <2>3. QED
        BY <1>5, <2>1, <2>2 DEF Length
<1>8. SearchInv /\ Asks
    BY <1>1 DEF BlocksKnown, SearchInv
<1>9. /\ next \in MallocCalls
      /\ next.pi = PageAfter(Here, loc.pi) /\ next.si = SegmentAfter(Here, page, loc.si)
      /\ Here.last /\ page.ovf => next.ovf = Here.size
      /\ next.size = loc.size /\ next.segments = loc.segments
      /\ next.first = loc.first /\ next.last = loc.last /\ next.id = loc.id
    BY <1>1, <1>3, <1>4, <1>6, AdvanceTo
<1> HIDE DEF next, contig, start, start_seg
<1>10. /\ loc'.pi = PageAfter(Here, loc.pi) /\ loc'.si = SegmentAfter(Here, page, loc.si)
       /\ Here.last /\ page.ovf => loc'.ovf = Here.size
       /\ loc'.size = loc.size /\ loc'.segments = loc.segments
       /\ loc'.first = loc.first /\ loc'.last = loc.last /\ loc'.id = loc.id
       /\ loc'.contig = contig /\ loc'.start = start /\ loc'.start_seg = start_seg
    <2>1. /\ loc'.pi = next.pi /\ loc'.si = next.si /\ loc'.ovf = next.ovf /\ loc'.size = next.size
          /\ loc'.segments = next.segments /\ loc'.first = next.first /\ loc'.last = next.last
          /\ loc'.id = next.id
          /\ loc'.contig = contig /\ loc'.start = start /\ loc'.start_seg = start_seg
        BY <1>2, <1>9 DEF MallocCalls
    <2>2. QED
        BY <1>9, <2>1
<1>11. BlocksInv'
    BY <1>1, QuietBlocks DEF BlocksKnown, Releasing
<1>12. view[loc.id].first <= loc'.pi /\ loc'.pi \in Int
       /\ (loc'.pi = loc.pi \/ (Here.last /\ loc'.pi = loc.pi + 1))
    <2>1. view[loc.id].first <= loc.pi /\ view[loc.id].first \in Int
        BY <1>3, Parameters DEF InView, TypeInv, Views, NoPage
    <2>2. QED
        BY <1>5, <1>10, <2>1 DEF PageAfter
<1>13. WalkInv'
    <2>1. Own' = Own /\ view'[loc'.id].first <= loc'.pi
        BY <1>1, <1>10, <1>12 DEF Own
    <2> DEFINE B == Own
               h == Here
    <2>2. /\ Own' = B /\ Separate(B) /\ AtStart(B, loc.pi, loc.si)
          /\ Describes(headers, page, B, loc.pi)
          /\ h = headers[loc.si] /\ loc'.pi = PageAfter(h, loc.pi)
          /\ loc'.si = SegmentAfter(h, page, loc.si) /\ (h.last /\ page.ovf => loc'.ovf = h.size)
        BY <1>3, <1>10, <2>1
    <2> HIDE DEF B, h, page
    <2>3. (pc' = "turn" => h.last)
        OBVIOUS
    <2>4. QED
        BY ONLY <1>3, <1>5, <2>1, <2>2, <2>3, WalkPast
<1>14. start = IF Here.occ THEN NoIndex ELSE loc.pi
    BY <1>7 DEF start
<1>15. SearchInv'
    <2>1. Asks'
        BY <1>8, <1>10 DEF Asks
    <2>2. loc'.first = view'[loc'.id].first
        BY <1>1, <1>8, <1>10 DEF SearchInv
    <2>3. loc'.contig # 0 => loc'.si = 0
        <3>1. Here.occ => contig = 0
            BY DEF contig
        <3>2. ~Here.occ => SegmentAfter(Here, page, loc.si) = 0
            BY <1>7 DEF SegmentAfter
        <3>3. QED
            BY <1>10, <3>1, <3>2
    <2>4. loc'.start \in {NoIndex, loc'.pi - 1} /\ loc'.start # Unassigned
        <3>1. ~Here.occ => loc'.pi = loc.pi + 1
            BY <1>7, <1>10 DEF PageAfter
        <3>2. loc.pi # Unassigned /\ NoIndex # Unassigned
            BY <1>3, PageNumbers DEF Unassigned, NoIndex
        <3>3. QED
            BY <1>5, <1>10, <1>14, <3>1, <3>2
    <2>5. loc'.first <= loc'.last /\ loc'.pi <= loc'.last + 1
        <3>1. loc.first <= loc.pi /\ loc.first \in Int
            BY <1>3, <1>4, <1>8, Parameters DEF InView, SearchInv, MallocCalls
        <3>2. QED
            BY <1>1, <1>5, <1>10, <1>12, <3>1
    <2>6. ASSUME loc'.pi > loc'.last PROVE LastSegment'
        <3>1. Here.last /\ loc.pi = loc.last
            BY <1>1, <1>5, <1>10, <1>12, <2>6
        <3>2. loc'.start_seg = loc.si /\ loc'.last = loc.pi
            BY <1>10, <3>1 DEF start_seg
        <3>3. Here.occ \/ NumSegments - loc.si < loc.segments
            BY <1>2, <1>7
        <3>4. /\ Sheet(mem', loc'.id, loc'.last) = headers /\ Own' = Own
            BY <1>10, <3>2 DEF headers, Own
        <3>5. QED
            BY <1>3, <1>10, <3>1, <3>2, <3>3, <3>4 DEF LastSegment
    <2>7. QED
        BY <2>1, <2>2, <2>3, <2>4, <2>5, <2>6 DEF SearchInv
<1>16. QED
    BY <1>11, <1>13, <1>15 DEF LayoutInv, BlocksKnown

\* A block that takes the first of a page's last free segments leaves the free
\* segments of the pages last.
LEMMA StackedMore ==
    ASSUME NEW v, NEW held, NEW next, Stacked(v, held), NEW p \in Pids, NEW i \in Pages,
           \A q \in Pids : Separate(held[q]), \A q \in Pids : Separate(next[q]),
           \A q \in Pids : q # p => next[q] = held[q],
           \A j \in Pages : InView(v, p, j) /\ j # i => SameAt(held[p], next[p], j),
           NEW s \in Segments, NEW end \in Int, s # 0 => Busy(held[p], i, s - 1),
           \A t \in Segments : Busy(next[p], i, t) <=> Busy(held[p], i, t) \/ t \in s .. end
    PROVE  Stacked(v, next)
<1> SUFFICES ASSUME NEW q \in Pids, NEW j \in Pages, InView(v, q, j)
             PROVE  /\ Busy(next[q], j, 0)
                    /\ \A t \in Segments : t # 0 /\ Busy(next[q], j, t) => Busy(next[q], j, t - 1)
    BY DEF Stacked
<1>1. /\ Busy(held[q], j, 0)
      /\ \A t \in Segments : t # 0 /\ Busy(held[q], j, t) => Busy(held[q], j, t - 1)
    BY DEF Stacked
<1>2. 0 \in Segments /\ \A t \in Segments : t # 0 => t - 1 \in Segments
    BY Parameters DEF Segments
<1>3. CASE q = p /\ j = i
    <2>1. Busy(next[p], i, 0)
        BY <1>1, <1>2, <1>3
    <2>2. ASSUME NEW t \in Segments, t # 0, Busy(next[p], i, t) PROVE Busy(next[p], i, t - 1)
        <3>1. t - 1 \in Segments
            BY <1>2, <2>2
        <3>2. CASE Busy(held[p], i, t)
            BY <1>1, <1>3, <2>2, <3>1, <3>2
        <3>3. CASE t \in s .. end
            <4>1. t = s \/ t - 1 \in s .. end
                BY <3>3 DEF Segments
            <4>2. CASE t = s
                BY <2>2, <3>1, <4>2
            <4>3. CASE t - 1 \in s .. end
                BY <3>1, <4>3
            <4>4. QED
                BY <4>1, <4>2, <4>3
        <3>4. QED
            BY <2>2, <3>2, <3>3
    <2>3. QED
        BY <1>3, <2>1, <2>2
<1>4. CASE ~(q = p /\ j = i)
    <2>1. SameAt(held[q], next[q], j)
        <3>1. CASE q = p
            BY <1>4, <3>1
        <3>2. CASE q # p
            BY <3>2 DEF SameAt
        <3>3. QED
            BY <3>1, <3>2
    <2>2. \A t \in Segments : Busy(held[q], j, t) <=> Busy(next[q], j, t)
        <3>1. j \in Int /\ Separate(held[q]) /\ Separate(next[q])
            BY PageNumbers
        <3>2. /\ \A b \in held[q] : b \in next[q] \/ Elsewhere(b, j)
              /\ \A b \in next[q] : b \in held[q] \/ Elsewhere(b, j)
            BY <2>1 DEF SameAt
        <3>3. QED
            BY ONLY <3>1, <3>2, SameBlocks
    <2>3. QED
        BY <1>1, <1>2, <2>2
<1>5. QED
    BY <1>3, <1>4

\* The segments that a new block adds to a page it lies in.
LEMMA BusyMore ==
    ASSUME NEW B, NEW C, NEW new, C = B \cup {new}, Separate(C), NEW i \in Int, NEW s \in Segments,
           new.cell = Cell(i, s), NEW t \in Segments
    PROVE  Busy(C, i, t) <=> Busy(B, i, t) \/ t \in s .. s + new.len - 1
<1>1. Busy(C, i, t) <=> Busy(B, i, t) \/ Cell(i, t) \in CellsOf(new)
    BY DEF Busy
<1>2. new.len \in Nat /\ s \in Int /\ t \in Int
    BY Parameters DEF Separate, Segments
<1>3. Cell(i, t) = Cell(i, 0) + t /\ Cell(i, 0) \in Int
    BY ONLY <1>2, CellSum, i \in Int
<1>4. Cell(i, s) = Cell(i, 0) + s
    BY ONLY <1>2, CellSum, i \in Int
<1>5. Cell(i, t) \in CellsOf(new) <=> t \in s .. s + new.len - 1
    BY <1>2, <1>3, <1>4 DEF CellsOf
<1>6. QED
    BY <1>1, <1>5

\* segment_allocate gives a block: the first of the free segments of a page.
LEMMA SearchGives ==
    ASSUME TypeInv, TypeInv', PagesInv, BlocksKnown, pc = "search", loc.pi <= loc.last,
           Actual # NoPage, loc.si < NumSegments, ~Here.occ, Length(Here) >= loc.segments,
           UNCHANGED << view, freed >>,
           Give(swap([mem EXCEPT !.headers =
                            dm_allocate_block(@, Cell(Actual, loc.si), loc.segments)],
                     Actual, loc.pi),
                Cell(loc.pi, loc.si), loc.segments)
    PROVE  LayoutInv' /\ NewResident
<1> DEFINE i == loc.pi
           s == loc.si
           n == loc.segments
           a == Actual
           headers == Sheet(mem, loc.id, i)
           cut == [mem EXCEPT !.headers = dm_allocate_block(@, Cell(a, s), n)]
           others == Sheet(cut, loc.id, i)
           new == [cell |-> Cell(i, s), len |-> n]
           C == Own \cup {new}
           m == swap(cut, a, i)
<1>1. /\ loc.id \in Pids /\ i \in Pages /\ s \in Segments
      /\ a \in Pages /\ a = mem.ht[loc.id][i] /\ InView(view, loc.id, i)
      /\ Separate(Own)
      /\ headers \in [Segments -> HeaderRecords] /\ mem.pages[a] \in PageRecords
      /\ Describes(headers, mem.pages[a], Own, i)
      /\ Here = headers[s] /\ Here \in HeaderRecords
    BY WalkHeader
<1>2. loc \in MallocCalls /\ ~freed /\ mem \in Memory
    BY DEF TypeInv, CallOK, PagesInv, CallInv
<1>3. n \in Nat \ {0} /\ i \in Int /\ s \in Nat /\ NumSegments \in Nat
    BY <1>1, <1>2, PageNumbers, Parameters DEF MallocCalls, Segments
<1>4. /\ FreeStart(Own, i, s) /\ s # 0 /\ Here.last
      /\ s + Here.size = NumSegments /\ n \in 1 .. Here.size /\ s + Here.size <= NumSegments
    <2>1. /\ FreeStart(Own, i, s) /\ s # 0 /\ Here.last
          /\ s + Here.size = NumSegments /\ Length(Here) = Here.size
        BY <1>2, FreeLast
    <2>2. Here.size \in Nat
        BY <1>1 DEF HeaderRecords
    <2>3. QED
        BY <1>3, <2>1, <2>2
<1>5. PICK used \in Nat : PageMap(mem, view, freed, used)
    BY SameSeen DEF PagesInv
<1>6. i < used /\ a < used /\ mem.pages[a].occ /\ mem.pages[a].pid = loc.id /\ mem.pages[a].index = i
    BY <1>5, WalkMap
<1>7. /\ Layout(mem, view, blocks, freed) /\ Within(view, blocks)
      /\ Snug(view, blocks, Releasing) /\ Settled(mem, view, 0, {})
    BY CalmBlocks DEF BlocksKnown
<1>8. /\ IsHeader(cut.headers[Cell(a, s)], n, TRUE, n = Here.size /\ Here.last)
      /\ n < Here.size => IsHeader(cut.headers[Cell(a, s + n)], Here.size - n, FALSE, Here.last)
      /\ \A t \in Segments : t = s \/ (n < Here.size /\ t = s + n)
                                \/ cut.headers[Cell(a, t)] = mem.headers[Cell(a, t)]
      /\ \A c \in Cells : c \div NumSegments = a \/ cut.headers[c] = mem.headers[c]
      /\ cut.headers \in [Cells -> HeaderRecords]
    <2> DEFINE hs == mem.headers
               ns == cut.headers
    <2>1. hs \in [Cells -> HeaderRecords] /\ ns = dm_allocate_block(hs, Cell(a, s), n)
          /\ Here = hs[Cell(a, s)]
        BY <1>2 DEF Memory, Here
    <2>4. a \in Pages /\ s \in Segments /\ n \in 1 .. Here.size /\ s + Here.size <= NumSegments
        BY <1>1, <1>4
    <2> HIDE DEF hs, ns, a, s, n, headers, others, cut, C, m, new, i
    <2>2. /\ IsHeader(ns[Cell(a, s)], n, TRUE, n = Here.size /\ Here.last)
          /\ n < Here.size => IsHeader(ns[Cell(a, s + n)], Here.size - n, FALSE, Here.last)
          /\ \A t \in Segments : t = s \/ (n < Here.size /\ t = s + n)
                                    \/ ns[Cell(a, t)] = hs[Cell(a, t)]
          /\ \A c \in Cells : c \div NumSegments = a \/ ns[c] = hs[c]
          /\ ns \in [Cells -> HeaderRecords]
        BY ONLY <2>1, <2>4, Allocated DEF IsHeader
    <2>3. QED
        BY <2>2, Zenon DEF hs, ns
<1>9. cut.pages = mem.pages /\ cut.ht = mem.ht /\ cut \in Memory
    BY <1>2, <1>8 DEF Memory
<1>34. Here.size \in Nat
    BY <1>1 DEF HeaderRecords
<1>10. Give(m, Cell(i, s), n)
    OBVIOUS
<1> HIDE DEF cut
<1>11. SameElsewhere(mem, cut, {a})
    BY <1>8, <1>9 DEF SameElsewhere
<1>12. others \in [Segments -> HeaderRecords] /\ PageAt(cut, loc.id, i) = mem.pages[a]
    <2>1. cut.ht[loc.id][i] # NoPage
        BY <1>1, <1>9, PageNumbers
    <2>2. others \in [Segments -> HeaderRecords]
        BY <1>1, <1>9, <2>1, SheetType
    <2>3. QED
        BY <1>1, <1>9, <2>2 DEF PageAt
<1>13. \A t \in Segments : others[t] = cut.headers[Cell(a, t)] /\ headers[t] = mem.headers[Cell(a, t)]
    BY <1>1, <1>9, Zenon DEF Sheet
<1>14. new.cell = Cell(i, s) /\ new.len = n
    OBVIOUS
<1> HIDE DEF new
<1>15. Separate(C) /\ Describes(others, mem.pages[a], C, i)
    <2>1. IsHeader(others[s], n, TRUE, s + n = NumSegments)
        <3>1. (n = Here.size /\ Here.last) <=> s + n = NumSegments
            BY <1>3, <1>4, <1>34
        <3>2. others[s] = cut.headers[Cell(a, s)]
            BY <1>1, <1>13, Zenon
        <3>3. QED
            BY <1>8, <3>1, <3>2 DEF IsHeader
    <2>2. n < Here.size => IsHeader(others[s + n], Here.size - n, FALSE, Here.last)
        <3>1. n < Here.size => s + n \in Segments
            BY <1>3, <1>4, <1>34 DEF Segments
        <3>2. QED
            BY <1>8, <1>13, <3>1
    <2>3. \A t \in Segments : t = s \/ (n < Here.size /\ t = s + n) \/ others[t] = headers[t]
        BY <1>8, <1>13
    <2>4. Cell(i, s) \in Nat
        <3>1. Cell(i, s) \in Cells
            BY <1>1, CellPage DEF Segments
        <3>2. QED
            BY <3>1 DEF Cells
    <2> DEFINE B == Own
               data == mem.pages[a]
    <2>5. /\ Separate(B) /\ FreeStart(B, i, s) /\ Describes(headers, data, B, i)
          /\ C = B \cup {new}
        BY <1>1, <1>4
    <2>6. n \in 1 .. headers[s].size
        BY <1>1, <1>4
    <2>7. /\ n < headers[s].size =>
                IsHeader(others[s + n], headers[s].size - n, FALSE, headers[s].last)
          /\ \A t \in Segments :
                t = s \/ (n < headers[s].size /\ t = s + n) \/ others[t] = headers[t]
        BY <1>1, <2>2, <2>3, Zenon
    <2>10. i \in Int /\ s \in Segments /\ headers \in [Segments -> HeaderRecords]
        BY <1>1, <1>3
    <2> HIDE DEF B, data, C, headers, others, s, n, i, a, m
    <2>8. Separate(C) /\ Describes(others, data, C, i)
        BY ONLY <1>12, <1>14, <2>1, <2>4, <2>5, <2>6, <2>7, <2>10, RunUsed DEF IsHeader
    <2>9. QED
        BY <2>8 DEF data
<1>16. blocks'[loc.id] = C /\ \A p \in Pids : p # loc.id => blocks'[p] = blocks[p]
    <2>1. blocks' = [blocks EXCEPT ![loc.id] = @ \cup {new}]
        BY DEF Give, new
    <2>2. blocks \in [Pids -> SUBSET Blocks]
        BY DEF TypeInv
    <2>3. QED
        BY <1>1, <2>1, <2>2 DEF Own
<1>17. \A p \in Pids : Separate(blocks[p]) /\ Separate(blocks'[p])
    BY <1>7, <1>15, <1>16 DEF Layout
<1>18. /\ \A j \in Int : j # i => Elsewhere(new, j)
       /\ Cell(i, 0) <= new.cell /\ new.cell + new.len <= Cell(i + 1, 0)
       /\ \A c \in CellsOf(new) : c \in Cells /\ c \div NumSegments = i
    <2>1. s + new.len <= NumSegments /\ new.len \in Nat \ {0}
        <3>1. Here.size \in Nat
            BY <1>1 DEF HeaderRecords
        <3>2. QED
            BY <1>3, <1>4, <1>14, <3>1
    <2>2. QED
        BY <1>1, <1>3, <1>14, <2>1, InPage
<1>19. \A j \in Pages : j # i => SameAt(blocks[loc.id], blocks'[loc.id], j)
    <2>1. \A j \in Pages : j \in Int
        BY PageNumbers
    <2>2. QED
        BY <1>16, <1>18, <2>1 DEF SameAt, Own
<1>20. Drawn(cut, view, blocks')
    <2>1. \A q \in Pids, j \in Pages : InView(view, q, j) /\ ~(q = loc.id /\ j \in {i}) =>
               InView(view, q, j) /\ mem.ht[q][j] \in Pages \ {a} /\ cut.ht[q][j] = mem.ht[q][j]
        <3> SUFFICES ASSUME NEW q \in Pids, NEW j \in Pages, InView(view, q, j),
                            ~(q = loc.id /\ j \in {i})
                     PROVE  mem.ht[q][j] \in Pages \ {a} /\ cut.ht[q][j] = mem.ht[q][j]
            OBVIOUS
        <3>1. mem.ht[q][j] \in Pages /\ mem.pages[mem.ht[q][j]].pid = q
              /\ mem.pages[mem.ht[q][j]].index = j
            BY <1>2, <1>5, SeenPage
        <3>2. QED
            BY <1>6, <1>9, <3>1
    <2>2. Drawn(mem, view, blocks)
        BY <1>7 DEF Layout
    <2>3. Describes(Sheet(cut, loc.id, i), PageAt(cut, loc.id, i), blocks'[loc.id], i)
        BY <1>12, <1>15, <1>16
    <2> DEFINE held == blocks
               next == blocks'
               S == {i}
               A == {a}
    <2>4. Redraws(mem, cut, view, view, held, next, loc.id, S, A) /\ Drawn(mem, view, held)
        BY <1>11, <1>16, <1>17, <1>19, <2>1, <2>2, <2>3 DEF Redraws
    <2> HIDE DEF held, next, S, A
    <2>5. Drawn(cut, view, next)
        BY ONLY <1>2, <1>9, <2>4, Redrawn
    <2>6. QED
        BY <2>5 DEF next
<1>21. Stacked(view, blocks') /\ Fresh(cut)
    <2>1. Stacked(view, blocks) /\ Fresh(mem)
        BY <1>2, <1>7 DEF Layout
    <2>2. \A t \in Segments : Busy(blocks'[loc.id], i, t) <=>
                                Busy(blocks[loc.id], i, t) \/ t \in s .. s + n - 1
        <3>1. C = Own \cup {new}
            OBVIOUS
        <3> HIDE DEF C
        <3>2. \A t \in Segments : Busy(C, i, t) <=> Busy(Own, i, t) \/ t \in s .. s + new.len - 1
            BY ONLY <1>1, <1>3, <1>14, <1>15, <3>1, BusyMore, Zenon
        <3>3. QED
            BY <1>14, <1>16, <3>2 DEF Own
    <2>3. s # 0 => Busy(blocks[loc.id], i, s - 1)
        BY <1>4 DEF FreeStart, Own
    <2> DEFINE held == blocks
               next == blocks'
               end == s + n - 1
    <2>8. end \in Int
        BY <1>3
    <2>4. /\ Stacked(view, held)
          /\ \A q \in Pids : Separate(held[q])
          /\ \A q \in Pids : Separate(next[q])
          /\ \A q \in Pids : q # loc.id => next[q] = held[q]
          /\ \A j \in Pages : InView(view, loc.id, j) /\ j # i => SameAt(held[loc.id], next[loc.id], j)
          /\ s # 0 => Busy(held[loc.id], i, s - 1)
          /\ \A t \in Segments : Busy(next[loc.id], i, t) <=> Busy(held[loc.id], i, t) \/ t \in s .. end
        BY <1>3, <1>16, <1>17, <1>19, <2>1, <2>2, <2>3
    <2> HIDE DEF held, next, end
    <2>5. Stacked(view, next)
        BY ONLY <1>1, <2>4, <2>8, StackedMore
    <2>6. Fresh(cut)
        <3> SUFFICES ASSUME NEW page \in Pages, ~cut.pages[page].occ
                     PROVE  IsHeader(cut.headers[Cell(page, 0)], NumSegments, FALSE, TRUE)
            BY DEF Fresh
        <3>1. page # a /\ ~mem.pages[page].occ
            BY <1>6, <1>9
        <3>2. Cell(page, 0) \in Cells /\ Cell(page, 0) \div NumSegments = page
            BY CellPage, Parameters
        <3>3. cut.headers[Cell(page, 0)] = mem.headers[Cell(page, 0)]
            BY <1>8, <3>1, <3>2
        <3>4. QED
            BY <2>1, <3>1, <3>3 DEF Fresh
    <2>7. QED
        BY <2>5, <2>6 DEF next
<1>22. Owned(cut, view)
    BY <1>7, <1>9 DEF Layout, Owned
<1>23. Layout(cut, view, blocks', freed)
    BY <1>17, <1>20, <1>21, <1>22 DEF Layout
<1>24. PageMap(cut, view, freed, used)
    <2>1. SamePages(mem, cut) /\ SameView(view, view)
        BY <1>9 DEF SamePages, SameView
    <2>2. QED
        BY <1>2, <1>5, <1>9, <2>1, SameMap
<1>25. /\ m \in Memory /\ PageMap(m, view, freed, used) /\ Layout(m, view, blocks', freed)
    <2>1. m \in Memory
        BY <1>1, <1>9, SwapType
    <2>2. PageMap(m, view, freed, used)
        BY <1>1, <1>6, <1>9, <1>24, SwapMap, Zenon
    <2> DEFINE next == blocks'
    <2>3. Layout(cut, view, next, freed)
        BY <1>23
    <2> HIDE DEF next
    <2>4. Layout(swap(cut, a, i), view, next, freed)
        BY ONLY <1>1, <1>6, <1>9, <1>24, <2>3, SwapLayout, Zenon
    <2>5. QED
        BY <2>1, <2>2, <2>4 DEF next
<1>26. /\ \A x \in Pages : cut.pages[x].index = x => m.pages[x].index = x
       /\ m.pages[i] = cut.pages[a]
    <2>1. cut.pages[a].index = i
        BY <1>6, <1>9
    <2>2. QED
        <3>3. a \in Pages /\ i \in Pages /\ cut \in Memory
            BY <1>1, <1>9
        <3> HIDE DEF a, i
        <3>1. /\ \A x \in Pages : cut.pages[x].index = x => swap(cut, a, i).pages[x].index = x
              /\ swap(cut, a, i).pages[i] = cut.pages[a]
            BY ONLY <2>1, <3>3, SwapStays
        <3>2. QED
            BY <3>1 DEF m
<1> HIDE DEF m
<1>27. LiesAt(m, loc.id, new)
    BY <1>6, <1>9, <1>18, <1>26 DEF LiesAt
<1>28. Within(view, blocks')
    <2>1. view[loc.id].first <= i /\ i <= view[loc.id].last
          /\ view[loc.id].first \in Int /\ view[loc.id].last \in Int
        <3>1. view[loc.id] \in Views
            BY <1>1 DEF TypeInv
        <3>2. QED
            BY <1>1, <3>1, Parameters DEF InView, Views, NoPage
    <2>2. Cell(view[loc.id].first, 0) <= Cell(i, 0) /\ Cell(view[loc.id].first, 0) \in Int
          /\ Cell(i, 0) \in Int
        BY <1>3, <2>1, CellUpTo
    <2>3. Cell(i + 1, 0) <= Cell(view[loc.id].last + 1, 0) /\ Cell(i + 1, 0) \in Int
          /\ Cell(view[loc.id].last + 1, 0) \in Int
        <3>1. i + 1 \in Int /\ view[loc.id].last + 1 \in Int /\ i + 1 <= view[loc.id].last + 1
            BY <1>3, <2>1
        <3>2. QED
            BY ONLY <3>1, CellUpTo
    <2>4. new.cell \in Int /\ new.len \in Int
        <3>1. new \in C
            OBVIOUS
        <3>2. QED
            BY <1>15, <3>1 DEF Separate
    <2>5. Cell(view[loc.id].first, 0) <= new.cell /\ new.cell + new.len <= Cell(view[loc.id].last + 1, 0)
        BY <1>18, <2>2, <2>3, <2>4
    <2>6. QED
        BY <1>7, <1>16, <2>5 DEF Within, Own
<1>29. Snug(view, blocks', {})
    BY <1>7, <1>16 DEF Snug, Releasing
<1>30. Settled(m, view, 0, {})
    BY <1>7, <1>9, <1>26 DEF Settled
<1>31. LiesAt(m, loc.id, [cell |-> Cell(i, s), len |-> n])
    BY <1>27 DEF new
<1>32. Give(m, Cell(i, s), n)
    BY <1>10 DEF m
<1>33. QED
    BY <1>1, <1>25, <1>28, <1>29, <1>30, <1>31, <1>32, GiveBlocks

\* segment_allocate looks at the next segment.
LEMMA SearchBlocks ==
    ASSUME TypeInv, TypeInv', PagesInv, BlocksKnown, Search
    PROVE  LayoutInv' /\ NewResident
<1> DEFINE len == Length(Here)
           new == ~Here.occ /\ loc.contig = 0
           contig == IF Here.occ THEN 0 ELSE loc.contig + len
           start == CASE Here.occ -> NoIndex [] new -> loc.pi [] OTHER -> loc.start
           start_seg == IF new \/ (Here.last /\ loc.pi = loc.last)
                        THEN loc.si ELSE loc.start_seg
<1>1. /\ pc = "search" /\ loc.pi <= loc.last /\ loc.si < NumSegments /\ Actual # NoPage
      /\ UNCHANGED << view, freed, halt >>
    BY DEF Search, Walking, At
<1>2. \/ contig < loc.segments /\ UNCHANGED << mem, blocks, pc >>
      \/ /\ contig >= loc.segments /\ len >= loc.segments
         /\ Give(swap([mem EXCEPT !.headers =
                            dm_allocate_block(@, Cell(Actual, loc.si), loc.segments)],
                      Actual, loc.pi),
                 Cell(loc.pi, loc.si), loc.segments)
      \/ contig >= loc.segments /\ len < loc.segments
    BY DEF Search
<1>3. loc \in MallocCalls /\ ~freed
    BY <1>1 DEF TypeInv, CallOK, PagesInv, CallInv
<1>4. loc.segments \in Nat \ {0} /\ Here \in HeaderRecords /\ len \in 1 .. NumSegments
      /\ loc.si \in Nat
    <2>1. loc.segments \in Nat \ {0} /\ loc.si \in Nat
        BY <1>3 DEF MallocCalls
    <2>2. Here \in HeaderRecords
        BY <1>1, WalkHeader
    <2>3. QED
        BY <1>1, <2>1, <2>2, LengthType
<1>5. ~Here.occ => loc.contig = 0
    BY <1>1, <1>3, FreeLast
<1>6. contig >= loc.segments => ~Here.occ /\ contig = len
    BY <1>4, <1>5
<1>7. CASE contig < loc.segments /\ UNCHANGED << mem, blocks, pc >>
    BY <1>1, <1>7, SearchOn DEF NewResident
<1>8. CASE /\ contig >= loc.segments /\ len >= loc.segments
           /\ Give(swap([mem EXCEPT !.headers =
                            dm_allocate_block(@, Cell(Actual, loc.si), loc.segments)],
                        Actual, loc.pi),
                   Cell(loc.pi, loc.si), loc.segments)
    BY <1>1, <1>6, <1>8, SearchGives
<1>9. ~(contig >= loc.segments /\ len < loc.segments)
    BY <1>4, <1>6
<1>10. QED
    BY <1>2, <1>7, <1>8, <1>9

\* The search is over: page_allocate knows the last segment of the thread's memory.
LEMMA SearchFailsBlocks ==
    ASSUME TypeInv, TypeInv', PagesInv, BlocksKnown, SearchFails \/ SearchFailsFull
    PROVE  LayoutInv'
<1>1. /\ pc = "search" /\ pc' = "pages" /\ loc.pi > loc.last
      /\ UNCHANGED << mem, view, blocks, freed, halt >>
    BY DEF SearchFails, SearchFailsFull, Searched, At
<1>2. loc \in MallocCalls
    BY <1>1 DEF TypeInv, CallOK
<1>3. PICK start : /\ loc' = [loc EXCEPT !.start = start]
                   /\ start = loc.last \/ loc.start = Unassigned \/ start = loc.start
    BY DEF SearchFails, SearchFailsFull
<1>4. /\ loc'.id = loc.id /\ loc'.size = loc.size /\ loc'.segments = loc.segments
      /\ loc'.first = loc.first /\ loc'.last = loc.last /\ loc'.start = start
      /\ loc'.start_seg = loc.start_seg
    BY <1>2, <1>3 DEF MallocCalls
<1>5. SearchInv
    BY <1>1 DEF BlocksKnown
<1>6. BlocksInv'
    BY <1>1, QuietBlocks DEF BlocksKnown, Releasing
<1>7. PagesKnown'
    <2>1. Asks' /\ loc'.first = view'[loc'.id].first /\ loc'.last = view'[loc'.id].last
        BY <1>1, <1>4, <1>5 DEF Asks, SearchInv, PagesInv, CallInv
    <2>2. CASE loc.first <= loc.last
        <3>1. loc.pi <= loc.last + 1 /\ LastSegment
            BY <1>1, <1>5, <2>2 DEF SearchInv
        <3>2. loc.pi \in Int /\ loc.last \in Int /\ loc.first \in Int
            BY <1>2, Parameters DEF MallocCalls, NoPage
        <3>3. loc.pi - 1 = loc.last /\ loc.pi # loc.first
            BY <1>1, <2>2, <3>1, <3>2
        <3>4. start \in {NoIndex, loc.last}
            BY <1>3, <1>5, <3>3 DEF SearchInv
        <3>5. LastSegment'
            BY <1>1, <1>4, <3>1 DEF LastSegment, Own
        <3>6. QED
            BY <1>4, <2>1, <2>2, <3>4, <3>5 DEF PagesKnown
    <2>3. CASE ~(loc.first <= loc.last)
        BY <1>4, <1>5, <2>1, <2>3 DEF PagesKnown, SearchInv
    <2>4. QED
        BY <2>2, <2>3
<1>8. QED
    BY <1>1, <1>6, <1>7 DEF LayoutInv, BlocksKnown

\* A block that fills a page from before it overflows to no page behind it.
LEMMA FilledPage ==
    ASSUME NEW B, Separate(B), NEW i \in Int, Fills(B, i), NEW headers, NEW page,
           Describes(headers, page, B, i)
    PROVE  page.length = 1 /\ Busy(B, i, NumSegments - 1)
<1>1. PICK b \in B : b.cell < Cell(i, 0) /\ b.cell + b.len = Cell(i + 1, 0)
    BY DEF Fills
<1>2. NumSegments \in Nat \ {0} /\ \A c \in B : c.cell \in Nat /\ c.len \in Nat \ {0}
    BY Parameters DEF Separate
<1>3. Cell(i, 0) \in Int /\ Cell(i + 1, 0) = Cell(i, 0) + NumSegments
    BY CellSum
<1>4. ~Spans(B, i)
    <2> SUFFICES ASSUME NEW c \in B, c.cell < Cell(i + 1, 0), Cell(i + 1, 0) < c.cell + c.len
                 PROVE  FALSE
        BY DEF Spans
    <2>1. c # b
        BY <1>1, <1>2, <1>3
    <2>2. c.cell + c.len <= b.cell \/ b.cell + b.len <= c.cell
        BY <2>1 DEF Separate
    <2>3. QED
        BY <1>1, <1>2, <1>3, <2>2
<1>5. Busy(B, i, NumSegments - 1)
    <2>1. NumSegments \in Int /\ NumSegments - 1 \in Int
        BY <1>2
    <2>2. Cell(i, NumSegments) = Cell(i, 0) + NumSegments
        BY ONLY <2>1, CellSum, i \in Int
    <2>3. b.cell + b.len = Cell(i, NumSegments)
        BY <1>1, <1>3, <2>2
    <2>4. QED
        BY ONLY <2>1, <2>3, BlockEnds, b \in B, Separate(B), i \in Int
<1>6. QED
    BY <1>4, <1>5 DEF Describes

\* What free_ptr looks at, or stays at.
LEMMA ScanHeader ==
    ASSUME TypeInv, PagesInv, BlocksKnown, pc = "scan"
    PROVE  /\ loc \in FreeCalls /\ loc.id \in Pids /\ loc.pi \in Pages /\ loc.at \in Pages
           /\ loc.at = mem.ht[loc.id][loc.pi]
           /\ mem.pages[loc.at].pid = loc.id /\ mem.pages[loc.at].index = loc.pi
           /\ mem.pages[loc.at].occ
           /\ InView(view, loc.id, loc.pi)
           /\ Separate(Own) /\ WalkInv
           /\ Sheet(mem, loc.id, loc.pi) \in [Segments -> HeaderRecords]
           /\ mem.pages[loc.at] \in PageRecords
           /\ Describes(Sheet(mem, loc.id, loc.pi), mem.pages[loc.at], Own, loc.pi)
           /\ \A s \in Segments : Sheet(mem, loc.id, loc.pi)[s] = mem.headers[Cell(loc.at, s)]
<1>1. loc \in FreeCalls /\ loc.id \in Pids /\ mem \in Memory
    BY DEF TypeInv, CallOK, FreeCalls
<1>2. loc.pi <= loc.last /\ loc.at = mem.ht[loc.id][loc.pi]
    BY DEF BlocksKnown, FreeKnown
<1>3. view[loc.id].first <= loc.pi /\ loc.last = view[loc.id].last /\ view[loc.id].first >= 0
    BY <1>1 DEF PagesInv, CallInv
<1>4. loc.pi \in Pages /\ InView(view, loc.id, loc.pi)
    <2>1. loc.pi \in Int /\ view[loc.id].first \in Int /\ loc.last \in NoPage .. NumPages - 1
        BY <1>1, Parameters DEF FreeCalls, TypeInv, Views, NoPage
    <2>2. QED
        BY <1>2, <1>3, <2>1, Parameters DEF InView, Pages, NoPage
<1>5. PICK used \in Nat : PageMap(mem, view, freed, used)
    BY SameSeen DEF PagesInv
<1>6. /\ loc.at \in Pages /\ mem.pages[loc.at].occ
      /\ mem.pages[loc.at].pid = loc.id /\ mem.pages[loc.at].index = loc.pi
    BY <1>1, <1>2, <1>4, <1>5, SeenPage
<1>7. Layout(mem, view, blocks, freed)
    BY CalmBlocks DEF BlocksKnown
<1>8. /\ Sheet(mem, loc.id, loc.pi) \in [Segments -> HeaderRecords]
      /\ PageAt(mem, loc.id, loc.pi) = mem.pages[loc.at]
      /\ mem.pages[loc.at] \in PageRecords
    <2>1. mem.ht[loc.id][loc.pi] # NoPage
        BY <1>2, <1>6, PageNumbers
    <2>2. Sheet(mem, loc.id, loc.pi) \in [Segments -> HeaderRecords]
        BY <1>1, <1>4, <2>1, SheetType
    <2>3. QED
        BY <1>1, <1>2, <1>6, <2>2 DEF PageAt, Memory
<1>9. Separate(Own) /\ Describes(Sheet(mem, loc.id, loc.pi), mem.pages[loc.at], Own, loc.pi)
    BY <1>1, <1>4, <1>7, <1>8 DEF Layout, Drawn, Own
<1>10. \A s \in Segments : Sheet(mem, loc.id, loc.pi)[s] = mem.headers[Cell(loc.at, s)]
    BY <1>2 DEF Sheet
<1>11. QED
    BY <1>1, <1>2, <1>4, <1>6, <1>8, <1>9, <1>10, Zenon DEF BlocksKnown

\* A walk stays at a page that the block before it fills.
LEMMA SkipPageBlocks ==
    ASSUME TypeInv, TypeInv', PagesInv, BlocksKnown, SkipPage
    PROVE  LayoutInv'
<1> DEFINE page == mem.pages[IF pc = "scan" THEN loc.at ELSE Actual]
<1>1. /\ pc \in {"search", "release", "scan"} /\ (pc # "scan" => Actual # NoPage)
      /\ loc.pi <= loc.last /\ loc.si >= NumSegments
      /\ loc' = NextPage(page, loc.ovf) /\ pc' = IF pc = "scan" THEN "turn" ELSE pc
      /\ UNCHANGED << mem, view, blocks, freed, halt >>
    BY DEF SkipPage, Walking, At
<1>2. loc \in MallocCalls \/ loc \in FreeCalls \/ loc \in ReleaseCalls
    BY <1>1 DEF TypeInv, CallOK
<1>3. loc.si \in Nat /\ NumSegments \in Nat \ {0} /\ loc.pi \in Int
    BY <1>2, Parameters DEF MallocCalls, FreeCalls, ReleaseCalls
<1>4. loc.si = NumSegments /\ loc.ovf = NumSegments /\ Fills(Own, loc.pi)
    BY <1>1, <1>3 DEF BlocksKnown, WalkInv
<1>5. page.length = 1
    <2>1. CASE pc = "scan"
        <3>1. Separate(Own) /\ Describes(Sheet(mem, loc.id, loc.pi), mem.pages[loc.at], Own, loc.pi)
            BY <2>1, ScanHeader
        <3>2. mem.pages[loc.at].length = 1
            BY <1>3, <1>4, <3>1, FilledPage
        <3>3. QED
            BY <2>1, <3>2
    <2>2. CASE pc # "scan"
        <3>1. /\ loc.id \in Pids /\ loc.pi \in Pages /\ InView(view, loc.id, loc.pi)
              /\ Actual = mem.ht[loc.id][loc.pi]
            BY <1>1, <2>2, WalkMap
        <3>2. Layout(mem, view, blocks, freed)
            BY <1>1, CalmBlocks DEF BlocksKnown
        <3>3. Separate(Own) /\ Describes(Sheet(mem, loc.id, loc.pi), mem.pages[Actual], Own, loc.pi)
            BY <3>1, <3>2 DEF Layout, Drawn, Own, PageAt
        <3>4. mem.pages[Actual].length = 1
            BY <1>3, <1>4, <3>3, FilledPage
        <3>5. QED
            BY <2>2, <3>4
    <2>3. QED
        BY <2>1, <2>2
<1> HIDE DEF page
<1>6. loc' = loc
    <2>1. loc' = [loc EXCEPT !.ovf = NumSegments, !.si = NumSegments,
                             !.pi = loc.pi + page.length - 1]
        BY <1>1, <1>2, <1>3, <1>4 DEF NextPage, MallocCalls, FreeCalls, ReleaseCalls
    <2>2. loc.pi + page.length - 1 = loc.pi
        BY <1>3, <1>5
    <2>3. loc' = [loc EXCEPT !.ovf = loc.ovf, !.si = loc.si, !.pi = loc.pi]
        BY <1>4, <2>1, <2>2
    <2>4. CASE loc \in MallocCalls
        BY <2>3, <2>4 DEF MallocCalls
    <2>5. CASE loc \in FreeCalls
        BY <2>3, <2>5 DEF FreeCalls
    <2>6. CASE loc \in ReleaseCalls
        BY <2>3, <2>6 DEF ReleaseCalls
    <2>7. QED
        BY <1>2, <2>4, <2>5, <2>6
<1>7. BlocksInv'
    BY <1>1, <1>6, QuietBlocks DEF BlocksKnown, Releasing
<1>8. WalkInv' /\ Own' = Own
    <2>1. view[loc.id].first <= loc.pi
        BY <1>1 DEF WalkInv, BlocksKnown
    <2>2. Own' = Own /\ ~(loc'.si < NumSegments) /\ view' = view
        BY <1>1, <1>3, <1>4, <1>6 DEF Own
    <2>3. QED
        BY <1>4, <1>6, <2>1, <2>2 DEF WalkInv
<1>9. CASE pc = "scan"
    <2>1. FreeKnown /\ pc' = "turn"
        BY <1>1, <1>9 DEF BlocksKnown
    <2>2. FreeKnown'
        BY <1>1, <1>6, <1>8, <2>1 DEF FreeKnown, Astray
    <2>3. QED
        BY <1>7, <1>8, <2>1, <2>2 DEF LayoutInv, BlocksKnown
<1>10. CASE pc = "search"
    <2>1. SearchInv'
        BY <1>1, <1>6, <1>8, <1>10 DEF BlocksKnown, SearchInv, Asks, LastSegment
    <2>2. QED
        BY <1>1, <1>7, <1>8, <1>10, <2>1 DEF LayoutInv, BlocksKnown
<1>11. CASE pc = "release"
    <2>1. ReleaseKnown'
        BY <1>1, <1>6, <1>8, <1>11 DEF BlocksKnown, ReleaseKnown, Passed
    <2>2. QED
        BY <1>1, <1>7, <1>8, <1>11, <2>1 DEF LayoutInv, BlocksKnown
<1>12. QED
    BY <1>1, <1>9, <1>10, <1>11

-----------------------------------------------------------------------------
(* The pages of a block *)

\* A size below that of a page: it takes one page.
LEMMA SmallSize ==
    ASSUME NEW size \in Nat, size < page_size
    PROVE  /\ PageCount(size) = 1
           /\ SegmentsInLast(size) = size \div SEGMENTSIZE + 1
           /\ size \div SEGMENTSIZE + 1 \in 1 .. NumSegments
<1>1. SEGMENTSIZE \in Nat \ {0} /\ NumSegments \in Nat \ {0} /\ page_size \in Nat \ {0}
    BY Parameters
<1>2. size \div page_size = 0 /\ size % page_size = size
    BY <1>1
<1>3. PageCount(size) = 1 /\ SegmentsInLast(size) = size \div SEGMENTSIZE + 1
    BY <1>2 DEF PageCount, SegmentsInLast
<1>4. size < NumSegments * SEGMENTSIZE
    BY <1>1 DEF page_size
<1> DEFINE q == size \div SEGMENTSIZE
<1>5. q \in Nat /\ q * SEGMENTSIZE <= size
    BY <1>1
<1> HIDE DEF q
<1>6. q < NumSegments
    <2>1. SUFFICES ASSUME q >= NumSegments PROVE FALSE
        BY <1>1, <1>5
    <2>2. q * SEGMENTSIZE >= NumSegments * SEGMENTSIZE
        BY <1>1, <1>5, <2>1
    <2>3. q * SEGMENTSIZE \in Int /\ NumSegments * SEGMENTSIZE \in Int
        BY <1>1, <1>5
    <2>4. QED
        BY <1>4, <1>5, <2>2, <2>3
<1>7. q + 1 \in 1 .. NumSegments
    BY <1>1, <1>5, <1>6
<1>8. QED
    BY <1>3, <1>7 DEF q

\* The layout is that of the pages threads see.
LEMMA SameLayout ==
    ASSUME NEW m \in Memory, NEW v, NEW w, NEW held, NEW gave, SameView(v, w),
           Layout(m, v, held, gave)
    PROVE  Layout(m, w, held, gave)
<1>1. Drawn(m, w, held)
    BY DEF Layout, Drawn, SameView
<1>2. ~gave => Stacked(w, held) /\ Fresh(m)
    BY DEF Layout, Stacked, SameView
<1>3. Owned(m, w)
    <2> SUFFICES ASSUME NEW page \in Pages, m.pages[page].occ
                 PROVE  /\ m.pages[page].pid \in Pids
                        /\ InView(w, m.pages[page].pid, m.pages[page].index)
                        /\ m.ht[m.pages[page].pid][m.pages[page].index] = page
        BY DEF Owned
    <2>1. /\ m.pages[page].pid \in Pids
          /\ InView(v, m.pages[page].pid, m.pages[page].index)
          /\ m.ht[m.pages[page].pid][m.pages[page].index] = page
        BY DEF Layout, Owned
    <2>2. m.pages[page].index \in Pages
        BY DEF Memory, PageRecords
    <2>3. QED
        BY <2>1, <2>2 DEF SameView
<1>4. QED
    BY <1>1, <1>2, <1>3 DEF Layout

\* What a malloc asks for, of the segments and pages it takes.
LEMMA AsksFor ==
    ASSUME TypeInv, BlocksKnown, pc = "pages"
    PROVE  /\ loc \in MallocCalls /\ loc.id \in Pids
           /\ PageCount(loc.size) = 1 /\ SegmentsInLast(loc.size) = loc.segments
           /\ loc.segments \in 1 .. NumSegments
<1>1. loc \in MallocCalls /\ loc.id \in Pids /\ loc.size \in Nat
    BY DEF TypeInv, CallOK, MallocCalls
<1>2. loc.size < page_size /\ loc.segments = loc.size \div SEGMENTSIZE + 1
    BY DEF BlocksKnown, PagesKnown, Asks
<1>3. QED
    BY <1>1, <1>2, SmallSize

\* page_allocate, for a block that begins a page.
LEMMA BeginsPage ==
    ASSUME TypeInv, TypeInv', PagesInv, BlocksKnown, HasRoom, NEW pi,
           TakeFrom(pi, PageCount(loc.size), SegmentsInLast(loc.size), << >>, 0),
           UNCHANGED << mem, blocks, freed >>,
           SameView(view, Seen'), Within(Seen', blocks), Snug(Seen', blocks, {}),
           loc.free_page = NoPage => ht_get(mem, loc.id, pi) = NoPage
    PROVE  LayoutInv'
<1>1. /\ pc = "pages" /\ loc \in MallocCalls /\ loc.id \in Pids
      /\ PageCount(loc.size) = 1 /\ SegmentsInLast(loc.size) = loc.segments
      /\ loc.segments \in 1 .. NumSegments
    BY AsksFor DEF HasRoom, At
<1>2. /\ pc' = "take" /\ loc'.id = loc.id /\ loc'.segments = loc.segments
      /\ loc'.free_page = loc.free_page /\ loc'.pi = pi /\ loc'.n = 1
      /\ loc'.last_len = loc.segments /\ loc'.taken = << >> /\ loc'.seg = 0
    BY <1>1 DEF TakeFrom
<1>3. /\ Layout(mem, view, blocks, freed) /\ Settled(mem, view, loc.id, {})
    BY <1>1, CalmBlocks DEF BlocksKnown
<1>4. InFlight' = {} /\ Moving' = {} /\ Releasing' = {}
    BY <1>2 DEF InFlight, Moving, Releasing
<1>5. Held' = blocks
    <2>1. Held' = [p \in Pids |-> IF p = loc'.id THEN blocks'[p] \cup InFlight' ELSE blocks'[p]]
        BY DEF Held
    <2>2. blocks \in [Pids -> SUBSET Blocks]
        BY DEF TypeInv
    <2>3. QED
        BY <1>4, <2>1, <2>2
<1>6. mem \in Memory
    BY DEF TypeInv
<1>7. BlocksInv'
    <2> DEFINE v == Seen'
    <2>1. SameView(view, v)
        OBVIOUS
    <2> HIDE DEF v
    <2>2. Layout(mem, v, blocks, freed)
        BY ONLY <1>3, <1>6, <2>1, SameLayout
    <2>3. Settled(mem, v, loc.id, {})
        BY <1>3, <2>1 DEF Settled, SameView
    <2>4. Layout(mem, Seen', blocks, freed) /\ Settled(mem, Seen', loc.id, {})
        BY <2>2, <2>3 DEF v
    <2>5. Layout(mem, Seen, Held, freed)' /\ Settled(mem, Seen, loc.id, Moving)'
        BY <1>2, <1>4, <1>5, <2>4
    <2>6. Within(Seen, blocks)' /\ Snug(Seen, Held, Releasing)'
        BY <1>4, <1>5
    <2>7. QED
        BY <2>5, <2>6 DEF BlocksInv
<1>8. TakeKnown'
    <2>1. loc.free_page = NoPage => Candidate' = NoPage
        BY <1>2 DEF Candidate
    <2>2. QED
        BY <1>1, <1>2, <2>1 DEF TakeKnown
<1>9. QED
    BY <1>2, <1>7, <1>8 DEF LayoutInv, BlocksKnown

\* After the last page a thread sees, it finds none as long as it gave none back.
LEMMA NoneAfter ==
    ASSUME TypeInv, PagesInv, ~freed, Seen = view, NEW p \in Pids, NEW i \in Int,
           ~InView(view, p, i)
    PROVE  ht_get(mem, p, i) = NoPage
<1>1. PICK used \in Nat : PageMap(mem, view, freed, used)
    BY DEF PagesInv
<1>2. i \in Pages => mem.ht[p][i] = NoPage
    BY <1>1 DEF PageMap, Packed
<1>3. QED
    BY <1>2 DEF ht_get

\* The pages it takes come after those the thread sees.
LEMMA TakesAfter ==
    ASSUME TypeInv, PagesInv, HasRoom, loc.start # NoIndex,
           NEW n, NEW last_len, NEW taken, NEW seg,
           TakeFrom(loc.start + 1, n, last_len, taken, seg), UNCHANGED view
    PROVE  Seen' = view
<1>1. loc.start \in Int /\ pc = "pages"
    BY RoomTypes, Parameters DEF NoIndex
<1>2. pc' = "take" /\ loc'.id = loc.id /\ loc'.free_page = loc.free_page
      /\ loc'.pi = loc.start + 1
    BY TakeFromPages
<1>3. loc.free_page # NoPage => view[loc.id].last # loc.start + 1
    <2>1. loc.free_page # NoPage => loc.start = view[loc.id].last
        BY <1>1 DEF PagesInv, CallInv
    <2>2. QED
        BY <1>1, <2>1
<1>4. ~AwaitsFirst'
    BY <1>2, <1>3 DEF AwaitsFirst
<1>5. QED
    BY <1>4 DEF Seen

\* page_allocate, for a block after the thread's last page.
LEMMA FromNextPageBlocks ==
    ASSUME TypeInv, TypeInv', PagesInv, BlocksKnown, FromNextPage
    PROVE  LayoutInv'
<1>1. /\ HasRoom /\ loc.start # NoIndex /\ pc = "pages" /\ UNCHANGED << mem, view, blocks, freed >>
      /\ TakeFrom(loc.start + 1, PageCount(loc.size), SegmentsInLast(loc.size), << >>, 0)
    BY DEF FromNextPage, HasRoom, At
<1>2. /\ loc.id \in Pids /\ loc.start \in Int /\ loc.start # -1 /\ loc.start + 1 \in Int
      /\ loc \in MallocCalls
    BY <1>1, RoomTypes, Parameters DEF NoIndex
<1>3. view[loc.id].first \in Int /\ view[loc.id].last \in Int
    <2>1. view[loc.id] \in Views
        BY <1>2 DEF TypeInv
    <2>2. QED
        BY <2>1, Parameters DEF Views, NoPage
<1>4. ~freed /\ Seen = view /\ PagesKnown /\ loc.last = view[loc.id].last
      /\ loc.first = view[loc.id].first
    BY <1>1, SameSeen DEF PagesInv, CallInv, BlocksKnown, PagesKnown
<1>5. ~InView(view, loc.id, loc.start + 1)
    <2>1. CASE loc.first <= loc.last
        <3>1. loc.start = loc.last
            BY <1>1, <1>4, <2>1 DEF PagesKnown, NoIndex
        <3>2. QED
            BY <1>2, <1>3, <1>4, <3>1 DEF InView
    <2>2. CASE ~(loc.first <= loc.last)
        BY <1>2, <1>3, <1>4, <2>2 DEF InView
    <2>3. QED
        BY <2>1, <2>2
<1>6. ht_get(mem, loc.id, loc.start + 1) = NoPage
    BY <1>2, <1>4, <1>5, NoneAfter
<1>7. Seen' = view
    BY <1>1, TakesAfter
<1>8. SameView(view, Seen') /\ Within(Seen', blocks) /\ Snug(Seen', blocks, {})
    <2>1. Within(view, blocks) /\ Snug(view, blocks, {})
        BY <1>1, CalmBlocks DEF BlocksKnown, Releasing
    <2>2. QED
        BY <1>7, <2>1 DEF SameView
<1> DEFINE pi == loc.start + 1
<1>9. /\ TakeFrom(pi, PageCount(loc.size), SegmentsInLast(loc.size), << >>, 0)
      /\ loc.free_page = NoPage => ht_get(mem, loc.id, pi) = NoPage
    BY <1>1, <1>6
<1> HIDE DEF pi
<1>10. QED
    BY <1>1, <1>8, <1>9, BeginsPage

\* page_allocate, for a thread that has no page and hence no block.
LEMMA FirstPagesBlocks ==
    ASSUME TypeInv, TypeInv', PagesInv, BlocksKnown, FirstPages
    PROVE  LayoutInv'
<1> DEFINE id == loc.id
<1>1. /\ HasRoom /\ loc.start = NoIndex /\ UNCHANGED << mem, blocks, freed, halt >> /\ pc = "pages"
      /\ view' = [view EXCEPT ![id] = [first |-> loc.free_page, last |-> loc.free_page]]
      /\ TakeFrom(loc.free_page, PageCount(loc.size), SegmentsInLast(loc.size), << >>, 0)
    BY DEF FirstPages, HasRoom, At
<1>2. id \in Pids /\ loc.free_page \in Pages \cup {NoPage}
    BY <1>1, RoomTypes
<1>3. /\ pc' = "take" /\ loc'.id = id /\ loc'.free_page = loc.free_page
      /\ loc'.pi = loc.free_page
    BY <1>1, TakeFromPages
<1>4. CASE loc.free_page = NoPage
    BY <1>3, <1>4 DEF LayoutInv, Doomed
<1>5. CASE loc.free_page # NoPage
    <2>1. view[id].last = -1
        BY <1>1, <1>2, <1>5 DEF PagesInv, CallInv, NoIndex
    <2>2. view \in [Pids -> Views] /\ view[id].first \in Int /\ view[id].first >= 0
        BY <1>2, Parameters DEF TypeInv, Views, NoPage, PagesInv
    <2>3. view'[id] = [first |-> loc.free_page, last |-> loc.free_page]
        BY <1>1, <1>2, <2>2
    <2>4. AwaitsFirst'
        BY <1>3, <1>5, <2>3 DEF AwaitsFirst
    <2>5. Seen' = [view' EXCEPT ![id] = NoView]
        BY <1>3, <2>4 DEF Seen
    <2>6. Seen' = [view EXCEPT ![id] = NoView]
        BY <1>1, <2>2, <2>5
    <2>7. Seen'[id] = NoView /\ \A p \in Pids : p # id => Seen'[p] = view[p]
        BY <1>2, <2>2, <2>6
    <2>8. SameView(view, Seen')
        <3> SUFFICES ASSUME NEW p \in Pids, NEW index \in Pages
                     PROVE  InView(Seen', p, index) <=> InView(view, p, index)
            BY DEF SameView
        <3>1. CASE p = id
            <4>1. index \in 0 .. NumPages - 1
                BY DEF Pages
            <4>2. ~InView(view, p, index)
                BY <2>1, <2>2, <3>1, <4>1, Parameters DEF InView
            <4>3. ~InView(Seen', p, index)
                BY <2>7, <3>1, <4>1, Parameters DEF InView, NoView
            <4>4. QED
                BY <4>2, <4>3
        <3>2. CASE p # id
            BY <2>7, <3>2 DEF InView
        <3>3. QED
            BY <3>1, <3>2
    <2>9. /\ \A p \in Pids : Separate(blocks[p])
          /\ Within(view, blocks) /\ Snug(view, blocks, {})
        BY <1>1, CalmBlocks DEF BlocksKnown, Releasing, Layout
    <2>10. blocks[id] = {}
        <3> SUFFICES ASSUME NEW b \in blocks[id] PROVE FALSE
            OBVIOUS
        <3>1. b.cell \in Int /\ b.len \in Int /\ b.len > 0
            BY <1>2, <2>9, Parameters DEF Separate
        <3>2. Cell(view[id].first, 0) <= b.cell /\ b.cell + b.len <= Cell(view[id].last + 1, 0)
            BY <1>2, <2>9 DEF Within
        <3>3. view[id].last + 1 = 0
            BY <2>1
        <3>4. Cell(0, 0) <= Cell(view[id].first, 0) /\ Cell(0, 0) \in Int
              /\ Cell(view[id].first, 0) \in Int
            BY <2>2, CellUpTo
        <3>5. QED
            BY <3>1, <3>2, <3>3, <3>4
    <2>11. Within(Seen', blocks)
        BY <2>7, <2>9, <2>10 DEF Within
    <2>12. Snug(Seen', blocks, {})
        <3>1. ~(Seen'[id].first <= Seen'[id].last)
            BY <2>7, Parameters DEF NoView
        <3>2. QED
            BY <2>7, <2>9, <3>1 DEF Snug
    <2> DEFINE pi == loc.free_page
    <2>13. /\ TakeFrom(pi, PageCount(loc.size), SegmentsInLast(loc.size), << >>, 0)
           /\ loc.free_page = NoPage => ht_get(mem, loc.id, pi) = NoPage
        BY <1>1, <1>5
    <2> HIDE DEF pi
    <2>14. QED
        BY <1>1, <2>8, <2>11, <2>12, <2>13, BeginsPage
<1>6. QED
    BY <1>4, <1>5

\* What is left of a block whose first segments end a page.
LEMMA SegmentsLeft ==
    ASSUME NEW size \in Nat, size < page_size, NEW s \in Segments,
           NumSegments - s < size \div SEGMENTSIZE + 1
    PROVE  LET left == size - (NumSegments - s) * SEGMENTSIZE
           IN  /\ PageCount(left) = 1
               /\ SegmentsInLast(left) = size \div SEGMENTSIZE + 1 - (NumSegments - s)
               /\ SegmentsInLast(left) \in 1 .. NumSegments
<1> DEFINE d == NumSegments - s
           q == size \div SEGMENTSIZE
           left == size - d * SEGMENTSIZE
<1>1. SEGMENTSIZE \in Nat \ {0} /\ NumSegments \in Nat \ {0} /\ s \in Nat /\ d \in Nat \ {0}
    BY Parameters DEF Segments
<1>2. q \in Nat /\ q * SEGMENTSIZE <= size /\ size < q * SEGMENTSIZE + SEGMENTSIZE /\ d <= q
    <2>1. size = SEGMENTSIZE * q + (size % SEGMENTSIZE) /\ size % SEGMENTSIZE \in 0 .. SEGMENTSIZE - 1
          /\ q \in Nat
        BY <1>1
    <2>2. d < q + 1
        OBVIOUS
    <2> HIDE DEF q, d
    <2>3. SEGMENTSIZE * q = q * SEGMENTSIZE /\ SEGMENTSIZE * q \in Int
        BY <1>1, <2>1
    <2>4. QED
        BY <1>1, <2>1, <2>2, <2>3
<1> HIDE DEF d, q
<1>3. d * SEGMENTSIZE <= q * SEGMENTSIZE /\ d * SEGMENTSIZE \in Nat /\ q * SEGMENTSIZE \in Nat
    BY <1>1, <1>2
<1>4. left \in Nat /\ left < page_size
    BY <1>2, <1>3, Parameters
<1>5. left \div SEGMENTSIZE = q - d
    <2>1. left = size - d * SEGMENTSIZE
        OBVIOUS
    <2>2. (q - d) * SEGMENTSIZE = q * SEGMENTSIZE - d * SEGMENTSIZE
        BY <1>1, <1>2
    <2>3. (q - d) * SEGMENTSIZE <= left /\ left < (q - d) * SEGMENTSIZE + SEGMENTSIZE
        BY <1>1, <1>2, <1>3, <2>1, <2>2
    <2> DEFINE r == q - d
    <2>4. r \in Nat /\ r * SEGMENTSIZE <= left /\ left < r * SEGMENTSIZE + SEGMENTSIZE
        BY <1>1, <1>2, <2>3
    <2> HIDE DEF r, left
    <2>5. left \div SEGMENTSIZE = r
        BY ONLY <1>1, <1>4, <2>4, Z3
    <2>6. QED
        BY <2>5 DEF r
<1> HIDE DEF left
<1>6. PageCount(left) = 1 /\ SegmentsInLast(left) = left \div SEGMENTSIZE + 1
      /\ left \div SEGMENTSIZE + 1 \in 1 .. NumSegments
    BY <1>4, SmallSize
<1>7. q - d + 1 = q + 1 - d
    BY <1>1, <1>2
<1>8. QED
    BY <1>5, <1>6, <1>7 DEF left, d, q

\* page_allocate, for a block that begins in the last segments of the thread's
\* last page.
LEMMA FromLastSegmentBlocks ==
    ASSUME TypeInv, TypeInv', PagesInv, BlocksKnown, FromLastSegment
    PROVE  LayoutInv'
<1> DEFINE id == loc.id
           i == loc.start
           s == loc.start_seg
           a == ht_get(mem, id, i)
           left == loc.size - (NumSegments - s) * SEGMENTSIZE
           over == SegmentsInLast(left)
           headers == Sheet(mem, id, i)
           others == Sheet(mem', id, i)
           new == [cell |-> Cell(i, s), len |-> loc.segments]
           C == Own \cup {new}
<1>1. /\ HasRoom /\ StartFree /\ pc = "pages" /\ UNCHANGED << view, blocks, freed, halt >>
      /\ mem' = [mem EXCEPT
                   !.headers[Cell(a, s)] = Header(over, TRUE, TRUE),
                   !.pages[a] = Pagedata(id, TRUE, TRUE, @.index, PageCount(left) + 1)]
      /\ TakeFrom(i + 1, PageCount(left), over, << a >>, s)
    BY DEF FromLastSegment, HasRoom, At, StartCell
<1>2. /\ loc \in MallocCalls /\ id \in Pids /\ id \in Owners
      /\ PageCount(loc.size) = 1 /\ loc.segments \in 1 .. NumSegments /\ loc.size \in Nat
    BY <1>1, AsksFor, OwnerIds DEF MallocCalls
<1>3. /\ i # NoIndex /\ s # NoSegment /\ a # NoPage /\ ~mem.headers[Cell(a, s)].occ
    BY <1>1 DEF StartFree, StartCell
<1>4. i \in Pages /\ i \in Nat /\ a = mem.ht[id][i] /\ a \in Pages /\ i + 1 \in Int
    <2>1. i \in Pages /\ a = mem.ht[id][i]
        BY <1>3 DEF ht_get
    <2>2. mem.ht[id][i] \in Pages \cup {NoPage}
        BY <1>2, <2>1 DEF TypeInv, Memory
    <2>3. i \in Nat
        BY <2>1, PageNumbers
    <2> HIDE DEF a, i
    <2>4. QED
        BY <1>3, <2>1, <2>2, <2>3
<1>5. /\ ~freed /\ Seen = view /\ PagesKnown /\ loc.last = view[id].last
      /\ loc.first = view[id].first /\ mem \in Memory /\ mem' \in Memory
    BY <1>1, SameSeen DEF PagesInv, CallInv, BlocksKnown, PagesKnown, TypeInv
<1>6. /\ i = view[id].last /\ LastSegment /\ InView(view, id, i)
      /\ view[id].first \in Int /\ view[id].last \in Int
    <2>1. loc.first <= loc.last
        BY <1>3, <1>5 DEF PagesKnown
    <2>2. LastSegment /\ loc.start = loc.last
        BY <1>3, <1>5, <2>1 DEF PagesKnown
    <2>3. view[id] \in Views
        BY <1>2 DEF TypeInv
    <2>4. view[id].first \in Int /\ view[id].last \in Int
        BY <2>3, Parameters DEF Views, NoPage
    <2>5. QED
        BY <1>5, <2>1, <2>2, <2>4 DEF InView
<1>7. PICK used \in Nat : PageMap(mem, view, freed, used)
    BY <1>5 DEF PagesInv
<1>8. mem.pages[a].occ /\ mem.pages[a].pid = id /\ mem.pages[a].index = i
    <2>1. LET page == mem.ht[id][i]
          IN  mem.pages[page].occ /\ mem.pages[page].pid = id /\ mem.pages[page].index = i
        <3>1. id \in Pids /\ i \in Pages /\ mem \in Memory /\ InView(view, id, i)
            BY <1>2, <1>4, <1>5, <1>6
        <3> HIDE DEF id, i
        <3>2. QED
            BY ONLY <3>1, <1>7, SeenPage
    <2> HIDE DEF a
    <2>2. QED
        BY <1>4, <2>1
<1>9. /\ Layout(mem, view, blocks, freed) /\ Within(view, blocks)
      /\ Snug(view, blocks, {}) /\ Settled(mem, view, id, {})
    BY <1>1, CalmBlocks DEF BlocksKnown, Releasing
<1>10. Separate(Own) /\ Describes(headers, mem.pages[a], Own, i)
       /\ headers \in [Segments -> HeaderRecords]
       /\ \A t \in Segments : headers[t] = mem.headers[Cell(a, t)]
    <2>1. headers \in [Segments -> HeaderRecords]
        BY <1>2, <1>3, <1>4, <1>5, SheetType
    <2>2. QED
        BY <1>2, <1>4, <1>6, <1>9, <2>1, Zenon DEF Layout, Drawn, PageAt, Own, Sheet
<1>11. s \in Segments /\ AtStart(Own, i, s) /\ headers[s].last
       /\ NumSegments - s < loc.segments /\ ~headers[s].occ
    BY <1>3, <1>5, <1>6, <1>10 DEF LastSegment
<1>12. /\ PageCount(left) = 1 /\ over = loc.segments - (NumSegments - s)
       /\ over \in 1 .. NumSegments
    <2> DEFINE size == loc.size
    <2>1. size \in Nat /\ size < page_size /\ loc.segments = size \div SEGMENTSIZE + 1
        BY <1>2, <1>5 DEF PagesKnown, Asks
    <2>2. NumSegments - s < size \div SEGMENTSIZE + 1 /\ s \in Segments
        BY <1>11, <2>1
    <2>3. left = size - (NumSegments - s) * SEGMENTSIZE /\ over = SegmentsInLast(left)
        OBVIOUS
    <2> HIDE DEF size, s
    <2>4. QED
        <3>1. NumSegments - s < size \div SEGMENTSIZE + 1
            BY <2>2
        <3>2. /\ PageCount(size - (NumSegments - s) * SEGMENTSIZE) = 1
              /\ SegmentsInLast(size - (NumSegments - s) * SEGMENTSIZE)
                    = size \div SEGMENTSIZE + 1 - (NumSegments - s)
              /\ SegmentsInLast(size - (NumSegments - s) * SEGMENTSIZE) \in 1 .. NumSegments
            BY ONLY <2>1, <2>2, <3>1, SegmentsLeft
        <3> DEFINE q == size \div SEGMENTSIZE
        <3>3. q \in Int /\ NumSegments - s \in Int
            BY <2>1, <2>2, Parameters DEF Segments
        <3>4. q + 1 - (NumSegments - s) = (q + 1) - (NumSegments - s)
            BY <3>3
        <3>5. loc.segments = q + 1 /\ over = q + 1 - (NumSegments - s)
            BY <2>1, <3>2 DEF size
        <3> HIDE DEF q, over
        <3>6. over = loc.segments - (NumSegments - s)
            BY <3>4, <3>5
        <3>7. QED
            BY <3>2, <3>6 DEF size, over
<1>13. FreeStart(Own, i, s) /\ s + headers[s].size = NumSegments
       /\ \A t \in s .. NumSegments - 1 : ~Busy(Own, i, t)
    <2>1. FreeStart(Own, i, s)
        <3>1. i \in Int
            BY <1>4
        <3> DEFINE B == Own
                   page == mem.pages[a]
                   h == headers[s]
        <3>2. Separate(B) /\ Describes(headers, page, B, i) /\ AtStart(B, i, s) /\ ~h.occ
              /\ h = headers[s]
            BY <1>10, <1>11
        <3> HIDE DEF B, page, h, headers, i, s
        <3>3. FreeStart(B, i, s)
            BY ONLY <1>10, <1>11, <3>1, <3>2, WalkOn
        <3>4. QED
            BY <3>3 DEF B
    <2>2. headers[s].size \in Nat /\ s \in Nat
        BY <1>10, <1>11, Parameters DEF HeaderRecords, Segments
    <2>3. FreeHeader(headers[s], Own, i, s)
        BY <1>10, <1>11, <2>1 DEF Describes
    <2>4. s + headers[s].size = NumSegments
        BY <1>11, <2>3 DEF FreeHeader
    <2> DEFINE end == s + headers[s].size
    <2>5. (\A t \in s .. end - 1 : ~Busy(Own, i, t)) /\ end = NumSegments
        <3>1. \A t \in s .. s + headers[s].size - 1 : ~Busy(Own, i, t)
            BY <2>3 DEF FreeHeader
        <3>2. s + headers[s].size - 1 = end - 1
            BY <2>2
        <3>3. QED
            BY <2>4, <3>1, <3>2
    <2> HIDE DEF end
    <2>6. \A t \in s .. NumSegments - 1 : ~Busy(Own, i, t)
        BY <2>5
    <2>7. QED
        BY <2>1, <2>4, <2>6
<1> HIDE DEF left
<1>14. 1 + 1 \in 1 .. NumPages
    <2>1. i + 1 < NumPages
        BY <1>1, <1>2, <1>3 DEF HasRoom
    <2>2. QED
        BY <1>4, <2>1, Parameters
<1>15. /\ mem'.ht = mem.ht /\ \A page \in Pages \ {a} : mem'.pages[page] = mem.pages[page]
       /\ mem'.pages[a] = [pid |-> id, occ |-> TRUE, ovf |-> TRUE, index |-> i, length |-> 2]
       /\ mem'.headers = [mem.headers EXCEPT ![Cell(a, s)] = Header(over, TRUE, TRUE)]
    <2>1. Pagedata(id, TRUE, TRUE, i, 1 + 1)
            = [pid |-> id, occ |-> TRUE, ovf |-> TRUE, index |-> i, length |-> 1 + 1]
        BY <1>2, <1>4, <1>14, PagedataType
    <2>2. /\ mem'.ht = mem.ht
          /\ mem'.pages = [mem.pages EXCEPT ![a] =
                              Pagedata(id, TRUE, TRUE, mem.pages[a].index, PageCount(left) + 1)]
          /\ mem'.headers = [mem.headers EXCEPT ![Cell(a, s)] = Header(over, TRUE, TRUE)]
        BY <1>1, <1>5 DEF Memory
    <2>3. mem.pages \in [Pages -> PageRecords]
        BY <1>5 DEF Memory
    <2>4. PageCount(left) + 1 = 1 + 1 /\ 1 + 1 = 2
        BY <1>12
    <2> HIDE DEF a, i, over
    <2>5. mem'.pages = [mem.pages EXCEPT ![a] = Pagedata(id, TRUE, TRUE, i, 1 + 1)]
        BY <1>8, <2>2, <2>4
    <2>6. mem'.pages[a] = [pid |-> id, occ |-> TRUE, ovf |-> TRUE, index |-> i, length |-> 2]
        BY <1>4, <2>1, <2>3, <2>4, <2>5
    <2>7. \A page \in Pages \ {a} : mem'.pages[page] = mem.pages[page]
        BY <2>3, <2>5
    <2>8. QED
        BY <2>2, <2>6, <2>7
<1>16. IsHeader(Header(over, TRUE, TRUE), over, TRUE, TRUE)
    BY <1>12, HeaderParts
<1>17. /\ Cell(a, s) \in Cells /\ Cell(i, s) \in Nat
       /\ \A page \in Pages, t \in Segments :
             /\ Cell(page, t) \in Cells /\ Cell(page, t) \div NumSegments = page
             /\ Cell(page, t) = Cell(a, s) => page = a /\ t = s
    <2>1. \A page \in Pages, t \in Segments :
             Cell(page, t) \in Cells /\ Cell(page, t) \div NumSegments = page
        BY CellPage DEF Segments
    <2>2. \A page \in Pages, t \in Segments : Cell(page, t) = Cell(a, s) => page = a /\ t = s
        BY <1>4, <1>11, SameCell
    <2>3. QED
        BY <1>4, <1>11, <2>1, <2>2 DEF Cells
<1>18. mem.headers \in [Cells -> HeaderRecords]
    BY <1>5 DEF Memory
<1>19. /\ IsHeader(mem'.headers[Cell(a, s)], over, TRUE, TRUE)
       /\ \A c \in Cells : c # Cell(a, s) => mem'.headers[c] = mem.headers[c]
    BY <1>15, <1>16, <1>17, <1>18
<1>20. SameElsewhere(mem, mem', {a})
    <2>1. Cell(a, s) \div NumSegments = a
        BY <1>4, <1>11, <1>17
    <2>2. QED
        BY <1>15, <1>19, <2>1 DEF SameElsewhere
<1>21. others \in [Segments -> HeaderRecords] /\ PageAt(mem', id, i) = mem'.pages[a]
       /\ \A t \in Segments : others[t] = mem'.headers[Cell(a, t)]
    <2>1. mem'.ht[id][i] # NoPage
        BY <1>3, <1>4, <1>15
    <2>2. others \in [Segments -> HeaderRecords]
        BY <1>2, <1>4, <1>5, <2>1, SheetType
    <2>3. QED
        BY <1>4, <1>15, <2>2, Zenon DEF PageAt, Sheet
<1>22. new.cell = Cell(i, s) /\ new.len = loc.segments
    OBVIOUS
<1> HIDE DEF new, headers, others, over, a
<1>23. IsHeader(others[s], over, TRUE, TRUE) /\ \A t \in Segments \ {s} : others[t] = headers[t]
    <2>1. IsHeader(others[s], over, TRUE, TRUE)
        BY <1>11, <1>19, <1>21
    <2> SUFFICES ASSUME NEW t \in Segments, t # s PROVE others[t] = headers[t]
        BY <2>1
    <2>2. Cell(a, t) \in Cells /\ Cell(a, t) # Cell(a, s)
        BY <1>4, <1>11, <1>17
    <2>3. mem'.headers[Cell(a, t)] = mem.headers[Cell(a, t)]
        BY <1>19, <2>2
    <2>4. QED
        BY <1>10, <1>21, <2>3
<1>24. \A b \in Own : b.cell + b.len <= new.cell
    <2> SUFFICES ASSUME NEW b \in Own PROVE b.cell + b.len <= new.cell
        OBVIOUS
    <2>1. b.cell \in Nat /\ b.len \in Nat /\ b.len > 0
        BY <1>10, Parameters DEF Separate
    <2>2. s \in Int /\ NumSegments \in Int /\ s < NumSegments /\ i \in Int
        BY <1>4, <1>11, Parameters DEF Segments
    <2> DEFINE B == Own
               e == NumSegments
    <2>3. Separate(B) /\ (\A t \in s .. e - 1 : ~Busy(B, i, t)) /\ b \in B /\ e \in Int /\ s < e
        BY <1>10, <1>13, <2>2
    <2>8. e = NumSegments
        OBVIOUS
    <2> HIDE DEF B, e, i, s
    <2>4. b.cell + b.len <= Cell(i, s) \/ Cell(i, e) <= b.cell
        BY ONLY <2>2, <2>3, FreeRun
    <2>5. Cell(i, e) = Cell(i + 1, 0) /\ Cell(i, e) \in Int
        <3>1. Cell(i, e) \in Int /\ Cell(i, e) = Cell(i, 0) + e /\ Cell(i + 1, 0) = Cell(i, 0) + NumSegments
            BY ONLY <2>2, <2>3, CellSum
        <3>2. QED
            BY <2>8, <3>1
    <2>6. b.cell + b.len <= Cell(i + 1, 0)
        BY <1>2, <1>6, <1>9 DEF Within, Own, i
    <2>7. QED
        BY <1>22, <2>1, <2>4, <2>5, <2>6
<1>25. Separate(C)
    BY <1>2, <1>10, <1>17, <1>22, <1>24 DEF Separate
<1>26. Describes(others, mem'.pages[a], C, i)
    <2>1. s + new.len = NumSegments + over
        <3>1. s \in Int /\ loc.segments \in Int /\ NumSegments \in Int
            BY <1>2, <1>11, Parameters DEF Segments
        <3>2. QED
            BY <1>12, <1>22, <3>1
    <2> DEFINE B == Own
               page == mem.pages[a]
               data == mem'.pages[a]
    <2>2. Separate(B) /\ FreeStart(B, i, s) /\ Describes(headers, page, B, i) /\ C = B \cup {new}
          /\ data.ovf /\ data.length = 2 /\ i \in Int
        <3>1. data.ovf /\ data.length = 2
            BY <1>15
        <3>2. C = B \cup {new} /\ i \in Int
            BY <1>4
        <3>3. Separate(B) /\ FreeStart(B, i, s) /\ Describes(headers, page, B, i)
            BY <1>10, <1>13
        <3> HIDE DEF B, C, page, data
        <3>4. QED
            BY <3>1, <3>2, <3>3
    <2> HIDE DEF B, page, data, C, i, s
    <2>3. Describes(others, data, C, i)
        BY ONLY <1>10, <1>11, <1>12, <1>21, <1>22, <1>23, <1>25, <2>1, <2>2, RunSpanned DEF IsHeader
    <2>4. QED
        BY <2>3 DEF data
<1> DEFINE held == [p \in Pids |-> IF p = id THEN C ELSE blocks[p]]
<1>27. held[id] = C /\ \A p \in Pids : p # id => held[p] = blocks[p]
    BY <1>2
<1>28. /\ pc' = "take" /\ loc'.id = id /\ loc'.segments = loc.segments
       /\ loc'.free_page = loc.free_page /\ loc'.pi = i + 1 /\ loc'.n = 1
       /\ loc'.last_len = over /\ loc'.taken = << a >> /\ loc'.seg = s
    BY <1>1, <1>12 DEF TakeFrom
<1>29. Held' = held /\ Moving' = {} /\ Releasing' = {}
    <2>1. InFlight' = {new}
        <3>1. loc'.taken # << >> /\ loc'.taken[1] = a
            BY <1>28
        <3>2. InFlight' = {[cell |-> Cell(mem'.pages[loc'.taken[1]].index, loc'.seg),
                            len |-> loc'.segments]}
            BY <1>28, <3>1 DEF InFlight
        <3>3. QED
            BY <1>15, <1>28, <3>1, <3>2 DEF new
    <2>2. Held' = [p \in Pids |-> IF p = loc'.id THEN blocks'[p] \cup InFlight' ELSE blocks'[p]]
        BY DEF Held
    <2>3. QED
        BY <1>1, <1>28, <2>1, <2>2 DEF Moving, Releasing, Own
<1> HIDE DEF held
<1>30. Seen' = view
    BY <1>1, <1>3, TakesAfter
<1>31. \A q \in Pids : Separate(blocks[q]) /\ Separate(held[q])
    BY <1>9, <1>25, <1>27 DEF Layout
<1>32. \A j \in Pages : InView(view, id, j) /\ j # i => SameAt(blocks[id], held[id], j)
    <2> SUFFICES ASSUME NEW j \in Pages, InView(view, id, j), j # i
                 PROVE  SameAt(blocks[id], held[id], j)
        OBVIOUS
    <2>1. j \in Int /\ i \in Int /\ j < i
        BY <1>4, <1>6, PageNumbers DEF InView
    <2>2. Cell(j, 0) + NumSegments <= Cell(i, 0)
        BY ONLY <2>1, CellBelow
    <2>3. Cell(i, s) = Cell(i, 0) + s /\ Cell(i, 0) \in Int /\ s \in Nat /\ Cell(j, 0) \in Int
        <3>1. s \in Int /\ s \in Nat
            BY <1>11, Parameters DEF Segments
        <3>2. QED
            BY <2>1, <3>1, CellSum
    <2>4. Elsewhere(new, j)
        BY <1>22, <2>2, <2>3, Parameters DEF Elsewhere
    <2>5. QED
        BY <1>27, <2>4 DEF SameAt, Own
<1>33. Drawn(mem', view, held)
    <2>1. \A q \in Pids, j \in Pages : InView(view, q, j) /\ ~(q = id /\ j \in {i}) =>
               InView(view, q, j) /\ mem.ht[q][j] \in Pages \ {a} /\ mem'.ht[q][j] = mem.ht[q][j]
        <3> SUFFICES ASSUME NEW q \in Pids, NEW j \in Pages, InView(view, q, j),
                            ~(q = id /\ j \in {i})
                     PROVE  mem.ht[q][j] \in Pages \ {a} /\ mem'.ht[q][j] = mem.ht[q][j]
            OBVIOUS
        <3>1. mem.ht[q][j] \in Pages /\ mem.pages[mem.ht[q][j]].pid = q
              /\ mem.pages[mem.ht[q][j]].index = j
            BY <1>5, <1>7, SeenPage
        <3>2. QED
            BY <1>8, <1>15, <3>1
    <2> DEFINE old == blocks
               n == mem'
               S == {i}
               A == {a}
    <2>2. Redraws(mem, n, view, view, old, held, id, S, A) /\ Drawn(mem, view, old)
          /\ mem \in Memory /\ n \in Memory
        BY <1>5, <1>9, <1>20, <1>21, <1>26, <1>27, <1>31, <1>32, <2>1 DEF Redraws, Layout, others
    <2> HIDE DEF old, n, S, A, i, id
    <2>3. Drawn(n, view, held)
        BY ONLY <2>2, Redrawn
    <2>4. QED
        BY <2>3 DEF n
<1>34. Stacked(view, held)
    <2>1. Stacked(view, blocks)
        BY <1>5, <1>9 DEF Layout
    <2>2. \A t \in Segments : Busy(held[id], i, t) <=>
                                Busy(blocks[id], i, t) \/ t \in s .. s + new.len - 1
        <3>1. C = Own \cup {new} /\ i \in Int
            BY <1>4
        <3> HIDE DEF C, i, s
        <3>2. \A t \in Segments : Busy(C, i, t) <=> Busy(Own, i, t) \/ t \in s .. s + new.len - 1
            BY ONLY <1>11, <1>22, <1>25, <3>1, BusyMore
        <3>3. QED
            BY <1>27, <3>2 DEF Own
    <2>3. s # 0 => Busy(blocks[id], i, s - 1)
        BY <1>13 DEF FreeStart, Own
    <2> DEFINE old == blocks
               end == s + new.len - 1
    <2>8. end \in Int
        BY <1>2, <1>11, <1>22, Parameters DEF Segments
    <2>4. /\ Stacked(view, old)
          /\ \A q \in Pids : Separate(old[q])
          /\ \A q \in Pids : Separate(held[q])
          /\ \A q \in Pids : q # id => held[q] = old[q]
          /\ \A j \in Pages : InView(view, id, j) /\ j # i => SameAt(old[id], held[id], j)
          /\ s # 0 => Busy(old[id], i, s - 1)
          /\ \A t \in Segments : Busy(held[id], i, t) <=> Busy(old[id], i, t) \/ t \in s .. end
          /\ i \in Pages /\ id \in Pids
        BY <1>2, <1>4, <1>27, <1>31, <1>32, <2>1, <2>2, <2>3
    <2> HIDE DEF old, end, i, s, id
    <2>5. Stacked(view, held)
        BY ONLY <1>11, <2>4, <2>8, StackedMore
    <2>6. QED
        BY <2>5
<1>35. Fresh(mem')
    <2> SUFFICES ASSUME NEW page \in Pages, ~mem'.pages[page].occ
                 PROVE  IsHeader(mem'.headers[Cell(page, 0)], NumSegments, FALSE, TRUE)
        BY DEF Fresh
    <2>1. page # a /\ ~mem.pages[page].occ
        BY <1>15
    <2>2. 0 \in Segments
        BY Parameters DEF Segments
    <2>3. mem'.headers[Cell(page, 0)] = mem.headers[Cell(page, 0)]
        BY <1>17, <1>19, <2>1, <2>2
    <2>4. QED
        BY <1>5, <1>9, <2>1, <2>3 DEF Fresh, Layout
<1>36. Owned(mem', view)
    <2> SUFFICES ASSUME NEW page \in Pages, mem'.pages[page].occ
                 PROVE  /\ mem'.pages[page].pid \in Pids
                        /\ InView(view, mem'.pages[page].pid, mem'.pages[page].index)
                        /\ mem'.ht[mem'.pages[page].pid][mem'.pages[page].index] = page
        BY DEF Owned
    <2>1. CASE page = a
        <3>1. mem'.pages[page].pid = id /\ mem'.pages[page].index = i
            BY <1>15, <2>1
        <3>2. mem'.ht[id][i] = page
            BY <1>4, <1>15, <2>1
        <3>3. QED
            BY <1>2, <1>6, <3>1, <3>2
    <2>2. CASE page # a
        BY <1>9, <1>15, <2>2 DEF Layout, Owned
    <2>3. QED
        BY <2>1, <2>2
<1>37. Settled(mem', view, id, {})
    <2>1. \A page \in Pages : mem'.pages[page].index = mem.pages[page].index
        BY <1>8, <1>15
    <2>2. QED
        BY <1>9, <2>1 DEF Settled
<1>38. BlocksInv'
    <2>1. Layout(mem', view, held, freed)
        BY <1>31, <1>33, <1>34, <1>35, <1>36 DEF Layout
    <2>2. Snug(view, held, {})
        BY <1>2, <1>9, <1>27 DEF Snug
    <2>3. Layout(mem, Seen, Held, freed)' /\ Settled(mem, Seen, loc.id, Moving)'
        BY <1>1, <1>28, <1>29, <1>30, <1>37, <2>1
    <2>4. Within(Seen, blocks)' /\ Snug(Seen, Held, Releasing)'
        BY <1>1, <1>9, <1>29, <1>30, <2>2
    <2>5. QED
        BY <2>3, <2>4 DEF BlocksInv
<1>39. TakeKnown'
    <2>1. loc.free_page = NoPage => Candidate' = NoPage
        <3>1. ~InView(view, id, i + 1)
            BY <1>4, <1>6 DEF InView
        <3>2. ht_get(mem, id, i + 1) = NoPage
            BY <1>2, <1>4, <1>5, <3>1, NoneAfter
        <3>3. ht_get(mem', id, i + 1) = NoPage
            BY <1>15, <3>2 DEF ht_get
        <3>4. QED
            BY <1>28, <3>3 DEF Candidate
    <2>2. Len(loc'.taken) = 1 /\ loc'.taken[1] = a /\ loc'.taken # << >>
        BY <1>28
    <2>3. PICK x \in Pages, y \in Pages : x = i /\ y = a
        BY <1>4
    <2>4. loc.segments \in Int /\ s \in Int /\ over \in Int /\ NumSegments \in Int
          /\ over > 0
        BY <1>2, <1>11, <1>12, Parameters DEF Segments
    <2>5. s + loc.segments = NumSegments + over /\ ~(s + loc.segments <= NumSegments)
        BY <1>12, <2>4
    <2>6. /\ InView(Seen', loc'.id, x) /\ x = view'[loc'.id].last /\ loc'.pi = x + 1
          /\ IsAt(y, x)'
        <3>1. InView(Seen', loc'.id, x) /\ x = view'[loc'.id].last /\ loc'.pi = x + 1
            BY <1>1, <1>6, <1>28, <1>30, <2>3
        <3>2. mem'.pages[y].pid = loc'.id /\ mem'.pages[y].index = x
            BY <1>15, <1>28, <2>3
        <3>3. QED
            BY <2>3, <3>1, <3>2 DEF IsAt
    <2>8. IsAt(loc.taken[1], x)'
        BY <2>2, <2>3, <2>6 DEF IsAt
    <2> HIDE DEF i, s
    <2>7. QED
        BY <1>2, <1>28, <2>1, <2>2, <2>5, <2>6, <2>8 DEF TakeKnown
<1>40. QED
    BY <1>28, <1>38, <1>39 DEF LayoutInv, BlocksKnown

\* page_allocate takes the first free page, which its thread sees after its others.
LEMMA TakeSees ==
    ASSUME TypeInv, PagesInv, Take, loc.free_page # NoPage
    PROVE  /\ loc \in TakeCalls /\ loc.id \in Pids /\ loc.pi \in Pages
           /\ Candidate \in Pages /\ Candidate = loc.actual
           /\ loc.pi <= Candidate /\ ~mem.pages[Candidate].occ /\ ~freed /\ Seen' = view'
           /\ view'[loc.id].last = loc.pi /\ view'[loc.id].first <= loc.pi
           /\ view'[loc.id].first \in Nat /\ view'[loc.id].first <= Seen[loc.id].first
           /\ Seen[loc.id].last < loc.pi
           /\ \A p \in Pids : p # loc.id => view'[p] = Seen[p]
           /\ ~InView(Seen, loc.id, loc.pi)
           /\ Adds(mem, mem', Seen, view', loc.id, loc.pi, Candidate)
<1> DEFINE id == loc.id
           pi == loc.pi
           a == Candidate
<1>1. /\ loc \in TakeCalls /\ a \in Pages /\ pi \in Pages /\ id \in Pids /\ pc = "take"
    BY CandidateTypes DEF Take, Taking, At
<1>2. /\ mem \in Memory /\ view \in [Pids -> Views]
      /\ mem'.ht = [mem.ht EXCEPT ![id][pi] = a]
      /\ \A page \in Pages : page # a => mem'.pages[page] = mem.pages[page]
      /\ mem'.pages[a].occ = TRUE /\ mem'.pages[a].pid = id /\ mem'.pages[a].index = pi
    BY TakeWrites DEF TypeInv
<1>3. TakeInv /\ ~freed /\ \A p \in Pids : view[p].first >= 0
    BY <1>1 DEF PagesInv, CallInv
<1>4. /\ loc'.pi = pi + 1 /\ loc'.id = id /\ loc'.free_page = loc.free_page
    BY <1>1 DEF Take, TakeCalls
<1>5. pi \in Nat /\ a \in Nat /\ pi < NumPages
    <2>1. pi \in Nat /\ a \in Nat
        BY <1>1, PageNumbers, Zenon
    <2>2. pi \in 0 .. NumPages - 1
        BY <1>1 DEF Pages
    <2>3. QED
        BY <2>1, <2>2, Parameters
<1>6. view[id].first \in Nat /\ view[id].last \in Int /\ view[id].first <= NumPages
    <2>1. view[id] \in Views /\ view[id].first >= 0
        BY <1>1, <1>2, <1>3
    <2>2. QED
        BY <2>1, Parameters DEF NoPage, Views
<1>7. /\ view'[id].first = IF view[id].first > pi THEN pi ELSE view[id].first
      /\ view'[id].last = IF view[id].last < pi THEN pi ELSE view[id].last
      /\ \A p \in Pids : p # id => view'[p] = view[p]
    BY <1>1, <1>2 DEF Take
<1> HIDE DEF a
<1>8. a = loc.actual
    BY DEF Candidate, a
<1>9. /\ FirstFree(mem, a) /\ pi <= a
      /\ IF view[id].last = pi THEN view[id].first = pi ELSE view[id].last = pi - 1
    BY <1>3, <1>8 DEF TakeInv
<1>10. ~mem.pages[a].occ
    BY <1>1, <1>5, <1>9 DEF FirstFree
<1>11. view'[id].first <= pi /\ view'[id].last = pi /\ view'[id].first \in Nat
    BY <1>5, <1>6, <1>7, <1>9
<1>12. Seen' = view'
    <2>1. ~AwaitsFirst'
        BY <1>4, <1>5, <1>11 DEF AwaitsFirst
    <2>2. QED
        BY <2>1 DEF Seen
<1>13. Seen = IF view[id].last = pi THEN [view EXCEPT ![id] = NoView] ELSE view
    BY <1>1 DEF AwaitsFirst, Seen
<1>14. \A p \in Pids : p # id => view'[p] = Seen[p]
    BY <1>2, <1>7, <1>13
<1>15. /\ Seen[id].last < pi /\ view'[id].first <= Seen[id].first
       /\ ~InView(Seen, id, pi)
       /\ \A index \in Pages : InView(view', id, index) <=> InView(Seen, id, index) \/ index = pi
    <2>1. CASE view[id].last = pi
        <3>1. Seen[id].first = NumPages /\ Seen[id].last = -1
            BY <1>1, <1>2, <1>13, <2>1 DEF NoView
        <3>2. view'[id].first = pi
            BY <1>5, <1>6, <1>7, <1>9, <2>1
        <3>3. \A index \in Pages : index \in Nat /\ index < NumPages
            BY PageNumbers, Parameters DEF Pages
        <3>4. QED
            BY <1>1, <1>5, <1>11, <3>1, <3>2, <3>3, Parameters DEF InView
    <2>2. CASE view[id].last # pi
        <3>1. Seen = view /\ view[id].last = pi - 1
            BY <1>9, <1>13, <2>2
        <3>2. \A index \in Pages : index \in Nat
            BY PageNumbers
        <3>3. QED
            BY <1>5, <1>6, <1>7, <1>11, <3>1, <3>2 DEF InView
    <2>3. QED
        BY <2>1, <2>2
<1>16. Adds(mem, mem', Seen, view', id, pi, a)
    <2>1. \A p \in Pids, index \in Pages :
              mem'.ht[p][index] = IF p = id /\ index = pi THEN a ELSE mem.ht[p][index]
        BY <1>1, <1>2, OwnerIds DEF Memory
    <2>2. \A p \in Pids, index \in Pages :
             InView(view', p, index) <=> (InView(Seen, p, index) \/ (p = id /\ index = pi))
        BY <1>14, <1>15 DEF InView
    <2>3. QED
        BY <1>2, <2>1, <2>2 DEF Adds
<1>17. QED
    BY <1>1, <1>3, <1>8, <1>9, <1>10, <1>11, <1>12, <1>14, <1>15, <1>16 DEF a

\* A page is taken for the end of block b, which begins in it or before.
LEMMA TakesPage ==
    ASSUME TypeInv, TypeInv', PagesInv, BlocksKnown, Take, loc.free_page # NoPage, loc.n = 1,
           NEW b, Held'[loc.id] = blocks[loc.id] \cup {b}, Separate(Held'[loc.id]),
           \A p \in Pids : p # loc.id => Held'[p] = Held[p],
           b.cell <= Cell(loc.pi, 0), b.cell + b.len = Cell(loc.pi, loc.last_len),
           b.cell = Cell(loc.pi, 0) =>
               IsHeader(mem'.headers[Cell(Candidate, 0)], loc.last_len, TRUE,
                        loc.last_len = NumSegments),
           loc.last_len < NumSegments =>
               IsHeader(mem'.headers[Cell(Candidate, loc.last_len)], NumSegments - loc.last_len,
                        FALSE, TRUE),
           ~mem'.pages[Candidate].ovf, mem'.pages[Candidate].length = 1,
           \A c \in Cells : c \div NumSegments = Candidate \/ mem'.headers[c] = mem.headers[c],
           \A j \in Pages : InView(Seen, loc.id, j) => SameAt(Held[loc.id], Held'[loc.id], j)
    PROVE  BlocksInv' /\ loc'.n = 0
<1> DEFINE id == loc.id
           pi == loc.pi
           a == Candidate
           end == loc.last_len
           held == Held'
           n == mem'
           w == view'
           others == Sheet(n, id, pi)
<1>1. /\ loc \in TakeCalls /\ id \in Pids /\ pi \in Pages
      /\ a \in Pages /\ ~mem.pages[a].occ /\ ~freed /\ Seen' = w
      /\ w[id].last = pi /\ w[id].first <= pi
      /\ w[id].first \in Nat /\ w[id].first <= Seen[id].first
      /\ Seen[id].last < pi
      /\ \A p \in Pids : p # id => w[p] = Seen[p]
      /\ ~InView(Seen, id, pi)
      /\ Adds(mem, n, Seen, w, id, pi, a)
    BY TakeSees
<1>2. mem \in Memory /\ n \in Memory /\ loc.id = id /\ freed' = freed
    BY DEF TypeInv, Take
<1>3. /\ n.pages[a].occ /\ n.pages[a].pid = id /\ n.pages[a].index = pi
      /\ \A page \in Pages : page # a => n.pages[page] = mem.pages[page]
      /\ \A p \in Pids, index \in Pages :
            InView(w, p, index) <=> (InView(Seen, p, index) \/ (p = id /\ index = pi))
      /\ \A p \in Pids, index \in Pages :
            n.ht[p][index] = IF p = id /\ index = pi THEN a ELSE mem.ht[p][index]
    BY <1>1 DEF Adds
<1>4. /\ loc'.n = 0 /\ loc'.id = id /\ pc' = "take" /\ blocks' = blocks
    BY <1>1 DEF Take, TakeCalls, Taking, At
<1>5. Moving' = {pi} /\ Releasing' = {}
    BY <1>1, <1>4 DEF Moving, Releasing
<1>6. /\ Layout(mem, Seen, Held, FALSE) /\ Within(Seen, blocks) /\ Snug(Seen, Held, {})
      /\ Settled(mem, Seen, id, {})
    <2>1. Moving = {} /\ Releasing = {}
        BY DEF Moving, Releasing, Take, Taking, At
    <2>2. freed = FALSE
        BY <1>1 DEF TypeInv
    <2>3. QED
        BY <2>1, <2>2 DEF BlocksKnown, BlocksInv
<1>7. PICK used \in Nat : PageMap(mem, Seen, freed, used)
    BY DEF PagesInv
<1>8. pi \in Int /\ pi \in Nat /\ end \in 1 .. NumSegments
    BY <1>1, PageNumbers DEF TakeCalls
<1>9. \A p \in Pids : Separate(Held[p]) /\ Separate(held[p])
    BY <1>6 DEF Layout
<1>10. b \in held[id] /\ \A c \in held[id] : c = b \/ c.cell + c.len <= Cell(pi, 0)
    <2> SUFFICES ASSUME NEW c \in blocks[id] PROVE c.cell + c.len <= Cell(pi, 0)
        OBVIOUS
    <2>1. c.cell \in Int /\ c.len \in Int
        BY <1>1 DEF TypeInv, Blocks, Cells
    <2>2. c.cell + c.len <= Cell(Seen[id].last + 1, 0)
        BY <1>1, <1>6 DEF Within
    <2>3. Seen[id].last + 1 \in Int /\ Seen[id].last + 1 <= pi
        <3>1. Seen[id].last \in Int
            <4>1. view[id] \in Views
                BY <1>1 DEF TypeInv
            <4>2. view[id].last \in Int
                BY <4>1, Parameters DEF Views, NoPage
            <4>3. view \in [Pids -> Views]
                BY DEF TypeInv
            <4>4. QED
                BY <1>1, <4>2, <4>3 DEF Seen, NoView
        <3>2. QED
            BY <1>1, <1>8, <3>1
    <2>4. Cell(Seen[id].last + 1, 0) <= Cell(pi, 0) /\ Cell(Seen[id].last + 1, 0) \in Int
          /\ Cell(pi, 0) \in Int
        BY ONLY <1>8, <2>3, CellUpTo
    <2>5. QED
        BY <2>1, <2>2, <2>4
<1>11. /\ n.ht[id][pi] = a /\ n.ht[id][pi] # NoPage
       /\ \A t \in Segments : others[t] = n.headers[Cell(a, t)]
    <2>1. n.ht[id][pi] = a
        BY <1>1, <1>3
    <2>2. a # NoPage
        BY <1>1, PageNumbers
    <2>3. QED
        BY <2>1, <2>2 DEF Sheet
<1> HIDE DEF others, a, n, w, held, id, pi, end
<1>12. Describes(others, n.pages[a], held[id], pi)
    <2> DEFINE C == held[id]
               data == n.pages[a]
               last == end = NumSegments
    <2>1. Separate(C) /\ b \in C /\ b.cell <= Cell(pi, 0) /\ b.cell + b.len = Cell(pi, end)
        BY <1>1, <1>9, <1>10 DEF pi, end
    <2>2. \A c \in C : c = b \/ Elsewhere(c, pi)
        BY <1>10 DEF Elsewhere
    <2>3. ~data.ovf /\ data.length = 1
        BY DEF n, a
    <2>4. 0 \in Segments /\ (end < NumSegments => end \in Segments)
        BY <1>8, Parameters DEF Segments
    <2>5. b.cell = Cell(pi, 0) => IsHeader(others[0], end, TRUE, end = NumSegments)
        BY <1>11, <2>4 DEF n, a, pi, end
    <2>6. end < NumSegments => IsHeader(others[end], NumSegments - end, FALSE, TRUE)
        BY <1>11, <2>4 DEF n, a, pi, end
    <2> HIDE DEF C, data
    <2>7. Describes(others, data, C, pi)
        BY ONLY <1>8, <2>1, <2>2, <2>3, <2>5, <2>6, OneBlock DEF IsHeader
    <2>8. QED
        BY <2>7 DEF C, data
<1>13. Drawn(n, w, held)
    <2> DEFINE old == Held
               v == Seen
               S == {pi}
               A == {a}
    <2>1. \A q \in Pids, j \in Pages : InView(w, q, j) /\ ~(q = id /\ j \in S) =>
               InView(v, q, j) /\ mem.ht[q][j] \in Pages \ A /\ n.ht[q][j] = mem.ht[q][j]
        <3> SUFFICES ASSUME NEW q \in Pids, NEW j \in Pages, InView(w, q, j),
                            ~(q = id /\ j = pi)
                     PROVE  InView(v, q, j) /\ mem.ht[q][j] \in Pages \ A
                            /\ n.ht[q][j] = mem.ht[q][j]
            OBVIOUS
        <3>1. InView(v, q, j) /\ n.ht[q][j] = mem.ht[q][j]
            BY <1>3
        <3>2. mem.ht[q][j] \in Pages /\ mem.pages[mem.ht[q][j]].occ
            BY <1>2, <1>7, <3>1, SeenPage
        <3>3. QED
            BY <1>1, <3>1, <3>2
    <2>2. SameElsewhere(mem, n, A)
        BY <1>3 DEF SameElsewhere, n, a
    <2>3. \A q \in Pids : q # id => held[q] = old[q]
        BY DEF held, id
    <2>4. \A j \in Pages : InView(w, id, j) /\ j \notin S => SameAt(old[id], held[id], j)
        BY <1>1, <1>3 DEF held, id
    <2>5. Describes(Sheet(n, id, pi), PageAt(n, id, pi), held[id], pi)
        BY <1>11, <1>12 DEF PageAt, others
    <2>6. Drawn(mem, v, old)
        BY <1>6 DEF Layout
    <2> HIDE DEF old, v, S, A
    <2>7. Redraws(mem, n, v, w, old, held, id, S, A)
        BY <1>9, <2>1, <2>2, <2>3, <2>4, <2>5 DEF Redraws, old, S
    <2>8. QED
        BY ONLY <1>2, <2>6, <2>7, Redrawn
<1>14. Stacked(w, held)
    <2> SUFFICES ASSUME NEW q \in Pids, NEW j \in Pages, InView(w, q, j)
                 PROVE  /\ Busy(held[q], j, 0)
                        /\ \A s \in Segments : s # 0 /\ Busy(held[q], j, s) => Busy(held[q], j, s - 1)
        BY DEF Stacked
    <2>1. CASE q = id /\ j = pi
        <3> DEFINE C == held[id]
        <3>1. \A s \in Int : Busy(C, pi, s) <=>
                 \E c \in C : c.cell <= Cell(pi, s) /\ Cell(pi, s) < c.cell + c.len
            BY <1>1, <1>8, <1>9, BusyIn
        <3>2. \A s \in Int : Cell(pi, s) = Cell(pi, 0) + s /\ Cell(pi, 0) \in Int
            BY <1>8, CellSum
        <3>3. b.cell \in Int /\ b.cell <= Cell(pi, 0) /\ b.cell + b.len = Cell(pi, 0) + end
            <4>1. b.cell \in Int
                BY <1>1, <1>9, <1>10 DEF Separate
            <4>2. end \in Int
                BY <1>8
            <4>3. QED
                BY <3>2, <4>1, <4>2 DEF pi, end
        <3>4. \A c \in C : c.cell \in Int /\ c.len \in Int
            BY <1>1, <1>9 DEF Separate
        <3>5. \A s \in Nat : Busy(C, pi, s) <=> s < end
            <4> SUFFICES ASSUME NEW s \in Nat PROVE Busy(C, pi, s) <=> s < end
                OBVIOUS
            <4>1. ASSUME s < end PROVE Busy(C, pi, s)
                <5>1. b.cell <= Cell(pi, s) /\ Cell(pi, s) < b.cell + b.len
                    BY <1>8, <3>2, <3>3, <4>1
                <5>2. QED
                    BY <1>10, <3>1, <5>1
            <4>2. ASSUME Busy(C, pi, s) PROVE s < end
                <5>1. PICK c \in C : c.cell <= Cell(pi, s) /\ Cell(pi, s) < c.cell + c.len
                    BY <3>1, <4>2
                <5>2. CASE c = b
                    BY <1>8, <3>2, <3>3, <5>1, <5>2
                <5>3. CASE c # b
                    <6>1. c.cell + c.len <= Cell(pi, 0)
                        BY <1>10, <5>3
                    <6>2. QED
                        BY <3>2, <3>4, <5>1, <6>1
                <5>4. QED
                    BY <5>2, <5>3
            <4>3. QED
                BY <4>1, <4>2
        <3> HIDE DEF C
        <3>6. Busy(C, pi, 0) /\ \A s \in Segments : s # 0 /\ Busy(C, pi, s) => Busy(C, pi, s - 1)
            <4>1. \A s \in Segments : s \in Nat /\ (s # 0 => s - 1 \in Nat /\ s - 1 < s)
                BY Parameters DEF Segments
            <4>2. 0 < end /\ end \in Int
                BY <1>8
            <4> SUFFICES ASSUME NEW s \in Segments, s # 0, Busy(C, pi, s) PROVE Busy(C, pi, s - 1)
                BY <3>5, <4>2
            <4>3. s < end /\ s - 1 \in Nat /\ s \in Nat
                BY <3>5, <4>1
            <4>4. s - 1 < end
                BY <4>2, <4>3
            <4>5. QED
                BY <3>5, <4>3, <4>4
        <3>7. QED
            BY <2>1, <3>6 DEF C
    <2>2. CASE ~(q = id /\ j = pi)
        <3>1. InView(Seen, q, j)
            BY <1>3, <2>2
        <3>2. /\ Busy(Held[q], j, 0)
              /\ \A s \in Segments : s # 0 /\ Busy(Held[q], j, s) => Busy(Held[q], j, s - 1)
            BY <1>6, <3>1 DEF Layout, Stacked
        <3>3. SameAt(Held[q], held[q], j)
            BY <3>1 DEF SameAt, held, id
        <3>4. \A s \in Segments : Busy(Held[q], j, s) <=> Busy(held[q], j, s)
            <4> DEFINE B == Held[q]
                       C == held[q]
            <4>1. /\ Separate(B) /\ Separate(C) /\ j \in Int
                  /\ \A c \in B : c \in C \/ Elsewhere(c, j)
                  /\ \A c \in C : c \in B \/ Elsewhere(c, j)
                BY <1>9, <3>3, PageNumbers DEF SameAt
            <4> HIDE DEF B, C
            <4>2. \A s \in Segments : Busy(B, j, s) <=> Busy(C, j, s)
                BY ONLY <4>1, SameBlocks
            <4>3. QED
                BY <4>2 DEF B, C
        <3>5. 0 \in Segments /\ \A s \in Segments : s # 0 => s - 1 \in Segments
            BY Parameters DEF Segments
        <3>6. QED
            BY <3>2, <3>4, <3>5
    <2>3. QED
        BY <2>1, <2>2
<1>15. Fresh(n)
    <2> SUFFICES ASSUME NEW page \in Pages, ~n.pages[page].occ
                 PROVE  IsHeader(n.headers[Cell(page, 0)], NumSegments, FALSE, TRUE)
        BY DEF Fresh
    <2>1. page # a /\ ~mem.pages[page].occ
        BY <1>3
    <2>2. Cell(page, 0) \in Cells /\ Cell(page, 0) \div NumSegments = page
        BY CellPage, Parameters
    <2>3. n.headers[Cell(page, 0)] = mem.headers[Cell(page, 0)]
        BY <2>1, <2>2 DEF n, a
    <2>4. QED
        BY <1>6, <2>1, <2>3 DEF Fresh, Layout
<1>16. Owned(n, w)
    <2> SUFFICES ASSUME NEW page \in Pages, n.pages[page].occ
                 PROVE  /\ n.pages[page].pid \in Pids
                        /\ InView(w, n.pages[page].pid, n.pages[page].index)
                        /\ n.ht[n.pages[page].pid][n.pages[page].index] = page
        BY DEF Owned
    <2>1. CASE page = a
        BY <1>1, <1>3, <1>11, <2>1
    <2>2. CASE page # a
        <3> DEFINE q == mem.pages[page].pid
                   j == mem.pages[page].index
        <3>1. n.pages[page] = mem.pages[page]
            BY <1>3, <2>2
        <3>2. q \in Pids /\ InView(Seen, q, j) /\ mem.ht[q][j] = page
            BY <1>6, <3>1 DEF Layout, Owned
        <3>3. j \in Pages
            BY <1>2 DEF Memory, PageRecords
        <3>4. ~(q = id /\ j = pi)
            BY <1>1, <3>2
        <3>5. InView(w, q, j) /\ n.ht[q][j] = page
            BY <1>3, <3>2, <3>3, <3>4
        <3>6. QED
            BY <3>1, <3>2, <3>5
    <2>3. QED
        BY <2>1, <2>2
<1>17. Within(w, blocks)
    <2> SUFFICES ASSUME NEW p \in Pids, NEW c \in blocks[p]
                 PROVE  Cell(w[p].first, 0) <= c.cell /\ c.cell + c.len <= Cell(w[p].last + 1, 0)
        BY DEF Within
    <2>1. Cell(Seen[p].first, 0) <= c.cell /\ c.cell + c.len <= Cell(Seen[p].last + 1, 0)
        BY <1>6 DEF Within
    <2>2. CASE p # id
        BY <1>1, <2>1, <2>2
    <2>3. CASE p = id
        <3>1. c.cell \in Int /\ c.len \in Int
            BY DEF TypeInv, Blocks, Cells
        <3>2. c \in held[id]
            BY <2>3 DEF held, id
        <3>3. c = b \/ c.cell + c.len <= Cell(pi, 0)
            BY <1>10, <3>2
        <3>4. c.cell + c.len <= Cell(pi + 1, 0)
            <4>1. Cell(pi, 0) \in Int /\ Cell(pi + 1, 0) = Cell(pi, 0) + NumSegments
                  /\ Cell(pi, end) = Cell(pi, 0) + end
                BY <1>8, CellSum
            <4>2. c.cell + c.len <= Cell(pi, end) \/ c.cell + c.len <= Cell(pi, 0)
                BY <3>1, <3>3, <4>1, <1>8 DEF pi, end
            <4>3. QED
                BY <1>8, <3>1, <4>1, <4>2, Parameters
        <3>5. Seen[id].first \in Int
            <4>1. view[id] \in Views /\ view \in [Pids -> Views]
                BY <1>1 DEF TypeInv
            <4>2. view[id].first \in Int
                BY <4>1, Parameters DEF Views, NoPage
            <4>3. QED
                BY <1>1, <4>1, <4>2, Parameters DEF Seen, NoView, id
        <3>6. Cell(w[id].first, 0) <= Cell(Seen[id].first, 0) /\ Cell(w[id].first, 0) \in Int
              /\ Cell(Seen[id].first, 0) \in Int
            BY <1>1, <3>5, CellUpTo
        <3>7. QED
            BY <1>1, <2>1, <2>3, <3>1, <3>4, <3>6
    <2>4. QED
        BY <2>2, <2>3
<1>18. Snug(w, held, {})
    <2>1. held[id] # {}
        BY <1>10
    <2>2. \A p \in Pids : p # id => held[p] = Held[p]
        BY DEF held, id
    <2>3. QED
        BY <1>1, <1>6, <2>1, <2>2 DEF Snug
<1>19. Settled(n, w, id, {pi})
    <2> SUFFICES ASSUME NEW p \in Pids, NEW i \in Pages, InView(w, p, i), ~(p = id /\ i = pi)
                 PROVE  n.pages[i].index = i
        BY DEF Settled
    <2>1. InView(Seen, p, i)
        BY <1>3
    <2>2. mem.pages[i].index = i
        BY <1>6, <2>1 DEF Settled
    <2>3. mem.pages[i].occ
        <3>1. i < used
            BY <1>2, <1>7, <2>1, SeenPage
        <3>2. QED
            BY <1>1, <1>7, <3>1 DEF PageMap, Packed, FirstFree
    <2>4. QED
        BY <1>1, <1>3, <2>2, <2>3
<1>20. Layout(n, w, held, FALSE)
    BY <1>9, <1>13, <1>14, <1>15, <1>16 DEF Layout
<1>21. BlocksInv'
    <2>1. freed' = FALSE
        BY <1>1, <1>2 DEF TypeInv
    <2>2. Layout(mem', Seen', Held', freed') /\ Settled(mem', Seen', loc'.id, Moving')
        BY <1>1, <1>4, <1>5, <1>19, <1>20, <2>1 DEF n, held
    <2>3. Within(Seen', blocks') /\ Snug(Seen', Held', Releasing')
        BY <1>1, <1>4, <1>5, <1>17, <1>18 DEF held
    <2>4. QED
        BY <2>2, <2>3 DEF BlocksInv
<1>22. QED
    BY <1>4, <1>21

\* What page_allocate writes to the page it takes last.
LEMMA TakeWritesLast ==
    ASSUME TypeInv, Take, loc.n = 1
    PROVE  /\ mem'.pages[Candidate] = [pid |-> loc.id, occ |-> TRUE, ovf |-> FALSE,
                                       index |-> loc.pi, length |-> 1]
           /\ mem'.headers = IF loc.taken = << >>
                             THEN dm_allocate_block(mem.headers, Cell(Candidate, 0), loc.last_len)
                             ELSE CutLastPage(mem.headers)
<1> DEFINE put == ht_put(mem, loc.id, loc.pi, Candidate)
           cut == [put EXCEPT !.headers = CutLastPage(@)]
           first == Pagedata(loc.id, TRUE, loc.n # 1, loc.pi, loc.n)
           other == Pagedata(loc.id, TRUE, FALSE, loc.pi, 1)
<1>1. /\ Candidate \in Pages /\ loc.pi \in Pages /\ loc.id \in Owners /\ loc.n \in 1 .. NumPages
    BY CandidateTypes DEF Take
<1>2. mem \in Memory
    BY DEF TypeInv
<1>3. mem' = IF loc.taken = << >>
             THEN [cut EXCEPT !.pages[Candidate] = first,
                      !.headers = dm_allocate_block(@, Cell(Candidate, 0), loc.last_len)]
             ELSE [cut EXCEPT !.pages[Candidate] = other]
    BY DEF Take
<1>4. first = other
    <2>1. (loc.n # 1) = FALSE /\ loc.n = 1
        OBVIOUS
    <2>2. QED
        BY <2>1, Zenon
<1>5. other = [pid |-> loc.id, occ |-> TRUE, ovf |-> FALSE, index |-> loc.pi, length |-> 1]
    <2>1. TRUE \in BOOLEAN /\ FALSE \in BOOLEAN /\ 1 \in 1 .. NumPages
        BY Parameters
    <2>2. QED
        BY <1>1, <2>1, PagedataType, Zenon DEF other
<1>6. put \in Memory /\ put.pages = mem.pages /\ put.headers = mem.headers
    BY <1>1, <1>2, PutEntry DEF ht_put, Memory
<1> HIDE DEF put, first, other
<1>7. cut.pages = mem.pages /\ cut.headers = CutLastPage(mem.headers)
      /\ DOMAIN cut = {"pages", "headers", "ht"}
    BY <1>6 DEF Memory
<1> HIDE DEF cut
<1>8. loc.taken = << >> => CutLastPage(mem.headers) = mem.headers
    BY DEF CutLastPage
<1>9. /\ mem'.pages = [mem.pages EXCEPT ![Candidate] = other]
      /\ mem'.headers = IF loc.taken = << >>
                        THEN dm_allocate_block(cut.headers, Cell(Candidate, 0), loc.last_len)
                        ELSE cut.headers
    BY <1>3, <1>4, <1>7
<1>10. mem'.pages[Candidate] = other
    BY <1>1, <1>2, <1>9 DEF Memory
<1>11. QED
    BY <1>5, <1>7, <1>8, <1>9, <1>10

\* page_allocate takes a page.
LEMMA TakeBlocks ==
    ASSUME TypeInv, TypeInv', PagesInv, BlocksKnown, Take
    PROVE  LayoutInv'
<1> DEFINE id == loc.id
           pi == loc.pi
           a == Candidate
           end == loc.last_len
<1>1. /\ TakeKnown /\ loc.n = 1 /\ loc.free_page # NoPage /\ pc = "take"
      /\ pc' = "take" /\ UNCHANGED << blocks, freed, halt >>
    BY DEF Take, Taking, At, BlocksKnown, TakeKnown
<1>2. /\ loc \in TakeCalls /\ id \in Pids /\ pi \in Pages
      /\ a \in Pages /\ a = loc.actual /\ ~mem.pages[a].occ /\ ~freed /\ Seen' = view'
      /\ pi <= a /\ view'[id].last = pi /\ view'[id].first <= pi
      /\ Seen[id].last < pi /\ ~InView(Seen, id, pi)
      /\ Adds(mem, mem', Seen, view', id, pi, a)
    BY <1>1, TakeSees
<1>3. /\ mem'.pages[a] = [pid |-> id, occ |-> TRUE, ovf |-> FALSE, index |-> pi, length |-> 1]
      /\ mem'.headers = IF loc.taken = << >>
                        THEN dm_allocate_block(mem.headers, Cell(a, 0), end)
                        ELSE CutLastPage(mem.headers)
    BY <1>1, TakeWritesLast
<1>4. /\ loc'.id = id /\ loc'.segments = loc.segments /\ loc'.free_page = loc.free_page
      /\ loc'.taken = Append(loc.taken, a) /\ loc'.n = 0 /\ loc'.seg = loc.seg
    BY <1>1, <1>2 DEF Take, TakeCalls
<1>5. mem.headers \in [Cells -> HeaderRecords] /\ mem \in Memory
    BY DEF TypeInv, Memory
<1>6. /\ Layout(mem, Seen, Held, FALSE) /\ Within(Seen, blocks)
    <2>1. freed = FALSE
        BY <1>2 DEF TypeInv
    <2>2. QED
        BY <2>1 DEF BlocksKnown, BlocksInv
<1> DEFINE h == mem.headers[Cell(a, 0)]
<1>7. IsHeader(h, NumSegments, FALSE, TRUE) /\ h \in HeaderRecords
    <2>1. Cell(a, 0) \in Cells
        BY <1>2, CellPage, Parameters
    <2>2. QED
        BY <1>2, <1>5, <1>6, <2>1 DEF Layout, Fresh
<1>8. pi \in Int /\ end \in 1 .. NumSegments /\ loc.segments \in 1 .. NumSegments
      /\ NumSegments \in Nat \ {0} /\ loc.seg \in Segments /\ loc.seg \in Nat
    BY <1>1, <1>2, PageNumbers, Parameters DEF TakeCalls, TakeKnown, Segments
<1>9. \A p \in Pids : Separate(Held[p])
    BY <1>6 DEF Layout
<1>10. blocks \in [Pids -> SUBSET Blocks]
    BY DEF TypeInv
<1>11. \A p \in Pids : Held'[p] = IF p = id THEN blocks[p] \cup InFlight' ELSE blocks[p]
    BY <1>1, <1>4 DEF Held
<1>12. \A p \in Pids : Held[p] = IF p = id THEN blocks[p] \cup InFlight ELSE blocks[p]
    BY DEF Held
<1>13. \A page \in Pages : page # a => mem'.pages[page] = mem.pages[page]
    BY <1>2 DEF Adds
<1> HIDE DEF a, h
<1>14. Cell(pi, end) = Cell(pi, 0) + end /\ Cell(pi, 0) \in Int
    <2>1. end \in Int
        BY <1>8
    <2>2. QED
        BY <1>8, <2>1, CellSum
<1>15. CASE loc.taken = << >>
    <2> DEFINE b == [cell |-> Cell(pi, 0), len |-> loc.segments]
    <2>1. end = loc.segments /\ loc.seg = 0
        BY <1>1, <1>15 DEF TakeKnown
    <2>2. loc'.taken = << a >> /\ loc'.taken[1] = a /\ Len(loc'.taken) = 1 /\ loc'.taken # << >>
        BY <1>4, <1>15
    <2>3. InFlight = {} /\ InFlight' = {b}
        <3>1. InFlight = {}
            BY <1>1, <1>15 DEF InFlight
        <3>2. InFlight' = {[cell |-> Cell(mem'.pages[loc'.taken[1]].index, loc'.seg),
                            len |-> loc'.segments]}
            BY <1>1, <2>2 DEF InFlight
        <3>3. QED
            BY <1>3, <1>4, <2>1, <2>2, <3>1, <3>2
    <2>4. b.cell = Cell(pi, 0) /\ b.len = end
        BY <2>1
    <2> HIDE DEF b
    <2>5. Held'[id] = blocks[id] \cup {b} /\ \A p \in Pids : p # id => Held'[p] = Held[p]
        BY <1>2, <1>11, <1>12, <2>3
    <2>6. \A c \in blocks[id] : c.cell + c.len <= Cell(pi, 0)
        <3> SUFFICES ASSUME NEW c \in blocks[id] PROVE c.cell + c.len <= Cell(pi, 0)
            OBVIOUS
        <3>1. c.cell \in Int /\ c.len \in Int
            BY <1>2, <1>10 DEF Blocks, Cells
        <3>2. c.cell + c.len <= Cell(Seen[id].last + 1, 0)
            BY <1>2, <1>6 DEF Within
        <3>3. Seen[id].last \in Int
            <4>1. view[id] \in Views /\ view \in [Pids -> Views]
                BY <1>2 DEF TypeInv
            <4>2. view[id].last \in Int
                BY <4>1, Parameters DEF Views, NoPage
            <4>3. QED
                BY <1>2, <4>1, <4>2 DEF Seen, NoView
        <3>4. Seen[id].last + 1 \in Int /\ Seen[id].last + 1 <= pi
            BY <1>2, <1>8, <3>3
        <3>5. Cell(Seen[id].last + 1, 0) <= Cell(pi, 0) /\ Cell(Seen[id].last + 1, 0) \in Int
            BY ONLY <1>8, <3>4, CellUpTo
        <3>6. QED
            BY <1>14, <3>1, <3>2, <3>5
    <2>7. Separate(Held'[id])
        <3>1. Separate(blocks[id])
            BY <1>2, <1>9, <1>12, <2>3
        <3>2. Cell(pi, 0) \in Nat
            <4>1. Cell(pi, 0) \in Cells
                BY <1>2, CellPage, Parameters
            <4>2. QED
                BY <4>1 DEF Cells
        <3>3. QED
            BY <1>8, <2>4, <2>5, <2>6, <3>1, <3>2 DEF Separate
    <2>8. b.cell <= Cell(pi, 0) /\ b.cell + b.len = Cell(pi, end)
        BY <1>8, <1>14, <2>4
    <2>9. /\ IsHeader(mem'.headers[Cell(a, 0)], end, TRUE, end = NumSegments)
          /\ end < NumSegments =>
                IsHeader(mem'.headers[Cell(a, end)], NumSegments - end, FALSE, TRUE)
          /\ \A c \in Cells : c \div NumSegments = a \/ mem'.headers[c] = mem.headers[c]
        <3> DEFINE hs == mem.headers
                   ns == mem'.headers
                   n == end
                   s == 0
        <3>1. ns = dm_allocate_block(hs, Cell(a, s), n) /\ h = hs[Cell(a, s)]
            BY <1>3, <1>15 DEF h
        <3>2. h.size = NumSegments /\ h.last = TRUE
            BY <1>7 DEF IsHeader, HeaderRecords
        <3>3. /\ hs \in [Cells -> HeaderRecords] /\ a \in Pages /\ s \in Segments
              /\ n \in 1 .. h.size /\ s + h.size <= NumSegments
            BY <1>2, <1>5, <1>8, <3>2 DEF Segments
        <3> HIDE DEF hs, ns, n, s, id, pi, end
        <3>4. /\ IsHeader(ns[Cell(a, s)], n, TRUE, n = h.size /\ h.last)
              /\ n < h.size => IsHeader(ns[Cell(a, s + n)], h.size - n, FALSE, h.last)
              /\ \A c \in Cells : c \div NumSegments = a \/ ns[c] = hs[c]
            BY ONLY <3>1, <3>3, Allocated DEF IsHeader
        <3>5. s + n = end /\ s = 0 /\ n = end
            BY <1>8 DEF s, n, end
        <3>6. QED
            BY <3>2, <3>4, <3>5 DEF ns, hs, IsHeader
    <2>10. ~mem'.pages[a].ovf /\ mem'.pages[a].length = 1
        BY <1>3
    <2>11. \A j \in Pages : InView(Seen, id, j) => SameAt(Held[id], Held'[id], j)
        <3> SUFFICES ASSUME NEW j \in Pages, InView(Seen, id, j)
                     PROVE  SameAt(Held[id], Held'[id], j)
            OBVIOUS
        <3>1. j # pi /\ j \in Int
            BY <1>2, PageNumbers
        <3>2. Elsewhere(b, j)
            <4>1. 0 \in Segments /\ 0 + b.len <= NumSegments /\ b.len \in Nat \ {0}
                BY <1>8, <2>4, Parameters DEF Segments
            <4> DEFINE s == 0
            <4>2. s \in Segments /\ b.cell = Cell(pi, s) /\ s + b.len <= NumSegments
                BY <2>4, <4>1
            <4> HIDE DEF s, pi
            <4>3. QED
                BY ONLY <1>8, <3>1, <4>1, <4>2, InPage
        <3>3. Held[id] = blocks[id]
            BY <1>2, <1>12, <2>3
        <3>4. QED
            BY <2>5, <3>2, <3>3 DEF SameAt
    <2>12. BlocksInv'
        BY <1>1, <2>5, <2>7, <2>8, <2>9, <2>10, <2>11, TakesPage DEF a
    <2>13. TakeKnown'
        <3>1. PICK x \in Pages, y \in Pages : x = pi /\ y = a
            BY <1>2
        <3>2. IsAt(loc.taken[1], x)' /\ InView(Seen', loc'.id, x) /\ x = view'[loc'.id].last
            <4>1. mem'.pages[y].pid = loc'.id /\ mem'.pages[y].index = x
                BY <1>3, <1>4, <3>1
            <4>2. InView(view', id, pi)
                BY <1>2 DEF Adds
            <4>3. QED
                BY <1>2, <1>4, <2>2, <3>1, <4>1, <4>2 DEF IsAt
        <3>3. loc'.seg + loc'.segments <= NumSegments
            BY <1>4, <1>8, <2>1
        <3>4. QED
            BY <1>1, <1>4, <1>8, <2>2, <3>2, <3>3 DEF TakeKnown
    <2>14. QED
        BY <1>1, <2>12, <2>13 DEF LayoutInv, BlocksKnown
<1>16. CASE loc.taken # << >>
    <2>1. PICK i \in Pages :
            /\ InView(Seen, id, i) /\ IsAt(loc.taken[1], i)
            /\ loc.seg + loc.segments = NumSegments + end
            /\ ~(loc.seg + loc.segments <= NumSegments)
            /\ Len(loc.taken) = 1 /\ pi = i + 1
        BY <1>1, <1>16 DEF TakeKnown
    <2> DEFINE f == loc.taken[1]
               b == [cell |-> Cell(i, loc.seg), len |-> loc.segments]
    <2>2. f \in Pages /\ mem.pages[f].pid = id /\ mem.pages[f].index = i
        BY <2>1 DEF IsAt
    <2>3. mem.pages[f].occ /\ f # a
        <3>1. 1 \in DOMAIN loc.taken
            BY <1>2, <2>1 DEF TakeCalls
        <3>2. QED
            BY <1>1, <1>2, <3>1 DEF PagesInv, CallInv, TakeInv
    <2>4. loc'.taken[1] = f /\ Len(loc'.taken) = 2 /\ loc'.taken[2] = a /\ loc'.taken # << >>
        BY <1>2, <1>4, <2>1 DEF TakeCalls
    <2>5. InFlight = {b} /\ InFlight' = {b}
        <3>1. InFlight = {b}
            BY <1>1, <1>16, <2>2 DEF InFlight
        <3>2. InFlight' = {[cell |-> Cell(mem'.pages[loc'.taken[1]].index, loc'.seg),
                            len |-> loc'.segments]}
            BY <1>1, <2>4 DEF InFlight
        <3>3. mem'.pages[f] = mem.pages[f]
            BY <1>13, <2>2, <2>3
        <3>4. QED
            BY <1>4, <2>2, <2>4, <3>1, <3>2, <3>3
    <2>6. b.cell = Cell(i, loc.seg) /\ b.len = loc.segments
        OBVIOUS
    <2> HIDE DEF b, f
    <2>7. Held'[id] = blocks[id] \cup {b} /\ Held'[id] = Held[id]
          /\ \A p \in Pids : p # id => Held'[p] = Held[p]
        BY <1>2, <1>11, <1>12, <2>5
    <2>8. b.cell < Cell(pi, 0) /\ b.cell + b.len = Cell(pi, end)
        <3>1. i \in Int /\ loc.seg \in Int
            BY <1>8, PageNumbers
        <3>2. Cell(i, loc.seg) = Cell(i, 0) + loc.seg /\ Cell(i, 0) \in Int
              /\ Cell(i + 1, 0) = Cell(i, 0) + NumSegments
            BY <3>1, CellSum
        <3>3. loc.seg < NumSegments
            BY <1>8 DEF Segments
        <3> DEFINE S == loc.segments
                   g == loc.seg
        <3>4. g + S = NumSegments + end /\ S \in Int /\ g \in Int
            BY <1>8, <2>1
        <3>5. b.cell = Cell(i, 0) + g /\ b.len = S /\ Cell(pi, 0) = Cell(i, 0) + NumSegments
            BY <2>1, <2>6, <3>2
        <3> HIDE DEF S, g, pi, end
        <3>6. b.cell + b.len = Cell(i, 0) + NumSegments + end
            <4> DEFINE X == Cell(i, 0)
            <4>1. X \in Int /\ g \in Int /\ S \in Int /\ end \in Int /\ NumSegments \in Int
                BY <1>8, <3>2, <3>4 DEF end
            <4>2. b.cell = X + g /\ b.len = S
                BY <3>5
            <4> HIDE DEF X
            <4>3. b.cell + b.len = X + NumSegments + end
                BY <3>4, <4>1, <4>2
            <4>4. QED
                BY <4>3 DEF X
        <3>7. g < NumSegments
            BY <3>3 DEF g
        <3>8. QED
            BY <1>8, <1>14, <3>2, <3>4, <3>5, <3>6, <3>7 DEF pi, end
    <2>9. Separate(Held'[id])
        BY <1>2, <1>9, <2>7
    <2>10. /\ end < NumSegments =>
                 IsHeader(mem'.headers[Cell(a, end)], NumSegments - end, FALSE, TRUE)
           /\ \A c \in Cells : c \div NumSegments = a \/ mem'.headers[c] = mem.headers[c]
        <3>1. CASE end = NumSegments
            <4>1. mem'.headers = mem.headers
                BY <1>3, <1>16, <3>1 DEF CutLastPage
            <4>2. QED
                <5>1. ~(end < NumSegments)
                    BY <1>8, <3>1
                <5>2. QED
                    BY <4>1, <5>1
        <3>2. CASE end # NumSegments
            <4>1. h.size = NumSegments /\ h.last = TRUE
                BY <1>7 DEF IsHeader, HeaderRecords
            <4>2. mem'.headers = [mem.headers EXCEPT ![Cell(a, end)] =
                                    Header(NumSegments - end, FALSE, TRUE)]
                BY <1>1, <1>3, <1>16, <3>2, <4>1 DEF CutLastPage, h, a
            <4>3. Cell(a, end) \in Cells /\ Cell(a, end) \div NumSegments = a
                <5>1. end \in 0 .. NumSegments - 1
                    BY <1>8, <3>2
                <5>2. QED
                    BY <1>2, <5>1, CellPage
            <4>4. IsHeader(Header(NumSegments - end, FALSE, TRUE), NumSegments - end, FALSE, TRUE)
                <5> DEFINE k == NumSegments - end
                <5>1. k \in 1 .. NumSegments
                    BY <1>8, <3>2
                <5> HIDE DEF k
                <5>2. IsHeader(Header(k, FALSE, TRUE), k, FALSE, TRUE)
                    BY <5>1, HeaderParts
                <5>3. QED
                    BY <5>2 DEF k
            <4>5. QED
                BY <1>5, <4>2, <4>3, <4>4
        <3>3. QED
            BY <3>1, <3>2
    <2>11. b.cell <= Cell(pi, 0) /\ b.cell # Cell(pi, 0)
        <3>1. b.cell \in Int
            BY <1>2, <2>7, <2>9 DEF Separate
        <3>2. QED
            BY <1>14, <2>8, <3>1
    <2>12. ~mem'.pages[a].ovf /\ mem'.pages[a].length = 1
        BY <1>3
    <2>13. \A j \in Pages : InView(Seen, id, j) => SameAt(Held[id], Held'[id], j)
        BY <2>7 DEF SameAt
    <2>14. BlocksInv'
        BY <1>1, <2>7, <2>8, <2>9, <2>10, <2>11, <2>12, <2>13, TakesPage DEF a
    <2>15. TakeKnown'
        <3>1. PICK y \in Pages, z \in Pages : y = f /\ z = a
            BY <1>2, <2>2
        <3>2. /\ IsAt(loc.taken[1], i)' /\ IsAt(loc.taken[2], i + 1)' /\ loc'.taken[2] > i
              /\ InView(Seen', loc'.id, i) /\ i + 1 = view'[loc'.id].last
            <4>1. mem'.pages[y].pid = loc'.id /\ mem'.pages[y].index = i
                BY <1>4, <1>13, <2>2, <2>3, <3>1
            <4>2. mem'.pages[z].pid = loc'.id /\ mem'.pages[z].index = i + 1
                BY <1>3, <1>4, <2>1, <3>1
            <4>3. InView(view', id, i)
                BY <1>2, <2>1 DEF Adds
            <4>4. a > i
                <5>1. i \in Int /\ a \in Int
                    BY <1>2, PageNumbers
                <5>2. QED
                    BY <1>2, <2>1, <5>1
            <4>5. QED
                BY <1>2, <1>4, <2>1, <2>4, <3>1, <4>1, <4>2, <4>3, <4>4 DEF IsAt
        <3>3. ~(loc'.seg + loc'.segments <= NumSegments)
              /\ loc'.seg + loc'.segments = NumSegments + loc'.last_len
            <4>1. loc'.last_len = end
                BY <1>2 DEF Take, TakeCalls
            <4>2. QED
                BY <1>4, <2>1, <4>1
        <3>4. QED
            BY <1>1, <1>4, <1>8, <2>4, <3>2, <3>3 DEF TakeKnown
    <2>16. QED
        BY <1>1, <2>14, <2>15 DEF LayoutInv, BlocksKnown
<1>17. QED
    BY <1>15, <1>16

\* No page is passed over.
LEMMA TakeNextBlocks ==
    ASSUME TypeInv, PagesInv, BlocksKnown, TakeNext
    PROVE  FALSE
<1>1. /\ Candidate \in Pages /\ ~Takes /\ pc = "take"
    BY CandidateTypes DEF TakeNext, Taking, At
<1>2. loc.free_page # NoPage
    BY <1>1 DEF BlocksKnown, TakeKnown, TakeNext
<1>3. Candidate = loc.actual /\ FirstFree(mem, loc.actual)
    BY <1>1, <1>2 DEF Candidate, PagesInv, CallInv, TakeInv
<1>4. Candidate \in Nat
    BY <1>1, PageNumbers, Zenon
<1>5. ~mem.pages[Candidate].occ
    BY <1>1, <1>3, <1>4 DEF FirstFree
<1>6. QED
    BY <1>1, <1>5 DEF Takes

\* page_allocate has its pages.
LEMMA TakeEndsBlocks ==
    ASSUME TypeInv, TypeInv', PagesInv, BlocksKnown, TakeEnds
    PROVE  LayoutInv'
<1>1. /\ pc = "take" /\ loc.n = 0 /\ loc \in TakeCalls /\ loc.taken # << >>
      /\ TakeKnown /\ TakeInv /\ loc.id \in Pids
    BY DEF TakeEnds, At, TypeInv, CallOK, TakeRoom, BlocksKnown, PagesInv, CallInv, TakeCalls
<1>2. /\ pc' = "place" /\ loc'.id = loc.id /\ loc'.segments = loc.segments
      /\ loc'.taken = loc.taken /\ loc'.i = 1
      /\ loc'.cell = Cell(mem.pages[loc.taken[1]].index, loc.seg)
      /\ UNCHANGED << mem, view, blocks, freed, halt >>
    BY DEF TakeEnds
<1>3. Seen = view /\ Seen' = view
    BY <1>1, <1>2 DEF Seen, AwaitsFirst, TakeInv
<1>4. InFlight' = InFlight
    BY <1>1, <1>2 DEF InFlight
<1>5. Held' = Held
    BY <1>2, <1>4 DEF Held
<1>6. Moving' = Moving /\ Releasing' = Releasing
    BY <1>1, <1>2 DEF Moving, Releasing
<1>7. BlocksInv'
    <2>1. Layout(mem', Seen', Held', freed') /\ Settled(mem', Seen', loc'.id, Moving')
          /\ Within(Seen', blocks') /\ Snug(Seen', Held', Releasing')
        BY <1>2, <1>3, <1>5, <1>6 DEF BlocksKnown, BlocksInv
    <2>2. QED
        BY <2>1 DEF BlocksInv
<1>8. PlaceKnown'
    <2>1. PICK i \in Pages :
            /\ InView(Seen, loc.id, i) /\ IsAt(loc.taken[1], i)
            /\ IF loc.seg + loc.segments <= NumSegments
               THEN Len(loc.taken) = 1 /\ i = view[loc.id].last
               ELSE /\ Len(loc.taken) = 2 /\ i + 1 = view[loc.id].last
                    /\ IsAt(loc.taken[2], i + 1) /\ loc.taken[2] > i
        BY <1>1 DEF TakeKnown
    <2>2. loc.seg \in Segments /\ loc.segments \in 1 .. NumSegments
        BY <1>1 DEF TakeKnown, TakeCalls
    <2>3. PICK s \in Segments : s = loc.seg
        BY <2>2
    <2>4. loc'.cell = Cell(i, s)
        BY <1>2, <2>1, <2>3 DEF IsAt
    <2>5. IsAt(loc.taken[1], i)'
        BY <1>2, <2>1 DEF IsAt
    <2>6. IsAt(loc.taken[2], i + 1) => IsAt(loc.taken[2], i + 1)'
        BY <1>2 DEF IsAt
    <2>7. QED
        BY <1>2, <1>3, <2>1, <2>2, <2>3, <2>4, <2>5, <2>6 DEF PlaceKnown
<1>9. QED
    BY <1>2, <1>7, <1>8 DEF LayoutInv, BlocksKnown

\* What swap finds: the pages are in use.
LEMMA PlaceFacts ==
    ASSUME TypeInv, PagesInv, BlocksKnown, Place
    PROVE  /\ loc \in PlaceCalls /\ loc.id \in Pids /\ pc = "place" /\ loc.i <= Len(loc.taken)
           /\ loc.i \in DOMAIN loc.taken /\ PlaceKnown /\ ~freed /\ freed = FALSE /\ mem \in Memory
           /\ Seen = view /\ Held = [p \in Pids |-> IF p = loc.id THEN blocks[p] \cup
                                         {[cell |-> loc.cell, len |-> loc.segments]}
                                     ELSE blocks[p]]
           /\ Layout(mem, view, Held, FALSE) /\ Within(view, blocks) /\ Snug(view, Held, {})
           /\ Settled(mem, view, loc.id, {view[loc.id].last})
           /\ \A k \in DOMAIN loc.taken : loc.taken[k] \in Pages /\ mem.pages[loc.taken[k]].occ
<1>1. pc = "place" /\ loc \in PlaceCalls /\ loc.i <= Len(loc.taken) /\ PlaceKnown
    BY DEF Place, At, TypeInv, CallOK, BlocksKnown
<1>2. loc.id \in Pids /\ loc.i \in DOMAIN loc.taken
      /\ \A k \in DOMAIN loc.taken : loc.taken[k] \in Pages
    BY <1>1 DEF PlaceCalls
<1>3. ~freed /\ freed = FALSE /\ mem \in Memory
      /\ \A k \in DOMAIN loc.taken : mem.pages[loc.taken[k]].occ
    BY <1>1 DEF PagesInv, CallInv, TypeInv
<1>4. Seen = view
    BY <1>1, SameSeen
<1>5. InFlight = {[cell |-> loc.cell, len |-> loc.segments]}
      /\ Moving = {view[loc.id].last} /\ Releasing = {}
    BY <1>1 DEF InFlight, Moving, Releasing
<1>6. /\ Layout(mem, view, Held, FALSE) /\ Within(view, blocks) /\ Snug(view, Held, {})
      /\ Settled(mem, view, loc.id, {view[loc.id].last})
    BY <1>3, <1>4, <1>5 DEF BlocksKnown, BlocksInv
<1>7. Held = [p \in Pids |-> IF p = loc.id THEN blocks[p] \cup
                                 {[cell |-> loc.cell, len |-> loc.segments]}
                             ELSE blocks[p]]
    BY <1>5 DEF Held
<1>8. QED
    BY <1>1, <1>2, <1>3, <1>4, <1>6, <1>7

\* The first of two pages is swapped.
LEMMA PlaceFirstBlocks ==
    ASSUME TypeInv, TypeInv', PagesInv, BlocksKnown, Place, loc.i < Len(loc.taken),
           mem' = SwapNext, loc' = [loc EXCEPT !.i = @ + 1],
           UNCHANGED << blocks, pc, view, freed, halt >>
    PROVE  LayoutInv'
<1>1. /\ loc \in PlaceCalls /\ loc.id \in Pids /\ pc = "place" /\ loc.i <= Len(loc.taken)
      /\ loc.i \in DOMAIN loc.taken /\ PlaceKnown /\ ~freed /\ freed = FALSE /\ mem \in Memory
      /\ Seen = view
      /\ Layout(mem, view, Held, FALSE) /\ Within(view, blocks) /\ Snug(view, Held, {})
      /\ Settled(mem, view, loc.id, {view[loc.id].last})
      /\ \A k \in DOMAIN loc.taken : loc.taken[k] \in Pages /\ mem.pages[loc.taken[k]].occ
    BY PlaceFacts
<1>2. loc.i \in Nat \ {0} /\ Len(loc.taken) \in Nat
    BY <1>1 DEF PlaceCalls
<1>3. PICK i \in Pages, s \in Segments :
        /\ InView(view, loc.id, i)
        /\ loc.cell = Cell(i, s) /\ loc.segments \in 1 .. NumSegments
        /\ ~(s + loc.segments <= NumSegments)
        /\ Len(loc.taken) = 2 /\ i + 1 = view[loc.id].last
        /\ IsAt(loc.taken[2], i + 1) /\ loc.taken[2] > i
        /\ IF loc.i = 1 THEN IsAt(loc.taken[1], i) ELSE IsAt(i, i)
    <2>1. PICK i \in Pages, s \in Segments :
            /\ InView(view, loc.id, i)
            /\ loc.cell = Cell(i, s) /\ loc.segments \in 1 .. NumSegments
            /\ IF s + loc.segments <= NumSegments
               THEN Len(loc.taken) = 1 /\ i = view[loc.id].last /\ IsAt(loc.taken[1], i)
               ELSE /\ Len(loc.taken) = 2 /\ i + 1 = view[loc.id].last
                    /\ IsAt(loc.taken[2], i + 1) /\ loc.taken[2] > i
                    /\ IF loc.i = 1 THEN IsAt(loc.taken[1], i) ELSE IsAt(i, i)
        BY <1>1 DEF PlaceKnown
    <2>2. ASSUME Len(loc.taken) = 1
          PROVE  FALSE
        <3>1. PICK k \in Nat \ {0} : k = loc.i
            BY <1>2
        <3>2. k < 1
            BY <2>2, <3>1
        <3>3. QED
            BY <3>1, <3>2
    <2>3. QED
        BY <2>1, <2>2
<1>4. loc.i = 1 /\ IsAt(loc.taken[1], i)
    BY <1>2, <1>3
<1> DEFINE a == loc.taken[1]
           c == loc.taken[2]
<1>5. a \in Pages /\ c \in Pages /\ mem.pages[a].occ /\ mem.pages[a].index = i
      /\ mem.pages[a].pid = loc.id /\ mem.pages[c].pid = loc.id /\ mem.pages[c].index = i + 1
      /\ c > i
    BY <1>1, <1>3, <1>4 DEF IsAt
<1> HIDE DEF a, c
<1>6. mem' = swap(mem, a, i)
    BY <1>4, <1>5 DEF SwapNext, a
<1>7. PICK used \in Nat : PageMap(mem, view, FALSE, used)
    BY <1>1 DEF PagesInv
<1>8. a < used /\ i < used
    BY <1>1, <1>3, <1>5, <1>7, SeenPage DEF PageMap, Packed, FirstFree
<1>9. Layout(mem', view, Held, FALSE)
    <2> DEFINE held == Held
               gave == FALSE
    <2>1. Layout(mem, view, held, gave) /\ PageMap(mem, view, gave, used)
        BY <1>1, <1>7
    <2> HIDE DEF held, gave
    <2>2. Layout(swap(mem, a, i), view, held, gave)
        BY ONLY <1>1, <1>3, <1>5, <1>8, <2>1, SwapLayout
    <2>3. QED
        BY <1>6, <2>2 DEF held, gave
<1>10. /\ \A x \in Pages : mem.pages[x].index = x => mem'.pages[x].index = x
       /\ mem'.pages[i] = mem.pages[a]
       /\ \A x \in Pages \ {a, i} : mem'.pages[x] = mem.pages[x]
    BY <1>1, <1>3, <1>5, <1>6, SwapStays
<1>11. /\ pc' = "place" /\ loc'.id = loc.id /\ loc'.segments = loc.segments
       /\ loc'.taken = loc.taken /\ loc'.i = 2 /\ loc'.cell = loc.cell
    BY <1>1, <1>4 DEF PlaceCalls
<1>12. Seen' = view /\ Held' = Held /\ Moving' = {view[loc.id].last} /\ Releasing' = {}
    BY <1>1, <1>11, SameSeen DEF Held, InFlight, Moving, Releasing
<1>13. Settled(mem', view, loc.id, {view[loc.id].last})
    BY <1>1, <1>10 DEF Settled
<1>14. BlocksInv'
    <2>1. Layout(mem', Seen', Held', freed') /\ Settled(mem', Seen', loc'.id, Moving')
          /\ Within(Seen', blocks') /\ Snug(Seen', Held', Releasing')
        BY <1>1, <1>9, <1>11, <1>12, <1>13
    <2>2. QED
        BY <2>1 DEF BlocksInv
<1>15. PlaceKnown'
    <2>1. c # i /\ c # a
        <3>1. i \in Int /\ c \in Int
            BY <1>3, <1>5, PageNumbers
        <3>2. QED
            BY <1>5, <3>1
    <2>2. mem'.pages[c] = mem.pages[c]
        BY <1>5, <1>10, <2>1
    <2>3. PICK y \in Pages : y = c
        BY <1>5
    <2>4. IsAt(loc.taken[2], i + 1)' /\ IsAt(i, i)' /\ loc'.taken[2] > i
        <3>1. mem'.pages[y].pid = loc'.id /\ mem'.pages[y].index = i + 1 /\ loc'.taken[2] = y
            BY <1>5, <1>11, <2>2, <2>3 DEF c
        <3>2. mem'.pages[i].pid = loc'.id /\ mem'.pages[i].index = i
            BY <1>5, <1>10, <1>11
        <3>3. QED
            BY <1>3, <1>5, <2>3, <3>1, <3>2 DEF IsAt
    <2>5. QED
        BY <1>3, <1>11, <2>4 DEF PlaceKnown
<1>16. QED
    BY <1>11, <1>14, <1>15 DEF LayoutInv, BlocksKnown

\* The pages of a block that begins at segment s of the page seen at i.
LEMMA PagesOf ==
    ASSUME NEW i \in Pages, NEW s \in Segments, NEW len \in 1 .. NumSegments,
           NEW c \in CellsOf([cell |-> Cell(i, s), len |-> len])
    PROVE  c \div NumSegments = i \/ (s + len > NumSegments /\ c \div NumSegments = i + 1)
<1>1. /\ i \in Nat /\ i \in Int /\ s \in Nat /\ len \in Nat /\ NumSegments \in Nat \ {0}
      /\ s < NumSegments /\ len <= NumSegments
    BY PageNumbers, Parameters DEF Segments
<1>2. /\ Cell(i, s) \in Int /\ Cell(i, 0) \in Int /\ Cell(i, s) = Cell(i, 0) + s
      /\ Cell(i + 1, 0) = Cell(i, 0) + NumSegments
    BY <1>1, CellSum
<1>3. c \in Int /\ Cell(i, s) <= c /\ c < Cell(i, s) + len
    BY <1>1, <1>2 DEF CellsOf
<1> DEFINE t == c - Cell(i, 0)
           r == t - NumSegments
<1>4. t \in Int /\ 0 <= t /\ t < s + len /\ c = Cell(i, 0) + t
    BY <1>1, <1>2, <1>3
<1>5. CASE t < NumSegments
    <2>1. t \in Segments
        BY <1>1, <1>4, <1>5 DEF Segments
    <2>2. c = Cell(i, t)
        <3> HIDE DEF t
        <3>1. QED
            BY <1>1, <1>4, CellSum
    <2> HIDE DEF t
    <2>3. QED
        BY <1>1, <2>1, <2>2, CellPage DEF Segments
<1>6. CASE NumSegments <= t
    <2>1. r \in Segments /\ c = Cell(i + 1, 0) + r
        BY <1>1, <1>2, <1>4, <1>6 DEF Segments
    <2>2. i + 1 \in Nat /\ i + 1 \in Int /\ r \in Int
        BY <1>1, <2>1 DEF Segments
    <2>3. c = Cell(i + 1, r)
        <3> DEFINE j == i + 1
        <3> HIDE DEF r, j
        <3>1. j \in Int /\ r \in Int /\ c = Cell(j, 0) + r
            BY <2>1, <2>2 DEF j
        <3>2. QED
            BY <3>1, CellSum DEF j
    <2>4. s + len > NumSegments
        BY <1>1, <1>4, <1>6
    <2>5. (i + 1) * NumSegments + r = c
        BY <2>3 DEF Cell
    <2>6. c \div NumSegments = i + 1
        <3> DEFINE j == i + 1
        <3> HIDE DEF j, r
        <3>1. j \in Nat /\ r \in 0 .. NumSegments - 1 /\ c = j * NumSegments + r
            BY <2>1, <2>2, <2>5 DEF j, Segments
        <3>2. QED
            BY <1>1, <3>1, SMTT(60) DEF j
    <2>7. QED
        BY <2>4, <2>6
<1>7. QED
    BY <1>1, <1>4, <1>5, <1>6

\* The last page is swapped, and myallocate returns.
LEMMA PlaceLastBlocks ==
    ASSUME TypeInv, TypeInv', PagesInv, BlocksKnown, Place, loc.i = Len(loc.taken),
           Give(SwapNext, loc.cell, loc.segments), UNCHANGED << view, freed >>
    PROVE  LayoutInv' /\ NewResident
<1>1. /\ loc \in PlaceCalls /\ loc.id \in Pids /\ pc = "place" /\ loc.i <= Len(loc.taken)
      /\ loc.i \in DOMAIN loc.taken /\ PlaceKnown /\ ~freed /\ freed = FALSE /\ mem \in Memory
      /\ Seen = view
      /\ Layout(mem, view, Held, FALSE) /\ Within(view, blocks) /\ Snug(view, Held, {})
      /\ Settled(mem, view, loc.id, {view[loc.id].last})
      /\ \A k \in DOMAIN loc.taken : loc.taken[k] \in Pages /\ mem.pages[loc.taken[k]].occ
    BY PlaceFacts
<1>2. loc.i \in Nat \ {0} /\ Len(loc.taken) \in Nat
    BY <1>1 DEF PlaceCalls
<1> DEFINE a == loc.taken[loc.i]
           last == view[loc.id].last
           new == [cell |-> loc.cell, len |-> loc.segments]
<1>3. PICK i \in Pages, s \in Segments :
        /\ InView(view, loc.id, i)
        /\ loc.cell = Cell(i, s) /\ loc.segments \in 1 .. NumSegments
        /\ IF s + loc.segments <= NumSegments
           THEN Len(loc.taken) = 1 /\ i = last /\ IsAt(loc.taken[1], i)
           ELSE /\ Len(loc.taken) = 2 /\ i + 1 = last
                /\ IsAt(loc.taken[2], i + 1) /\ loc.taken[2] > i
                /\ IF loc.i = 1 THEN IsAt(loc.taken[1], i) ELSE IsAt(i, i)
    BY <1>1 DEF PlaceKnown
<1>4. a \in Pages /\ mem.pages[a].occ
    BY <1>1
<1>5. /\ mem.pages[a].pid = loc.id /\ mem.pages[a].index = last
      /\ \/ s + loc.segments <= NumSegments /\ i = last
         \/ /\ ~(s + loc.segments <= NumSegments) /\ i + 1 = last /\ a > i
            /\ mem.pages[i].pid = loc.id /\ mem.pages[i].index = i
    <2>1. CASE s + loc.segments <= NumSegments
        BY <1>3, <2>1 DEF IsAt
    <2>2. CASE ~(s + loc.segments <= NumSegments)
        BY <1>3, <2>2 DEF IsAt
    <2>3. QED
        BY <2>1, <2>2
<1>6. i \in Nat /\ last \in Pages /\ last \in Nat /\ a \in Nat /\ last <= view[loc.id].last
      /\ InView(view, loc.id, last)
    <2>1. i \in Nat /\ a \in Nat /\ view[loc.id] \in Views
        BY <1>1, <1>3, <1>4, PageNumbers DEF TypeInv
    <2>2. last \in NoPage .. NumPages - 1 /\ view[loc.id].first \in Int
        BY <2>1, Parameters DEF Views, NoPage
    <2>3. last \in Pages
        <3>1. mem.pages[a] \in PageRecords
            BY <1>1, <1>4 DEF Memory
        <3>2. QED
            BY <1>5, <3>1 DEF PageRecords
    <2>4. QED
        BY <1>3, <2>1, <2>2, <2>3, PageNumbers DEF InView, NoPage
<1>7. SwapNext = swap(mem, a, last)
    BY <1>5 DEF SwapNext
<1>8. PICK used \in Nat : PageMap(mem, view, FALSE, used)
    BY <1>1 DEF PagesInv
<1>9. a < used /\ last < used /\ i < used /\ mem.pages[i].occ
    BY <1>1, <1>3, <1>4, <1>6, <1>8, SeenPage DEF PageMap, Packed, FirstFree
<1>10. Give(swap(mem, a, last), loc.cell, loc.segments)
    BY <1>7
<1> DEFINE m == swap(mem, a, last)
<1>11. blocks' = Held
    <2>1. blocks' = [blocks EXCEPT ![loc.id] = @ \cup {new}]
        BY DEF Give
    <2>2. Held = [p \in Pids |-> IF p = loc.id THEN blocks[p] \cup {new} ELSE blocks[p]]
        BY PlaceFacts
    <2>3. blocks \in [Pids -> SUBSET Blocks]
        BY DEF TypeInv
    <2>4. QED
        BY <2>1, <2>2, <2>3
<1>12. m \in Memory /\ PageMap(m, view, FALSE, used) /\ Layout(m, view, blocks', FALSE)
    <2> DEFINE held == Held
               gave == FALSE
    <2>1. Layout(mem, view, held, gave) /\ PageMap(mem, view, gave, used)
        BY <1>1, <1>8
    <2> HIDE DEF held, gave, a, last
    <2>2. Layout(swap(mem, a, last), view, held, gave)
        BY ONLY <1>1, <1>4, <1>6, <1>9, <2>1, SwapLayout
    <2>3. PageMap(swap(mem, a, last), view, gave, used) /\ swap(mem, a, last) \in Memory
        BY ONLY <1>1, <1>4, <1>6, <1>9, <2>1, SwapMap, SwapType
    <2>4. QED
        BY <1>11, <2>2, <2>3 DEF held, gave
<1>13. /\ \A x \in Pages : mem.pages[x].index = x => m.pages[x].index = x
       /\ m.pages[last] = mem.pages[a]
       /\ \A x \in Pages \ {a, last} : m.pages[x] = mem.pages[x]
    <2>1. mem \in Memory /\ a \in Pages /\ last \in Pages /\ mem.pages[a].index = last
        BY <1>1, <1>4, <1>5, <1>6
    <2> HIDE DEF a, last
    <2>2. /\ \A x \in Pages : mem.pages[x].index = x => swap(mem, a, last).pages[x].index = x
          /\ swap(mem, a, last).pages[last] = mem.pages[a]
          /\ \A x \in Pages \ {a, last} : swap(mem, a, last).pages[x] = mem.pages[x]
        BY ONLY <2>1, SwapStays
    <2>3. QED
        BY <2>2 DEF m
<1> HIDE DEF m
<1>14. LiesAt(m, loc.id, new)
    <2> SUFFICES ASSUME NEW c \in CellsOf(new)
                 PROVE  LET page == m.pages[c \div NumSegments]
                        IN  page.occ /\ page.pid = loc.id /\ page.index = c \div NumSegments
        BY DEF LiesAt
    <2>1. c \div NumSegments = i
          \/ (s + loc.segments > NumSegments /\ c \div NumSegments = i + 1)
        <3>1. new = [cell |-> Cell(i, s), len |-> loc.segments]
            BY <1>3
        <3> HIDE DEF new
        <3>2. QED
            BY <1>3, <3>1, PagesOf
    <2>2. CASE i = last /\ c \div NumSegments = i
        BY <1>4, <1>5, <1>13, <2>2
    <2>3. CASE i + 1 = last /\ a > i
        <3>1. i # a /\ i # last
            BY <1>6, <2>3
        <3>2. m.pages[i] = mem.pages[i] /\ m.pages[last] = mem.pages[a]
            BY <1>3, <1>13, <3>1
        <3>3. mem.pages[i].pid = loc.id /\ mem.pages[i].index = i
            BY <1>5, <3>1
        <3>4. QED
            BY <1>4, <1>5, <1>9, <2>1, <2>3, <3>2, <3>3
    <2>4. s \in Int /\ loc.segments \in Int /\ NumSegments \in Int
        BY <1>3, Parameters DEF Segments
    <2>5. QED
        BY <1>5, <2>1, <2>2, <2>3, <2>4
<1>15. Within(view, blocks')
    <2>1. view[loc.id].first \in Int /\ view[loc.id].first <= i /\ i + 1 \in Int /\ last + 1 \in Int
          /\ i \in Int /\ i + 1 <= last + 1
        <3>1. view[loc.id] \in Views
            BY <1>1 DEF TypeInv
        <3>2. view[loc.id].first \in Int
            BY <3>1, Parameters DEF Views, NoPage
        <3>3. QED
            BY <1>3, <1>6, <3>2 DEF InView
    <2>2. /\ Cell(view[loc.id].first, 0) <= Cell(i, 0) /\ Cell(view[loc.id].first, 0) \in Int
          /\ Cell(i, 0) \in Int
        BY <2>1, CellUpTo
    <2>3. Cell(last, 0) \in Int /\ Cell(last + 1, 0) = Cell(last, 0) + NumSegments
        <3>1. last \in Int /\ 0 \in Int
            BY <1>6
        <3> HIDE DEF last
        <3>2. QED
            BY ONLY <3>1, CellSum
    <2>4. s \in Nat /\ loc.segments \in Nat /\ NumSegments \in Nat /\ s <= NumSegments
          /\ loc.segments <= NumSegments
        BY <1>3, Parameters DEF Segments
    <2>5. Cell(i, s) = Cell(i, 0) + s /\ Cell(i + 1, 0) = Cell(i, 0) + NumSegments
        BY <2>1, <2>4, CellSum
    <2>6. Cell(i, s) + loc.segments <= Cell(last + 1, 0)
        <3>1. CASE s + loc.segments <= NumSegments /\ i = last
            BY <2>2, <2>4, <2>5, <3>1
        <3>2. CASE i + 1 = last
            BY <2>2, <2>3, <2>4, <2>5, <3>2
        <3>3. QED
            BY <1>5, <3>1, <3>2
    <2>7. Cell(view[loc.id].first, 0) <= Cell(i, s)
        BY <2>2, <2>4, <2>5
    <2>8. blocks' = [p \in Pids |-> IF p = loc.id THEN blocks[p] \cup {new} ELSE blocks[p]]
        BY <1>11, PlaceFacts
    <2>9. new.cell = Cell(i, s) /\ new.len = loc.segments
        BY <1>3
    <2> HIDE DEF new
    <2>10. QED
        BY <1>1, <2>6, <2>7, <2>8, <2>9 DEF Within
<1>16. Snug(view, blocks', {})
    BY <1>1, <1>11
<1>17. Settled(m, view, 0, {})
    <2>1. last \in Pages /\ m.pages[last].index = last
        BY <1>5, <1>6, <1>13
    <2>2. QED
        BY <1>1, <1>13, <2>1 DEF Settled
<1>18. /\ TypeInv /\ TypeInv' /\ loc.id \in Pids /\ m \in Memory
       /\ Give(m, loc.cell, loc.segments) /\ UNCHANGED << view, freed >>
       /\ PageMap(m, view, freed, used) /\ Layout(m, view, blocks', freed)
       /\ LiesAt(m, loc.id, [cell |-> loc.cell, len |-> loc.segments])
       /\ Within(view, blocks') /\ Snug(view, blocks', {}) /\ Settled(m, view, 0, {})
    BY <1>1, <1>10, <1>12, <1>14, <1>15, <1>16, <1>17 DEF m
<1>19. QED
    BY <1>18, GiveBlocks

\* Pages are put in place.
LEMMA PlaceBlocks ==
    ASSUME TypeInv, TypeInv', PagesInv, BlocksKnown, Place
    PROVE  LayoutInv' /\ NewResident
<1>1. UNCHANGED << view, freed, halt >>
    BY DEF Place
<1>2. CASE /\ loc.i < Len(loc.taken) /\ mem' = SwapNext
           /\ loc' = [loc EXCEPT !.i = @ + 1] /\ UNCHANGED << blocks, pc >>
    <2>1. LayoutInv'
        BY <1>1, <1>2, PlaceFirstBlocks
    <2>2. QED
        BY <1>2, <2>1 DEF NewResident
<1>3. CASE loc.i = Len(loc.taken) /\ Give(SwapNext, loc.cell, loc.segments)
    BY <1>1, <1>3, PlaceLastBlocks
<1>4. QED
    BY <1>2, <1>3 DEF Place

-----------------------------------------------------------------------------
(* free_ptr *)

\* A thread sees the page that one of its blocks begins in.
LEMMA BlockSeen ==
    ASSUME NEW v \in [Pids -> Views], NEW bs \in [Pids -> SUBSET Blocks], Within(v, bs),
           NEW p \in Pids, NEW b \in bs[p]
    PROVE  /\ b.cell \div NumSegments \in Pages /\ b.cell % NumSegments \in Segments
           /\ b.cell = Cell(b.cell \div NumSegments, b.cell % NumSegments)
           /\ InView(v, p, b.cell \div NumSegments)
<1> DEFINE i == b.cell \div NumSegments
           s == b.cell % NumSegments
<1>1. b.cell \in Cells /\ b.len \in Nat \ {0}
    BY DEF Blocks
<1>2. i \in Pages /\ s \in Segments /\ b.cell = Cell(i, s)
    BY <1>1, CellSplit
<1> HIDE DEF i, s
<1>3. v[p].first \in Int /\ v[p].last \in Int /\ NumSegments \in Nat /\ i \in Int /\ s \in Nat
      /\ s < NumSegments
    <2>1. v[p] \in Views
        OBVIOUS
    <2>2. QED
        BY <1>2, <2>1, PageNumbers, Parameters DEF Views, NoPage, Segments
<1>4. Cell(i, 0) \in Int /\ b.cell = Cell(i, 0) + s
    BY <1>2, <1>3, CellSum
<1>5. Cell(v[p].first, 0) <= b.cell /\ b.cell + b.len <= Cell(v[p].last + 1, 0)
    BY DEF Within
<1>6. v[p].first <= i
    <2>1. ASSUME i < v[p].first
          PROVE  FALSE
        <3>1. Cell(i, 0) + NumSegments <= Cell(v[p].first, 0) /\ Cell(v[p].first, 0) \in Int
            BY <1>3, <2>1, CellBelow, CellSum
        <3>2. QED
            BY <1>3, <1>4, <1>5, <3>1
    <2>2. QED
        BY <1>3, <2>1
<1>7. i <= v[p].last
    <2>1. ASSUME v[p].last < i
          PROVE  FALSE
        <3> DEFINE l == v[p].last + 1
        <3>1. l \in Int /\ l <= i
            BY <1>3, <2>1
        <3> HIDE DEF l
        <3>2. Cell(l, 0) <= Cell(i, 0) /\ Cell(l, 0) \in Int
            BY <1>3, <3>1, CellUpTo
        <3>3. b.cell + b.len <= Cell(l, 0)
            BY <1>5 DEF l
        <3>4. QED
            BY <1>1, <1>3, <1>4, <3>2, <3>3
    <2>2. QED
        BY <1>3, <2>1
<1>8. QED
    BY <1>2, <1>6, <1>7 DEF i, s, InView

\* mydeallocate begins: a block of the thread is not astray.
LEMMA FreeBlocks ==
    ASSUME TypeInv, TypeInv', PagesInv, BlocksKnown,
           NEW p \in Pids, NEW cell \in Cells, Free(p, cell),
           cell \in WildPointers => ~Astray(p, cell)
    PROVE  LayoutInv'
<1>1. /\ pc = "idle" /\ pc' = "turn" /\ UNCHANGED << mem, view, blocks, freed >>
      /\ loc' = [id |-> p, cell |-> cell, first |-> view[p].first, last |-> view[p].last,
                 pi |-> view[p].first, si |-> 0, ovf |-> 0,
                 at |-> NoPage, prev_free |-> FALSE, prev |-> 0, prev_size |-> 0]
    BY DEF Free, At
<1>2. /\ loc'.id = p /\ loc'.cell = cell /\ loc'.last = view[p].last /\ loc'.pi = view[p].first
      /\ loc'.si = 0
    BY <1>1
<1>3. /\ Layout(mem, view, blocks, freed) /\ Within(view, blocks) /\ Settled(mem, view, p, {})
    BY <1>1, CalmBlocks DEF BlocksKnown
<1>4. BlocksInv'
    BY <1>1, QuietBlocks DEF BlocksKnown, Releasing
<1>5. view[p].first \in Int /\ AtStart(blocks[p], view[p].first, 0)
      /\ \A b \in blocks[p] : Cell(view[p].first, 0) <= b.cell
    <2>1. view \in [Pids -> Views] /\ Separate(blocks[p])
        BY <1>3 DEF TypeInv, Layout
    <2>2. QED
        BY <1>3, <2>1, WalkStarts
<1>6. WalkInv'
    BY <1>1, <1>2, <1>5, Parameters DEF WalkInv, Own
<1>7. ~Astray(p, cell)
    <2>1. ASSUME NEW b \in blocks[p], b.cell = cell
          PROVE  ~Astray(p, cell)
        <3>1. view \in [Pids -> Views] /\ blocks \in [Pids -> SUBSET Blocks]
            BY DEF TypeInv
        <3>2. cell \div NumSegments \in Pages /\ InView(view, p, cell \div NumSegments)
            BY <1>3, <2>1, <3>1, BlockSeen
        <3>3. QED
            BY <1>3, <3>2 DEF Settled, Astray
    <2>2. QED
        BY <2>1 DEF Free
<1>8. FreeKnown'
    <2>1. ~Astray(loc.id, loc.cell)'
        BY <1>1, <1>2, <1>7 DEF Astray
    <2>2. QED
        BY <1>1, <1>2, <1>5, <2>1 DEF FreeKnown, Own
<1>9. QED
    BY <1>1, <1>4, <1>6, <1>8 DEF LayoutInv, BlocksKnown

\* free_ptr moves the page that holds the pointer.
LEMMA TurnPageBlocks ==
    ASSUME TypeInv, TypeInv', PagesInv, BlocksKnown, TurnPage
    PROVE  LayoutInv'
<1> DEFINE a == Actual
           i == loc.pi
<1>1. /\ pc = "turn" /\ pc' = "scan" /\ loc \in FreeCalls /\ mem \in Memory /\ Actual # NoPage
      /\ loc.pi <= loc.last /\ UNCHANGED << view, blocks, freed, halt >>
      /\ mem' = IF loc.pi = SoughtPage THEN swap(mem, loc.pi, Actual) ELSE mem
      /\ loc' = [loc EXCEPT !.at = IF loc.pi = SoughtPage THEN loc.pi ELSE Actual,
                            !.prev_free = FALSE, !.prev_size = 0]
    BY DEF TypeInv, CallOK, TurnPage, Walking, At
<1>2. /\ loc.id \in Pids /\ loc.id \in Owners /\ i \in Pages /\ a \in Pages
      /\ a = mem.ht[loc.id][i] /\ InView(view, loc.id, i)
      /\ mem.pages[a].occ /\ mem.pages[a].pid = loc.id /\ mem.pages[a].index = i
      /\ \A used : PageMap(mem, view, freed, used) => i < used /\ a < used
    BY <1>1, WalkMap
<1>3. /\ loc'.id = loc.id /\ loc'.pi = i /\ loc'.si = loc.si /\ loc'.ovf = loc.ovf
      /\ loc'.last = loc.last /\ loc'.cell = loc.cell /\ ~loc'.prev_free
      /\ loc'.at = IF i = SoughtPage THEN i ELSE a
    BY <1>1 DEF FreeCalls
<1>4. /\ Layout(mem, view, blocks, freed) /\ Within(view, blocks)
      /\ Snug(view, blocks, Releasing) /\ Settled(mem, view, loc.id, {})
    BY <1>1, CalmBlocks DEF BlocksKnown
<1>5. PICK used \in Nat : PageMap(mem, view, freed, used)
    BY <1>1, SameSeen DEF PagesInv
<1>6. WalkInv /\ FreeKnown
    BY <1>1 DEF BlocksKnown
<1> HIDE DEF a, i
<1>7. /\ Layout(mem', view, blocks, freed) /\ Settled(mem', view, loc.id, {})
      /\ loc'.at = mem'.ht[loc.id][i]
      /\ i = SoughtPage => mem'.pages[i].index = i
      /\ i # SoughtPage => mem' = mem
    <2>1. CASE i = SoughtPage
        <3>0. /\ mem \in Memory /\ i \in Pages /\ a \in Pages /\ i < used /\ a < used
              /\ PageMap(mem, view, freed, used) /\ Layout(mem, view, blocks, freed)
              /\ mem.pages[a].index = i
            BY <1>1, <1>2, <1>4, <1>5
        <3>1. Layout(swap(mem, i, a), view, blocks, freed)
            BY ONLY <3>0, SwapLayout
        <3>2. /\ \A x \in Pages : mem.pages[x].index = x => swap(mem, i, a).pages[x].index = x
              /\ swap(mem, i, a).pages[i] = mem.pages[a]
            BY ONLY <3>0, SwapStays
        <3>3. swap(mem, i, a).ht[loc.id][i] = i
            BY <1>1, <1>2, SwapTable
        <3>4. mem' = swap(mem, i, a)
            BY <1>1, <2>1 DEF i, a
        <3>5. QED
            BY <1>2, <1>3, <1>4, <2>1, <3>1, <3>2, <3>3, <3>4, Zenon DEF Settled
    <2>2. CASE i # SoughtPage
        BY <1>1, <1>2, <1>3, <1>4, <2>2 DEF i, a
    <2>3. QED
        BY <2>1, <2>2
<1>8. BlocksInv'
    <2>1. Releasing' = Releasing
        BY <1>1 DEF Releasing
    <2>2. Settled(mem', view', loc'.id, {})
        BY <1>1, <1>3, <1>7
    <2>3. Layout(mem', view', blocks', freed') /\ Within(view', blocks')
          /\ Snug(view', blocks', Releasing')
        BY <1>1, <1>4, <1>7, <2>1
    <2>4. QED
        BY <1>1, <2>2, <2>3, BlocksAfter
<1>9. WalkInv'
    BY <1>1, <1>3, <1>6 DEF WalkInv, Own, i
<1>10. loc.si = 0 \/ Busy(Own, i, loc.si - 1)
    <2>1. CASE loc.si < NumSegments
        BY <1>1, <1>6, <2>1 DEF WalkInv, i
    <2>2. CASE ~(loc.si < NumSegments)
        <3>1. loc.si = NumSegments /\ Fills(Own, i)
            BY <1>1, <1>6, <2>2 DEF WalkInv, i
        <3>2. Separate(Own) /\ Describes(Sheet(mem, loc.id, i), PageAt(mem, loc.id, i), Own, i)
              /\ i \in Int
            BY <1>2, <1>4, PageNumbers DEF Layout, Drawn, Own
        <3>3. Busy(Own, i, NumSegments - 1)
            BY <3>1, <3>2, FilledPage
        <3>4. QED
            BY <3>1, <3>3
    <2>3. QED
        BY <2>1, <2>2
<1>11. FreeKnown'
    <2>1. ~Astray(loc.id, loc.cell)'
        <3>1. ~Astray(loc.id, loc.cell)
            BY <1>6 DEF FreeKnown
        <3>2. CASE i = SoughtPage
            BY <1>3, <1>7, <3>2 DEF Astray, SoughtPage
        <3>3. CASE i # SoughtPage
            BY <1>3, <1>7, <3>1, <3>3 DEF Astray
        <3>4. QED
            BY <3>2, <3>3
    <2>2. Own' = Own /\ SoughtPage' = SoughtPage
        BY <1>1, <1>3 DEF Own, SoughtPage
    <2>3. \A b \in Own : b.cell = loc.cell => Cell(i, loc.si) <= b.cell
        BY <1>6 DEF FreeKnown, i
    <2>4. i <= loc.last
        BY <1>1 DEF i
    <2>5. QED
        BY <1>1, <1>3, <1>7, <1>10, <2>1, <2>2, <2>3, <2>4 DEF FreeKnown
<1>12. QED
    BY <1>1, <1>8, <1>9, <1>11 DEF LayoutInv, BlocksKnown

\* The segment that free_ptr is at, ...
LEMMA ScanAt ==
    ASSUME TypeInv, PagesInv, BlocksKnown, pc = "scan", loc.si < NumSegments
    PROVE  /\ loc.si \in Segments /\ loc.pi \in Int /\ AtStart(Own, loc.pi, loc.si)
           /\ Scanned = Sheet(mem, loc.id, loc.pi)[loc.si] /\ Scanned \in HeaderRecords
           /\ FreeKnown /\ ScannedCell = Cell(loc.at, loc.si)
<1>1. /\ loc \in FreeCalls /\ loc.pi \in Pages /\ loc.at \in Pages /\ WalkInv
      /\ Sheet(mem, loc.id, loc.pi) \in [Segments -> HeaderRecords]
      /\ \A s \in Segments : Sheet(mem, loc.id, loc.pi)[s] = mem.headers[Cell(loc.at, s)]
    BY ScanHeader
<1>2. loc.si \in Segments
    BY <1>1, Parameters DEF FreeCalls, Segments
<1>3. FreeKnown /\ loc.pi <= loc.last
    BY DEF BlocksKnown, FreeKnown
<1>4. AtStart(Own, loc.pi, loc.si)
    BY <1>1, <1>3 DEF WalkInv
<1>5. Scanned = Sheet(mem, loc.id, loc.pi)[loc.si] /\ ScannedCell = Cell(loc.at, loc.si)
    BY <1>1, <1>2 DEF Scanned, ScannedCell
<1>6. Scanned \in HeaderRecords
    BY <1>1, <1>2, <1>5
<1>7. loc.pi \in Int
    BY <1>1 DEF FreeCalls
<1>8. QED
    BY <1>2, <1>3, <1>4, <1>5, <1>6, <1>7

\* ... is the one sought if that lies where the walk is.
LEMMA SoughtHere ==
    ASSUME TypeInv, PagesInv, BlocksKnown, pc = "scan", loc.si < NumSegments,
           loc.cell = Cell(loc.pi, loc.si)
    PROVE  IsBlock /\ loc.at = loc.pi
<1>1. loc.si \in Segments /\ FreeKnown /\ loc.pi \in Pages
    BY ScanAt, ScanHeader
<1>2. SoughtPage = loc.pi
    BY <1>1, CellPage DEF SoughtPage, Segments
<1>3. loc.at = loc.pi
    BY <1>1, <1>2 DEF FreeKnown
<1>4. QED
    BY <1>3 DEF IsBlock, ScannedCell

\* free_ptr goes on to the next segment.
LEMMA ScanBlocks ==
    ASSUME TypeInv, TypeInv', PagesInv, BlocksKnown, Scan
    PROVE  LayoutInv'
<1> DEFINE page == mem.pages[loc.at]
           len == Length(Scanned)
           next == Advance(page, Overflow(Scanned, page), len)
           headers == Sheet(mem, loc.id, loc.pi)
           h == Scanned
           B == Own
           i == loc.pi
           s == loc.si
           j == PageAfter(h, i)
           t == SegmentAfter(h, page, s)
<1>1. /\ pc = "scan" /\ loc.si < NumSegments /\ ~IsBlock
      /\ loc' = [next EXCEPT !.prev = ScannedCell, !.prev_free = ~Scanned.occ,
                             !.prev_size = IF Scanned.occ THEN @ ELSE len]
      /\ pc' = IF loc.si + len < NumSegments THEN "scan" ELSE "turn"
      /\ UNCHANGED << mem, view, blocks, freed, halt >>
    BY DEF Scan, At
<1>2. /\ loc \in FreeCalls /\ loc.id \in Pids /\ i \in Pages /\ loc.at \in Pages
      /\ InView(view, loc.id, i) /\ Separate(B) /\ page \in PageRecords
      /\ headers \in [Segments -> HeaderRecords] /\ Describes(headers, page, B, i)
    BY <1>1, ScanHeader
<1>3. /\ s \in Segments /\ i \in Int /\ AtStart(B, i, s) /\ h = headers[s] /\ h \in HeaderRecords
      /\ FreeKnown /\ ScannedCell = Cell(loc.at, s)
    BY <1>1, ScanAt
<1>4. s \in Nat /\ NumSegments \in Nat \ {0} /\ s < NumSegments
    BY <1>3, Parameters DEF Segments
<1>5. /\ h.occ <=> Starts(B, i, s)
      /\ ~h.occ => FreeStart(B, i, s)
      /\ h.last => page.length = IF page.ovf THEN 2 ELSE 1
      /\ h.size \in 1 .. NumSegments /\ t \in Nat /\ t <= NumSegments
      /\ ~h.last => s + h.size < NumSegments
      /\ \A b \in B : b.cell <= Cell(i, s) \/ Cell(j, t) <= b.cell
      /\ t < NumSegments => AtStart(B, j, t) /\ (h.occ /\ t # 0 => Busy(B, j, t - 1))
    <2> HIDE DEF B, h, headers, page, i, s
    <2>1. /\ Separate(B) /\ i \in Int /\ s \in Segments /\ AtStart(B, i, s)
          /\ headers \in [Segments -> HeaderRecords] /\ Describes(headers, page, B, i)
          /\ h = headers[s]
        BY <1>2, <1>3
    <2>2. QED
        BY ONLY <2>1, WalkOn
<1>6. ~h.occ => \A x \in s .. s + h.size - 1 : ~Busy(B, i, x)
    <2> HIDE DEF B, h, headers, page, i, s
    <2>1. /\ Separate(B) /\ i \in Int /\ s \in Segments /\ Describes(headers, page, B, i)
          /\ h = headers[s] /\ headers[s].size \in 1 .. NumSegments
        BY <1>2, <1>3, <1>5
    <2>2. QED
        BY ONLY <1>5, <2>1, AtFree
<1>7. /\ next.pi = j /\ next.si = t /\ (h.last /\ page.ovf => next.ovf = h.size)
    BY <1>2, <1>4, <1>3, <1>5, AdvanceTo
<1>8. /\ next \in FreeCalls /\ next.id = loc.id /\ next.first = loc.first /\ next.last = loc.last
      /\ next.at = loc.at /\ next.cell = loc.cell
    <2>1. len \in 1 .. NumSegments
        BY <1>4, <1>5 DEF Length
    <2>2. Overflow(h, page) \in Nat
        BY <1>2, <1>3, OverflowType DEF FreeCalls
    <2>3. QED
        BY <1>2, <1>3, <2>1, <2>2, AdvanceFree
<1> HIDE DEF next
<1>9. /\ loc'.pi = j /\ loc'.si = t /\ (h.last /\ page.ovf => loc'.ovf = h.size)
      /\ loc'.id = loc.id /\ loc'.last = loc.last /\ loc'.at = loc.at /\ loc'.cell = loc.cell
      /\ loc'.prev = Cell(loc.at, s) /\ loc'.prev_free = ~h.occ /\ (~h.occ => loc'.prev_size = len)
    <2>1. /\ loc'.pi = next.pi /\ loc'.si = next.si /\ loc'.ovf = next.ovf /\ loc'.id = next.id
          /\ loc'.last = next.last /\ loc'.at = next.at /\ loc'.cell = next.cell
          /\ loc'.prev = ScannedCell /\ loc'.prev_free = ~h.occ
          /\ (~h.occ => loc'.prev_size = len)
        BY <1>1, <1>8 DEF FreeCalls
    <2>2. QED
        BY <1>3, <1>7, <1>8, <2>1
<1>10. (pc' = "turn" <=> h.last) /\ pc' \in {"scan", "turn"}
    <2>1. len = IF h.last THEN NumSegments - s ELSE h.size
        BY DEF Length
    <2> HIDE DEF len
    <2>2. s + len < NumSegments <=> ~h.last
        BY <1>4, <1>5, <2>1
    <2>3. QED
        BY <1>1, <2>2
<1>11. BlocksInv'
    BY <1>1, <1>10, QuietBlocks DEF BlocksKnown, Releasing
<1>12. Own' = B
    BY <1>1, <1>9 DEF Own
<1>13. WalkInv'
    <2>1. view'[loc'.id].first <= loc'.pi
        <3>1. view[loc.id].first \in Int
            BY <1>2, Parameters DEF TypeInv, Views, NoPage
        <3>2. j \in Int /\ j >= i
            BY <1>3 DEF PageAfter
        <3>3. QED
            BY <1>1, <1>2, <1>3, <1>9, <3>1, <3>2 DEF InView
    <2>2. /\ Separate(B) /\ i \in Int /\ s \in Segments /\ AtStart(B, i, s)
          /\ headers \in [Segments -> HeaderRecords] /\ Describes(headers, page, B, i)
          /\ h = headers[s] /\ loc'.pi = PageAfter(h, i) /\ loc'.si = SegmentAfter(h, page, s)
          /\ (h.last /\ page.ovf => loc'.ovf = h.size) /\ Own' = B /\ (pc' = "turn" => h.last)
        BY <1>2, <1>3, <1>9, <1>10, <1>12
    <2> HIDE DEF B, h, page, headers, i, s, j, t
    <2>3. QED
        BY ONLY <2>1, <2>2, WalkPast
<1>14. FreeKnown'
    <2>1. ~Astray(loc.id, loc.cell)'
        BY <1>1, <1>3, <1>9 DEF FreeKnown, Astray
    <2>2. \A b \in B : b.cell = loc.cell => Cell(j, t) <= b.cell
        <3> SUFFICES ASSUME NEW b \in B, b.cell = loc.cell PROVE Cell(j, t) <= b.cell
            OBVIOUS
        <3>1. Cell(i, s) <= b.cell
            BY <1>3 DEF FreeKnown
        <3>2. b.cell # Cell(i, s)
            BY <1>1, SoughtHere
        <3>3. b.cell \in Int /\ Cell(i, s) \in Int
            BY <1>2, <1>3, <1>4, CellSum DEF Separate
        <3> HIDE DEF B, i, s, j, t, h
        <3>4. QED
            BY <1>5, <3>1, <3>2, <3>3
    <2>3. ASSUME pc' = "scan"
          PROVE  /\ loc'.pi <= loc'.last /\ loc'.at = mem'.ht[loc'.id][loc'.pi]
                 /\ loc'.pi = SoughtPage' => loc'.at = loc'.pi
                 /\ IF loc'.prev_free
                    THEN \E x \in Segments :
                           /\ x < loc'.si
                           /\ loc'.prev = Cell(loc'.at, x) /\ loc'.prev_size = loc'.si - x
                           /\ FreeStart(Own', loc'.pi, x)
                           /\ \A y \in x .. loc'.si - 1 : ~Busy(Own', loc'.pi, y)
                    ELSE loc'.si = 0 \/ Busy(Own', loc'.pi, loc'.si - 1)
        <3>1. ~h.last /\ j = i /\ t = s + h.size /\ len = h.size
            BY <1>10, <2>3 DEF PageAfter, SegmentAfter, Length
        <3>2. loc.pi <= loc.last /\ loc.at = mem.ht[loc.id][loc.pi]
              /\ (loc.pi = SoughtPage => loc.at = loc.pi)
            BY <1>1, <1>3 DEF FreeKnown
        <3>3. SoughtPage' = SoughtPage
            BY <1>9 DEF SoughtPage
        <3>4. t \in Nat /\ t < NumSegments /\ s < t /\ h.size = t - s
            BY <1>4, <1>5, <3>1
        <3>5. CASE h.occ
            BY <1>5, <1>9, <1>12, <3>1, <3>4, <3>5, <3>2, <3>3, <1>1, Zenon
        <3>6. CASE ~h.occ
            <4>1. FreeStart(B, i, s) /\ \A y \in s .. t - 1 : ~Busy(B, i, y)
                <5>1. FreeStart(B, i, s) /\ \A y \in s .. s + h.size - 1 : ~Busy(B, i, y)
                    BY <1>5, <1>6, <3>6
                <5>2. s + h.size - 1 = t - 1
                    BY <1>4, <3>1, <3>4
                <5> HIDE DEF B, i, s, h, t
                <5>3. QED
                    BY <5>1, <5>2
            <4>2. /\ s < loc'.si /\ loc'.prev = Cell(loc'.at, s) /\ loc'.prev_size = loc'.si - s
                  /\ FreeStart(Own', loc'.pi, s)
                  /\ \A y \in s .. loc'.si - 1 : ~Busy(Own', loc'.pi, y)
                BY <1>9, <1>12, <3>1, <3>4, <3>6, <4>1
            <4>3. QED
                <5>1. loc'.prev_free
                    BY <1>9, <3>6
                <5>2. \E x \in Segments :
                           /\ x < loc'.si
                           /\ loc'.prev = Cell(loc'.at, x) /\ loc'.prev_size = loc'.si - x
                           /\ FreeStart(Own', loc'.pi, x)
                           /\ \A y \in x .. loc'.si - 1 : ~Busy(Own', loc'.pi, y)
                    BY <1>3, <4>2, Zenon
                <5>3. /\ loc'.pi <= loc'.last /\ loc'.at = mem'.ht[loc'.id][loc'.pi]
                      /\ loc'.pi = SoughtPage' => loc'.at = loc'.pi
                    BY <1>1, <1>9, <3>1, <3>2, <3>3
                <5>4. QED
                    BY <5>1, <5>2, <5>3
        <3>7. QED
            BY <3>5, <3>6
    <2>4. QED
        BY <1>9, <1>12, <2>1, <2>2, <2>3 DEF FreeKnown
<1>15. QED
    BY <1>10, <1>11, <1>13, <1>14 DEF LayoutInv, BlocksKnown

-----------------------------------------------------------------------------
(* A block is freed: in each page that it has segments of, these make a run  *)
(* of free segments with those after them, and in its first page with those  *)
(* before                                                                    *)

\* Where the free segments end that are freed up to segment to, at header h, and
\* whether the page ends there.
RunEnd(h, to) == IF to < NumSegments /\ ~h.occ THEN to + h.size ELSE to
RunLast(h, to) == to < NumSegments => ~h.occ /\ h.last

\* The page seen at i, of which block b has segments from to to - 1, when the
\* free segments from first on have one header.
LEMMA BlockFreed ==
    ASSUME NEW B, Separate(B), NEW b \in B, NEW C, C = B \ {b}, NEW i \in Int,
           NEW headers \in [Segments -> HeaderRecords],
           NEW others \in [Segments -> HeaderRecords],
           NEW page, NEW data, Describes(headers, page, B, i),
           NEW from \in Segments, NEW to \in 1 .. NumSegments, from < to,
           \A t \in Segments : t \in from .. to - 1 <=>
               b.cell <= Cell(i, t) /\ Cell(i, t) < b.cell + b.len,
           to < NumSegments => b.cell + b.len = Cell(i, to),
           NEW first \in Segments, first <= from, first = 0 \/ Busy(B, i, first - 1),
           \A t \in first .. from - 1 : ~Busy(B, i, t),
           NEW h, to < NumSegments => h = headers[to], NEW end, end = RunEnd(h, to),
           others[first].size = end - first, ~others[first].occ,
           others[first].last <=> RunLast(h, to),
           \A t \in Segments : t \in first .. end - 1 \/ others[t] = headers[t],
           data.ovf <=> Spans(C, i), data.length = IF Spans(C, i) THEN 2 ELSE 1
    PROVE  Describes(others, data, C, i)
<1>1. /\ NumSegments \in Nat \ {0} /\ from \in Nat /\ to \in Nat /\ first \in Nat
      /\ from < NumSegments /\ to <= NumSegments /\ first < NumSegments
    BY Parameters DEF Segments
<1>2. C \in SUBSET B /\ Separate(C)
    BY DEF Separate
<1>3. \A t \in Segments : Busy(C, i, t) <=> Busy(B, i, t) /\ t \notin from .. to - 1
    <2> SUFFICES ASSUME NEW t \in Segments
                 PROVE  Busy(C, i, t) <=> Busy(B, i, t) /\ t \notin from .. to - 1
        OBVIOUS
    <2>1. t \in Int
        BY DEF Segments
    <2>2. /\ Busy(B, i, t) <=> \E x \in B : x.cell <= Cell(i, t) /\ Cell(i, t) < x.cell + x.len
          /\ Busy(C, i, t) <=> \E x \in C : x.cell <= Cell(i, t) /\ Cell(i, t) < x.cell + x.len
        BY <1>2, <2>1, BusyIn
    <2>3. Cell(i, t) \in Int
        BY <2>1, CellSum
    <2>4. \A x \in C : x.cell <= Cell(i, t) /\ Cell(i, t) < x.cell + x.len => t \notin from .. to - 1
        <3> SUFFICES ASSUME NEW x \in C, x.cell <= Cell(i, t), Cell(i, t) < x.cell + x.len,
                            t \in from .. to - 1
                     PROVE  FALSE
            OBVIOUS
        <3>1. b.cell <= Cell(i, t) /\ Cell(i, t) < b.cell + b.len
            OBVIOUS
        <3>2. x \in B /\ x # b
            OBVIOUS
        <3>3. /\ x.cell \in Int /\ x.len \in Int /\ b.cell \in Int /\ b.len \in Int
              /\ x.cell + x.len <= b.cell \/ b.cell + b.len <= x.cell
            BY <3>2 DEF Separate
        <3>4. QED
            BY <2>3, <3>1, <3>3
    <2>5. QED
        BY <2>2, <2>4
<1>4. to < NumSegments => /\ to \in Segments /\ h = headers[to] /\ h.size \in 1 .. NumSegments
                          /\ h.occ => Starts(B, i, to)
                          /\ ~h.occ => FreeStart(B, i, to)
    <2> SUFFICES ASSUME to < NumSegments
                 PROVE  /\ to \in Segments /\ h = headers[to] /\ h.size \in 1 .. NumSegments
                        /\ h.occ => Starts(B, i, to)
                        /\ ~h.occ => FreeStart(B, i, to)
        OBVIOUS
    <2>1. to \in Segments /\ to \in Int
        BY <1>1 DEF Segments
    <2>2. AtStart(B, i, to)
        BY <2>1, BlockEnds
    <2>3. h = headers[to] /\ h \in HeaderRecords
        BY <2>1
    <2>4. h.size \in 1 .. NumSegments
        BY <2>3 DEF HeaderRecords
    <2>5. Starts(B, i, to) => h.occ
        BY <2>1, <2>3, AtBlock DEF Starts
    <2>6. FreeStart(B, i, to) => ~h.occ
        BY <2>1, <2>3, <2>4, AtFree
    <2>7. QED
        BY <2>1, <2>2, <2>3, <2>4, <2>5, <2>6 DEF AtStart
<1>5. /\ end \in Int /\ to <= end /\ end <= NumSegments
      /\ RunLast(h, to) <=> end = NumSegments
      /\ end = NumSegments \/ Busy(C, i, end)
      /\ \A t \in to .. end - 1 : ~Busy(B, i, t)
    <2>1. CASE ~(to < NumSegments)
        BY <1>1, <2>1 DEF RunEnd, RunLast
    <2>2. CASE to < NumSegments /\ h.occ
        <3>1. Busy(B, i, to)
            BY <1>1, <1>4, <2>2, BusyIn
        <3>2. end = to /\ ~RunLast(h, to)
            BY <2>2 DEF RunEnd, RunLast
        <3>3. Busy(C, i, to)
            <4>1. to \in Segments /\ to \notin from .. to - 1
                BY <1>1, <1>4, <2>2
            <4>2. QED
                BY <1>3, <3>1, <4>1
        <3>4. QED
            BY <1>1, <2>2, <3>2, <3>3
    <2>3. CASE to < NumSegments /\ ~h.occ
        <3>1. /\ to + h.size <= NumSegments
              /\ \A t \in to .. to + h.size - 1 : ~Busy(B, i, t)
              /\ IF h.last THEN to + h.size = NumSegments
                           ELSE to + h.size < NumSegments /\ Starts(B, i, to + h.size)
            BY <1>4, <2>3, AtFree
        <3>2. end = to + h.size /\ (RunLast(h, to) <=> h.last) /\ h.size \in 1 .. NumSegments
            BY <1>4, <2>3 DEF RunEnd, RunLast
        <3>3. end \in Nat /\ to <= end /\ end - 1 = to + (h.size - 1)
            BY <1>1, <3>2
        <3>4. CASE h.last
            BY <1>1, <3>1, <3>2, <3>3, <3>4
        <3>5. CASE ~h.last
            <4>1. end < NumSegments /\ Starts(B, i, end)
                BY <3>1, <3>2, <3>5
            <4>2. end \in Int /\ end \in Segments /\ end \notin from .. to - 1
                BY <1>1, <3>3, <4>1 DEF Segments
            <4>3. Busy(B, i, end)
                BY <4>1, <4>2, BusyIn
            <4>4. QED
                <5>1. Busy(C, i, end)
                    BY <1>3, <4>2, <4>3
                <5>2. end # NumSegments /\ ~RunLast(h, to)
                    BY <1>1, <3>2, <3>5, <4>1, <4>2
                <5>3. \A t \in to .. end - 1 : ~Busy(B, i, t)
                    BY <3>1, <3>3
                <5>4. (RunLast(h, to) <=> end = NumSegments)
                    BY <5>2
                <5>5. end \in Int /\ to <= end /\ end <= NumSegments
                    BY <1>1, <3>3, <4>1
                <5>6. QED
                    BY ONLY <5>1, <5>3, <5>4, <5>5
        <3>6. QED
            BY <3>4, <3>5
    <2>4. QED
        BY <2>1, <2>2, <2>3
<1>6. \A t \in first .. end - 1 : ~Busy(C, i, t)
    <2> SUFFICES ASSUME NEW t \in first .. end - 1
                 PROVE  ~Busy(C, i, t)
        OBVIOUS
    <2>1. t \in Segments /\ t \in Int
        BY <1>1, <1>5 DEF Segments
    <2>2. t \in first .. from - 1 \/ t \in from .. to - 1 \/ t \in to .. end - 1
        BY <1>1, <1>5
    <2>3. QED
        BY <1>3, <1>5, <2>1, <2>2
<1>7. \A t \in Segments : t \in first .. end - 1 \/ (Busy(B, i, t) => Busy(C, i, t))
    <2> SUFFICES ASSUME NEW t \in Segments, t \notin first .. end - 1
                 PROVE  Busy(B, i, t) => Busy(C, i, t)
        OBVIOUS
    <2>1. t \notin from .. to - 1
        BY <1>1, <1>5 DEF Segments
    <2>2. QED
        BY <1>3, <2>1
<1>8. first = 0 \/ Busy(C, i, first - 1)
    <2> SUFFICES ASSUME first # 0 PROVE Busy(C, i, first - 1)
        OBVIOUS
    <2>1. first - 1 \in Segments /\ first - 1 \notin from .. to - 1
        BY <1>1 DEF Segments
    <2>2. QED
        BY <1>3, <2>1
<1>9. IsHeader(others[first], end - first, FALSE, end = NumSegments)
    BY <1>5 DEF IsHeader
<1>10. first < end
    BY <1>1, <1>5
<1>11. OneHeader(headers, others, B, C, i, first, end)
    BY <1>5, <1>6, <1>7, <1>8, <1>9 DEF OneHeader
<1>12. QED
    BY <1>2, <1>5, <1>10, <1>11, RunFreed

\* The segments from f to to - 1 of page a are freed, and merged with free ones
\* behind them.
MergedIn(headers, a, f, to) ==
    LET cleared == [headers EXCEPT ![Cell(a, f)] = Header(to - f, FALSE, to = NumSegments)]
    IN  IF to < NumSegments THEN MergeNext(cleared, Cell(a, f), to - f) ELSE cleared

\* The header of segments f to to - 1 of a page is cleared, and takes in that of
\* free segments after them.
LEMMA Merged ==
    ASSUME NEW headers \in [Cells -> HeaderRecords], NEW a \in Pages, NEW f \in Segments,
           NEW to \in Int, f < to, to <= NumSegments,
           to < NumSegments => LET h == headers[Cell(a, to)]
                               IN  ~h.occ => to + h.size <= NumSegments
    PROVE  LET h == headers[Cell(a, to)]
               merged == MergedIn(headers, a, f, to)
           IN  /\ merged[Cell(a, f)].size = RunEnd(h, to) - f /\ ~merged[Cell(a, f)].occ
               /\ merged[Cell(a, f)].last <=> RunLast(h, to)
               /\ \A c \in Cells : c = Cell(a, f) \/ merged[c] = headers[c]
               /\ merged \in [Cells -> HeaderRecords]
               /\ RunEnd(h, to) \in to .. NumSegments
<1> DEFINE h == headers[Cell(a, to)]
           cleared == [headers EXCEPT ![Cell(a, f)] = Header(to - f, FALSE, to = NumSegments)]
           merged == MergedIn(headers, a, f, to)
<1>10. /\ h = headers[Cell(a, to)]
       /\ to < NumSegments => (~h.occ => to + h.size <= NumSegments)
       /\ cleared = [headers EXCEPT ![Cell(a, f)] = Header(to - f, FALSE, to = NumSegments)]
       /\ merged = IF to < NumSegments THEN MergeNext(cleared, Cell(a, f), to - f) ELSE cleared
    BY DEF MergedIn
<1> HIDE DEF h, cleared, merged
<1>1. /\ NumSegments \in Nat \ {0} /\ f \in Nat /\ f < NumSegments /\ to \in Nat /\ a \in Nat
    BY PageNumbers, Parameters DEF Segments
<1> DEFINE cell == Cell(a, f)
<1>2. cell \in Cells
    BY CellPage DEF Segments
<1>3. to - f \in 1 .. NumSegments
    BY <1>1
<1> DEFINE new == Header(to - f, FALSE, to = NumSegments)
<1>4. new \in HeaderRecords /\ new.size = to - f /\ ~new.occ /\ (new.last <=> to = NumSegments)
    <2> DEFINE n == to - f
               l == (to = NumSegments)
    <2>1. n \in 1 .. NumSegments /\ l \in BOOLEAN /\ FALSE \in BOOLEAN
        BY <1>3
    <2> HIDE DEF n, l
    <2>2. IsHeader(Header(n, FALSE, l), n, FALSE, l)
        BY <2>1, HeaderParts
    <2>3. n \in Int
        BY <2>1
    <2>4. Header(n, FALSE, l) \in HeaderRecords
        BY ONLY <2>1, <2>3, HeaderIn
    <2>5. new = Header(n, FALSE, l)
        BY DEF n, l
    <2> HIDE DEF new
    <2>6. new.size = n /\ ~new.occ /\ (new.last <=> l)
        BY <2>2, <2>5 DEF IsHeader
    <2>7. QED
        BY <2>4, <2>5, <2>6 DEF n, l
<1> HIDE DEF cell, new
<1>5. cleared = [headers EXCEPT ![cell] = new]
    BY <1>10 DEF cell, new
<1>6. /\ cleared \in [Cells -> HeaderRecords]
      /\ cleared[cell].size = to - f /\ ~cleared[cell].occ
      /\ cleared[cell].last <=> to = NumSegments
      /\ \A c \in Cells : c = cell \/ cleared[c] = headers[c]
    BY <1>2, <1>4, <1>5
<1>7. CASE ~(to < NumSegments)
    <2>1. to = NumSegments /\ merged = cleared /\ RunEnd(h, to) = to /\ RunLast(h, to)
        BY <1>1, <1>7, <1>10 DEF RunEnd, RunLast
    <2>3. merged[cell].size = RunEnd(h, to) - f /\ ~merged[cell].occ
        BY <1>6, <2>1
    <2>4. merged[cell].last <=> RunLast(h, to)
        BY <1>6, <2>1
    <2>5. RunEnd(h, to) \in to .. NumSegments
        BY <1>1, <2>1
    <2>2. QED
        BY <1>6, <2>1, <2>3, <2>4, <2>5 DEF cell, h, merged
<1>8. CASE to < NumSegments
    <2>1. to \in Segments
        BY <1>1, <1>8 DEF Segments
    <2>2. Cell(a, to) \in Cells /\ Cell(a, to) # cell /\ cell + (to - f) = Cell(a, to)
        <3>1. Cell(a, to) \in Cells
            BY <2>1, CellPage DEF Segments
        <3>2. Cell(a, to) = Cell(a, 0) + to /\ cell = Cell(a, 0) + f /\ Cell(a, 0) \in Int
            BY <1>1, CellSum DEF cell
        <3>3. QED
            BY <1>1, <3>1, <3>2
    <2>10. /\ h = headers[Cell(a, to)]
           /\ ~h.occ => to + h.size <= NumSegments
        BY <1>8, <1>10
    <2>8. /\ h = headers[Cell(a, to)] /\ h \in HeaderRecords
          /\ ~h.occ => to + h.size <= NumSegments
        BY <2>2, <2>10
    <2>9. h.size \in 1 .. NumSegments /\ h.last \in BOOLEAN /\ h.occ \in BOOLEAN
        BY <2>8 DEF HeaderRecords
    <2>3. cleared[Cell(a, to)] = h
        BY <1>6, <2>2, <2>8
    <2>4. merged = IF h.occ THEN cleared
                   ELSE [cleared EXCEPT ![cell] = Header(to - f + h.size, FALSE, h.last)]
        BY <1>8, <1>10, <2>2, <2>3 DEF MergeNext, cell
    <2>5. CASE h.occ
        <3>1. RunEnd(h, to) = to /\ ~RunLast(h, to) /\ merged = cleared
            BY <1>8, <2>4, <2>5 DEF RunEnd, RunLast
        <3>2. QED
            <4>1. merged[cell].size = RunEnd(h, to) - f /\ ~merged[cell].occ
                BY <1>6, <3>1
            <4>2. merged[cell].last <=> RunLast(h, to)
                <5>1. to # NumSegments
                    BY <1>1, <1>8
                <5>2. ~merged[cell].last
                    BY <1>6, <3>1, <5>1
                <5>3. QED
                    BY <3>1, <5>2
            <4>3. RunEnd(h, to) \in to .. NumSegments
                BY <1>1, <1>8, <3>1
            <4>4. QED
                BY <1>6, <3>1, <4>1, <4>2, <4>3 DEF cell, h, merged
    <2>6. CASE ~h.occ
        <3>1. RunEnd(h, to) = to + h.size /\ (RunLast(h, to) <=> h.last)
            BY <1>8, <2>6 DEF RunEnd, RunLast
        <3> DEFINE n == to - f + h.size
                   l == h.last
        <3>2. n \in 1 .. NumSegments /\ n = to + h.size - f /\ l \in BOOLEAN
            BY <1>1, <1>8, <2>6, <2>8, <2>9
        <3>3. merged = [cleared EXCEPT ![cell] = Header(n, FALSE, l)]
            BY <2>4, <2>6
        <3> HIDE DEF n, l
        <3>9. FALSE \in BOOLEAN /\ n \in Int /\ n \in 1 .. NumSegments /\ l \in BOOLEAN
            BY <3>2
        <3>4. IsHeader(Header(n, FALSE, l), n, FALSE, l)
            BY ONLY <3>9, HeaderParts
        <3>5. Header(n, FALSE, l) \in HeaderRecords
            BY ONLY <3>9, HeaderIn
        <3>10. /\ merged \in [Cells -> HeaderRecords] /\ merged[cell] = Header(n, FALSE, l)
               /\ \A c \in Cells : c = cell \/ merged[c] = headers[c]
            BY <1>2, <1>6, <3>3, <3>5
        <3>6. /\ merged \in [Cells -> HeaderRecords]
              /\ merged[cell].size = n /\ ~merged[cell].occ /\ (merged[cell].last <=> l)
              /\ \A c \in Cells : c = cell \/ merged[c] = headers[c]
            BY <3>4, <3>10 DEF IsHeader
        <3>7. RunEnd(h, to) \in to .. NumSegments
            BY <1>1, <1>8, <2>6, <2>8, <2>9, <3>1
        <3>8. QED
            <4>1. merged[cell].size = RunEnd(h, to) - f /\ ~merged[cell].occ
                <5>1. RunEnd(h, to) - f = n
                    BY <1>1, <2>9, <3>1, <3>2
                <5>2. QED
                    BY <3>6, <5>1
            <4>2. merged[cell].last <=> RunLast(h, to)
                BY <3>1, <3>6 DEF l
            <4>3. QED
                BY <3>6, <3>7, <4>1, <4>2 DEF cell, h, merged
    <2>7. QED
        BY <2>5, <2>6
<1>9. QED
    BY <1>7, <1>8 DEF h, merged

\* The free segments from first to f - 1 take in those behind them.
JoinedIn(merged, a, f, first) ==
    IF first < f
    THEN [merged EXCEPT ![Cell(a, first)] =
             Header(f - first + merged[Cell(a, f)].size, FALSE, merged[Cell(a, f)].last)]
    ELSE merged

\* Free segments before the block take in those that are freed.
LEMMA Joined ==
    ASSUME NEW merged \in [Cells -> HeaderRecords], NEW a \in Pages, NEW f \in Segments,
           NEW first \in Segments, first <= f, NEW e \in Int, f < e, e <= NumSegments,
           merged[Cell(a, f)].size = e - f, ~merged[Cell(a, f)].occ
    PROVE  LET joined == JoinedIn(merged, a, f, first)
           IN  /\ joined[Cell(a, first)].size = e - first /\ ~joined[Cell(a, first)].occ
               /\ joined[Cell(a, first)].last <=> merged[Cell(a, f)].last
               /\ \A c \in Cells : c = Cell(a, first) \/ joined[c] = merged[c]
               /\ joined \in [Cells -> HeaderRecords]
<1> DEFINE cell == Cell(a, first)
           h == merged[Cell(a, f)]
           joined == JoinedIn(merged, a, f, first)
<1>1. /\ NumSegments \in Nat \ {0} /\ f \in Nat /\ first \in Nat
    BY Parameters DEF Segments
<1>2. cell \in Cells /\ Cell(a, f) \in Cells
    BY CellPage DEF Segments
<1>3. h \in HeaderRecords
    BY <1>2
<1>4. h.size = e - f /\ ~h.occ /\ h.last \in BOOLEAN
    BY <1>3 DEF HeaderRecords
<1>5. joined = IF first < f THEN [merged EXCEPT ![cell] = Header(f - first + h.size, FALSE, h.last)]
               ELSE merged
    BY DEF JoinedIn
<1> HIDE DEF cell, h, joined
<1>6. CASE first < f
    <2> DEFINE n == f - first + h.size
               l == h.last
    <2>1. n \in 1 .. NumSegments /\ n = e - first /\ n \in Int
        BY <1>1, <1>4, <1>6
    <2>2. l \in BOOLEAN /\ FALSE \in BOOLEAN
        BY <1>4
    <2>3. joined = [merged EXCEPT ![cell] = Header(n, FALSE, l)]
        BY <1>5, <1>6
    <2> HIDE DEF n, l
    <2>4. Header(n, FALSE, l) \in HeaderRecords
        BY ONLY <2>1, <2>2, HeaderIn
    <2>5. IsHeader(Header(n, FALSE, l), n, FALSE, l)
        BY ONLY <2>1, <2>2, HeaderParts
    <2>6. joined \in [Cells -> HeaderRecords] /\ joined[cell] = Header(n, FALSE, l)
          /\ \A c \in Cells : c = cell \/ joined[c] = merged[c]
        BY <1>2, <2>3, <2>4
    <2>7. joined[cell].size = n /\ ~joined[cell].occ /\ (joined[cell].last <=> l)
        BY <2>5, <2>6 DEF IsHeader
    <2>8. QED
        BY <2>1, <2>6, <2>7 DEF cell, l, h, joined
<1>7. CASE ~(first < f)
    <2>1. first = f
        BY <1>1, <1>7
    <2>2. joined = merged
        BY <1>5, <1>7
    <2>3. QED
        BY <2>1, <2>2, <1>4 DEF cell, h, joined
<1>8. QED
    BY <1>6, <1>7 DEF joined

\* free_ptr is at the segment the pointer says: it lies where its thread sees it,
\* and a block of the thread begins there if its header says so.
LEMMA FoundBlock ==
    ASSUME TypeInv, PagesInv, BlocksKnown, pc = "scan", loc.si < NumSegments, IsBlock
    PROVE  /\ loc.at = loc.pi /\ loc.cell = Cell(loc.pi, loc.si)
           /\ Scanned.occ <=> HasSought
<1>1. /\ loc.at \in Pages /\ mem.pages[loc.at].pid = loc.id /\ mem.pages[loc.at].index = loc.pi
      /\ Separate(Own) /\ loc.pi \in Pages
      /\ Sheet(mem, loc.id, loc.pi) \in [Segments -> HeaderRecords]
      /\ Describes(Sheet(mem, loc.id, loc.pi), mem.pages[loc.at], Own, loc.pi)
    BY ScanHeader
<1>2. /\ loc.si \in Segments /\ loc.pi \in Int /\ AtStart(Own, loc.pi, loc.si)
      /\ Scanned = Sheet(mem, loc.id, loc.pi)[loc.si]
      /\ FreeKnown /\ ScannedCell = Cell(loc.at, loc.si)
    BY ScanAt
<1>3. loc.cell = Cell(loc.at, loc.si)
    BY <1>2 DEF IsBlock
<1>4. SoughtPage = loc.at
    BY <1>1, <1>2, <1>3, CellPage DEF SoughtPage, Segments
<1>5. loc.at = loc.pi
    BY <1>1, <1>2, <1>4 DEF FreeKnown, Astray, SoughtPage
<1>6. Scanned.occ <=> Starts(Own, loc.pi, loc.si)
    <2> DEFINE headers == Sheet(mem, loc.id, loc.pi)
               page == mem.pages[loc.at]
    <2>1. /\ headers \in [Segments -> HeaderRecords] /\ Describes(headers, page, Own, loc.pi)
          /\ Scanned = headers[loc.si]
        BY <1>1, <1>2
    <2> HIDE DEF headers, page
    <2>2. QED
        BY <1>1, <1>2, <2>1, WalkOn
<1>7. Starts(Own, loc.pi, loc.si) <=> HasSought
    BY <1>3, <1>5 DEF Starts, HasSought, Own
<1>8. QED
    BY <1>3, <1>5, <1>6, <1>7

\* What free_ptr knows of the block it has found.
LEMMA FoundHeader ==
    ASSUME TypeInv, PagesInv, BlocksKnown, pc = "scan", loc.si < NumSegments, IsBlock,
           NEW b \in Own, b.cell = loc.cell
    PROVE  LET h == Scanned
               page == mem.pages[loc.pi]
           IN  /\ b.cell = Cell(loc.pi, loc.si) /\ b.len \in 1 .. NumSegments
               /\ h \in HeaderRecords /\ h.size \in 1 .. NumSegments
               /\ ~h.last => h.size = b.len /\ loc.si + h.size < NumSegments
               /\ h.last /\ page.ovf => loc.si + b.len = NumSegments + h.size /\ page.length = 2
               /\ h.last /\ ~page.ovf => loc.si + b.len = NumSegments /\ page.length = 1
<1> DEFINE h == Scanned
           page == mem.pages[loc.pi]
           headers == Sheet(mem, loc.id, loc.pi)
<1>1. loc.at = loc.pi /\ b.cell = Cell(loc.pi, loc.si)
    BY FoundBlock
<1>2. /\ Separate(Own) /\ headers \in [Segments -> HeaderRecords]
      /\ Describes(headers, page, Own, loc.pi)
    BY <1>1, ScanHeader
<1>3. loc.si \in Segments /\ loc.pi \in Int /\ h = headers[loc.si] /\ h \in HeaderRecords
    BY ScanAt
<1>4. h.size \in 1 .. NumSegments
    BY <1>3 DEF HeaderRecords
<1>5. b.len \in 1 .. NumSegments
    BY <1>2 DEF Separate
<1> HIDE DEF h, page, headers
<1>6. /\ IF h.last THEN loc.si + b.len >= NumSegments
                   ELSE h.size = b.len /\ loc.si + h.size < NumSegments
      /\ h.last /\ page.ovf => loc.si + b.len = NumSegments + h.size /\ page.length = 2
      /\ h.last /\ ~page.ovf => loc.si + b.len = NumSegments /\ page.length = 1
    BY <1>1, <1>2, <1>3, AtBlock
<1>7. QED
    BY <1>1, <1>3, <1>4, <1>5, <1>6 DEF h, page

\* The header behind a block that ends within its page.
LEMMA HeaderBehind ==
    ASSUME NEW B, Separate(B), NEW i \in Int, NEW b \in B, NEW to \in Segments,
           b.cell + b.len = Cell(i, to),
           NEW headers \in [Segments -> HeaderRecords], NEW page, Describes(headers, page, B, i),
           NEW h, h = headers[to]
    PROVE  ~h.occ => to + h.size <= NumSegments
<1>1. to \in Int /\ NumSegments \in Nat
    BY Parameters DEF Segments
<1>2. AtStart(B, i, to)
    BY <1>1, BlockEnds
<1>3. headers[to] \in HeaderRecords
    OBVIOUS
<1>4. headers[to].size \in 1 .. NumSegments
    BY <1>3 DEF HeaderRecords
<1>5. CASE Starts(B, i, to)
    <2>1. PICK c \in B : c.cell = Cell(i, to)
        BY <1>5 DEF Starts
    <2>2. headers[to].occ
        BY <2>1, AtBlock
    <2>3. QED
        BY <2>2
<1>6. CASE FreeStart(B, i, to)
    <2>1. to + headers[to].size <= NumSegments
        BY <1>4, <1>6, AtFree
    <2>2. QED
        BY <2>1
<1>7. QED
    BY <1>2, <1>5, <1>6 DEF AtStart

\* What free_ptr has found: a block of the thread.
LEMMA FoundAt ==
    ASSUME TypeInv, PagesInv, BlocksKnown, Found, halt' = "none"
    PROVE  /\ pc = "scan" /\ loc.si < NumSegments /\ IsBlock /\ Scanned.occ
           /\ loc.at = loc.pi /\ loc.si \in Segments /\ mem.ht[loc.id][loc.pi] = loc.pi
           /\ \E b \in Own : b.cell = loc.cell
           /\ Scanned.last /\ mem.pages[loc.pi].ovf => LastPageOfBlock # NoPage
<1>1. pc = "scan" /\ loc.si < NumSegments /\ IsBlock /\ Scanned.occ
    BY DEF Found, At
<1>2. loc.at = loc.pi /\ HasSought
    BY <1>1, FoundBlock
<1>3. mem.ht[loc.id][loc.pi] = loc.pi
    BY <1>1, <1>2, ScanHeader
<1>4. Scanned.last /\ mem.pages[loc.pi].ovf => LastPageOfBlock # NoPage
    BY <1>1, <1>2 DEF Found, End
<1>5. loc.si \in Segments
    BY <1>1, ScanAt
<1>6. \E b \in Own : b.cell = loc.cell
    BY <1>2 DEF HasSought, Own
<1>7. QED
    BY <1>1, <1>2, <1>3, <1>4, <1>5, <1>6

\* The page that a spanning block ends in: the thread sees it next.
LEMMA LastPage ==
    ASSUME TypeInv, PagesInv, BlocksKnown, pc = "scan", loc.si < NumSegments, IsBlock,
           Scanned.last, mem.pages[loc.pi].ovf,
           NEW b \in Own, b.cell = loc.cell, NEW j, j = loc.pi + 1, NEW q, q = mem.ht[loc.id][j]
    PROVE  /\ j \in Pages /\ j \in Int /\ InView(view, loc.id, j) /\ q \in Pages /\ q # loc.pi
           /\ LastPageOfBlock = q
           /\ Sheet(mem, loc.id, j) \in [Segments -> HeaderRecords]
           /\ Describes(Sheet(mem, loc.id, j), mem.pages[q], Own, j)
           /\ b.cell < Cell(j, 0) /\ b.cell + b.len = Cell(j, Scanned.size)
<1> DEFINE i == loc.pi
           h == Scanned
           n == h.size
<1>1. /\ loc.id \in Pids /\ i \in Pages /\ loc.at \in Pages /\ loc.at = mem.ht[loc.id][i]
      /\ mem.pages[loc.at].pid = loc.id /\ mem.pages[loc.at].index = i
      /\ InView(view, loc.id, i) /\ Separate(Own)
    BY ScanHeader
<1>2. /\ loc.at = i /\ b.cell = Cell(i, loc.si) /\ b.len \in 1 .. NumSegments
      /\ n \in 1 .. NumSegments /\ loc.si + b.len = NumSegments + n
      /\ mem.pages[i].length = 2
    BY FoundBlock, FoundHeader
<1>3. loc.si \in Segments
    BY ScanAt
<1>16. j = i + 1
    OBVIOUS
<1> HIDE DEF h, n, i
<1>4. i \in Nat /\ NumSegments \in Nat \ {0} /\ loc.si \in Nat /\ n \in Int /\ j \in Int
    <2>1. i \in Nat /\ NumSegments \in Nat \ {0} /\ j \in Int
        BY <1>1, <1>16, PageNumbers, Parameters
    <2>2. loc.si \in Nat
        BY <1>3, <2>1 DEF Segments
    <2>3. n \in Int
        BY <1>2, <2>1
    <2>4. QED
        BY <2>1, <2>2, <2>3
<1>5. /\ Cell(i, 0) \in Int /\ Cell(i, loc.si) = Cell(i, 0) + loc.si
      /\ Cell(j, 0) = Cell(i, 0) + NumSegments /\ Cell(j, n) = Cell(j, 0) + n
    <2>1. /\ Cell(i, 0) \in Int /\ Cell(i, loc.si) = Cell(i, 0) + loc.si
          /\ Cell(i + 1, 0) = Cell(i, 0) + NumSegments
        <3>1. i \in Int /\ loc.si \in Int
            BY <1>4
        <3>2. QED
            BY ONLY <3>1, CellSum
    <2>2. Cell(j, n) = Cell(j, 0) + n
        BY <1>4, CellSum
    <2>3. QED
        BY <1>16, <2>1, <2>2
<1>6. b.cell < Cell(j, 0) /\ b.cell + b.len = Cell(j, n) /\ Cell(j, 0) < b.cell + b.len
    BY <1>2, <1>3, <1>4, <1>5 DEF Segments
<1>7. /\ Layout(mem, view, blocks, freed) /\ Within(view, blocks)
    BY CalmBlocks DEF BlocksKnown
<1>8. InView(view, loc.id, j)
    <2>1. view[loc.id].first \in Int /\ view[loc.id].last \in Int
        <3>1. view[loc.id] \in Views
            BY <1>1 DEF TypeInv
        <3>2. QED
            BY <3>1, Parameters DEF Views, NoPage
    <2>2. view[loc.id].first <= i /\ j = i + 1
        BY <1>1, <1>16 DEF InView
    <2>3. b.cell + b.len <= Cell(view[loc.id].last + 1, 0)
        BY <1>1, <1>7 DEF Within, Own
    <2>4. ASSUME view[loc.id].last < j
          PROVE  FALSE
        <3> DEFINE l == view[loc.id].last + 1
        <3>1. l \in Int /\ l <= j
            BY <1>4, <2>1, <2>4
        <3> HIDE DEF l
        <3>2. Cell(l, 0) <= Cell(j, 0) /\ Cell(l, 0) \in Int
            BY <1>4, <3>1, CellUpTo
        <3>3. b.cell + b.len <= Cell(l, 0)
            BY <2>3 DEF l
        <3>4. QED
            BY <1>2, <1>4, <1>5, <1>6, <3>2, <3>3
    <2>5. QED
        BY <1>4, <2>1, <2>2, <2>4 DEF InView
<1>9. j \in Pages
    <2>1. view[loc.id] \in Views
        BY <1>1 DEF TypeInv
    <2>2. view[loc.id].last <= NumPages - 1 /\ view[loc.id].last \in Int
        BY <2>1, Parameters DEF Views, NoPage, Pages
    <2>3. QED
        BY <1>4, <1>8, <2>2, Parameters DEF InView, Pages, i
<1>10. PICK used \in Nat : PageMap(mem, view, freed, used)
    BY SameSeen DEF PagesInv
<1>11. q \in Pages /\ q # NoPage /\ mem.pages[q].index = j /\ mem \in Memory
    <2>1. mem \in Memory
        BY DEF TypeInv
    <2>2. mem.ht[loc.id][j] = q
        OBVIOUS
    <2>3. loc.id \in Pids
        BY <1>1
    <2>4. /\ mem.ht[loc.id][j] \in Pages /\ mem.ht[loc.id][j] # NoPage
          /\ mem.pages[mem.ht[loc.id][j]].index = j
        BY ONLY <1>8, <1>9, <1>10, <2>1, <2>3, SeenPage
    <2>5. QED
        BY <2>1, <2>2, <2>4
<1>12. q # i
    BY <1>1, <1>2, <1>4, <1>11 DEF i
<1>13. LastPageOfBlock = q
    <2>1. i + 2 - 1 = j
        BY <1>4, <1>16
    <2>2. LastPageOfBlock = ht_get(mem, loc.id, i + 2 - 1)
        BY <1>1, <1>2 DEF LastPageOfBlock
    <2>3. LastPageOfBlock = ht_get(mem, loc.id, j)
        BY <2>1, <2>2
    <2>4. QED
        BY <1>9, <2>3 DEF ht_get
<1>14. /\ Describes(Sheet(mem, loc.id, j), mem.pages[q], Own, j)
       /\ Sheet(mem, loc.id, j) \in [Segments -> HeaderRecords]
    BY <1>1, <1>7, <1>8, <1>9, <1>11, SheetType DEF Layout, Drawn, PageAt, Own
<1>15. QED
    BY <1>4, <1>6, <1>8, <1>9, <1>11, <1>12, <1>13, <1>14 DEF i, n, h

\* The headers of physical page a.
PageHeaders(headers, a) == [t \in Segments |-> headers[Cell(a, t)]]

\* Headers that differ in one cell of a page.
LEMMA OneCell ==
    ASSUME NEW headers \in [Cells -> HeaderRecords], NEW others \in [Cells -> HeaderRecords],
           NEW a \in Pages, NEW s \in Segments,
           \A c \in Cells : c = Cell(a, s) \/ others[c] = headers[c]
    PROVE  /\ PageHeaders(others, a) \in [Segments -> HeaderRecords]
           /\ \A t \in Segments : t = s \/ PageHeaders(others, a)[t] = PageHeaders(headers, a)[t]
           /\ \A c \in Cells : c \div NumSegments = a \/ others[c] = headers[c]
           /\ PageHeaders(others, a)[s] = others[Cell(a, s)]
<1>1. \A t \in Segments : Cell(a, t) \in Cells /\ Cell(a, t) \div NumSegments = a
    BY CellPage DEF Segments
<1>2. \A t \in Segments : t = s \/ Cell(a, t) # Cell(a, s)
    BY SameCell
<1>3. \A t \in Segments : t = s \/ others[Cell(a, t)] = headers[Cell(a, t)]
    BY <1>1, <1>2
<1>4. PageHeaders(others, a) \in [Segments -> HeaderRecords]
    BY <1>1 DEF PageHeaders
<1>5. \A t \in Segments : t = s \/ PageHeaders(others, a)[t] = PageHeaders(headers, a)[t]
    BY <1>3 DEF PageHeaders
<1>6. PageHeaders(others, a)[s] = others[Cell(a, s)]
    BY DEF PageHeaders
<1>7. \A c \in Cells : c \div NumSegments = a \/ others[c] = headers[c]
    BY <1>1
<1>8. QED
    BY <1>4, <1>5, <1>6, <1>7

\* Block b has segments f to to - 1 of the page seen at i; the segments before,
\* from first on, are free.
HasOf(B, b, i, f, to, first) ==
    /\ f \in Segments /\ to \in Int /\ f < to /\ to <= NumSegments
    /\ \A t \in Segments : t \in f .. to - 1 <=>
           b.cell <= Cell(i, t) /\ Cell(i, t) < b.cell + b.len
    /\ to < NumSegments => b.cell + b.len = Cell(i, to)
    /\ first \in Segments /\ first <= f /\ (first = 0 \/ Busy(B, i, first - 1))
    /\ \A t \in first .. f - 1 : ~Busy(B, i, t)

\* Freeing them changes the page's headers, and what its data says of blocks.
FreesPage(B, b, C, i, headers, a, page, data, f, to, first) ==
    /\ HasOf(B, b, i, f, to, first)
    /\ Describes(PageHeaders(headers, a), page, B, i)
    /\ Separate(B) /\ b \in B /\ C = B \ {b} /\ i \in Int
    /\ headers \in [Cells -> HeaderRecords] /\ a \in Pages
    /\ data.ovf <=> Spans(C, i)
    /\ data.length = IF Spans(C, i) THEN 2 ELSE 1

\* A block's segments of a page are freed, with the free ones before and behind.
LEMMA PageFreed ==
    ASSUME NEW B, NEW b, NEW C, NEW i, NEW headers, NEW a, NEW page, NEW data,
           NEW f, NEW to, NEW first, FreesPage(B, b, C, i, headers, a, page, data, f, to, first)
    PROVE  LET joined == JoinedIn(MergedIn(headers, a, f, to), a, f, first)
           IN  /\ joined \in [Cells -> HeaderRecords]
               /\ \A c \in Cells : c \div NumSegments = a \/ joined[c] = headers[c]
               /\ Describes(PageHeaders(joined, a), data, C, i)
<1> DEFINE h == headers[Cell(a, to)]
           old == PageHeaders(headers, a)
           end == RunEnd(h, to)
           merged == MergedIn(headers, a, f, to)
           joined == JoinedIn(merged, a, f, first)
           middle == PageHeaders(merged, a)
           others == PageHeaders(joined, a)
<1>17. /\ f \in Segments /\ to \in Int /\ f < to /\ to <= NumSegments
       /\ to < NumSegments => b.cell + b.len = Cell(i, to)
       /\ first \in Segments /\ first <= f
       /\ headers \in [Cells -> HeaderRecords] /\ a \in Pages
       /\ Separate(B) /\ b \in B /\ C = B \ {b} /\ i \in Int
       /\ Describes(PageHeaders(headers, a), page, B, i)
    BY DEF HasOf, FreesPage
<1>1. /\ NumSegments \in Nat \ {0} /\ f \in Nat /\ first \in Nat
      /\ first < NumSegments /\ f < NumSegments
    BY <1>17, Parameters DEF Segments
<1>2. old \in [Segments -> HeaderRecords] /\ \A t \in Segments : old[t] = headers[Cell(a, t)]
    <2>1. \A t \in Segments : Cell(a, t) \in Cells
        BY <1>17, CellPage DEF Segments
    <2>2. QED
        BY <1>17, <2>1 DEF PageHeaders
<1> HIDE DEF h, old, end
<1>3. to < NumSegments => to \in Segments /\ h = old[to] /\ h = headers[Cell(a, to)]
    BY <1>1, <1>2, <1>17 DEF Segments, h
<1>4. to < NumSegments => (~h.occ => to + h.size <= NumSegments)
    <2>1. ASSUME to < NumSegments
          PROVE  ~h.occ => to + h.size <= NumSegments
        <3>1. to \in Segments /\ h = old[to] /\ b.cell + b.len = Cell(i, to)
            BY <1>3, <1>17, <2>1
        <3>2. Describes(old, page, B, i)
            BY <1>17 DEF old
        <3>3. QED
            BY <1>2, <1>17, <3>1, <3>2, HeaderBehind
    <2>2. QED
        BY <2>1
<1>5. /\ to < NumSegments => (~headers[Cell(a, to)].occ =>
                                  to + headers[Cell(a, to)].size <= NumSegments)
      /\ headers \in [Cells -> HeaderRecords] /\ a \in Pages /\ f \in Segments /\ to \in Int
      /\ f < to /\ to <= NumSegments /\ first \in Segments /\ first <= f
    BY <1>4, <1>17 DEF h
<1>6. /\ merged[Cell(a, f)].size = end - f /\ ~merged[Cell(a, f)].occ
      /\ merged[Cell(a, f)].last <=> RunLast(h, to)
      /\ \A c \in Cells : c = Cell(a, f) \/ merged[c] = headers[c]
      /\ merged \in [Cells -> HeaderRecords]
      /\ end \in to .. NumSegments
    BY ONLY <1>5, Merged DEF end, h, merged
<1>7. end \in Int /\ f < end /\ end <= NumSegments
    BY <1>1, <1>6, <1>17
<1> HIDE DEF merged
<1>8. /\ joined[Cell(a, first)].size = end - first /\ ~joined[Cell(a, first)].occ
      /\ joined[Cell(a, first)].last <=> merged[Cell(a, f)].last
      /\ \A c \in Cells : c = Cell(a, first) \/ joined[c] = merged[c]
      /\ joined \in [Cells -> HeaderRecords]
    BY ONLY <1>5, <1>6, <1>7, Joined DEF joined
<1> HIDE DEF joined
<1>9. /\ middle \in [Segments -> HeaderRecords]
      /\ \A t \in Segments : t = f \/ middle[t] = old[t]
      /\ \A c \in Cells : c \div NumSegments = a \/ merged[c] = headers[c]
    BY ONLY <1>5, <1>6, OneCell DEF old, middle
<1>10. /\ others \in [Segments -> HeaderRecords]
       /\ \A t \in Segments : t = first \/ others[t] = middle[t]
       /\ \A c \in Cells : c \div NumSegments = a \/ joined[c] = merged[c]
       /\ others[first] = joined[Cell(a, first)]
    BY ONLY <1>5, <1>6, <1>8, OneCell DEF others, middle
<1> HIDE DEF others, middle
<1>11. \A t \in Segments : t \in first .. end - 1 \/ others[t] = old[t]
    <2> TAKE t \in Segments
    <2>1. first \in first .. end - 1 /\ f \in first .. end - 1
        BY <1>1, <1>7, <1>17
    <2>2. CASE t \in {first, f}
        BY <2>1, <2>2
    <2>3. CASE t \notin {first, f}
        BY <1>9, <1>10, <2>3
    <2>4. QED
        BY <2>2, <2>3
<1>12. /\ others[first].size = end - first /\ ~others[first].occ
       /\ others[first].last <=> RunLast(h, to)
       /\ end = RunEnd(h, to) /\ (to < NumSegments => h = old[to])
       /\ to \in 1 .. NumSegments
    <2>1. others[first].size = end - first /\ ~others[first].occ
        BY <1>8, <1>10
    <2>2. others[first].last <=> RunLast(h, to)
        BY <1>6, <1>8, <1>10
    <2>3. to \in 1 .. NumSegments
        BY <1>1, <1>5
    <2>4. QED
        BY <1>3, <2>1, <2>2, <2>3 DEF end
<1>13. Describes(old, page, B, i)
    BY <1>17 DEF old
<1>16. /\ Separate(B) /\ b \in B /\ C = B \ {b} /\ i \in Int
       /\ \A t \in Segments : t \in f .. to - 1 <=>
               b.cell <= Cell(i, t) /\ Cell(i, t) < b.cell + b.len
       /\ to < NumSegments => b.cell + b.len = Cell(i, to)
       /\ first = 0 \/ Busy(B, i, first - 1)
       /\ \A t \in first .. f - 1 : ~Busy(B, i, t)
       /\ data.ovf <=> Spans(C, i)
       /\ data.length = IF Spans(C, i) THEN 2 ELSE 1
    BY <1>17 DEF HasOf, FreesPage
<1>14. Describes(others, data, C, i)
    BY ONLY <1>2, <1>5, <1>10, <1>11, <1>12, <1>13, <1>16, BlockFreed
<1>15. QED
    BY <1>8, <1>9, <1>10, <1>14 DEF others, joined, merged

\* free_cont_pages frees what a block has of its last page.
LEMMA LastPageFreed ==
    ASSUME TypeInv, PagesInv, BlocksKnown, pc = "scan", loc.si < NumSegments, IsBlock,
           Scanned.last, mem.pages[loc.pi].ovf,
           NEW b \in Own, b.cell = loc.cell
    PROVE  LET j == loc.pi + 1
               q == mem.ht[loc.id][j]
               headers == free_cont_pages(mem).headers
           IN  /\ headers \in [Cells -> HeaderRecords]
               /\ \A c \in Cells : c \div NumSegments = q \/ headers[c] = mem.headers[c]
               /\ Describes(PageHeaders(headers, q), mem.pages[q], Own \ {b}, j)
<1> DEFINE j == loc.pi + 1
           q == mem.ht[loc.id][j]
           m == free_cont_pages(mem)
           C == Own \ {b}
<1>22. /\ j = loc.pi + 1 /\ q = mem.ht[loc.id][j] /\ m = free_cont_pages(mem)
       /\ C = Own \ {b}
    OBVIOUS
<1> HIDE DEF j, q, m, C
<1> DEFINE n == Scanned.size
           old == mem.headers
           page == mem.pages[q]
           joined == JoinedIn(MergedIn(old, q, 0, n), q, 0, 0)
           B == Own
<1>1. /\ j \in Pages /\ j \in Int /\ InView(view, loc.id, j) /\ q \in Pages /\ q # loc.pi
      /\ LastPageOfBlock = q
      /\ Describes(Sheet(mem, loc.id, j), page, B, j)
      /\ b.cell < Cell(j, 0) /\ b.cell + b.len = Cell(j, n)
    BY <1>22, LastPage
<1>2. n \in 1 .. NumSegments /\ b.len \in 1 .. NumSegments
    BY FoundHeader
<1>3. NumSegments \in Nat \ {0} /\ n \in Int /\ 0 \in Segments /\ n - 0 = n /\ 0 \in Int
      /\ (n >= NumSegments) = (n = NumSegments) /\ 0 < n /\ n <= NumSegments
    <2>1. NumSegments \in Nat \ {0}
        BY Parameters
    <2>2. QED
        BY <1>2, <2>1 DEF Segments
<1>4. old \in [Cells -> HeaderRecords]
    BY DEF TypeInv, Memory
<1>5. Separate(B) /\ b.cell \in Int
    BY ScanHeader DEF Separate
<1>6. PageHeaders(old, q) = Sheet(mem, loc.id, j)
    BY <1>22 DEF Sheet, PageHeaders
<1>7. m.headers = joined
    <2>1. loc.at = loc.pi
        BY FoundBlock
    <2>2. m.headers = IF n < NumSegments
              THEN MergeNext([old EXCEPT ![Cell(q, 0)] = Header(n, FALSE, n >= NumSegments)],
                             Cell(q, 0), n)
              ELSE [old EXCEPT ![Cell(q, 0)] = Header(n, FALSE, n >= NumSegments)]
        BY <1>1, <1>22, <2>1 DEF free_cont_pages, TypeInv, Memory
    <2> HIDE DEF n, old
    <2>3. MergedIn(old, q, 0, n) = IF n < NumSegments
              THEN MergeNext([old EXCEPT ![Cell(q, 0)] = Header(n, FALSE, n >= NumSegments)],
                             Cell(q, 0), n)
              ELSE [old EXCEPT ![Cell(q, 0)] = Header(n, FALSE, n >= NumSegments)]
        BY <1>3 DEF MergedIn
    <2> DEFINE one == MergedIn(old, q, 0, n)
    <2>5. one = m.headers
        BY ONLY <2>2, <2>3
    <2> HIDE DEF one
    <2>6. JoinedIn(one, q, 0, 0) = one
        BY ONLY DEF JoinedIn
    <2>4. QED
        BY ONLY <2>5, <2>6 DEF joined, one
<1> HIDE DEF n, old, page, joined, B
<1>13. \A t \in Segments : t \in 0 .. n - 1 <=>
          b.cell <= Cell(j, t) /\ Cell(j, t) < b.cell + b.len
    <2> TAKE t \in Segments
    <2>1. t \in Nat /\ t \in Int
        BY <1>3 DEF Segments
    <2>2. Cell(j, t) = Cell(j, 0) + t /\ Cell(j, n) = Cell(j, 0) + n /\ Cell(j, 0) \in Int
        BY <1>1, <1>3, <2>1, CellSum
    <2>3. QED
        BY <1>1, <1>3, <1>5, <2>1, <2>2
<1>14. page.length = (IF Spans(C, j) THEN 2 ELSE 1) /\ (page.ovf <=> Spans(C, j))
    <2>1. page.length = (IF Spans(B, j) THEN 2 ELSE 1) /\ (page.ovf <=> Spans(B, j))
        BY <1>1 DEF Describes
    <2>2. Spans(B, j) <=> Spans(C, j)
        <3>1. b.cell + b.len <= Cell(j + 1, 0)
            <4>1. Cell(j + 1, 0) = Cell(j, 0) + NumSegments /\ Cell(j, n) = Cell(j, 0) + n
                  /\ Cell(j, 0) \in Int
                BY <1>1, <1>3, CellSum
            <4>2. QED
                BY <1>1, <1>3, <4>1
        <3>2. b.cell + b.len \in Int /\ Cell(j + 1, 0) \in Int
            <4>1. j + 1 \in Int
                BY <1>1
            <4>2. Cell(j + 1, 0) \in Int
                BY <4>1, CellSum
            <4>3. QED
                BY <1>2, <1>3, <1>5, <4>2
        <3>3. ~(b.cell < Cell(j + 1, 0) /\ Cell(j + 1, 0) < b.cell + b.len)
            BY <3>1, <3>2
        <3>4. QED
            BY <1>22, <3>3 DEF Spans, B
    <2>3. QED
        BY <2>1, <2>2
<1> DEFINE f == 0
<1>19. /\ f \in Segments /\ f < n /\ f <= f /\ n \in Int /\ n <= NumSegments
       /\ \A t \in Segments : t \in f .. n - 1 <=>
              b.cell <= Cell(j, t) /\ Cell(j, t) < b.cell + b.len
       /\ n < NumSegments => b.cell + b.len = Cell(j, n)
       /\ \A t \in f .. f - 1 : ~Busy(B, j, t)
       /\ f = 0 \/ Busy(B, j, f - 1)
    BY <1>1, <1>3, <1>13
<1>15. joined = JoinedIn(MergedIn(old, q, f, n), q, f, f)
    BY DEF joined
<1> HIDE DEF f
<1>20. HasOf(B, b, j, f, n, f)
    BY ONLY <1>19 DEF HasOf
<1>16. b \in B /\ C = B \ {b} /\ Describes(PageHeaders(old, q), page, B, j)
    BY <1>1, <1>6, <1>22 DEF B
<1>21. FreesPage(B, b, C, j, old, q, page, page, f, n, f)
    BY ONLY <1>1, <1>4, <1>5, <1>14, <1>16, <1>20 DEF FreesPage
<1>17. LET done == JoinedIn(MergedIn(old, q, f, n), q, f, f)
       IN  /\ done \in [Cells -> HeaderRecords]
           /\ \A c \in Cells : c \div NumSegments = q \/ done[c] = old[c]
           /\ Describes(PageHeaders(done, q), page, C, j)
    BY ONLY <1>21, PageFreed
<1>18. QED
    BY <1>7, <1>15, <1>17, <1>22, Zenon DEF page, old

\* Where the segments of the block's first page end that free_ptr frees, ...
FreedTo == IF Scanned.last THEN NumSegments ELSE loc.si + Scanned.size

\* ... and where the free ones before them begin.
FreedFrom == IF loc.prev_free THEN loc.si - loc.prev_size ELSE loc.si

\* The memory before them is freed: a block that spans pages has lost its last one.
Spanning == Scanned.last /\ mem.pages[loc.pi].ovf
Shortened == IF Spanning THEN free_cont_pages(mem) ELSE mem

\* The headers that free_ptr writes.
LEMMA FreedHeaders ==
    ASSUME TypeInv, PagesInv, BlocksKnown, pc = "scan", loc.si < NumSegments, IsBlock,
           NEW b \in Own, b.cell = loc.cell, NEW i, i = loc.pi
    PROVE  /\ HasOf(Own, b, i, loc.si, FreedTo, FreedFrom)
           /\ FreeSegments.headers =
                  JoinedIn(MergedIn(Shortened.headers, i, loc.si, FreedTo), i, loc.si, FreedFrom)
<1> DEFINE s == loc.si
           h == Scanned
           to == FreedTo
           first == FreedFrom
           B == Own
           page == mem.pages[loc.pi]
<1>1. /\ loc.at = i /\ b.cell = Cell(i, s) /\ b.len \in 1 .. NumSegments /\ h \in HeaderRecords
      /\ h.size \in 1 .. NumSegments
      /\ ~h.last => h.size = b.len /\ s + h.size < NumSegments
      /\ h.last /\ page.ovf => s + b.len = NumSegments + h.size
      /\ h.last /\ ~page.ovf => s + b.len = NumSegments
    BY FoundBlock, FoundHeader
<1>2. s \in Segments /\ i \in Int /\ FreeKnown /\ ScannedCell = Cell(i, s) /\ Separate(B)
    BY <1>1, ScanAt, ScanHeader
<1>3. NumSegments \in Nat \ {0} /\ s \in Nat /\ s < NumSegments
    BY <1>2, Parameters DEF Segments
<1>4. /\ first \in Segments /\ first <= s /\ (first = 0 \/ Busy(B, i, first - 1))
      /\ \A t \in first .. s - 1 : ~Busy(B, i, t)
      /\ loc.prev_free => first < s /\ loc.prev = Cell(i, first) /\ loc.prev_size = s - first
      /\ ~loc.prev_free => first = s
    <2>1. CASE loc.prev_free
        <3>1. PICK t \in Segments :
                 /\ t < s /\ loc.prev = Cell(loc.at, t) /\ loc.prev_size = s - t
                 /\ FreeStart(B, i, t) /\ \A u \in t .. s - 1 : ~Busy(B, i, u)
            BY <1>2, <2>1 DEF FreeKnown
        <3>2. first = t
            <4>1. t \in Int
                BY <3>1 DEF Segments
            <4>2. FreedFrom = s - (s - t)
                BY <2>1, <3>1 DEF FreedFrom
            <4>3. QED
                BY <1>3, <4>1, <4>2
        <3>3. t = 0 \/ Busy(B, i, t - 1)
            BY <3>1 DEF FreeStart
        <3>4. t \in Int /\ t <= s
            BY <1>3, <3>1 DEF Segments
        <3> HIDE DEF first
        <3>5. QED
            BY <1>1, <2>1, <3>1, <3>2, <3>3, <3>4
    <2>2. CASE ~loc.prev_free
        <3>1. first = s
            BY <2>2 DEF FreedFrom
        <3>2. s = 0 \/ Busy(B, i, s - 1)
            BY <1>2, <2>2 DEF FreeKnown
        <3> HIDE DEF first
        <3>3. QED
            BY <1>2, <1>3, <2>2, <3>1, <3>2
    <2>3. QED
        BY <2>1, <2>2
<1>5. /\ to \in Int /\ s < to /\ to <= NumSegments /\ to - s = Length(h)
      /\ to < NumSegments <=> ~h.last
      /\ h.last = (to = NumSegments)
      /\ to < NumSegments => to = s + b.len
      /\ to = NumSegments => s + b.len >= NumSegments
    <2>1. h.last \in BOOLEAN
        BY <1>1 DEF HeaderRecords
    <2>2. CASE h.last
        <3>1. to = NumSegments /\ Length(h) = NumSegments - s
            BY <2>2 DEF FreedTo, Length
        <3>2. s + b.len >= NumSegments
            BY <1>1, <1>3, <2>2
        <3> DEFINE last == h.last
        <3>4. last = TRUE
            BY <2>1, <2>2
        <3>5. to = NumSegments /\ to \in Int /\ s < to /\ ~(to < NumSegments)
            BY <1>3, <3>1
        <3>6. to - s = Length(h)
            BY <3>1
        <3> HIDE DEF to, h, last
        <3>7. last = (to = NumSegments)
            BY <3>4, <3>5
        <3>8. to < NumSegments => to = s + b.len
            BY <3>5
        <3>9. h.last = (to = NumSegments) /\ (to < NumSegments <=> ~h.last)
            BY <2>2, <3>5, <3>7 DEF last
        <3>3. QED
            BY ONLY <3>2, <3>5, <3>6, <3>8, <3>9
    <2>3. CASE ~h.last
        <3>1. to = s + h.size /\ Length(h) = h.size
            BY <2>3 DEF FreedTo, Length
        <3> HIDE DEF to, h
        <3>2. QED
            BY <1>1, <1>3, <2>1, <2>3, <3>1
    <2>4. QED
        BY <2>2, <2>3
<1> HIDE DEF s, h, to, first, B, page
<1>6. b.cell \in Int /\ Cell(i, 0) \in Int /\ b.cell = Cell(i, 0) + s
    <2>1. s \in Int
        BY <1>3
    <2>2. QED
        BY <1>1, <1>2, <2>1, CellSum
<1>7. \A t \in Segments : t \in s .. to - 1 <=> b.cell <= Cell(i, t) /\ Cell(i, t) < b.cell + b.len
    <2> TAKE t \in Segments
    <2>1. t \in Int /\ 0 <= t /\ t < NumSegments
        BY <1>3 DEF Segments
    <2>2. Cell(i, t) = Cell(i, 0) + t
        BY <1>2, <2>1, CellSum
    <2>3. b.cell <= Cell(i, t) <=> s <= t
        BY <1>3, <1>6, <2>1, <2>2
    <2>4. Cell(i, t) < b.cell + b.len <=> t < s + b.len
        BY <1>1, <1>3, <1>6, <2>1, <2>2
    <2>5. t < s + b.len <=> t < to
        BY <1>1, <1>3, <1>5, <2>1
    <2>6. QED
        BY <1>3, <1>5, <2>1, <2>3, <2>4, <2>5
<1>8. to < NumSegments => b.cell + b.len = Cell(i, to)
    <2>1. Cell(i, to) = Cell(i, 0) + to
        BY <1>2, <1>5, CellSum
    <2>2. QED
        BY <1>1, <1>3, <1>5, <1>6, <2>1
<1>9. HasOf(B, b, i, s, to, first)
    BY ONLY <1>2, <1>4, <1>5, <1>7, <1>8 DEF HasOf
<1>10. FreeSegments.headers = JoinedIn(MergedIn(Shortened.headers, i, s, to), i, s, first)
    <2> DEFINE m == Shortened
               cell == Cell(i, s)
               cleared == [m.headers EXCEPT ![cell] = Header(to - s, FALSE, to = NumSegments)]
               merged == IF to < NumSegments THEN MergeNext(cleared, cell, to - s) ELSE cleared
    <2>1. m = IF h.last /\ mem.pages[loc.at].ovf THEN free_cont_pages(mem) ELSE mem
        BY <1>1 DEF Shortened, Spanning, h, page
    <2>2. (~h.last /\ s + Length(h) < NumSegments) <=> to < NumSegments
        <3>1. s + Length(h) = to
            <4>1. s + (to - s) = to
                BY <1>3, <1>5
            <4>2. QED
                BY <1>5, <4>1
        <3>2. QED
            BY <1>5, <3>1
    <2>3. cleared = [m.headers EXCEPT ![cell] = Header(Length(h), FALSE, h.last)]
        BY <1>5
    <2>4. ScannedCell = cell /\ Scanned = h /\ loc.si = s
        BY <1>2 DEF h, s
    <2> DEFINE joined == IF loc.prev_free
                  THEN [merged EXCEPT ![loc.prev] =
                          Header(loc.prev_size + merged[cell].size, FALSE, merged[cell].last)]
                  ELSE merged
    <2> HIDE DEF m, cell
    <2>5. merged = IF ~h.last /\ s + Length(h) < NumSegments
                   THEN MergeNext(cleared, cell, Length(h)) ELSE cleared
        <3> HIDE DEF cleared
        <3>1. to - s = Length(h)
            BY <1>5
        <3>2. QED
            BY <2>2, <3>1
    <2> HIDE DEF cleared, merged
    <2>6. FreeSegments = [m EXCEPT !.headers = joined]
        BY <2>1, <2>3, <2>4, <2>5 DEF FreeSegments
    <2>7. "headers" \in DOMAIN m
        BY DEF m, Shortened, free_cont_pages, TypeInv, Memory
    <2>8. FreeSegments.headers = joined
        <3> HIDE DEF joined
        <3>1. QED
            BY <2>6, <2>7
    <2>9. joined = JoinedIn(merged, i, s, first)
        <3>1. CASE loc.prev_free
            <4>1. first < s /\ loc.prev = Cell(i, first) /\ loc.prev_size = s - first
                BY <1>4, <3>1
            <4>2. QED
                BY <3>1, <4>1 DEF JoinedIn, cell, joined
        <3>2. CASE ~loc.prev_free
            <4>1. first = s /\ ~(s < s)
                BY <1>3, <1>4, <3>2
            <4>2. QED
                BY <3>2, <4>1 DEF JoinedIn, cell, joined
        <3>3. QED
            BY <3>1, <3>2
    <2>10. merged = MergedIn(m.headers, i, s, to)
        BY DEF MergedIn, merged, cleared, cell
    <2>11. QED
        BY <2>8, <2>9, <2>10 DEF m
<1>11. QED
    BY <1>9, <1>10 DEF B, s, to, first

\* Headers that agree on a page.
LEMMA SameHeaders ==
    ASSUME NEW headers, NEW others, NEW a \in Pages,
           \A c \in Cells : c \div NumSegments = a => others[c] = headers[c]
    PROVE  PageHeaders(others, a) = PageHeaders(headers, a)
<1>1. \A t \in Segments : others[Cell(a, t)] = headers[Cell(a, t)]
    BY CellPage DEF Segments
<1>2. QED
    BY <1>1 DEF PageHeaders

\* The data of the block's first page: it is single again.
LEMMA FreedData ==
    ASSUME TypeInv, PagesInv, BlocksKnown, pc = "scan", loc.si < NumSegments, IsBlock,
           NEW b \in Own, b.cell = loc.cell
    PROVE  LET old == mem.pages
               new == Shortened.pages
               i == loc.pi
               C == Own \ {b}
           IN  /\ Shortened.ht = mem.ht /\ FreeSegments.ht = mem.ht /\ FreeSegments.pages = new
               /\ \A a \in Pages : a = i \/ new[a] = old[a]
               /\ \A a \in Pages : /\ new[a].pid = old[a].pid /\ new[a].index = old[a].index
                                   /\ new[a].occ <=> old[a].occ
               /\ new[i].ovf <=> Spans(C, i)
               /\ new[i].length = IF Spans(C, i) THEN 2 ELSE 1
<1> DEFINE i == loc.pi
           C == Own \ {b}
<1>11. i = loc.pi /\ C = Own \ {b}
    OBVIOUS
<1> HIDE DEF i, C
<1> DEFINE page == mem.pages[i]
           data == Pagedata(page.pid, TRUE, FALSE, page.index, 1)
           new == Shortened.pages
<1>1. /\ loc.at = i /\ i \in Pages /\ page \in PageRecords /\ page.occ
      /\ Separate(Own) /\ Describes(Sheet(mem, loc.id, i), page, Own, i)
      /\ mem.pages \in [Pages -> PageRecords] /\ DOMAIN mem = {"pages", "headers", "ht"}
    BY <1>11, FoundBlock, ScanHeader DEF TypeInv, Memory
<1>2. /\ data.pid = page.pid /\ data.occ /\ ~data.ovf /\ data.index = page.index
      /\ data.length = 1
    <2>1. /\ TRUE \in BOOLEAN /\ FALSE \in BOOLEAN /\ 1 \in 1 .. NumPages
          /\ page.pid \in Owners /\ page.index \in Pages
        BY <1>1, Parameters DEF PageRecords
    <2>2. data = [pid |-> page.pid, occ |-> TRUE, ovf |-> FALSE, index |-> page.index,
                  length |-> 1]
        BY <2>1, PagedataType, Zenon
    <2> HIDE DEF data
    <2>3. QED
        BY <2>2
<1> HIDE DEF data
<1>3. new = IF Spanning THEN [mem.pages EXCEPT ![i] = data] ELSE mem.pages
    BY <1>1, <1>11 DEF Shortened, free_cont_pages, data
<1>4. Shortened.ht = mem.ht /\ FreeSegments.ht = mem.ht /\ FreeSegments.pages = new
    <2>1. DOMAIN Shortened = {"pages", "headers", "ht"} /\ Shortened.ht = mem.ht
        BY <1>1 DEF Shortened, free_cont_pages
    <2>2. \E headers : FreeSegments = [Shortened EXCEPT !.headers = headers]
        BY <1>1, <1>11 DEF FreeSegments, Shortened, Spanning
    <2>3. QED
        BY <2>1, <2>2
<1>5. /\ b.cell = Cell(i, loc.si) /\ b.len \in 1 .. NumSegments /\ Scanned.size \in 1 .. NumSegments
      /\ ~Scanned.last => Scanned.size = b.len /\ loc.si + Scanned.size < NumSegments
      /\ Scanned.last /\ page.ovf => loc.si + b.len = NumSegments + Scanned.size
      /\ Scanned.last /\ ~page.ovf => loc.si + b.len = NumSegments
    BY <1>11, FoundHeader
<1> DEFINE n == Scanned.size
           end == Cell(i + 1, 0)
<1>6. /\ loc.si \in Nat /\ loc.si < NumSegments /\ NumSegments \in Nat /\ n \in Int
      /\ Cell(i, 0) \in Int /\ b.cell = Cell(i, 0) + loc.si /\ end = Cell(i, 0) + NumSegments
    <2>1. i \in Int /\ NumSegments \in Nat /\ loc.si \in Segments
        BY <1>1, PageNumbers, Parameters, ScanAt
    <2>2. loc.si \in Int
        BY <2>1 DEF Segments
    <2>3. Cell(i, 0) \in Int /\ Cell(i, loc.si) = Cell(i, 0) + loc.si /\ end = Cell(i, 0) + NumSegments
        BY <2>1, <2>2, CellSum
    <2>4. QED
        BY <1>5, <2>1, <2>3 DEF Segments
<1>7. b.cell < end /\ end < b.cell + b.len <=> Spanning
    <2> HIDE DEF n, end
    <2>1. CASE ~Scanned.last
        <3>1. loc.si + b.len < NumSegments
            BY <1>5, <2>1
        <3>2. ~(end < b.cell + b.len)
            BY <1>5, <1>6, <3>1
        <3>3. QED
            BY <1>11, <2>1, <3>2 DEF Spanning
    <2>2. CASE Scanned.last /\ page.ovf
        <3>1. loc.si + b.len = NumSegments + n
            BY <1>5, <2>2 DEF n
        <3>2. n > 0
            BY <1>5, <1>6 DEF n
        <3>3. b.cell < end /\ end < b.cell + b.len
            BY <1>5, <1>6, <3>1, <3>2
        <3>4. Spanning
            BY <1>11, <1>1, <2>2 DEF Spanning
        <3>5. QED
            BY <3>3, <3>4
    <2>3. CASE Scanned.last /\ ~page.ovf
        <3>1. loc.si + b.len = NumSegments
            BY <1>5, <2>3
        <3>2. ~(end < b.cell + b.len)
            BY <1>5, <1>6, <3>1
        <3>3. ~Spanning
            BY <1>11, <1>1, <2>3 DEF Spanning
        <3>4. QED
            BY <3>2, <3>3
    <2>4. QED
        BY <2>1, <2>2, <2>3
<1> HIDE DEF n, end
<1>8. CASE Spanning
    <2>1. ~Spans(C, i)
        <3> SUFFICES ASSUME NEW c \in C, c.cell < end, end < c.cell + c.len
                     PROVE  FALSE
            BY DEF Spans, end
        <3>1. c \in Own /\ c # b
            BY <1>11
        <3>2. c.cell \in Int /\ c.len \in Int /\ b.len \in Int /\ end \in Int /\ b.cell \in Int
            BY <1>1, <1>5, <1>6, <3>1 DEF Separate
        <3>3. c.cell + c.len <= b.cell \/ b.cell + b.len <= c.cell
            BY <1>1, <3>1 DEF Separate
        <3>4. QED
            BY <1>7, <1>8, <3>2, <3>3
    <2>2. new = [mem.pages EXCEPT ![i] = data]
        BY <1>3, <1>8
    <2> HIDE DEF new
    <2>3. new[i] = data /\ \A a \in Pages : a = i \/ new[a] = mem.pages[a]
        BY <1>1, <2>2
    <2>4. \A a \in Pages : /\ new[a].pid = mem.pages[a].pid /\ new[a].index = mem.pages[a].index
                           /\ new[a].occ <=> mem.pages[a].occ
        BY <1>1, <1>2, <2>3
    <2>5. QED
        BY <1>2, <1>4, <2>1, <2>3, <2>4 DEF new, i, C
<1>9. CASE ~Spanning
    <2>1. Spans(Own, i) <=> Spans(C, i)
        BY <1>7, <1>9, <1>11 DEF Spans, end
    <2>2. new = mem.pages
        BY <1>3, <1>9
    <2> HIDE DEF new
    <2>3. (page.ovf <=> Spans(Own, i)) /\ page.length = IF Spans(Own, i) THEN 2 ELSE 1
        BY <1>1 DEF Describes
    <2>4. QED
        BY <1>4, <2>1, <2>2, <2>3 DEF new, i, C
<1>10. QED
    BY <1>8, <1>9 DEF i, C

\* What free_ptr does to the memory.
LEMMA FoundMemory ==
    ASSUME TypeInv, PagesInv, BlocksKnown, pc = "scan", loc.si < NumSegments, IsBlock,
           NEW b \in Own, b.cell = loc.cell
    PROVE  LET n == FreeSegments
               i == loc.pi
               j == i + 1
               q == mem.ht[loc.id][j]
               C == Own \ {b}
           IN  /\ Describes(PageHeaders(n.headers, i), n.pages[i], C, i)
               /\ Spanning => /\ q \in Pages /\ j \in Pages /\ InView(view, loc.id, j)
                              /\ Describes(PageHeaders(n.headers, q), n.pages[q], C, j)
               /\ \A c \in Cells : \/ c \div NumSegments = i
                                   \/ Spanning /\ c \div NumSegments = q
                                   \/ n.headers[c] = mem.headers[c]
<1> DEFINE n == FreeSegments
           i == loc.pi
           j == i + 1
           q == mem.ht[loc.id][j]
           C == Own \ {b}
<1>13. n = FreeSegments /\ i = loc.pi /\ j = loc.pi + 1 /\ q = mem.ht[loc.id][j] /\ C = Own \ {b}
    OBVIOUS
<1> HIDE DEF n, i, j, q, C
<1> DEFINE m == Shortened
           s == loc.si
           old == m.headers
           joined == JoinedIn(MergedIn(old, i, s, FreedTo), i, s, FreedFrom)
           B == Own
           page == mem.pages[i]
           data == m.pages[i]
<1>1. /\ i \in Pages /\ i \in Int /\ mem.ht[loc.id][i] = i
      /\ Separate(B) /\ Describes(Sheet(mem, loc.id, i), page, B, i)
      /\ mem.headers \in [Cells -> HeaderRecords]
    <2>1. /\ loc.at = loc.pi /\ loc.pi \in Pages /\ loc.at = mem.ht[loc.id][loc.pi]
          /\ Separate(Own) /\ Describes(Sheet(mem, loc.id, loc.pi), mem.pages[loc.at], Own, loc.pi)
        BY FoundBlock, ScanHeader
    <2>2. mem.headers \in [Cells -> HeaderRecords]
        BY DEF TypeInv, Memory
    <2>6. i = loc.pi
        BY <1>13
    <2>3. i \in Pages /\ i \in Int /\ mem.ht[loc.id][i] = i /\ loc.at = i
        <3>1. i \in Pages /\ mem.ht[loc.id][i] = i /\ loc.at = i
            BY ONLY <2>1, <2>6, Zenon
        <3>2. i \in Int
            BY <3>1, PageNumbers
        <3>3. QED
            BY ONLY <3>1, <3>2
    <2>4. Describes(Sheet(mem, loc.id, i), page, B, i)
        BY <1>13, <2>1, <2>3
    <2>5. QED
        BY <2>1, <2>2, <2>3, <2>4
<1>2. HasOf(B, b, i, s, FreedTo, FreedFrom) /\ n.headers = joined
    BY <1>13, FreedHeaders
<1>3. /\ n.pages = m.pages
      /\ \A a \in Pages : a = i \/ m.pages[a] = mem.pages[a]
      /\ data.ovf <=> Spans(C, i)
      /\ data.length = IF Spans(C, i) THEN 2 ELSE 1
    BY <1>13, FreedData
<1>4. /\ Spanning => /\ q \in Pages /\ q # i /\ j \in Pages /\ InView(view, loc.id, j)
                     /\ Describes(PageHeaders(old, q), mem.pages[q], C, j)
      /\ old \in [Cells -> HeaderRecords]
      /\ \A c \in Cells : (Spanning /\ c \div NumSegments = q) \/ old[c] = mem.headers[c]
    <2>1. CASE Spanning
        <3>1. Scanned.last /\ mem.pages[loc.pi].ovf /\ m = free_cont_pages(mem)
            BY <2>1 DEF Spanning, Shortened
        <3>2. /\ q \in Pages /\ q # i /\ j \in Pages /\ InView(view, loc.id, j)
            BY <1>13, <3>1, LastPage
        <3> HIDE DEF m
        <3>3. /\ old \in [Cells -> HeaderRecords]
              /\ \A c \in Cells : c \div NumSegments = q \/ old[c] = mem.headers[c]
              /\ Describes(PageHeaders(old, q), mem.pages[q], C, j)
            BY <1>13, <3>1, LastPageFreed
        <3>4. QED
            BY <2>1, <3>2, <3>3
    <2>2. CASE ~Spanning
        BY <1>1, <2>2 DEF Shortened
    <2>3. QED
        BY <2>1, <2>2
<1>5. Describes(PageHeaders(old, i), page, B, i)
    <2>1. \A c \in Cells : c \div NumSegments = i => old[c] = mem.headers[c]
        BY <1>4
    <2>2. PageHeaders(old, i) = PageHeaders(mem.headers, i)
        BY <1>1, <2>1, SameHeaders
    <2>3. PageHeaders(mem.headers, i) = Sheet(mem, loc.id, i)
        BY <1>1 DEF PageHeaders, Sheet
    <2>4. QED
        BY <1>1, <2>2, <2>3
<1>6. b \in B /\ C = B \ {b}
    BY <1>13
<1> HIDE DEF m, s, old, B, page, data
<1>11. /\ HasOf(B, b, i, s, FreedTo, FreedFrom) /\ Describes(PageHeaders(old, i), page, B, i)
       /\ Separate(B) /\ b \in B /\ C = B \ {b} /\ i \in Int
       /\ old \in [Cells -> HeaderRecords] /\ i \in Pages
       /\ data.ovf <=> Spans(C, i)
       /\ data.length = IF Spans(C, i) THEN 2 ELSE 1
    BY <1>1, <1>2, <1>3, <1>4, <1>5, <1>6
<1>12. FreesPage(B, b, C, i, old, i, page, data, s, FreedTo, FreedFrom)
    BY ONLY <1>11 DEF FreesPage
<1>7. /\ joined \in [Cells -> HeaderRecords]
      /\ \A c \in Cells : c \div NumSegments = i \/ joined[c] = old[c]
      /\ Describes(PageHeaders(joined, i), data, C, i)
    BY ONLY <1>12, PageFreed DEF joined
<1> HIDE DEF joined
<1>8. Describes(PageHeaders(n.headers, i), n.pages[i], C, i)
    BY <1>2, <1>3, <1>7 DEF data
<1>9. Spanning => Describes(PageHeaders(n.headers, q), n.pages[q], C, j)
    <2> SUFFICES ASSUME Spanning PROVE Describes(PageHeaders(n.headers, q), n.pages[q], C, j)
        OBVIOUS
    <2>1. /\ q \in Pages /\ q # i /\ Describes(PageHeaders(old, q), mem.pages[q], C, j)
        BY <1>4
    <2>2. \A c \in Cells : c \div NumSegments = q => joined[c] = old[c]
        BY <1>7, <2>1
    <2>3. PageHeaders(joined, q) = PageHeaders(old, q)
        BY <2>1, <2>2, SameHeaders
    <2>4. n.pages[q] = mem.pages[q]
        BY <1>3, <2>1
    <2>5. QED
        BY <1>2, <2>1, <2>3, <2>4
<1>10. QED
    BY <1>2, <1>4, <1>7, <1>8, <1>9 DEF n, i, j, q, C

\* Blocks that begin at a cell: there is only one.
LEMMA OnlyBlock ==
    ASSUME NEW B, Separate(B), NEW b \in B
    PROVE  {x \in B : x.cell # b.cell} = B \ {b}
<1>1. ASSUME NEW x \in B, x.cell = b.cell
      PROVE  x = b
    <2>1. x.cell \in Int /\ x.len \in Int /\ x.len > 0 /\ b.len \in Int /\ b.len > 0
        BY DirectMappingAssumption DEF Separate
    <2>2. x # b => x.cell + x.len <= b.cell \/ b.cell + b.len <= x.cell
        BY DEF Separate
    <2>3. QED
        BY <1>1, <2>1, <2>2
<1>2. QED
    BY <1>1

\* A block that begins in page i and ends there, or in the next page.
LEMMA BlockElsewhere ==
    ASSUME NEW b, b.cell \in Int, b.len \in Int, NEW i \in Int, Cell(i, 0) <= b.cell,
           NEW j \in Int, i <= j, b.cell + b.len <= Cell(j + 1, 0), NEW k \in Int, k < i \/ k > j
    PROVE  Elsewhere(b, k)
<1>1. /\ NumSegments \in Nat /\ Cell(i, 0) \in Int /\ Cell(k, 0) \in Int
      /\ Cell(j + 1, 0) = Cell(j, 0) + NumSegments /\ Cell(j, 0) \in Int
    <2>1. 0 \in Int /\ NumSegments \in Nat
        BY Parameters
    <2>2. Cell(i, 0) \in Int /\ Cell(k, 0) \in Int
        BY <2>1, CellSum
    <2>3. Cell(j + 1, 0) = Cell(j, 0) + NumSegments /\ Cell(j, 0) \in Int
        BY <2>1, CellSum
    <2>4. QED
        BY <2>1, <2>2, <2>3
<1>2. CASE k < i
    <2>1. Cell(k, 0) + NumSegments <= Cell(i, 0)
        BY <1>2, CellBelow
    <2>2. QED
        BY <1>1, <2>1 DEF Elsewhere
<1>3. CASE k > j
    <2>1. Cell(j, 0) + NumSegments <= Cell(k, 0)
        BY <1>3, CellBelow
    <2>2. QED
        BY <1>1, <2>1 DEF Elsewhere
<1>4. QED
    BY <1>2, <1>3

\* The pages that a block of the thread has segments of are drawn again.
FoundIndexes == IF Spanning THEN {loc.pi, loc.pi + 1} ELSE {loc.pi}
FoundPages == IF Spanning THEN {loc.pi, mem.ht[loc.id][loc.pi + 1]} ELSE {loc.pi}

\* The memory describes the blocks that are left.
LEMMA FoundDrawn ==
    ASSUME TypeInv, PagesInv, BlocksKnown, pc = "scan", loc.si < NumSegments, IsBlock,
           NEW b \in Own, b.cell = loc.cell, NEW n \in Memory, n = FreeSegments,
           NEW next, next = [blocks EXCEPT ![loc.id] = Own \ {b}]
    PROVE  Redraws(mem, n, view, view, blocks, next, loc.id, FoundIndexes, FoundPages)
<1> DEFINE i == loc.pi
           j == loc.pi + 1
           q == mem.ht[loc.id][j]
           C == Own \ {b}
           S == FoundIndexes
           A == FoundPages
           id == loc.id
<1>1. /\ i \in Pages /\ i \in Int /\ id \in Pids /\ mem.ht[id][i] = i /\ InView(view, id, i)
      /\ j \in Int /\ j = i + 1
    <2>1. /\ i \in Pages /\ id \in Pids /\ mem.ht[id][i] = i /\ InView(view, id, i)
        BY FoundBlock, ScanHeader
    <2> HIDE DEF i
    <2>2. i \in Int
        BY <2>1, PageNumbers
    <2>3. QED
        BY <2>1, <2>2 DEF i
<1>2. /\ Layout(mem, view, blocks, freed) /\ mem \in Memory /\ blocks \in [Pids -> SUBSET Blocks]
    BY CalmBlocks DEF BlocksKnown, TypeInv
<1>3. PICK used \in Nat : PageMap(mem, view, freed, used)
    BY SameSeen DEF PagesInv
<1>4. /\ S = IF Spanning THEN {i, j} ELSE {i}
      /\ A = IF Spanning THEN {i, q} ELSE {i}
    BY DEF FoundIndexes, FoundPages
<1>5. /\ n.ht = mem.ht /\ \A a \in Pages : a = i \/ n.pages[a] = mem.pages[a]
    BY FreedData
<1>6. /\ Describes(PageHeaders(n.headers, i), n.pages[i], C, i)
      /\ Spanning => /\ q \in Pages /\ j \in Pages /\ InView(view, id, j)
                     /\ Describes(PageHeaders(n.headers, q), n.pages[q], C, j)
      /\ \A c \in Cells : \/ c \div NumSegments = i
                          \/ Spanning /\ c \div NumSegments = q
                          \/ n.headers[c] = mem.headers[c]
    BY FoundMemory
<1>7. /\ b.cell \in Int /\ b.len \in Int /\ Cell(i, 0) <= b.cell
      /\ Spanning => b.cell + b.len <= Cell(j + 1, 0)
      /\ ~Spanning => b.cell + b.len <= Cell(i + 1, 0)
    <2>1. /\ b.cell = Cell(i, loc.si) /\ b.len \in 1 .. NumSegments
          /\ Scanned.size \in 1 .. NumSegments
          /\ ~Scanned.last => Scanned.size = b.len /\ loc.si + Scanned.size < NumSegments
          /\ Scanned.last /\ mem.pages[i].ovf => loc.si + b.len = NumSegments + Scanned.size
          /\ Scanned.last /\ ~mem.pages[i].ovf => loc.si + b.len = NumSegments
        BY FoundHeader
    <2>2. loc.si \in Segments /\ loc.si \in Int /\ 0 <= loc.si /\ NumSegments \in Nat
        BY ScanAt, Parameters DEF Segments
    <2>3. /\ Cell(i, 0) \in Int /\ b.cell = Cell(i, 0) + loc.si
          /\ Cell(i + 1, 0) = Cell(i, 0) + NumSegments
        BY <1>1, <2>1, <2>2, CellSum
    <2>4. Cell(j + 1, 0) = Cell(j, 0) + NumSegments /\ Cell(j, 0) = Cell(i, 0) + NumSegments
        <3> HIDE DEF j
        <3>1. Cell(j + 1, 0) = Cell(j, 0) + NumSegments
            BY <1>1, CellSum
        <3>2. QED
            BY <1>1, <2>3, <3>1
    <2> DEFINE size == Scanned.size
    <2>5. Spanning => loc.si + b.len = NumSegments + size
        BY <2>1 DEF Spanning
    <2>6. ~Spanning => loc.si + b.len <= NumSegments
        <3>1. CASE ~Scanned.last
            <4>1. loc.si + b.len < NumSegments
                BY <2>1, <3>1
            <4>2. QED
                BY <2>1, <2>2, <4>1
        <3>2. CASE Scanned.last /\ ~mem.pages[i].ovf
            BY <2>1, <2>2, <3>2
        <3>3. QED
            BY <3>1, <3>2 DEF Spanning
    <2>7. size \in 1 .. NumSegments
        BY <2>1
    <2> HIDE DEF size, j, i
    <2>8. b.cell \in Int /\ b.len \in Int /\ Cell(i, 0) <= b.cell
        BY <2>1, <2>2, <2>3
    <2>9. Spanning => b.cell + b.len <= Cell(j + 1, 0)
        BY <2>1, <2>2, <2>3, <2>4, <2>5, <2>7
    <2>10. ~Spanning => b.cell + b.len <= Cell(i + 1, 0)
        BY <2>1, <2>2, <2>3, <2>6
    <2>11. QED
        BY <2>8, <2>9, <2>10
<1>8. blocks[id] = Own /\ next[id] = C /\ \A p \in Pids : p # id => next[p] = blocks[p]
    BY <1>1, <1>2 DEF Own
<1> HIDE DEF i, j, q, C, S, A, id
<1>9. \A p \in Pids : Separate(blocks[p]) /\ Separate(next[p])
    <2>1. \A p \in Pids : Separate(blocks[p]) /\ next[p] \subseteq blocks[p]
        BY <1>2, <1>8 DEF Layout, C
    <2>2. QED
        BY <2>1 DEF Separate
<1>10. SameElsewhere(mem, n, A)
    BY <1>4, <1>5, <1>6 DEF SameElsewhere
<1>11. \A p \in Pids, k \in Pages : InView(view, p, k) /\ ~(p = id /\ k \in S) =>
          InView(view, p, k) /\ mem.ht[p][k] \in Pages \ A /\ n.ht[p][k] = mem.ht[p][k]
    <2> SUFFICES ASSUME NEW p \in Pids, NEW k \in Pages, InView(view, p, k), ~(p = id /\ k \in S)
                 PROVE  mem.ht[p][k] \in Pages \ A
        BY <1>5
    <2>1. /\ mem.ht[p][k] \in Pages
          /\ \A r \in Pids, l \in Pages : InView(view, r, l) /\ mem.ht[r][l] = mem.ht[p][k] =>
                r = p /\ l = k
        BY <1>2, <1>3, SeenPage
    <2>2. mem.ht[p][k] # i
        BY <1>1, <1>4, <2>1
    <2>3. Spanning => mem.ht[p][k] # q
        <3>1. mem.ht[id][j] = q
            BY DEF q, id
        <3> SUFFICES ASSUME Spanning, mem.ht[p][k] = q PROVE FALSE
            OBVIOUS
        <3>2. j \in Pages /\ InView(view, id, j) /\ S = {i, j}
            BY <1>4, <1>6
        <3>3. id = p /\ j = k
            BY <1>1, <2>1, <3>1, <3>2
        <3>4. QED
            BY <3>2, <3>3
    <2>4. QED
        BY <1>4, <2>1, <2>2, <2>3
<1>12. \A k \in Pages : InView(view, id, k) /\ k \notin S => SameAt(blocks[id], next[id], k)
    <2> SUFFICES ASSUME NEW k \in Pages, k \notin S PROVE SameAt(blocks[id], next[id], k)
        OBVIOUS
    <2>1. k \in Int
        BY PageNumbers
    <2>2. Elsewhere(b, k)
        <3>1. CASE Spanning
            <4>1. i <= j /\ (k < i \/ k > j)
                BY <1>1, <1>4, <2>1, <3>1
            <4>2. QED
                BY ONLY <1>1, <1>7, <2>1, <3>1, <4>1, BlockElsewhere
        <3>2. CASE ~Spanning
            <4>1. i <= i /\ (k < i \/ k > i)
                BY <1>1, <1>4, <2>1, <3>2
            <4>2. QED
                BY ONLY <1>1, <1>7, <2>1, <3>2, <4>1, BlockElsewhere
        <3>3. QED
            BY <3>1, <3>2
    <2>3. QED
        BY <1>8, <2>2 DEF SameAt, C
<1>13. \A k \in Pages : InView(view, id, k) /\ k \in S =>
          Describes(Sheet(n, id, k), PageAt(n, id, k), next[id], k)
    <2> SUFFICES ASSUME NEW k \in Pages, k \in S
                 PROVE  Describes(Sheet(n, id, k), PageAt(n, id, k), next[id], k)
        OBVIOUS
    <2>1. CASE k = i
        <3>1. Sheet(n, id, i) = PageHeaders(n.headers, i) /\ PageAt(n, id, i) = n.pages[i]
            BY <1>1, <1>5 DEF Sheet, PageHeaders, PageAt
        <3>2. QED
            BY <1>6, <1>8, <2>1, <3>1
    <2>2. CASE Spanning /\ k = j
        <3>1. Sheet(n, id, j) = PageHeaders(n.headers, q) /\ PageAt(n, id, j) = n.pages[q]
            BY <1>5 DEF Sheet, PageHeaders, PageAt, q, id
        <3>2. QED
            BY <1>6, <1>8, <2>2, <3>1
    <2>3. QED
        BY <1>4, <2>1, <2>2
<1>14. QED
    BY <1>8, <1>9, <1>10, <1>11, <1>12, <1>13 DEF Redraws, S, A, id

\* The memory when the block is freed.
LEMMA FoundLayout ==
    ASSUME TypeInv, PagesInv, BlocksKnown, pc = "scan", loc.si < NumSegments, IsBlock,
           NEW b \in Own, b.cell = loc.cell, NEW n \in Memory, n = FreeSegments,
           NEW next, next = [blocks EXCEPT ![loc.id] = Own \ {b}]
    PROVE  /\ Layout(n, view, next, TRUE) /\ Within(view, next) /\ Snug(view, next, {loc.id})
           /\ Settled(n, view, loc.id, {})
           /\ next[loc.id] = Own \ {b} /\ Separate(next[loc.id])
<1>1. Redraws(mem, n, view, view, blocks, next, loc.id, FoundIndexes, FoundPages)
    BY FoundDrawn
<1>2. /\ Layout(mem, view, blocks, freed) /\ Within(view, blocks) /\ Snug(view, blocks, {})
      /\ Settled(mem, view, loc.id, {}) /\ mem \in Memory /\ blocks \in [Pids -> SUBSET Blocks]
    BY CalmBlocks DEF BlocksKnown, TypeInv, Releasing
<1>3. /\ n.ht = mem.ht
      /\ \A a \in Pages : /\ n.pages[a].pid = mem.pages[a].pid
                          /\ n.pages[a].index = mem.pages[a].index
                          /\ n.pages[a].occ <=> mem.pages[a].occ
    BY FreedData
<1>4. loc.id \in Pids
    BY ScanHeader
<1>5. /\ \A p \in Pids : next[p] \subseteq blocks[p] /\ (p # loc.id => next[p] = blocks[p])
      /\ next[loc.id] = Own \ {b}
    BY <1>2, <1>4 DEF Own
<1>6. \A p \in Pids : Separate(next[p])
    BY <1>1 DEF Redraws
<1>7. Drawn(n, view, next)
    <2>1. Drawn(mem, view, blocks)
        BY <1>2 DEF Layout
    <2>2. QED
        BY ONLY <1>1, <1>2, <1>4, <2>1, n \in Memory, Redrawn
<1>8. Owned(n, view)
    <2>1. Owned(mem, view)
        BY <1>2 DEF Layout
    <2>2. QED
        BY <1>3, <2>1 DEF Owned
<1>9. Within(view, next)
    BY <1>2, <1>5 DEF Within
<1>10. Snug(view, next, {loc.id})
    BY <1>2, <1>5 DEF Snug
<1>11. Settled(n, view, loc.id, {})
    BY <1>2, <1>3 DEF Settled
<1>12. Layout(n, view, next, TRUE)
    BY <1>6, <1>7, <1>8 DEF Layout
<1>13. QED
    BY <1>4, <1>5, <1>6, <1>9, <1>10, <1>11, <1>12

\* free_ptr has freed the block.
LEMMA FoundBlocks ==
    ASSUME TypeInv, TypeInv', PagesInv, BlocksKnown, Found, halt' = "none"
    PROVE  LayoutInv'
<1> DEFINE next == blocks'
           v == view
<1>1. /\ pc = "scan" /\ loc.si < NumSegments /\ IsBlock
      /\ \E b \in Own : b.cell = loc.cell
      /\ Scanned.last /\ mem.pages[loc.pi].ovf => LastPageOfBlock # NoPage
      /\ loc.at = loc.pi
    BY FoundAt
<1>2. PICK b \in Own : b.cell = loc.cell
    BY <1>1
<1>3. /\ mem' = FreeSegments /\ freed' = TRUE /\ pc' = "release" /\ view' = view /\ halt' = "none"
      /\ blocks' = [blocks EXCEPT ![loc.id] = {x \in @ : x.cell # loc.cell}]
      /\ loc' = [id |-> loc.id, first |-> loc.first, last |-> loc.last,
                 pi |-> loc.first, si |-> 0, ovf |-> 0, free_start |-> loc.first]
    BY <1>1 DEF Found
<1>4. /\ loc'.id = loc.id /\ loc'.pi = loc.first /\ loc'.si = 0 /\ loc'.last = loc.last
      /\ loc'.first = loc.first /\ loc'.free_start = loc.first
    BY <1>3
<1>5. /\ loc.id \in Pids /\ Separate(Own)
    BY <1>1, ScanHeader
<1>6. blocks' = [blocks EXCEPT ![loc.id] = Own \ {b}]
    <2>1. {x \in Own : x.cell # loc.cell} = Own \ {b}
        BY <1>2, <1>5, OnlyBlock
    <2>2. QED
        BY <1>3, <2>1 DEF Own
<1>7. mem' \in Memory
    BY DEF TypeInv
<1>8. /\ Layout(mem', v, next, TRUE) /\ Within(v, next) /\ Snug(v, next, {loc.id})
      /\ Settled(mem', v, loc.id, {})
      /\ next[loc.id] = Own \ {b} /\ Separate(next[loc.id])
    BY <1>1, <1>2, <1>3, <1>6, <1>7, FoundLayout
<1>9. v[loc.id].first = loc.first
    BY <1>1 DEF PagesInv, CallInv
<1>10. v \in [Pids -> Views]
    BY DEF TypeInv
<1> HIDE DEF next, v
<1>11. /\ v[loc.id].first \in Int /\ AtStart(next[loc.id], v[loc.id].first, 0)
       /\ \A x \in next[loc.id] : Cell(v[loc.id].first, 0) <= x.cell
    BY ONLY <1>5, <1>8, <1>10, WalkStarts
<1>12. Own' = next[loc.id]
    BY <1>4 DEF Own, next
<1>13. BlocksInv'
    <2>1. Releasing' = {loc.id}
        BY <1>3, <1>4 DEF Releasing
    <2>2. /\ Layout(mem', view', blocks', freed') /\ Within(view', blocks')
          /\ Snug(view', blocks', Releasing') /\ Settled(mem', view', loc'.id, {})
        BY <1>3, <1>4, <1>8, <2>1 DEF next, v
    <2>3. QED
        BY <1>3, <2>2, BlocksAfter
<1>14. WalkInv'
    BY <1>3, <1>4, <1>9, <1>11, <1>12, Parameters DEF WalkInv, v
<1>15. ReleaseKnown'
    <2>1. ~Passed'
        <3> SUFFICES ASSUME NEW x \in next[loc.id], x.cell < Cell(loc'.pi, loc'.si) PROVE FALSE
            BY <1>12 DEF Passed
        <3>1. Cell(v[loc.id].first, 0) \in Int /\ Cell(v[loc.id].first, 0) <= x.cell /\ x.cell \in Int
            <4> DEFINE f == v[loc.id].first
            <4>1. f \in Int /\ 0 \in Int /\ Cell(f, 0) <= x.cell
                BY <1>11
            <4> HIDE DEF f
            <4>2. Cell(f, 0) \in Int
                BY <4>1, CellSum
            <4>3. x.cell \in Int
                BY <1>8 DEF Separate
            <4>4. QED
                BY <4>1, <4>2, <4>3 DEF f
        <3>2. x.cell < Cell(v[loc.id].first, 0)
            BY <1>4, <1>9
        <3>3. QED
            BY <3>1, <3>2
    <2>2. loc.first \in Int
        BY <1>9, <1>11
    <2>3. QED
        BY <1>3, <1>4, <1>9, <2>1, <2>2 DEF ReleaseKnown, v
<1>16. QED
    BY <1>3, <1>13, <1>14, <1>15 DEF LayoutInv, BlocksKnown

-----------------------------------------------------------------------------
(* free_process_pages *)

\* Pages that a thread gives back: it no longer sees them, and they are free.
Drops(m, n, v, w, id, gone) ==
    /\ Removes(m, n, v, w, id, gone)
    /\ n.headers = m.headers
    /\ \A p \in Pids, k \in Pages : InView(v, p, k) => InView(w, p, k) \/ (p = id /\ k \in gone)
    /\ \A k \in Pages : InView(v, id, k) /\ k \in gone => ~n.pages[m.ht[id][k]].occ
    /\ \A a \in Pages : /\ n.pages[a] = m.pages[a] \/ ~n.pages[a].occ
                        /\ n.pages[a].index = m.pages[a].index

\* The pages that are left are as they were.
LEMMA GoneLayout ==
    ASSUME NEW m, NEW n, NEW v, NEW w, NEW bs, NEW id, NEW gone, NEW used,
           Drops(m, n, v, w, id, gone), PageMap(m, v, TRUE, used), Layout(m, v, bs, TRUE),
           m \in Memory, id \in Pids
    PROVE  /\ Layout(n, w, bs, TRUE)
           /\ \A who, but : Settled(m, v, who, but) => Settled(n, w, who, but)
<1>1. /\ \A p \in Pids, k \in Pages :
             InView(w, p, k) => InView(v, p, k) /\ ~(p = id /\ k \in gone)
      /\ \A p \in Pids, k \in Pages : ~(p = id /\ k \in gone) => n.ht[p][k] = m.ht[p][k]
      /\ \A a \in Pages :
            n.pages[a] = m.pages[a] \/ (m.pages[a].pid = id /\ m.pages[a].index \in gone)
    BY DEF Drops, Removes
<1>2. Drawn(n, w, bs)
    <2> SUFFICES ASSUME NEW p \in Pids, NEW k \in Pages, InView(w, p, k)
                 PROVE  Describes(Sheet(n, p, k), PageAt(n, p, k), bs[p], k)
        BY DEF Drawn
    <2>1. InView(v, p, k) /\ ~(p = id /\ k \in gone) /\ n.ht[p][k] = m.ht[p][k]
        BY <1>1
    <2> DEFINE a == m.ht[p][k]
    <2>2. a \in Pages /\ m.pages[a].pid = p /\ m.pages[a].index = k
        <3> DEFINE gave == TRUE
        <3>1. /\ m \in Memory /\ PageMap(m, v, gave, used) /\ p \in Pids /\ k \in Pages
              /\ InView(v, p, k)
            BY <2>1
        <3> HIDE DEF a, gave
        <3>2. m.ht[p][k] \in Pages /\ m.pages[m.ht[p][k]].pid = p /\ m.pages[m.ht[p][k]].index = k
            BY ONLY <3>1, SeenPage
        <3>3. QED
            BY <3>2 DEF a
    <2>3. n.pages[a] = m.pages[a]
        BY <1>1, <2>1, <2>2
    <2>4. Sheet(n, p, k) = Sheet(m, p, k) /\ PageAt(n, p, k) = PageAt(m, p, k)
        BY <2>1, <2>3 DEF Sheet, PageAt, Drops
    <2>5. Describes(Sheet(m, p, k), PageAt(m, p, k), bs[p], k)
        BY <2>1 DEF Layout, Drawn
    <2>6. QED
        BY <2>4, <2>5
<1>3. Owned(n, w)
    <2> SUFFICES ASSUME NEW a \in Pages, n.pages[a].occ
                 PROVE  /\ n.pages[a].pid \in Pids /\ InView(w, n.pages[a].pid, n.pages[a].index)
                        /\ n.ht[n.pages[a].pid][n.pages[a].index] = a
        BY DEF Owned
    <2> DEFINE p == m.pages[a].pid
               k == m.pages[a].index
    <2>1. n.pages[a] = m.pages[a]
        BY DEF Drops
    <2>2. p \in Pids /\ InView(v, p, k) /\ m.ht[p][k] = a
        BY <2>1 DEF Layout, Owned
    <2>3. k \in Pages
        BY DEF Memory, PageRecords
    <2>4. ~(p = id /\ k \in gone)
        BY <2>2, <2>3 DEF Drops
    <2>5. InView(w, p, k)
        BY <2>2, <2>3, <2>4 DEF Drops
    <2>6. n.ht[p][k] = a
        BY <1>1, <2>2, <2>3, <2>4
    <2>7. QED
        BY <2>1, <2>2, <2>5, <2>6
<1>4. \A who, but : Settled(m, v, who, but) => Settled(n, w, who, but)
    BY <1>1 DEF Settled, Drops
<1>5. QED
    BY <1>2, <1>3, <1>4 DEF Layout

\* free_process_pages gives back a page at the front of the thread's memory.
Front == loc.si = 0 /\ ~Here.occ /\ Here.last /\ loc.free_start = loc.first

\* The walk goes on as if the page had not been given back.
LEMMA ReleaseStep ==
    ASSUME TypeInv, PagesInv, BlocksKnown, Release
    PROVE  LET page == mem.pages[Actual]
               h == Here
           IN  /\ loc'.pi = PageAfter(h, loc.pi) /\ loc'.si = SegmentAfter(h, page, loc.si)
               /\ h.last /\ page.ovf => loc'.ovf = h.size
               /\ loc'.id = loc.id /\ loc'.first = loc.first /\ loc'.last = loc.last
               /\ loc'.free_start =
                      CASE h.occ -> NoPage
                        [] loc.si = 0 /\ ~h.occ /\ h.last /\ loc.free_start = NoPage -> loc.pi
                        [] OTHER -> loc.free_start
               /\ IF Front
                  THEN /\ mem' = [ht_delete(mem, loc.id, loc.pi) EXCEPT
                                    !.pages[Actual] = Released(loc.id, loc.pi)]
                       /\ view' = [view EXCEPT ![loc.id].first = loc.pi + 1]
                  ELSE mem' = mem /\ view' = view
<1> DEFINE id == loc.id
           pi == loc.pi
           s == loc.si
           h == Here
           page == mem.pages[Actual]
           left == IF Front THEN Released(id, pi) ELSE page
           next == Advance(left, Overflow(h, page), Length(h))
           free_start == CASE h.occ -> NoPage
                           [] s = 0 /\ ~h.occ /\ h.last /\ loc.free_start = NoPage -> pi
                           [] OTHER -> loc.free_start
<1>1. /\ pc = "release" /\ pi <= loc.last /\ s < NumSegments /\ Actual # NoPage
      /\ loc' = [next EXCEPT !.free_start = free_start]
      /\ IF Front
         THEN /\ mem' = [ht_delete(mem, id, pi) EXCEPT !.pages[Actual] = left]
              /\ view' = [view EXCEPT ![id].first = pi + 1]
         ELSE UNCHANGED << mem, view >>
    <2>1. /\ pc = "release" /\ pi <= loc.last /\ s < NumSegments /\ Actual # NoPage
        BY DEF Release, Walking, At
    <2>2. /\ loc' = [next EXCEPT !.free_start = free_start]
          /\ IF Front
             THEN /\ mem' = [ht_delete(mem, id, pi) EXCEPT !.pages[Actual] = left]
                  /\ view' = [view EXCEPT ![id].first = pi + 1]
             ELSE UNCHANGED << mem, view >>
        BY DEF Release, Front
    <2>3. QED
        BY <2>1, <2>2
<1>2. /\ loc \in ReleaseCalls /\ id \in Pids /\ id \in Owners /\ pi \in Pages /\ s \in Segments
      /\ Separate(Own) /\ AtStart(Own, pi, s)
      /\ Sheet(mem, id, pi) \in [Segments -> HeaderRecords]
      /\ page \in PageRecords
      /\ Describes(Sheet(mem, id, pi), page, Own, pi)
      /\ h = Sheet(mem, id, pi)[s] /\ h \in HeaderRecords
    BY <1>1, WalkHeader, WalkMap DEF TypeInv, CallOK
<1>3. /\ h.last => page.length = IF page.ovf THEN 2 ELSE 1
      /\ ~h.last => s + h.size < NumSegments
      /\ h.last /\ ~h.occ => ~page.ovf
    <2> DEFINE headers == Sheet(mem, id, pi)
    <2>1. pi \in Int
        BY <1>2, PageNumbers
    <2> HIDE DEF headers, h, page, s, pi
    <2>2. /\ headers \in [Segments -> HeaderRecords] /\ Describes(headers, page, Own, pi)
          /\ h = headers[s] /\ Separate(Own) /\ AtStart(Own, pi, s) /\ s \in Segments
        BY <1>2 DEF headers, s, pi, h, page
    <2>3. QED
        BY ONLY <2>1, <2>2, WalkOn
<1>4. Released(id, pi) = [pid |-> id, occ |-> FALSE, ovf |-> FALSE, index |-> pi, length |-> 1]
      /\ Released(id, pi) \in PageRecords
    <2>1. FALSE \in BOOLEAN /\ 1 \in 1 .. NumPages
        BY Parameters
    <2>2. QED
        BY ONLY <1>2, <2>1, PagedataType DEF Released
<1>5. /\ left \in PageRecords /\ (h.last => left.length = IF left.ovf THEN 2 ELSE 1)
      /\ h.last => (left.ovf <=> page.ovf)
    <2>1. CASE Front
        <3>1. ~page.ovf /\ left = Released(id, pi)
            BY <1>3, <2>1 DEF Front
        <3>2. left.ovf = FALSE /\ left.length = 1
            BY <1>4, <3>1
        <3>3. QED
            BY <1>4, <3>1, <3>2
    <2>2. CASE ~Front
        BY <1>2, <1>3, <2>2
    <2>3. QED
        BY <2>1, <2>2
<1>6. /\ loc.si < NumSegments /\ s = loc.si
      /\ loc \in MallocCalls \/ loc \in FreeCalls \/ loc \in ReleaseCalls
    BY <1>1, <1>2
<1> HIDE DEF left, h, page, free_start
<1>7. Overflow(h, page) = Overflow(h, left)
    <2>1. CASE h.last
        BY <1>5, <2>1 DEF Overflow
    <2>2. CASE ~h.last
        BY <2>2 DEF Overflow
    <2>3. QED
        BY <2>1, <2>2
<1>8. /\ next.pi = PageAfter(h, pi) /\ next.si = SegmentAfter(h, left, s)
      /\ h.last /\ left.ovf => next.ovf = h.size
    BY <1>2, <1>3, <1>5, <1>6, <1>7, AdvanceTo
<1>9. /\ next \in ReleaseCalls /\ next.id = id /\ next.first = loc.first /\ next.last = loc.last
    <2>1. loc.ovf \in Nat /\ s \in Nat
        BY <1>2 DEF ReleaseCalls
    <2>2. Overflow(h, page) \in Nat
        BY <1>2, <2>1, OverflowType
    <2>3. Length(h) \in 1 .. NumSegments
        BY <1>1, <1>2, <2>1, LengthType
    <2>4. QED
        BY <1>2, <1>5, <2>2, <2>3, AdvanceRelease
<1>10. SegmentAfter(h, left, s) = SegmentAfter(h, page, s)
    <2>1. CASE h.last
        BY <1>5, <2>1 DEF SegmentAfter
    <2>2. CASE ~h.last
        BY <2>2 DEF SegmentAfter
    <2>3. QED
        BY <2>1, <2>2
<1> HIDE DEF next
<1>11. /\ loc'.pi = next.pi /\ loc'.si = next.si /\ loc'.ovf = next.ovf /\ loc'.id = next.id
       /\ loc'.first = next.first /\ loc'.last = next.last /\ loc'.free_start = free_start
    BY <1>1, <1>9 DEF ReleaseCalls
<1>12. IF Front
       THEN /\ mem' = [ht_delete(mem, loc.id, loc.pi) EXCEPT
                         !.pages[Actual] = Released(loc.id, loc.pi)]
            /\ view' = [view EXCEPT ![loc.id].first = loc.pi + 1]
       ELSE mem' = mem /\ view' = view
    BY <1>1 DEF left
<1>13. h.last /\ page.ovf => loc'.ovf = h.size
    BY <1>5, <1>8, <1>11
<1>14. QED
    BY <1>8, <1>9, <1>10, <1>11, <1>12, <1>13 DEF h, page, free_start

\* Where a step of free_process_pages is, and what lies behind it.
LEMMA ReleaseAt ==
    ASSUME TypeInv, PagesInv, BlocksKnown, Release
    PROVE  /\ pc = "release" /\ pc' = "release" /\ halt' = halt /\ freed' = freed
           /\ blocks' = blocks /\ freed /\ Own' = Own /\ Separate(Own)
           /\ loc.id \in Pids /\ loc.pi \in Pages /\ loc.pi \in Int /\ loc.si \in Int
           /\ loc'.pi \in Int /\ loc'.si \in Int /\ loc.pi <= loc'.pi
           /\ loc.first \in Int /\ 0 <= loc.first
           /\ view[loc.id].first \in Int /\ view[loc.id].first <= loc.pi
           /\ AtStart(Own, loc.pi, loc.si)
           /\ Here.occ <=> Starts(Own, loc.pi, loc.si)
           /\ Cell(loc.pi, loc.si) \in Int /\ Cell(loc'.pi, loc'.si) \in Int
           /\ Cell(loc.pi, loc.si) < Cell(loc'.pi, loc'.si)
           /\ \A b \in Own : b.cell <= Cell(loc.pi, loc.si) \/ Cell(loc'.pi, loc'.si) <= b.cell
           /\ ~Here.occ => \A b \in Own : \/ b.cell + b.len <= Cell(loc.pi, loc.si)
                                          \/ Cell(loc'.pi, loc'.si) <= b.cell
           /\ loc'.pi = IF Here.last THEN loc.pi + 1 ELSE loc.pi
           /\ Here.last /\ ~Here.occ => loc'.si = 0
<1> DEFINE i == loc.pi
           s == loc.si
           B == Own
           headers == Sheet(mem, loc.id, loc.pi)
           page == mem.pages[Actual]
           h == Here
           j == loc'.pi
           t == loc'.si
<1>1. /\ pc = "release" /\ loc.pi <= loc.last /\ Actual # NoPage /\ loc.si < NumSegments
      /\ pc' = pc /\ halt' = halt /\ freed' = freed /\ blocks' = blocks
    BY DEF Release, Walking, At
<1>2. freed /\ ReleaseInv
    BY <1>1 DEF PagesInv, CallInv
<1>3. /\ loc.id \in Pids /\ i \in Pages /\ s \in Segments /\ Separate(B) /\ AtStart(B, i, s)
      /\ headers \in [Segments -> HeaderRecords] /\ Describes(headers, page, B, i)
      /\ h = headers[s]
    BY <1>1, WalkHeader
<1>4. i \in Int /\ s \in Int
    <2>1. i \in Int
        <3>1. i \in Pages
            BY <1>3
        <3> HIDE DEF i
        <3>2. QED
            BY ONLY <3>1, PageNumbers
    <2>2. s \in Int
        BY <1>3, DirectMappingAssumption DEF Segments
    <2>3. QED
        BY <2>1, <2>2
<1>5. loc.first \in Int
    BY <1>1 DEF TypeInv, CallOK, ReleaseCalls
<1>6. view[loc.id].first \in Int
    <2>1. view[loc.id] \in Views
        BY <1>3 DEF TypeInv
    <2>2. QED
        BY <2>1, Parameters DEF Views, NoPage
<1>7. view[loc.id].first <= i
    BY <1>1 DEF BlocksKnown, WalkInv
<1>8. j = PageAfter(h, i) /\ t = SegmentAfter(h, page, s) /\ loc'.id = loc.id
    BY ReleaseStep
<1>9. Own' = B
    BY <1>1, <1>8 DEF Own
<1>10. NumSegments \in Nat
    BY DirectMappingAssumption
<1> HIDE DEF i, s, B, headers, page, h, j, t
<1>11. /\ h.occ <=> Starts(B, i, s)
       /\ t \in Nat
       /\ Cell(i, s) < Cell(j, t)
       /\ h.last /\ ~h.occ => ~page.ovf
       /\ \A b \in B : b.cell <= Cell(i, s) \/ Cell(j, t) <= b.cell
       /\ ~h.occ => \A b \in B : b.cell + b.len <= Cell(i, s) \/ Cell(j, t) <= b.cell
    BY ONLY <1>3, <1>4, <1>8, WalkOn
<1>12. j = (IF h.last THEN i + 1 ELSE i) /\ j \in Int /\ i <= j
    BY ONLY <1>4, <1>8 DEF PageAfter
<1>13. h.last /\ ~h.occ => t = 0
    BY ONLY <1>8, <1>11 DEF SegmentAfter
<1>14. Cell(i, s) \in Int /\ Cell(j, t) \in Int
    <2>1. t \in Int
        BY ONLY <1>11
    <2>2. QED
        BY ONLY <1>4, <1>12, <2>1, CellSum
<1>15. /\ pc = "release" /\ pc' = "release" /\ halt' = halt /\ freed' = freed
       /\ blocks' = blocks /\ freed /\ Own' = B /\ Separate(B) /\ loc.first \in Int
       /\ loc.id \in Pids /\ view[loc.id].first \in Int /\ view[loc.id].first <= i
       /\ 0 <= loc.first
    BY <1>1, <1>2, <1>3, <1>5, <1>6, <1>7, <1>9 DEF ReleaseInv
<1>16. t \in Int
    BY ONLY <1>11
<1>17. QED
    BY ONLY <1>3, <1>4, <1>11, <1>12, <1>13, <1>14, <1>15, <1>16 DEF i, s, B, h, j, t

\* free_process_pages remembers whether a block begins behind it, and the last
\* run of free segments.
LEMMA ReleaseKeeps ==
    ASSUME TypeInv, PagesInv, BlocksKnown, Release
    PROVE  ReleaseKnown'
<1> DEFINE c == Cell(loc.pi, loc.si)
           d == Cell(loc'.pi, loc'.si)
           h == Here
           first == view[loc.id].first
<1>1. /\ pc = "release" /\ Own' = Own /\ Separate(Own) /\ loc.id \in Pids
      /\ loc.pi \in Int /\ loc.si \in Int /\ loc'.pi \in Int /\ loc.pi <= loc'.pi
      /\ loc.first \in Int /\ 0 <= loc.first /\ first \in Int /\ first <= loc.pi
      /\ c \in Int /\ d \in Int /\ c < d
      /\ AtStart(Own, loc.pi, loc.si) /\ (h.occ <=> Starts(Own, loc.pi, loc.si))
      /\ ~h.occ => \A b \in Own : b.cell + b.len <= c \/ d <= b.cell
      /\ loc'.pi = IF h.last THEN loc.pi + 1 ELSE loc.pi
    BY ReleaseAt
<1>2. /\ loc'.id = loc.id /\ loc'.first = loc.first
      /\ loc'.free_start =
            CASE h.occ -> NoPage
              [] loc.si = 0 /\ ~h.occ /\ h.last /\ loc.free_start = NoPage -> loc.pi
              [] OTHER -> loc.free_start
      /\ IF Front THEN view' = [view EXCEPT ![loc.id].first = loc.pi + 1] ELSE view' = view
    BY ReleaseStep
<1>3. /\ loc.first <= first
      /\ loc.free_start # loc.first <=> Passed
      /\ loc.free_start = loc.first => first = loc.pi
      /\ loc.free_start \notin {NoPage, loc.first} =>
            \A b \in Own : b.cell + b.len <= Cell(loc.free_start, 0) \/ c <= b.cell
    BY <1>1 DEF BlocksKnown, ReleaseKnown
<1>4. loc.first # NoPage
    BY <1>1 DEF NoPage
<1>5. \A b \in Own : b.cell \in Int /\ b.len \in Int /\ 1 <= b.len
    BY <1>1, DirectMappingAssumption DEF Separate
<1>6. view'[loc.id].first = IF Front THEN loc.pi + 1 ELSE first
    <2>1. view \in [Pids -> Views]
        BY DEF TypeInv
    <2>2. view[loc.id] \in Views
        BY <1>1, <2>1
    <2>3. QED
        BY <1>1, <1>2, <2>1, <2>2 DEF Views
<1>7. Passed <=> \E b \in Own : b.cell < c
    BY DEF Passed
<1>8. Passed' <=> \E b \in Own : b.cell < d
    BY <1>1 DEF Passed
<1>9. h.occ => Passed'
    <2>1. h.occ => \E b \in Own : b.cell = c
        BY <1>1 DEF Starts
    <2>2. QED
        BY <1>1, <1>5, <1>8, <2>1
<1>10. ASSUME ~h.occ PROVE Passed <=> Passed'
    <2>1. \A b \in Own : b.cell + b.len <= c \/ d <= b.cell
        BY <1>1, <1>10
    <2>2. Passed => Passed'
        BY <1>1, <1>5, <1>7, <1>8
    <2>3. Passed' => Passed
        <3> SUFFICES ASSUME NEW b \in Own, b.cell < d PROVE b.cell < c
            BY <1>7, <1>8
        <3>1. b.cell + b.len <= c
            BY <1>1, <1>5, <2>1
        <3>2. QED
            BY <1>1, <1>5, <3>1
    <2>4. QED
        BY <2>2, <2>3
<1>11. ASSUME ~h.occ, loc.si = 0, h.last, loc.free_start = NoPage
       PROVE  loc.pi # loc.first
    <2>1. PICK b \in Own : b.cell < c
        BY <1>3, <1>4, <1>7, <1>11
    <2>2. Cell(first, 0) <= b.cell
        <3>1. Within(view, blocks)
            BY <1>1, CalmBlocks DEF BlocksKnown
        <3>2. QED
            BY <1>1, <2>1, <3>1 DEF Within, Own
    <2>3. CASE first = loc.pi
        <3>1. Cell(first, 0) = c
            BY <1>11, <2>3
        <3>2. QED
            BY <1>1, <1>5, <2>1, <2>2, <3>1
    <2>4. CASE first # loc.pi
        BY <1>1, <1>3, <2>4
    <2>5. QED
        BY <2>3, <2>4
<1> DEFINE start == loc.free_start
           end == loc'.free_start
<1>12. /\ h.occ => end = NoPage
       /\ ~h.occ => end = start \/ (/\ end = loc.pi /\ loc.pi # loc.first /\ loc.si = 0
                                    /\ start = NoPage)
    BY <1>2, <1>11
<1>13. loc'.first <= view'[loc'.id].first
    BY <1>1, <1>2, <1>3, <1>6
<1> DEFINE goes == Passed
           went == Passed'
<1>14. /\ h.occ => went
       /\ ~h.occ => (goes <=> went)
       /\ start # loc.first <=> goes
    BY <1>3, <1>9, <1>10
<1> HIDE DEF start, end, goes, went, h, c, d
<1>15. end # loc.first <=> went
    BY ONLY <1>4, <1>12, <1>14
<1>16. ASSUME end = loc.first PROVE view'[loc.id].first = loc'.pi
    <2>1. ~h.occ /\ ~went /\ ~goes /\ start = loc.first
        BY ONLY <1>4, <1>12, <1>14, <1>15, <1>16
    <2>2. first = loc.pi
        BY <1>3, <2>1 DEF start
    <2>3. ~\E b \in Own : b.cell < c
        BY <1>7, <2>1 DEF goes
    <2>4. loc.si = 0
        <3> SUFFICES ASSUME loc.si # 0 PROVE FALSE
            OBVIOUS
        <3>1. Busy(Own, loc.pi, loc.si - 1)
            BY <1>1, <2>1 DEF AtStart, FreeStart
        <3> DEFINE r == loc.si - 1
                   i == loc.pi
                   B == Own
        <3>2. r \in Int /\ i \in Int /\ Separate(B) /\ Busy(B, i, r)
            BY <1>1, <3>1
        <3> HIDE DEF r, i, B
        <3>3. PICK b \in B : b.cell <= Cell(i, r)
            BY ONLY <3>2, BusyIn
        <3>4. Cell(i, r) = Cell(i, 0) + r /\ Cell(i, r) \in Int /\ Cell(i, 0) \in Int
            BY ONLY <3>2, CellSum
        <3>5. c = Cell(i, 0) + loc.si
            <4> DEFINE f == loc.si
            <4>1. f \in Int
                BY <1>1
            <4> HIDE DEF f
            <4>2. Cell(i, f) = Cell(i, 0) + f
                BY ONLY <3>2, <4>1, CellSum
            <4>3. QED
                BY <4>2 DEF c, i, f
        <3>6. b.cell < c
            <4>1. b.cell \in Int
                BY <1>5 DEF B
            <4>2. QED
                BY <1>1, <3>3, <3>4, <3>5, <4>1 DEF r
        <3>7. QED
            BY <2>3, <3>6 DEF B
    <2>5. CASE h.last
        <3>1. Front
            BY <2>1, <2>4, <2>5 DEF Front, h, start
        <3>2. QED
            BY <1>1, <1>6, <2>5, <3>1
    <2>6. CASE ~h.last
        <3>1. ~Front
            BY <2>6 DEF Front, h
        <3>2. QED
            BY <1>1, <1>6, <2>2, <2>6, <3>1
    <2>7. QED
        BY <2>5, <2>6
<1>17. ASSUME end \notin {NoPage, loc.first}, NEW b \in Own
       PROVE  b.cell + b.len <= Cell(end, 0) \/ d <= b.cell
    <2>1. ~h.occ /\ (b.cell + b.len <= c \/ d <= b.cell)
        BY <1>1, <1>12, <1>17 DEF c, d, h
    <2>2. CASE end = start
        <3>1. b.cell + b.len <= Cell(start, 0) \/ c <= b.cell
            BY <1>3, <1>17, <2>2 DEF start, c
        <3>2. QED
            BY <1>1, <1>5, <2>1, <2>2, <3>1
    <2>3. CASE end = loc.pi /\ loc.si = 0
        BY <2>1, <2>3 DEF c
    <2>4. QED
        BY <1>12, <2>1, <2>2, <2>3
<1>18. /\ end = loc'.first => view'[loc'.id].first = loc'.pi
       /\ end # loc'.first <=> went
       /\ end \notin {NoPage, loc'.first} =>
             \A b \in Own : b.cell + b.len <= Cell(end, 0) \/ d <= b.cell
    BY <1>2, <1>15, <1>16, <1>17
<1>19. QED
    BY <1>1, <1>13, <1>18 DEF ReleaseKnown, end, went, d

\* The page at the front is all free, and behind the thread's blocks.
LEMMA FrontGone ==
    ASSUME TypeInv, PagesInv, BlocksKnown, Release, Front
    PROVE  /\ Drops(mem, mem', view, view', loc.id, {loc.pi})
           /\ Within(view', blocks) /\ Snug(view', blocks, {loc.id})
           /\ view'[loc.id].first = loc.pi + 1
<1> DEFINE id == loc.id
           pi == loc.pi
           v == view
           w == view'
<1>1. /\ pc = "release" /\ loc.pi <= loc.last /\ Actual # NoPage
      /\ mem \in Memory /\ mem' \in Memory /\ v \in [Pids -> Views]
    BY ReleaseTypes DEF TypeInv, Release, Walking, At
<1>2. /\ id \in Pids /\ id \in Owners /\ pi \in Pages /\ Actual \in Pages
      /\ Actual = mem.ht[id][pi]
      /\ v[id].first <= pi /\ InView(v, id, pi)
      /\ mem.pages[Actual].pid = id /\ mem.pages[Actual].index = pi
    BY <1>1, WalkMap
<1>3. Released(id, pi) = [pid |-> id, occ |-> FALSE, ovf |-> FALSE, index |-> pi, length |-> 1]
    <2>1. FALSE \in BOOLEAN /\ 1 \in 1 .. NumPages
        BY Parameters
    <2>2. QED
        BY <1>2, <2>1, PagedataType, Zenon DEF Released
<1>4. /\ mem' = [ht_delete(mem, id, pi) EXCEPT !.pages[Actual] = Released(id, pi)]
      /\ w = [v EXCEPT ![id].first = pi + 1]
    BY ReleaseStep
<1>5. /\ mem'.pages = [mem.pages EXCEPT ![Actual] = Released(id, pi)]
      /\ mem'.ht = [mem.ht EXCEPT ![id][pi] = NoPage]
      /\ mem'.headers = mem.headers
    BY <1>1, <1>4 DEF ht_delete, ht_put, Memory
<1>6. /\ mem.pages \in [Pages -> PageRecords] /\ v[id] \in Views
      /\ mem.ht \in [Owners -> [Pages -> Pages \cup {NoPage}]]
    BY <1>1, <1>2 DEF Memory
<1>7. /\ w[id].first = pi + 1 /\ w[id].last = v[id].last
      /\ \A p \in Pids : p # id => w[p] = v[p]
    BY <1>1, <1>2, <1>4, <1>6, Zenon DEF Views
<1>8. pi \in Int /\ pi + 1 \in Int /\ v[id].first = pi
    <2>1. pi \in Int
        BY ReleaseAt
    <2>2. v[id].first = pi
        BY <1>1 DEF BlocksKnown, ReleaseKnown, Front
    <2>3. QED
        BY <2>1, <2>2
<1>9. \A p \in Pids, k \in Pages :
         /\ InView(w, p, k) => InView(v, p, k) /\ ~(p = id /\ k \in {pi})
         /\ InView(v, p, k) => InView(w, p, k) \/ (p = id /\ k \in {pi})
    <2> SUFFICES ASSUME NEW p \in Pids, NEW k \in Pages
                 PROVE  /\ InView(w, p, k) => InView(v, p, k) /\ ~(p = id /\ k \in {pi})
                        /\ InView(v, p, k) => InView(w, p, k) \/ (p = id /\ k \in {pi})
        OBVIOUS
    <2>1. CASE p = id
        <3>1. k \in Int
            BY PageNumbers
        <3>2. /\ InView(w, id, k) <=> pi + 1 <= k /\ k <= v[id].last
              /\ InView(v, id, k) <=> v[id].first <= k /\ k <= v[id].last
            BY <1>7 DEF InView
        <3>3. InView(w, id, k) => InView(v, id, k) /\ k # pi
            BY <1>8, <3>1, <3>2
        <3>4. InView(v, id, k) => InView(w, id, k) \/ k = pi
            BY <1>8, <3>1, <3>2
        <3>5. QED
            BY <2>1, <3>3, <3>4
    <2>2. CASE p # id
        BY <1>7, <2>2 DEF InView
    <2>3. QED
        BY <2>1, <2>2
<1>10. \A p \in Pids, k \in Pages : ~(p = id /\ k \in {pi}) => mem'.ht[p][k] = mem.ht[p][k]
    <2> TAKE p \in Pids, k \in Pages
    <2>1. p \in Owners
        BY OwnerIds
    <2> HIDE DEF id, pi
    <2>2. CASE p = id
        BY ONLY <1>2, <1>5, <1>6, <2>1, <2>2
    <2>3. CASE p # id
        BY ONLY <1>2, <1>5, <1>6, <2>1, <2>3
    <2>4. QED
        BY <2>2, <2>3
<1>11. /\ \A a \in Pages : a # Actual => mem'.pages[a] = mem.pages[a]
       /\ mem'.pages[Actual] = Released(id, pi)
    BY <1>2, <1>5, <1>6, Zenon
<1>12. /\ mem'.pages[Actual].pid = id /\ mem'.pages[Actual].index = pi
       /\ ~mem'.pages[Actual].occ
    BY <1>3, <1>11
<1>13. Drops(mem, mem', v, w, id, {pi})
    <2>1. Removes(mem, mem', v, w, id, {pi})
        <3>1. \A a \in Pages :
                 \/ mem'.pages[a] = mem.pages[a]
                 \/ /\ mem.pages[a].pid = id /\ mem.pages[a].index \in {pi}
                    /\ mem'.pages[a].pid = id /\ mem'.pages[a].index \in {pi} \cap Pages
            BY <1>2, <1>11, <1>12
        <3>2. QED
            BY <1>9, <1>10, <3>1 DEF Removes
    <2>2. \A k \in Pages : InView(v, id, k) /\ k \in {pi} => ~mem'.pages[mem.ht[id][k]].occ
        BY <1>2, <1>12
    <2>3. \A a \in Pages : /\ (mem'.pages[a] = mem.pages[a] \/ ~mem'.pages[a].occ)
                            /\ mem'.pages[a].index = mem.pages[a].index
        <3>1. \A a \in Pages : a # Actual => mem'.pages[a] = mem.pages[a]
            BY <1>11
        <3>2. QED
            BY <1>2, <1>12, <3>1, Zenon
    <2>4. \A p \in Pids, k \in Pages : InView(v, p, k) => InView(w, p, k) \/ (p = id /\ k \in {pi})
        BY <1>9
    <2>5. QED
        BY <1>5, <2>1, <2>2, <2>3, <2>4 DEF Drops
<1>14. Layout(mem, v, blocks, freed) /\ Within(v, blocks) /\ Snug(v, blocks, Releasing)
    BY <1>1, CalmBlocks DEF BlocksKnown
<1>15. \A b \in Own : Cell(pi + 1, 0) <= b.cell
    <2> SUFFICES ASSUME NEW b \in Own PROVE Cell(pi + 1, 0) <= b.cell
        OBVIOUS
    <2>1. /\ Here.last /\ ~Here.occ /\ loc.si = 0 /\ loc.free_start = loc.first
        BY DEF Front
    <2>2. /\ loc'.pi = pi + 1 /\ loc'.si = 0 /\ Separate(Own)
          /\ Cell(pi, loc.si) \in Int
          /\ b.cell + b.len <= Cell(pi, loc.si) \/ Cell(loc'.pi, loc'.si) <= b.cell
        BY <2>1, ReleaseAt
    <2>3. b.cell \in Int /\ b.len \in Int /\ 1 <= b.len
        BY <2>2, DirectMappingAssumption DEF Separate
    <2>4. ~Passed
        BY <1>1, <2>1 DEF BlocksKnown, ReleaseKnown
    <2>5. ~(b.cell < Cell(pi, loc.si))
        BY <2>4 DEF Passed
    <2>6. QED
        BY <2>2, <2>3, <2>5
<1>16. Within(w, blocks)
    <2> SUFFICES ASSUME NEW p \in Pids, NEW b \in blocks[p]
                 PROVE  /\ Cell(w[p].first, 0) <= b.cell
                        /\ b.cell + b.len <= Cell(w[p].last + 1, 0)
        BY DEF Within
    <2>1. /\ Cell(v[p].first, 0) <= b.cell /\ b.cell + b.len <= Cell(v[p].last + 1, 0)
        BY <1>14 DEF Within
    <2>2. CASE p = id
        BY <1>7, <1>15, <2>1, <2>2 DEF Own
    <2>3. CASE p # id
        BY <1>7, <2>1, <2>3
    <2>4. QED
        BY <2>2, <2>3
<1>17. Snug(w, blocks, {id})
    BY <1>1, <1>7, <1>14 DEF Snug, Releasing
<1>18. QED
    BY <1>7, <1>13, <1>16, <1>17

\* free_process_pages, in a segment of the thread's memory.
LEMMA ReleaseBlocks ==
    ASSUME TypeInv, TypeInv', PagesInv, BlocksKnown, Release
    PROVE  LayoutInv'
<1> DEFINE id == loc.id
           gone == {loc.pi}
           next == blocks
           v == view
           w == view'
<1>1. /\ pc = "release" /\ pc' = "release" /\ freed' = freed /\ blocks' = blocks
      /\ freed /\ Own' = Own /\ Separate(Own) /\ loc'.id = id /\ id \in Pids
      /\ loc.pi \in Int /\ view[loc.id].first <= loc.pi /\ loc.pi <= loc'.pi
      /\ view[loc.id].first \in Int /\ loc'.pi \in Int
      /\ loc'.pi = IF Here.last THEN loc.pi + 1 ELSE loc.pi
    BY ReleaseAt, ReleaseStep
<1>2. /\ Layout(mem, view, blocks, freed) /\ Within(view, blocks)
      /\ Snug(view, blocks, Releasing) /\ Settled(mem, view, id, {})
      /\ Releasing = {id} /\ Releasing' = {id}
    BY <1>1, CalmBlocks DEF BlocksKnown, Releasing
<1>3. /\ Layout(mem', view', blocks, freed) /\ Within(view', blocks)
      /\ Snug(view', blocks, {id}) /\ Settled(mem', view', id, {})
      /\ view'[id].first <= loc'.pi
    <2>1. CASE Front
        <3>1. /\ Drops(mem, mem', v, w, id, gone) /\ Within(w, next) /\ Snug(w, next, {id})
              /\ w[id].first = loc.pi + 1 /\ Here.last
            BY <2>1, FrontGone DEF Front
        <3>2. PICK used \in Nat : PageMap(mem, v, freed, used)
            BY <1>1, SameSeen DEF PagesInv
        <3> DEFINE gave == TRUE
        <3>3. PageMap(mem, v, gave, used) /\ Layout(mem, v, next, gave) /\ mem \in Memory
              /\ id \in Pids /\ Settled(mem, v, id, {})
            BY <1>1, <1>2, <3>2 DEF TypeInv, PageMap, Layout
        <3>4. Layout(mem', w, next, gave) /\ Settled(mem', w, id, {})
            <4>1. Layout(mem, v, next, TRUE) /\ PageMap(mem, v, TRUE, used)
                BY <3>3
            <4> HIDE DEF id, gone, next, v, w, gave
            <4>2. Layout(mem', w, next, TRUE)
                  /\ \A who, but : Settled(mem, v, who, but) => Settled(mem', w, who, but)
                BY ONLY <3>1, <3>3, <4>1, GoneLayout
            <4>3. QED
                BY <3>3, <4>2 DEF gave
        <3>5. QED
            BY <1>1, <3>1, <3>4 DEF Layout
    <2>2. CASE ~Front
        <3>1. mem' = mem /\ view' = view
            BY <2>2, ReleaseStep
        <3>2. view'[id].first <= loc'.pi
            BY <1>1, <3>1
        <3>3. QED
            BY <1>2, <3>1, <3>2
    <2>3. QED
        BY <2>1, <2>2
<1>4. BlocksInv'
    BY <1>1, <1>2, <1>3, BlocksAfter
<1>5. WalkInv'
    <2> DEFINE B == Own
               i == loc.pi
               s == loc.si
               headers == Sheet(mem, loc.id, loc.pi)
               page == mem.pages[Actual]
               h == Here
    <2>1. /\ loc.pi <= loc.last /\ Actual # NoPage /\ loc.si < NumSegments
        BY DEF Release, Walking
    <2>2. /\ s \in Segments /\ Separate(B) /\ AtStart(B, i, s)
          /\ headers \in [Segments -> HeaderRecords] /\ Describes(headers, page, B, i)
          /\ h = headers[s] /\ i \in Int
        BY <1>1, <2>1, WalkHeader
    <2>3. /\ loc'.pi = PageAfter(h, i) /\ loc'.si = SegmentAfter(h, page, s)
          /\ h.last /\ page.ovf => loc'.ovf = h.size
        BY ReleaseStep
    <2>4. Own' = B /\ view'[loc'.id].first <= loc'.pi /\ (pc' = "turn" => h.last)
        BY <1>1, <1>3
    <2> HIDE DEF B, i, s, headers, page, h
    <2>5. QED
        BY ONLY <2>2, <2>3, <2>4, WalkPast
<1>6. ReleaseKnown'
    BY ReleaseKeeps
<1>7. QED
    BY <1>1, <1>4, <1>5, <1>6 DEF LayoutInv, BlocksKnown

\* The pages that free_process_pages gives back at the end, and the thread's last
\* page after that.
Trailing == IF loc.free_start \notin {NoPage, loc.first} THEN FreeTail ELSE {}
TrailingLast == IF Trailing # {} THEN loc.free_start - 1 ELSE view[loc.id].last

\* What the walk has found when it ends.
LEMMA ReleaseEndsAt ==
    ASSUME TypeInv, PagesInv, BlocksKnown, ReleaseEnds, halt' = "none"
    PROVE  LET id == loc.id
           IN  /\ pc = "release" /\ freed /\ loc.pi > loc.last /\ loc.last = view[id].last
               /\ id \in Pids /\ mem \in Memory /\ view \in [Pids -> Views]
               /\ Trailing \subseteq Pages
               /\ Trailing # {} => /\ Trailing = loc.free_start .. loc.last
                               /\ view[id].first <= loc.free_start
                               /\ loc.free_start \notin {NoPage, loc.first}
               /\ \A k \in Trailing : /\ InView(view, id, k) /\ mem.ht[id][k] \in Pages
                                  /\ mem.pages[mem.ht[id][k]].pid = id
                                  /\ mem.pages[mem.ht[id][k]].index = k
               /\ mem'.headers = mem.headers
               /\ mem'.ht = [mem.ht EXCEPT ![id] =
                                [k \in Pages |-> IF k \in Trailing THEN NoPage ELSE mem.ht[id][k]]]
               /\ mem'.pages = [a \in Pages |->
                                  IF \E k \in Trailing : mem.ht[id][k] = a
                                  THEN Released(id, mem.pages[a].index)
                                  ELSE mem.pages[a]]
               /\ view' = [view EXCEPT ![id] =
                             IF view[id].first > TrailingLast THEN NoView
                             ELSE [view[id] EXCEPT !.last = TrailingLast]]
               /\ pc' = "idle" /\ loc' = NoCall
               /\ blocks' = blocks /\ freed' = freed
<1> DEFINE id == loc.id
           page(index) == ht_get(mem, id, index)
           pages == [a \in Pages |->
                        IF \E index \in Trailing : page(index) = a
                        THEN Released(id, Max({index \in Trailing : page(index) = a}))
                        ELSE mem.pages[a]]
           entries == [index \in Pages |->
                        IF index \in Trailing THEN NoPage ELSE mem.ht[id][index]]
<1>1. /\ loc \in ReleaseCalls /\ mem \in Memory /\ pc = "release" /\ view \in [Pids -> Views]
      /\ loc.pi > loc.last
    BY DEF TypeInv, CallOK, ReleaseEnds, At
<1>2. /\ id \in Pids /\ id \in Owners /\ loc.free_start \in Int
      /\ loc.last \in NoPage .. NumPages - 1
    BY <1>1, OwnerIds DEF ReleaseCalls
<1>3. ~\E index \in Trailing : page(index) = NoPage
    BY DEF ReleaseEnds, End, Trailing
<1>4. /\ mem' = [mem EXCEPT !.pages = [a \in Pages |->
                    IF \E index \in Trailing : page(index) = a
                    THEN Released(id, Max({index \in Trailing : page(index) = a}))
                    ELSE @[a]],
                  !.ht[id] = [index \in Pages |-> IF index \in Trailing THEN NoPage ELSE @[index]]]
      /\ view' = [view EXCEPT ![id] = IF @.first > TrailingLast THEN NoView ELSE [@ EXCEPT !.last = TrailingLast]]
      /\ pc' = "idle" /\ loc' = NoCall /\ UNCHANGED << blocks, freed, halt >>
    BY <1>3 DEF ReleaseEnds, Trailing, TrailingLast
<1>5. mem' = [mem EXCEPT !.pages = pages, !.ht[id] = entries]
    BY <1>4, Zenon
<1>6. mem'.pages = pages /\ mem'.ht = [mem.ht EXCEPT ![id] = entries] /\ mem'.headers = mem.headers
    <2> HIDE DEF pages, entries
    <2>1. QED
        BY <1>1, <1>5 DEF Memory
<1>7. PICK used \in Nat : PageMap(mem, view, freed, used)
    BY <1>1, SameSeen DEF PagesInv
<1>8. /\ view[id].first >= 0 /\ freed /\ ReleaseInv
    BY <1>1, <1>2 DEF PagesInv, CallInv
<1>9. Trailing \subseteq Pages
    BY <1>3 DEF ht_get
<1>10. /\ view[id].first \in Int /\ view[id].last \in Int /\ loc.last = view[id].last
       /\ loc.last \in Int
    BY <1>1, <1>2, <1>8, Parameters DEF Views, NoPage, ReleaseInv
<1>11. ASSUME Trailing # {}
       PROVE  Trailing = loc.free_start .. loc.last /\ view[id].first <= loc.free_start
              /\ loc.free_start \notin {NoPage, loc.first}
    BY <1>8, <1>11 DEF FreeTail, ReleaseInv, Trailing
<1>12. \A index \in Trailing : /\ page(index) = mem.ht[id][index] /\ InView(view, id, index)
                           /\ mem.ht[id][index] \in Pages
                           /\ mem.pages[mem.ht[id][index]].pid = id
                           /\ mem.pages[mem.ht[id][index]].index = index
    <2> TAKE index \in Trailing
    <2>1. index \in loc.free_start .. loc.last /\ view[id].first <= loc.free_start
        BY <1>11
    <2>2. view[id].first <= index /\ index <= view[id].last
        BY <1>2, <1>10, <2>1
    <2>3. index \in Pages /\ InView(view, id, index) /\ mem \in Memory /\ id \in Pids
          /\ PageMap(mem, view, freed, used)
        BY <1>1, <1>2, <1>7, <1>9, <2>2 DEF InView
    <2> DEFINE who == loc.id
    <2>4. page(index) = mem.ht[id][index]
        BY <2>3 DEF ht_get
    <2> HIDE DEF id
    <2>5. /\ mem.ht[id][index] \in Pages /\ mem.pages[mem.ht[id][index]].pid = id
          /\ mem.pages[mem.ht[id][index]].index = index
        BY ONLY <2>3, SeenPage
    <2>6. QED
        BY <2>3, <2>4, <2>5
<1>13. mem'.pages = [a \in Pages |-> IF \E k \in Trailing : mem.ht[id][k] = a
                                     THEN Released(id, mem.pages[a].index)
                                     ELSE mem.pages[a]]
    <2>1. ASSUME NEW a \in Pages, \E k \in Trailing : page(k) = a
          PROVE  Max({k \in Trailing : page(k) = a}) = mem.pages[a].index
        <3> DEFINE at == {k \in Trailing : page(k) = a}
        <3>1. at \subseteq Pages /\ at # {}
            BY <1>9, <2>1
        <3>2. \A k \in at : mem.pages[a].index = k
            BY <1>12
        <3> HIDE DEF at
        <3>3. Max(at) \in at
            BY <3>1, GreatestOf
        <3>4. QED
            BY <3>2, <3>3 DEF at
    <2>2. \A a \in Pages : (\E k \in Trailing : page(k) = a) <=> (\E k \in Trailing : mem.ht[id][k] = a)
        BY <1>12
    <2>3. pages = [a \in Pages |-> IF \E k \in Trailing : mem.ht[id][k] = a
                                   THEN Released(id, mem.pages[a].index)
                                   ELSE mem.pages[a]]
        BY <2>1, <2>2
    <2>4. QED
        BY <1>6, <2>3
<1>14. QED
    BY <1>1, <1>2, <1>4, <1>6, <1>8, <1>9, <1>10, <1>11, <1>12, <1>13, Zenon

\* They are free, and behind the thread's blocks.
LEMMA TailGone ==
    ASSUME TypeInv, PagesInv, BlocksKnown, ReleaseEnds, halt' = "none"
    PROVE  /\ Drops(mem, mem', view, view', loc.id, Trailing)
           /\ Within(view', blocks) /\ Snug(view', blocks, {})
<1> DEFINE id == loc.id
           v == view
           w == view'
           last == TrailingLast
           fs == loc.free_start
           f == v[id].first
           e == v[id].last
<1>1. /\ pc = "release" /\ freed /\ loc.pi > e /\ loc.last = e
      /\ id \in Pids /\ mem \in Memory /\ v \in [Pids -> Views] /\ Trailing \subseteq Pages
      /\ Trailing # {} => Trailing = fs .. e /\ f <= fs /\ fs \notin {NoPage, loc.first}
      /\ \A k \in Trailing : /\ InView(v, id, k) /\ mem.ht[id][k] \in Pages
                         /\ mem.pages[mem.ht[id][k]].pid = id
                         /\ mem.pages[mem.ht[id][k]].index = k
      /\ mem'.headers = mem.headers
      /\ w = [v EXCEPT ![id] = IF f > last THEN NoView ELSE [v[id] EXCEPT !.last = last]]
    BY ReleaseEndsAt
<1>2. /\ \A a \in Pages : mem'.pages[a] = IF \E k \in Trailing : mem.ht[id][k] = a
                                          THEN Released(id, mem.pages[a].index)
                                          ELSE mem.pages[a]
      /\ mem'.ht = [mem.ht EXCEPT ![id] =
                       [k \in Pages |-> IF k \in Trailing THEN NoPage ELSE mem.ht[id][k]]]
    BY ReleaseEndsAt
<1>3. /\ \A p \in Pids : p # id => w[p] = v[p]
      /\ w[id] = IF f > last THEN NoView ELSE [v[id] EXCEPT !.last = last]
    BY <1>1
<1>4. v[id] \in Views /\ f \in Int /\ e \in Int /\ NoPage = -1
    <2>1. v[id] \in Views
        BY <1>1
    <2>2. QED
        BY <2>1, Parameters DEF Views, NoPage
<1>5. fs \in Int /\ loc.pi \in Int /\ loc.si \in Nat
    <2>1. loc \in ReleaseCalls
        BY <1>1 DEF TypeInv, CallOK
    <2>2. QED
        BY <2>1 DEF ReleaseCalls
<1>6. last = (IF Trailing # {} THEN fs - 1 ELSE e) /\ last \in Int
    BY <1>4, <1>5 DEF TrailingLast
<1>7. w[id].first = (IF f > last THEN NumPages ELSE f) /\ w[id].last = IF f > last THEN -1 ELSE last
    BY <1>3, <1>4 DEF NoView, Views
<1>8. NumPages \in Nat \ {0}
    BY Parameters
<1>9. \A a \in Pages : /\ Released(id, mem.pages[a].index).pid = id
                       /\ Released(id, mem.pages[a].index).index = mem.pages[a].index
                       /\ ~Released(id, mem.pages[a].index).occ
    <2> TAKE a \in Pages
    <2>0. mem.pages[a].index \in Pages
        BY <1>1 DEF Memory, PageRecords
    <2>1. FALSE \in BOOLEAN /\ 1 \in 1 .. NumPages
        BY <1>8
    <2> DEFINE k == mem.pages[a].index
    <2>2. id \in Owners /\ k \in Pages
        BY <1>1, <2>0, OwnerIds
    <2> HIDE DEF k
    <2>3. Released(id, k) = [pid |-> id, occ |-> FALSE, ovf |-> FALSE, index |-> k, length |-> 1]
        BY <2>1, <2>2, PagedataType, Zenon DEF Released
    <2>4. QED
        BY <2>3 DEF k
<1> HIDE DEF last, f, e, fs
<1>10. \A k \in Pages : /\ InView(w, id, k) => InView(v, id, k) /\ k \notin Trailing
                        /\ InView(v, id, k) => InView(w, id, k) \/ k \in Trailing
    <2> TAKE k \in Pages
    <2>1. k \in Int /\ 0 <= k /\ k < NumPages
        BY <1>8 DEF Pages
    <2>2. /\ InView(v, id, k) <=> f <= k /\ k <= e
          /\ InView(w, id, k) <=> f <= last /\ f <= k /\ k <= last
        <3>1. /\ InView(v, id, k) <=> f <= k /\ k <= e
              /\ InView(w, id, k) <=> w[id].first <= k /\ k <= w[id].last
            BY DEF InView, f, e
        <3>2. QED
            BY <1>4, <1>6, <1>7, <1>8, <2>1, <3>1
    <2>3. Trailing # {} => (k \in Trailing <=> fs <= k /\ k <= e)
        BY <1>1, <1>4, <1>5, <2>1
    <2> DEFINE X == Trailing
    <2>4. CASE Trailing = {}
        BY <1>4, <1>6, <2>1, <2>2, <2>4
    <2>5. CASE Trailing # {}
        <3>1. last = fs - 1 /\ f <= fs /\ Trailing = fs .. e /\ fs <= e
            <4>1. last = fs - 1 /\ f <= fs /\ Trailing = fs .. e
                BY <1>1, <1>6, <2>5
            <4>2. fs <= e
                BY <1>4, <1>5, <2>5, <4>1
            <4>3. QED
                BY <4>1, <4>2
        <3>2. (k \in Trailing <=> fs <= k /\ k <= e)
            BY <2>3, <2>5
        <3>3. QED
            BY <1>4, <1>5, <2>1, <2>2, <3>1, <3>2
    <2>6. QED
        BY <2>4, <2>5
<1>11. Drops(mem, mem', v, w, id, Trailing)
    <2>1. \A p \in Pids, k \in Pages :
             InView(w, p, k) => InView(v, p, k) /\ ~(p = id /\ k \in Trailing)
        <3> SUFFICES ASSUME NEW p \in Pids, NEW k \in Pages, InView(w, p, k)
                     PROVE  InView(v, p, k) /\ ~(p = id /\ k \in Trailing)
            OBVIOUS
        <3>1. CASE p = id
            BY <1>10, <3>1
        <3>2. CASE p # id
            BY <1>3, <3>2 DEF InView
        <3>3. QED
            BY <3>1, <3>2
    <2>2. \A p \in Pids, k \in Pages :
             InView(v, p, k) => InView(w, p, k) \/ (p = id /\ k \in Trailing)
        <3> SUFFICES ASSUME NEW p \in Pids, NEW k \in Pages, InView(v, p, k)
                     PROVE  InView(w, p, k) \/ (p = id /\ k \in Trailing)
            OBVIOUS
        <3>1. CASE p = id
            BY <1>10, <3>1
        <3>2. CASE p # id
            BY <1>3, <3>2 DEF InView
        <3>3. QED
            BY <3>1, <3>2
    <2>3. \A p \in Pids, k \in Pages : ~(p = id /\ k \in Trailing) => mem'.ht[p][k] = mem.ht[p][k]
        BY <1>1, <1>2, OwnerIds DEF Memory
    <2>4. \A a \in Pages :
             \/ mem'.pages[a] = mem.pages[a]
             \/ /\ mem.pages[a].pid = id /\ mem.pages[a].index \in Trailing
                /\ mem'.pages[a].pid = id /\ mem'.pages[a].index \in Trailing \cap Pages
        <3> TAKE a \in Pages
        <3>1. CASE \E k \in Trailing : mem.ht[id][k] = a
            <4>1. mem.pages[a].pid = id /\ mem.pages[a].index \in Trailing
                BY <1>1, <3>1
            <4>2. mem'.pages[a].pid = id /\ mem'.pages[a].index = mem.pages[a].index
                BY <1>2, <1>9, <3>1
            <4>3. QED
                BY <1>1, <4>1, <4>2
        <3>2. CASE ~\E k \in Trailing : mem.ht[id][k] = a
            BY <1>2, <3>2
        <3>3. QED
            BY <3>1, <3>2
    <2>5. \A k \in Pages : InView(v, id, k) /\ k \in Trailing => ~mem'.pages[mem.ht[id][k]].occ
        BY <1>1, <1>2, <1>9
    <2>6. \A a \in Pages : /\ (mem'.pages[a] = mem.pages[a] \/ ~mem'.pages[a].occ)
                           /\ mem'.pages[a].index = mem.pages[a].index
        BY <1>2, <1>9
    <2>7. QED
        BY <1>1, <2>1, <2>2, <2>3, <2>4, <2>5, <2>6 DEF Drops, Removes
<1>12. /\ Within(v, blocks) /\ Snug(v, blocks, {id}) /\ Separate(Own)
    <2>1. Layout(mem, v, blocks, freed) /\ Within(v, blocks) /\ Snug(v, blocks, Releasing)
        BY <1>1, CalmBlocks DEF BlocksKnown
    <2>2. Releasing = {id}
        BY <1>1 DEF Releasing
    <2>3. QED
        BY <1>1, <2>1, <2>2 DEF Layout, Own
<1>13. ReleaseKnown
    BY <1>1 DEF BlocksKnown
<1>14. \A b \in Own : /\ b.cell \in Int /\ b.len \in Int /\ 1 <= b.len
                      /\ Cell(f, 0) <= b.cell /\ b.cell + b.len <= Cell(e + 1, 0)
    <2> TAKE b \in Own
    <2>1. b.cell \in Int /\ b.len \in Int /\ 1 <= b.len
        BY <1>12, DirectMappingAssumption DEF Separate
    <2>2. Cell(f, 0) <= b.cell /\ b.cell + b.len <= Cell(e + 1, 0)
        BY <1>1, <1>12 DEF Within, Own, f, e
    <2>3. QED
        BY <2>1, <2>2
<1>15. ASSUME f > e PROVE Own = {}
    <2> SUFFICES ASSUME NEW b \in Own PROVE FALSE
        OBVIOUS
    <2>1. Cell(e + 1, 0) <= Cell(f, 0) /\ Cell(e + 1, 0) \in Int /\ Cell(f, 0) \in Int
        BY <1>4, <1>15, CellUpTo
    <2>2. QED
        BY <1>14, <2>1
<1>16. \A b \in Own : b.cell + b.len <= Cell(loc.pi, loc.si) /\ Cell(loc.pi, loc.si) \in Int
    <2> TAKE b \in Own
    <2>1. loc.pi \in Int /\ loc.si \in Int /\ e + 1 \in Int /\ e + 1 <= loc.pi
        BY <1>1, <1>4, <1>5 DEF e
    <2> DEFINE i == loc.pi
               s == loc.si
               g == e + 1
    <2> HIDE DEF i, s, g
    <2>2. i \in Int /\ s \in Int /\ g \in Int /\ g <= i
        BY <2>1 DEF i, s, g
    <2>3. Cell(g, 0) <= Cell(i, 0) /\ Cell(g, 0) \in Int
        BY ONLY <2>2, CellUpTo
    <2>4. Cell(i, s) = Cell(i, 0) + s /\ Cell(i, s) \in Int /\ Cell(i, 0) \in Int
        BY ONLY <2>2, CellSum
    <2>5. b.cell \in Int /\ b.len \in Int /\ b.cell + b.len <= Cell(g, 0) /\ 0 <= s
        BY <1>5, <1>14 DEF g, s
    <2>6. b.cell + b.len <= Cell(i, s) /\ Cell(i, s) \in Int
        BY ONLY <2>2, <2>3, <2>4, <2>5
    <2>7. QED
        BY <2>6 DEF i, s
<1>17. ASSUME Trailing # {}, NEW b \in Own PROVE b.cell + b.len <= Cell(fs, 0)
    <2>1. fs \notin {NoPage, loc.first}
        BY <1>1, <1>17
    <2>2. b.cell + b.len <= Cell(fs, 0) \/ Cell(loc.pi, loc.si) <= b.cell
        BY <1>13, <2>1 DEF ReleaseKnown, fs
    <2>3. QED
        BY <1>14, <1>16, <2>2
<1>18. Own # {} => f <= last
    <2> SUFFICES ASSUME NEW b \in Own, f > last PROVE FALSE
        BY <1>4, <1>6
    <2>1. CASE Trailing = {}
        <3>1. f > e
            BY <1>6, <2>1
        <3>2. QED
            BY <1>15, <3>1
    <2>2. CASE Trailing # {}
        <3>1. f <= fs /\ last = fs - 1
            BY <1>1, <1>6, <2>2
        <3>2. f = fs
            BY <1>4, <1>5, <3>1 DEF fs
        <3>3. b.cell + b.len <= Cell(f, 0)
            BY <1>17, <2>2, <3>2
        <3>4. Cell(f, 0) \in Int
            <4>1. 0 \in Int /\ f \in Int
                BY <1>4
            <4>2. QED
                BY <4>1, CellSum
        <3>5. QED
            BY <1>14, <3>3, <3>4
    <2>3. QED
        BY <2>1, <2>2
<1>19. Within(w, blocks)
    <2> SUFFICES ASSUME NEW p \in Pids, NEW b \in blocks[p]
                 PROVE  /\ Cell(w[p].first, 0) <= b.cell
                        /\ b.cell + b.len <= Cell(w[p].last + 1, 0)
        BY DEF Within
    <2>1. CASE p = id
        <3>1. b \in Own
            BY <2>1 DEF Own
        <3>2. ~(f > last)
            BY <1>4, <1>6, <1>18, <3>1
        <3>3. w[id].first = f /\ w[id].last = last
            BY <1>7, <3>2
        <3>4. CASE Trailing = {}
            BY <1>6, <1>14, <2>1, <3>1, <3>3, <3>4
        <3>5. CASE Trailing # {}
            <4>1. last + 1 = fs
                BY <1>5, <1>6, <3>5 DEF fs
            <4>2. QED
                BY <1>14, <1>17, <2>1, <3>1, <3>3, <3>5, <4>1
        <3>6. QED
            BY <3>4, <3>5
    <2>2. CASE p # id
        BY <1>3, <1>12, <2>2 DEF Within
    <2>3. QED
        BY <2>1, <2>2
<1>20. Snug(w, blocks, {})
    <2> SUFFICES ASSUME NEW p \in Pids, w[p].first <= w[p].last, blocks[p] = {} PROVE FALSE
        BY DEF Snug
    <2>1. CASE p = id
        <3>1. Own = {}
            BY <2>1 DEF Own
        <3>2. ~Passed
            BY <3>1 DEF Passed
        <3>3. loc.free_start = loc.first /\ f = loc.pi
            BY <1>13, <3>2 DEF ReleaseKnown, f
        <3>4. Trailing = {} /\ f > e
            BY <1>1, <3>3 DEF Trailing, e
        <3>5. f > last
            BY <1>6, <3>4
        <3>6. w[id].first = NumPages /\ w[id].last = -1
            BY <1>7, <3>5
        <3>7. QED
            BY <1>8, <2>1, <3>6
    <2>2. CASE p # id
        BY <1>3, <1>12, <2>2 DEF Snug
    <2>3. QED
        BY <2>1, <2>2
<1>21. QED
    BY <1>11, <1>19, <1>20

\* free_process_pages, when it ends.
LEMMA ReleaseEndsBlocks ==
    ASSUME TypeInv, TypeInv', PagesInv, BlocksKnown, ReleaseEnds, halt' = "none"
    PROVE  LayoutInv'
<1> DEFINE id == loc.id
           gone == Trailing
           next == blocks
           v == view
           w == view'
           gave == TRUE
<1>1. /\ pc = "release" /\ freed /\ id \in Pids /\ mem \in Memory
      /\ pc' = "idle" /\ blocks' = blocks /\ freed' = freed
    BY ReleaseEndsAt
<1>2. Drops(mem, mem', v, w, id, gone) /\ Within(w, next) /\ Snug(w, next, {})
    BY TailGone
<1>3. Layout(mem, v, next, freed) /\ \A who : Settled(mem, v, who, {})
    BY <1>1, CalmBlocks DEF BlocksKnown
<1>4. PICK used \in Nat : PageMap(mem, v, freed, used)
    BY <1>1, SameSeen DEF PagesInv
<1>5. Layout(mem, v, next, TRUE) /\ PageMap(mem, v, TRUE, used)
    BY <1>1, <1>3, <1>4 DEF PageMap, Layout
<1>6. Layout(mem', w, next, TRUE) /\ \A who : Settled(mem', w, who, {})
    <2> HIDE DEF id, gone, next, v, w, gave
    <2>1. Layout(mem', w, next, TRUE)
          /\ \A who, but : Settled(mem, v, who, but) => Settled(mem', w, who, but)
        BY ONLY <1>1, <1>2, <1>5, GoneLayout
    <2>2. QED
        BY <1>3, <2>1
<1>7. BlocksInv'
    <2>1. Releasing' = {}
        BY <1>1 DEF Releasing
    <2>2. /\ Layout(mem', view', blocks', freed') /\ Within(view', blocks')
          /\ Snug(view', blocks', Releasing') /\ Settled(mem', view', loc'.id, {})
        BY <1>1, <1>2, <1>6, <2>1 DEF Layout
    <2>3. QED
        BY <1>1, <2>2, BlocksAfter
<1>8. QED
    BY <1>1, <1>7 DEF LayoutInv, BlocksKnown

-----------------------------------------------------------------------------
(* What is kept of the blocks *)

\* A pointer that free gets, if it is not a block's, does not point into a page
\* that its thread sees elsewhere.
FreesAtHome == \A p \in Pids, cell \in WildPointers : Free(p, cell) => ~Astray(p, cell)

\* A step that takes no notice of the memory.
LEMMA SameKnown == ASSUME UNCHANGED vars PROVE LayoutInv' = LayoutInv
<1>1. /\ mem' = mem /\ view' = view /\ blocks' = blocks /\ pc' = pc /\ loc' = loc
      /\ freed' = freed /\ halt' = halt
    BY DEF vars
<1>2. /\ Seen' = Seen /\ InFlight' = InFlight /\ Moving' = Moving /\ Releasing' = Releasing
      /\ Doomed' = Doomed /\ Own' = Own
    BY <1>1 DEF Seen, AwaitsFirst, InFlight, Moving, Releasing, Doomed, Own
<1>3. Held' = Held
    BY <1>1, <1>2 DEF Held
<1>4. BlocksInv' = BlocksInv
    BY <1>1, <1>2, <1>3 DEF BlocksInv
<1>5. WalkInv' = WalkInv
    BY <1>1, <1>2 DEF WalkInv
<1>6. Asks' = Asks /\ LastSegment' = LastSegment
    BY <1>1, <1>2 DEF Asks, LastSegment
<1>7. SearchInv' = SearchInv /\ PagesKnown' = PagesKnown
    BY <1>1, <1>6 DEF SearchInv, PagesKnown
<1>8. TakeKnown' = TakeKnown
    BY <1>1, <1>2 DEF TakeKnown, IsAt, Candidate
<1>9. PlaceKnown' = PlaceKnown
    BY <1>1 DEF PlaceKnown, IsAt
<1>10. FreeKnown' = FreeKnown
    BY <1>1, <1>2 DEF FreeKnown, Astray, SoughtPage
<1>11. ReleaseKnown' = ReleaseKnown
    BY <1>1, <1>2 DEF ReleaseKnown, Passed
<1>12. BlocksKnown' = BlocksKnown
    BY <1>1, <1>4, <1>5, <1>7, <1>8, <1>9, <1>10, <1>11 DEF BlocksKnown
<1>13. QED
    BY <1>1, <1>2, <1>12 DEF LayoutInv

\* When the process ends, nothing is said of its memory.
LEMMA EndBlocks ==
    ASSUME NEW how \in {"nomem", "badfree", "crash"}, End(how)
    PROVE  LayoutInv' /\ NewResident
BY DEF LayoutInv, NewResident, End

\* A step that gives no block.
LEMMA NoNewBlock ==
    ASSUME TypeInv, Next,
           ~Search, ~Place
    PROVE  NewResident
<1>1. ASSUME blocks' = blocks PROVE NewResident
    BY <1>1 DEF NewResident
<1>2. CASE Found
    <2>1. blocks' = blocks \/ blocks' = [blocks EXCEPT ![loc.id] = {b \in @ : b.cell # loc.cell}]
        BY <1>2 DEF Found, End
    <2>2. blocks \in [Pids -> SUBSET Blocks]
        BY DEF TypeInv
    <2>3. \A p \in Pids : blocks'[p] \subseteq blocks[p]
        BY <2>1, <2>2
    <2>4. QED
        BY <2>3 DEF NewResident
<1>3. CASE ~Found
    BY <1>1, <1>3 DEF Next, Step, Malloc, Free, Store, NotEnoughPages, SearchFails,
                      SearchFailsFull, NoRoom, FirstPages, FromLastSegment, FromNextPage, HasRoom, TakeFrom, Take,
                      TakeNext, TakeEnds, TurnPage, Scan, FreeFails, Release, ReleaseEnds,
                      SkipPage, Segfault, Rest, Halted, End, vars
<1>4. QED
    BY <1>2, <1>3

\* Each step keeps the blocks, and gives only blocks that are where their cells
\* say.
LEMMA NextBlocks ==
    ASSUME ~ReusesMemory, SmallSizes, ~StoresAway, TypeInv, MapInv, LayoutInv,
           [Next]_vars, [FreesAtHome]_vars
    PROVE  LayoutInv' /\ (Next => NewResident)
<1>1. CASE UNCHANGED vars
    <2>1. LayoutInv'
        BY <1>1, SameKnown
    <2>2. NewResident
        BY <1>1 DEF vars, NewResident
    <2>3. QED
        BY <2>1, <2>2
<1>2. CASE Next /\ Doomed
    <2>1. Segfault \/ Halted
        BY <1>2, DoomedStep
    <2>2. CASE Segfault
        BY <2>2, EndBlocks DEF Segfault
    <2>3. CASE Halted
        BY <1>1, <2>3 DEF Halted
    <2>4. QED
        BY <2>1, <2>2, <2>3
<1>3. CASE Next /\ ~Doomed /\ halt # "none"
    <2>1. Halted
        BY <1>3, Zenon DEF Next, Step, Malloc, Free, Store, Search, NotEnoughPages, SearchFails,
                    SearchFailsFull, Searched, NoRoom, FirstPages, FromLastSegment, FromNextPage, HasRoom, Take,
                    TakeNext, TakeEnds, Taking, Place, TurnPage, Scan, FreeFails, Found, Release,
                    ReleaseEnds, SkipPage, Segfault, Rest, Walking, At
    <2>2. QED
        BY <1>1, <2>1 DEF Halted
<1>4. CASE Next /\ ~Doomed /\ halt = "none" /\ ~UNCHANGED vars
    <2>1. PagesInv /\ BlocksKnown /\ TypeInv' /\ FreesAtHome
        BY <1>4, NextTypes DEF MapInv, LayoutInv
    <2>2. CASE Search \/ Place
        BY <2>1, <2>2, SearchBlocks, PlaceBlocks
    <2>3. CASE ~Search /\ ~Place
        <3>1. NewResident
            BY <1>4, <2>3, NoNewBlock
        <3>2. ASSUME NEW p \in Pids, NEW size \in Sizes, Malloc(p, size) PROVE LayoutInv'
            BY <2>1, <3>2, MallocBlocks
        <3>3. ASSUME NEW p \in Pids, NEW cell \in Cells, Free(p, cell) PROVE LayoutInv'
            <4>1. cell \in WildPointers => ~Astray(p, cell)
                BY <2>1, <3>3 DEF FreesAtHome
            <4>2. QED
                BY <2>1, <3>3, <4>1, FreeBlocks
        <3>18. ASSUME NEW p \in Pids, Store(p) PROVE LayoutInv'
            BY <2>1, <3>18, StoreBlocks
        <3>4. CASE NotEnoughPages
            BY <3>4, EndBlocks DEF NotEnoughPages
        <3>5. CASE NoRoom
            BY <3>5, EndBlocks DEF NoRoom
        <3>6. CASE FreeFails
            BY <3>6, EndBlocks DEF FreeFails
        <3>7. CASE Segfault
            BY <3>7, EndBlocks DEF Segfault
        <3>8. CASE Found
            <4>1. End("crash") \/ halt' = "none"
                BY <1>4, <3>8 DEF Found
            <4>2. QED
                BY <2>1, <3>1, <3>8, <4>1, FoundBlocks, EndBlocks
        <3>9. CASE ReleaseEnds
            <4>1. End("crash") \/ halt' = "none"
                BY <1>4, <3>9 DEF ReleaseEnds
            <4>2. QED
                BY <2>1, <3>1, <3>9, <4>1, ReleaseEndsBlocks, EndBlocks
        <3>10. CASE TakeNext
            BY <2>1, <3>1, <3>10, TakeNextBlocks
        <3>11. CASE SearchFails \/ SearchFailsFull
            BY <2>1, <3>1, <3>11, SearchFailsBlocks
        <3>12. CASE Release
            BY <2>1, <3>1, <3>12, ReleaseBlocks
        <3>13. CASE FirstPages \/ FromLastSegment \/ FromNextPage
            BY <2>1, <3>1, <3>13, FirstPagesBlocks, FromLastSegmentBlocks, FromNextPageBlocks
        <3>14. CASE Take \/ TakeEnds
            BY <2>1, <3>1, <3>14, TakeBlocks, TakeEndsBlocks
        <3>15. CASE TurnPage \/ Scan \/ SkipPage
            BY <2>1, <3>1, <3>15, TurnPageBlocks, ScanBlocks, SkipPageBlocks
        <3>16. CASE Step
            BY <2>3, <3>4, <3>5, <3>6, <3>7, <3>8, <3>9, <3>10, <3>11, <3>12, <3>13, <3>14,
               <3>15, <3>16 DEF Step
        <3>17. QED
            BY <1>4, <3>1, <3>2, <3>3, <3>16, <3>18 DEF Next, Rest, Halted
    <2>4. QED
        BY <2>2, <2>3
<1>5. QED
    BY <1>1, <1>2, <1>3, <1>4

\* When no call is in progress, blocks are where the memory says.
LEMMA IdleBlocks ==
    ASSUME TypeInv, MapInv, LayoutInv, Idle
    PROVE  /\ Layout(mem, view, blocks, freed) /\ Within(view, blocks) /\ Snug(view, blocks, {})
           /\ \E used \in Nat : PageMap(mem, view, freed, used)
<1>1. pc = "idle" /\ PagesInv /\ BlocksKnown /\ Seen = view
    BY SameSeen DEF Idle, Doomed, MapInv, LayoutInv
<1>2. Releasing = {}
    BY <1>1 DEF Releasing
<1>3. QED
    BY <1>1, <1>2, CalmBlocks DEF BlocksKnown, PagesInv

\* In a program whose sizes are below a page, that does not allocate after it has
\* freed, that stores into its blocks only while the page of its thread lies
\* there, and that frees no pointer into a page its thread sees elsewhere, the
\* blocks of a thread lie in the memory the thread sees and share no segment.
THEOREM BlocksApart ==
    ASSUME ~ReusesMemory, SmallSizes, ~StoresAway
    PROVE  Spec /\ [][FreesAtHome]_vars => []BlocksDisjoint
<1>1. Init => MapInv /\ LayoutInv
    BY FirstView, FirstBlocks
<1>2. TypeInv /\ MapInv /\ LayoutInv /\ [Next]_vars /\ [FreesAtHome]_vars => MapInv' /\ LayoutInv'
    BY NextMap, NextBlocks
<1>3. TypeInv /\ MapInv /\ LayoutInv => BlocksDisjoint
    <2> SUFFICES ASSUME TypeInv, MapInv, LayoutInv, Idle, NEW p \in Pids, NEW b \in blocks[p]
                 PROVE  /\ CellsOf(b) \subseteq Cell(view[p].first, 0) .. Cell(view[p].last + 1, 0) - 1
                        /\ \A c \in blocks[p] : b # c => CellsOf(b) \cap CellsOf(c) = {}
        BY DEF BlocksDisjoint
    <2> DEFINE low == Cell(view[p].first, 0)
               high == Cell(view[p].last + 1, 0)
    <2>1. /\ Separate(blocks[p]) /\ low <= b.cell /\ b.cell + b.len <= high
        BY IdleBlocks DEF Layout, Within
    <2>2. \A c \in blocks[p] : c.cell \in Int /\ c.len \in Int
        BY <2>1, DirectMappingAssumption DEF Separate
    <2>3. low \in Int /\ high \in Int
        <3> DEFINE f == view[p].first
                   e == view[p].last + 1
                   z == 0
        <3>1. view[p] \in Views
            BY DEF TypeInv
        <3>2. f \in Int /\ e \in Int /\ z \in Int
            BY <3>1, Parameters DEF Views, NoPage
        <3> HIDE DEF f, e, z
        <3>3. Cell(f, z) \in Int /\ Cell(e, z) \in Int
            BY ONLY <3>2, CellSum
        <3>4. QED
            BY <3>3 DEF f, e, z
    <2> HIDE DEF low, high
    <2>4. CellsOf(b) \subseteq low .. high - 1
        BY <2>1, <2>2, <2>3 DEF CellsOf
    <2>5. \A c \in blocks[p] : b # c => CellsOf(b) \cap CellsOf(c) = {}
        <3> SUFFICES ASSUME NEW c \in blocks[p], b # c, NEW x \in CellsOf(b), x \in CellsOf(c)
                     PROVE  FALSE
            OBVIOUS
        <3>1. b.cell + b.len <= c.cell \/ c.cell + c.len <= b.cell
            BY <2>1 DEF Separate
        <3>2. QED
            BY <2>2, <3>1 DEF CellsOf
    <2>6. QED
        BY <2>4, <2>5 DEF low, high
<1>4. QED
    BY <1>1, <1>2, <1>3, TypeInvariant, PTL DEF Spec

\* In such a program, a thread that has freed all its blocks has no page left.
THEOREM PagesReturned ==
    ASSUME ~ReusesMemory, SmallSizes, ~StoresAway
    PROVE  Spec /\ [][FreesAtHome]_vars => []NothingLeaks
<1>1. Init => MapInv /\ LayoutInv
    BY FirstView, FirstBlocks
<1>2. TypeInv /\ MapInv /\ LayoutInv /\ [Next]_vars /\ [FreesAtHome]_vars => MapInv' /\ LayoutInv'
    BY NextMap, NextBlocks
<1>3. TypeInv /\ MapInv /\ LayoutInv => NothingLeaks
    <2> SUFFICES ASSUME TypeInv, MapInv, LayoutInv, Idle, NEW p \in Pids, blocks[p] = {},
                        NEW page \in Pages, mem.pages[page].occ, mem.pages[page].pid = p
                 PROVE  FALSE
        BY DEF NothingLeaks
    <2>1. Owned(mem, view) /\ Snug(view, blocks, {})
        BY IdleBlocks DEF Layout
    <2> DEFINE i == mem.pages[page].index
    <2>2. InView(view, p, i)
        BY <2>1 DEF Owned
    <2>3. i \in Pages
        BY DEF TypeInv, Memory, PageRecords
    <2>4. view[p] \in Views
        BY DEF TypeInv
    <2>5. view[p].first \in Int /\ view[p].last \in Int /\ i \in Int
        <3>1. view[p].first \in Int /\ view[p].last \in Int
            BY <2>4, Parameters DEF Views, NoPage
        <3> HIDE DEF i
        <3>2. i \in Int
            BY ONLY <2>3, PageNumbers
        <3>3. QED
            BY <3>1, <3>2
    <2>6. view[p].first <= view[p].last
        <3>1. view[p].first <= i /\ i <= view[p].last
            BY <2>2 DEF InView
        <3> HIDE DEF i
        <3>2. QED
            BY <2>5, <3>1
    <2>7. QED
        BY <2>1, <2>6 DEF Snug
<1>4. QED
    BY <1>1, <1>2, <1>3, TypeInvariant, PTL DEF Spec

\* In such a program, the pages of a block that malloc returns are in use by its
\* thread, and lie where its address says.
THEOREM BlocksResident ==
    ASSUME ~ReusesMemory, SmallSizes, ~StoresAway
    PROVE  Spec /\ [][FreesAtHome]_vars => Resident
<1>1. Init => MapInv /\ LayoutInv
    BY FirstView, FirstBlocks
<1>2. TypeInv /\ MapInv /\ LayoutInv /\ [Next]_vars /\ [FreesAtHome]_vars
        => MapInv' /\ LayoutInv' /\ [NewResident]_vars
    BY NextMap, NextBlocks
<1>3. [NewResident]_vars => [\A p \in Pids : \A b \in blocks'[p] \ blocks[p] : IsResident(p, b)']_vars
    BY DEF NewResident
<1>4. QED
    BY <1>1, <1>2, <1>3, TypeInvariant, PTL DEF Spec, Resident

\* What free does with a pointer: it frees the block that is there, or the
\* process ends.
LEMMA FreesBlock ==
    ASSUME TypeInv, MapInv, LayoutInv, Next
    PROVE  /\ (pc = "scan" /\ pc' = "release") =>
                  HasSought /\ mem.pages[loc.at].index = SoughtPage
           /\ (halt # "badfree" /\ halt' = "badfree") => ~HasSought
<1>1. ASSUME pc = "scan", pc' = "release"
      PROVE  HasSought /\ mem.pages[loc.at].index = SoughtPage
    <2>1. Found /\ halt = "none" /\ loc.si < NumSegments /\ IsBlock /\ Scanned.occ
        <3>1. Found
            BY <1>1 DEF Next, Step, Malloc, Free, Store, Search, NotEnoughPages, SearchFails,
                        SearchFailsFull, Searched, NoRoom, FirstPages, FromLastSegment,
                        FromNextPage, HasRoom, TakeFrom, Take, TakeNext, TakeEnds, Taking, Place,
                        TurnPage, Scan, FreeFails, Release, ReleaseEnds, SkipPage, Segfault, Rest,
                        Halted, End, Walking, At, vars
        <3>2. QED
            BY <3>1 DEF Found, At
    <2>2. PagesInv /\ BlocksKnown
        BY <1>1, <2>1 DEF MapInv, LayoutInv, Doomed
    <2>3. HasSought /\ loc.at = loc.pi /\ loc.cell = Cell(loc.pi, loc.si)
        BY <1>1, <2>1, <2>2, FoundBlock
    <2>4. mem.pages[loc.at].index = loc.pi /\ loc.pi \in Pages /\ loc.si \in Segments
        BY <1>1, <2>1, <2>2, ScanHeader, ScanAt
    <2>5. SoughtPage = loc.pi
        <3> DEFINE i == loc.pi
                   s == loc.si
        <3>1. i \in Pages /\ s \in Segments /\ loc.cell = Cell(i, s)
            BY <2>3, <2>4
        <3> HIDE DEF i, s
        <3>2. SoughtPage = i
            BY <3>1, CellPage DEF SoughtPage, Segments
        <3>3. QED
            BY <3>2 DEF i
    <2>6. QED
        BY <2>3, <2>4, <2>5
<1>2. ASSUME halt # "badfree", halt' = "badfree" PROVE ~HasSought
    <2>1. FreeFails /\ halt = "none" /\ pc \in {"scan", "turn"}
        <3>1. FreeFails
            BY <1>2, Zenon DEF Next, Step, Malloc, Free, Store, Search, NotEnoughPages, SearchFails,
                        SearchFailsFull, Searched, NoRoom, FirstPages, FromLastSegment,
                        FromNextPage, HasRoom, TakeFrom, Take, TakeNext, TakeEnds, Taking, Place,
                        Give, TurnPage, Scan, Found, Release, ReleaseEnds, SkipPage, Segfault,
                        Rest, Halted, End, Walking, At, vars
        <3>2. QED
            BY <3>1 DEF FreeFails, At
    <2>2. PagesInv /\ BlocksKnown
        BY <2>1 DEF MapInv, LayoutInv, Doomed
    <2>3. CASE pc = "scan"
        <3>1. loc.si < NumSegments /\ IsBlock /\ ~Scanned.occ
            BY <2>1, <2>3 DEF FreeFails, At
        <3>2. QED
            BY <2>2, <2>3, <3>1, FoundBlock
    <2>4. CASE pc = "turn"
        <3> SUFFICES ASSUME NEW b \in Own, b.cell = loc.cell PROVE FALSE
            BY DEF HasSought, Own
        <3>1. loc.pi > loc.last
            BY <2>1, <2>4 DEF FreeFails, At
        <3>2. FreeKnown
            BY <2>2, <2>4 DEF BlocksKnown
        <3>3. Cell(loc.pi, loc.si) <= b.cell
            BY <3>2 DEF FreeKnown
        <3>4. /\ loc.id \in Pids /\ loc.pi \in Int /\ loc.si \in Nat /\ loc.last = view[loc.id].last
            <4>1. loc \in FreeCalls
                BY <2>4 DEF TypeInv, CallOK
            <4>2. loc.last = view[loc.id].last
                BY <2>2, <2>4 DEF PagesInv, CallInv
            <4>3. QED
                BY <4>1, <4>2 DEF FreeCalls
        <3>5. view[loc.id].last \in Int
            <4>1. view[loc.id] \in Views
                BY <3>4 DEF TypeInv
            <4>2. QED
                BY <4>1, Parameters DEF Views, NoPage
        <3>6. /\ Separate(Own) /\ b.cell + b.len <= Cell(view[loc.id].last + 1, 0)
            <4>1. Layout(mem, view, blocks, freed) /\ Within(view, blocks)
                BY <2>2, <2>4, CalmBlocks DEF BlocksKnown
            <4>2. QED
                BY <3>4, <4>1 DEF Layout, Within, Own
        <3>7. b.cell \in Int /\ b.len \in Int /\ 1 <= b.len
            BY <3>6, DirectMappingAssumption DEF Separate
        <3> DEFINE i == loc.pi
                   s == loc.si
                   g == view[loc.id].last + 1
        <3>8. i \in Int /\ s \in Int /\ 0 <= s /\ g \in Int /\ g <= i
            BY <3>1, <3>4, <3>5
        <3>9. Cell(i, s) <= b.cell /\ b.cell + b.len <= Cell(g, 0)
            BY <3>3, <3>6
        <3> HIDE DEF i, s, g
        <3>10. Cell(g, 0) <= Cell(i, 0) /\ Cell(g, 0) \in Int
            BY ONLY <3>8, CellUpTo
        <3>11. Cell(i, s) = Cell(i, 0) + s /\ Cell(i, s) \in Int /\ Cell(i, 0) \in Int
            BY ONLY <3>8, CellSum
        <3>12. QED
            BY ONLY <3>7, <3>8, <3>9, <3>10, <3>11
    <2>5. QED
        BY <2>1, <2>3, <2>4
<1>3. QED
    BY <1>1, <1>2

\* In such a program, free frees a block of the thread, at the address it is
\* given, or it ends the process, and then the thread has no block there.
THEOREM OnlyBlocksFreed ==
    ASSUME ~ReusesMemory, SmallSizes, ~StoresAway
    PROVE  Spec /\ [][FreesAtHome]_vars => FreesBlocksOnly
<1>1. Init => MapInv /\ LayoutInv
    BY FirstView, FirstBlocks
<1>2. TypeInv /\ MapInv /\ LayoutInv /\ [Next]_vars /\ [FreesAtHome]_vars => MapInv' /\ LayoutInv'
    BY NextMap, NextBlocks
<1>3. TypeInv /\ MapInv /\ LayoutInv /\ [Next]_vars
        => [/\ (pc = "scan" /\ pc' = "release") =>
                   HasSought /\ mem.pages[loc.at].index = SoughtPage
            /\ (halt # "badfree" /\ halt' = "badfree") => ~HasSought]_vars
    BY FreesBlock
<1>4. QED
    BY <1>1, <1>2, <1>3, TypeInvariant, PTL DEF Spec, FreesBlocksOnly

\* A program that frees nothing but blocks of its own threads frees no pointer
\* that goes astray: in it, all four hold of every behavior in which it stores
\* into no block that another thread has displaced.
COROLLARY WithoutStray ==
    ASSUME ~ReusesMemory, SmallSizes, ~StoresAway, WildPointers = {}
    PROVE  Spec => []BlocksDisjoint /\ []NothingLeaks /\ Resident /\ FreesBlocksOnly
<1>1. FreesAtHome
    BY DEF FreesAtHome
<1>2. FreesAtHome => [FreesAtHome]_vars
    OBVIOUS
<1>3. Spec => [][FreesAtHome]_vars
    BY <1>1, PTL
<1>4. QED
    BY <1>3, BlocksApart, PagesReturned, BlocksResident, OnlyBlocksFreed, PTL

================================================================================
