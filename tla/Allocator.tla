------------------------------ MODULE Allocator ------------------------------
(***************************************************************************)
(* The allocator of asst2 (memory_finder.c and the entry points of         *)
(* my_malloc.c): pages owned by threads, each cut into segments by         *)
(* one-byte headers inside the page.                                       *)
(*                                                                         *)
(* Every thread sees a contiguous memory of its own, the pages from        *)
(* view[p].first to view[p].last.  They lie anywhere; a call moves the     *)
(* pages it hands out or frees to where the thread sees them, swapping     *)
(* them with whatever is there.  The page table finds a page from where    *)
(* its thread sees it: it is the map that module PageTable specifies and   *)
(* OpenAddrHT implements.                                                  *)
(*                                                                         *)
(* A call runs with the alarm off, so calls do not interleave.  It is cut  *)
(* in steps, one per segment or page that its loops visit.  Between calls  *)
(* programs store into their blocks, at the places where headers may be.   *)
(***************************************************************************)
EXTENDS DirectMapping, Sequences, FiniteSetsExt

CONSTANTS
    NumPages,           \* pages the block is cut into (num_pages)
    SEGMENTSIZE,        \* bytes of a segment
    Pids,               \* threads; 0 is the scheduler, 2 main
    Sizes,              \* the sizes programs ask for, in bytes
    MaxBlocks,          \* bound on the blocks a thread has at a time
    UserBytes,          \* bytes programs store in their blocks
    StoresAway,         \* whether a program stores into a block while another
                        \* thread's page lies where it sees the block
    WildPointers,       \* pointers a program may free without having them, as
                        \* the number of the segment before
    ReusesMemory        \* whether a program allocates after it has freed

ASSUME AllocatorAssumption ==
    /\ NumPages \in Nat \ {0} /\ NumPages <= 16384      \* an index has 14 bits (pg_index)
    /\ SEGMENTSIZE \in Nat \ {0}
    /\ Pids \subseteq Nat
    /\ Sizes \subseteq Nat \ {0}
    /\ MaxBlocks \in Nat
    /\ UserBytes \subseteq Bytes
    /\ StoresAway \in BOOLEAN
    /\ WildPointers \subseteq 0 .. NumPages * NumSegments - 1
    /\ ReusesMemory \in BOOLEAN

Pages == 0 .. NumPages - 1
Owners == Pids \cup {0}
page_size == NumSegments * SEGMENTSIZE
NoPage == -1            \* ht_get finds nothing; no free page; no page yet
Cells == 0 .. NumPages * NumSegments - 1
Cell(page, seg) == page * NumSegments + seg

VARIABLES
    mem,                \* the block: page data, headers, page table
    view,               \* [Pids -> first_page_index, last_page_index]
    blocks,             \* [Pids -> the blocks the thread has: the segment it
                        \* sees them start at, and their number of segments]
    pc,                 \* where the call in progress is, or "idle"
    loc,                \* its local variables
    freed,              \* whether a block has been freed
    halt                \* "none", or how the process ended: "nomem" and
                        \* "badfree" are the two kinds of error_message,
                        \* "crash" is an access outside the block, through
                        \* the index that ht_get returns for a missing page

vars == << mem, view, blocks, pc, loc, freed, halt >>

-----------------------------------------------------------------------------
(* Pages and the page table *)

\* A page nobody uses.
Released(pid, index) == Pagedata(pid, FALSE, FALSE, index, 1)

ht_get(m, pid, index) == IF index \in Pages THEN m.ht[pid][index] ELSE NoPage
ht_put(m, pid, index, page) == [m EXCEPT !.ht[pid][index] = page]
ht_delete(m, pid, index) == ht_put(m, pid, index, NoPage)

\* Fault: the entry of the second page is forgotten.
SwapEntries_First(m, a, b) == ht_put(m, m.pages[a].pid, m.pages[a].index, b)

\* The page table entries of two pages that change places.
SwapEntries(m, a, b) ==
    ht_put(ht_put(m, m.pages[a].pid, m.pages[a].index, b),
           m.pages[b].pid, m.pages[b].index, a)

\* Moves two pages.
swap(m, a, b) ==
    LET from(page) == CASE page = a -> b [] page = b -> a [] OTHER -> page
    IN  IF a = b THEN m
        ELSE [SwapEntries(m, a, b) EXCEPT
                !.pages = [page \in Pages |-> m.pages[from(page)]],
                !.headers = [c \in Cells |->
                    m.headers[Cell(from(c \div NumSegments), c % NumSegments)]]]

-----------------------------------------------------------------------------

Unassigned == -2
NoIndex == -1
NoSegment == -1
NoView == [first |-> NumPages, last |-> -1]     \* <UINT16_MAX, -1>
NoCall == [id |-> 0]

\* After the first myallocate has set the block up.  It writes the first header
\* of each page; the others are read only after they are written.
Init ==
    /\ mem = [pages |-> [page \in Pages |-> Released(0, page)],
              headers |-> [c \in Cells |-> Header(NumSegments, FALSE, TRUE)],
              ht |-> [p \in Owners |-> [index \in Pages |-> NoPage]]]
    /\ view = [p \in Pids |-> NoView]
    /\ blocks = [p \in Pids |-> {}]
    /\ pc = "idle"
    /\ loc = NoCall
    /\ freed = FALSE
    /\ halt = "none"

At(label) == halt = "none" /\ pc = label

FreePages == {page \in Pages : ~mem.pages[page].occ}

\* find_contig_space
LeastFree == IF FreePages = {} THEN NoPage ELSE Min(FreePages)

End(how) == halt' = how /\ UNCHANGED << mem, view, blocks, pc, loc, freed >>

\* The call gives the block to its thread, and is over.
Give(m, cell, len) ==
    /\ mem' = m
    /\ blocks' = [blocks EXCEPT ![loc.id] = @ \cup {[cell |-> cell, len |-> len]}]
    /\ pc' = "idle"
    /\ loc' = NoCall

-----------------------------------------------------------------------------
(* A walk over the segments of the thread's memory, at segment loc.si of the *)
(* page the thread sees at loc.pi                                            *)

Walking(label) == At(label) /\ loc.pi <= loc.last
Actual == ht_get(mem, loc.id, loc.pi)
Here == mem.headers[Cell(Actual, loc.si)]
Length(h) == IF h.last THEN NumSegments - loc.si ELSE h.size

\* Segments at the start of the next page that belong to this page's last block.
Overflow(h, page) ==
    CASE h.last /\ page.ovf -> h.size
      [] h.last /\ ~page.ovf -> 0
      [] OTHER -> loc.ovf

\* Fault: a page whose last block ends in it is counted by its length too.
NextPage_ByLength(page, ovf) ==
    [loc EXCEPT !.ovf = ovf, !.si = ovf, !.pi = @ + page.length - 1]

\* To the page after the block that ends this one.
NextPage(page, ovf) ==
    [loc EXCEPT !.ovf = ovf, !.si = ovf,
                !.pi = IF ovf # 0 THEN @ + page.length - 1 ELSE @ + 1]

Advance(page, ovf, len) ==
    IF loc.si + len < NumSegments THEN [loc EXCEPT !.ovf = ovf, !.si = @ + len]
                                  ELSE NextPage(page, ovf)

-----------------------------------------------------------------------------
(* myallocate *)

Malloc(p, size) ==
    /\ At("idle")
    /\ freed => ReusesMemory
    /\ Cardinality(blocks[p]) < MaxBlocks
    /\ loc' = [id |-> p, size |-> size, segments |-> size \div SEGMENTSIZE + 1,
               first |-> view[p].first, last |-> view[p].last,
               free_page |-> LeastFree, num_free |-> Cardinality(FreePages),
               pi |-> view[p].first, si |-> 0, ovf |-> 0,
               contig |-> 0,            \* free segments up to here
               start |-> Unassigned,    \* alloc_page_index, not assigned yet
               start_seg |-> NoSegment] \* alloc_seg_index
    /\ pc' = "search"
    /\ UNCHANGED << mem, view, blocks, freed, halt >>

\* segment_allocate looks at the next segment.
Search ==
    /\ Walking("search") /\ loc.si < NumSegments
    /\ Actual # NoPage
    /\ LET page == mem.pages[Actual]
           len == Length(Here)
           new == ~Here.occ /\ loc.contig = 0
           contig == IF Here.occ THEN 0 ELSE loc.contig + len
           start == CASE Here.occ -> NoIndex [] new -> loc.pi [] OTHER -> loc.start
           start_seg == IF new \/ (Here.last /\ loc.pi = loc.last)
                        THEN loc.si ELSE loc.start_seg
       IN  \/ /\ contig < loc.segments
              /\ loc' = [Advance(page, Overflow(Here, page), len) EXCEPT
                            !.contig = contig, !.start = start, !.start_seg = start_seg]
              /\ UNCHANGED << mem, blocks, pc >>
           \/ /\ contig >= loc.segments /\ len >= loc.segments
              /\ Give(swap([mem EXCEPT !.headers =
                                dm_allocate_block(@, Cell(Actual, loc.si), loc.segments)],
                           Actual, loc.pi),
                      Cell(loc.pi, loc.si), loc.segments)
           \/ /\ contig >= loc.segments /\ len < loc.segments
              /\ loc' = [loc EXCEPT !.free_page = NoPage, !.start = start,
                                    !.start_seg = start_seg]
              /\ pc' = "pages"
              /\ UNCHANGED << mem, blocks >>
    /\ UNCHANGED << view, freed, halt >>

Searched == At("search") /\ loc.pi > loc.last
PagesNeeded == loc.segments \div NumSegments + 1

NotEnoughPages ==
    /\ Searched
    /\ loc.free_page # NoPage /\ PagesNeeded > loc.num_free
    /\ End("nomem")

\* New pages are needed, after the thread's last one.
SearchFails ==
    /\ Searched
    /\ loc.free_page # NoPage /\ PagesNeeded <= loc.num_free
    /\ loc' = [loc EXCEPT !.start = loc.last]
    /\ pc' = "pages"
    /\ UNCHANGED << mem, view, blocks, freed, halt >>

\* Memory is full.  The code takes free_page = -1 for a run of free segments
\* that is long enough, and its start may never have been assigned.
SearchFailsFull ==
    /\ Searched
    /\ loc.free_page = NoPage
    /\ \E start \in IF loc.start = Unassigned THEN -1 .. NumPages ELSE {loc.start} :
          loc' = [loc EXCEPT !.start = start]
    /\ pc' = "pages"
    /\ UNCHANGED << mem, view, blocks, freed, halt >>

-----------------------------------------------------------------------------
(* page_allocate *)

PageCount(size) == size \div page_size + 1
SegmentsInLast(size) == (size % page_size) \div SEGMENTSIZE + 1    \* ovf_len

NoRoom ==
    /\ At("pages")
    /\ (IF loc.start # NoIndex THEN loc.start ELSE loc.free_page)
          + PageCount(loc.size) >= NumPages
    /\ End("nomem")

HasRoom ==
    /\ At("pages")
    /\ (IF loc.start # NoIndex THEN loc.start ELSE loc.free_page)
          + PageCount(loc.size) < NumPages

\* The pages to take: n of them, after those in taken, from where the thread
\* sees them at pi on.
TakeFrom(pi, n, last_len, taken, seg) ==
    /\ loc' = [id |-> loc.id, segments |-> loc.segments, free_page |-> loc.free_page,
               pi |-> pi, n |-> n, last_len |-> last_len, taken |-> taken, seg |-> seg,
               actual |-> IF loc.free_page = NoPage THEN pi ELSE loc.free_page]
    /\ pc' = "take"

\* The thread has no pages: it will see its memory from the first free page on.
FirstPages ==
    /\ HasRoom
    /\ loc.start = NoIndex
    /\ view' = [view EXCEPT ![loc.id] = [first |-> loc.free_page, last |-> loc.free_page]]
    /\ TakeFrom(loc.free_page, PageCount(loc.size), SegmentsInLast(loc.size), << >>, 0)
    /\ UNCHANGED << mem, blocks, freed, halt >>

StartCell == Cell(ht_get(mem, loc.id, loc.start), loc.start_seg)
\* Fault: the last segment is taken whether or not it is free.
StartFree_Unchecked ==
    /\ loc.start # NoIndex /\ loc.start_seg # NoSegment
    /\ ht_get(mem, loc.id, loc.start) # NoPage

StartFree ==
    /\ loc.start # NoIndex /\ loc.start_seg # NoSegment
    /\ ht_get(mem, loc.id, loc.start) # NoPage
    /\ ~mem.headers[StartCell].occ

\* The block begins in the last segments of a page the thread has.
FromLastSegment ==
    /\ HasRoom
    /\ StartFree
    /\ LET first == ht_get(mem, loc.id, loc.start)
           left == loc.size - (NumSegments - loc.start_seg) * SEGMENTSIZE
       IN  /\ mem' = [mem EXCEPT
                        !.headers[StartCell] = Header(SegmentsInLast(left), TRUE, TRUE),
                        !.pages[first] = Pagedata(loc.id, TRUE, TRUE, @.index,
                                                  PageCount(left) + 1)]
           /\ TakeFrom(loc.start + 1, PageCount(left), SegmentsInLast(left),
                       << first >>, loc.start_seg)
    /\ UNCHANGED << view, blocks, freed, halt >>

FromNextPage ==
    /\ HasRoom
    /\ loc.start # NoIndex /\ ~StartFree
    /\ TakeFrom(loc.start + 1, PageCount(loc.size), SegmentsInLast(loc.size), << >>, 0)
    /\ UNCHANGED << mem, view, blocks, freed, halt >>

Taking == At("take") /\ loc.n # 0 /\ loc.actual < NumPages
Candidate ==
    IF loc.free_page = NoPage THEN ht_get(mem, loc.id, loc.pi) ELSE loc.actual
Takes == ~mem.pages[Candidate].occ \/ mem.pages[Candidate].pid = loc.id

\* The header after the block's last segment.
CutLastPage(headers) ==
    LET start == headers[Cell(Candidate, 0)]
    IN  IF loc.n = 1 /\ loc.last_len # NumSegments /\ loc.taken # << >>
        THEN [headers EXCEPT ![Cell(Candidate, loc.last_len)] =
                Header(start.size - loc.last_len, FALSE, start.last)]
        ELSE headers

Take ==
    /\ Taking
    /\ Candidate # NoPage /\ Takes
    /\ LET put == ht_put(mem, loc.id, loc.pi, Candidate)
           cut == [put EXCEPT !.headers = CutLastPage(@)]
       IN  mem' = IF loc.taken = << >>
                  THEN [cut EXCEPT
                          !.pages[Candidate] =
                              Pagedata(loc.id, TRUE, loc.n # 1, loc.pi, loc.n),
                          !.headers =
                              dm_allocate_block(@, Cell(Candidate, 0), loc.last_len)]
                  ELSE [cut EXCEPT !.pages[Candidate] =
                              Pagedata(loc.id, TRUE, FALSE, loc.pi, 1)]
    /\ view' = [view EXCEPT ![loc.id] =
                  [first |-> IF @.first > loc.pi THEN loc.pi ELSE @.first,
                   last |-> IF @.last < loc.pi THEN loc.pi ELSE @.last]]
    /\ loc' = [loc EXCEPT !.taken = Append(@, Candidate), !.n = @ - 1,
                          !.pi = @ + 1, !.actual = Candidate + 1]
    /\ UNCHANGED << blocks, pc, freed, halt >>

\* The page is another thread's.
TakeNext ==
    /\ Taking
    /\ Candidate # NoPage /\ ~Takes
    /\ loc' = [loc EXCEPT !.actual = Candidate + 1]
    /\ UNCHANGED << mem, view, blocks, pc, freed, halt >>

TakeEnds ==
    /\ At("take") /\ loc.n = 0
    /\ loc' = [id |-> loc.id, segments |-> loc.segments, taken |-> loc.taken,
               i |-> 1, cell |-> Cell(mem.pages[loc.taken[1]].index, loc.seg)]
    /\ pc' = "place"
    /\ UNCHANGED << mem, view, blocks, freed, halt >>

\* Fault: only the first page is swapped.
SwapNext_FirstOnly ==
    IF loc.i = 1 THEN swap(mem, loc.taken[1], mem.pages[loc.taken[1]].index) ELSE mem

SwapNext == swap(mem, loc.taken[loc.i], mem.pages[loc.taken[loc.i]].index)

\* The pages are swapped to where the thread sees them, one after the other.
Place ==
    /\ At("place")
    /\ \/ /\ loc.i < Len(loc.taken)
          /\ mem' = SwapNext
          /\ loc' = [loc EXCEPT !.i = @ + 1]
          /\ UNCHANGED << blocks, pc >>
       \/ /\ loc.i = Len(loc.taken)
          /\ Give(SwapNext, loc.cell, loc.segments)
    /\ UNCHANGED << view, freed, halt >>

-----------------------------------------------------------------------------
(* mydeallocate *)

\* A thread frees a block it has, or some other pointer.
Free(p, cell) ==
    /\ At("idle")
    /\ cell \in WildPointers \/ \E b \in blocks[p] : b.cell = cell
    /\ loc' = [id |-> p, cell |-> cell, first |-> view[p].first, last |-> view[p].last,
               pi |-> view[p].first, si |-> 0, ovf |-> 0,
               at |-> NoPage,           \* actual_index
               prev_free |-> FALSE, prev |-> 0, prev_size |-> 0]
    /\ pc' = "turn"
    /\ UNCHANGED << mem, view, blocks, freed, halt >>

SoughtPage == loc.cell \div NumSegments         \* page_index

\* free_ptr looks at the next page; the block's own is moved to where the
\* thread sees it.
TurnPage ==
    /\ Walking("turn")
    /\ Actual # NoPage
    /\ mem' = IF loc.pi = SoughtPage THEN swap(mem, loc.pi, Actual) ELSE mem
    /\ loc' = [loc EXCEPT !.at = IF loc.pi = SoughtPage THEN loc.pi ELSE Actual,
                          !.prev_free = FALSE, !.prev_size = 0]
    /\ pc' = "scan"
    /\ UNCHANGED << view, blocks, freed, halt >>

ScannedCell == Cell(loc.at, loc.si)
Scanned == mem.headers[ScannedCell]

\* Fault: the pages are not compared.
IsBlock_AnyPage == loc.si = loc.cell % NumSegments

IsBlock == ScannedCell = loc.cell               \* curr + 1 == p

\* Another segment.
Scan ==
    /\ At("scan") /\ loc.si < NumSegments /\ ~IsBlock
    /\ LET page == mem.pages[loc.at]
           len == Length(Scanned)
       IN  /\ loc' = [Advance(page, Overflow(Scanned, page), len) EXCEPT
                        !.prev = ScannedCell,
                        !.prev_free = ~Scanned.occ,
                        !.prev_size = IF Scanned.occ THEN @ ELSE len]
           /\ pc' = IF loc.si + len < NumSegments THEN "scan" ELSE "turn"
    /\ UNCHANGED << mem, view, blocks, freed, halt >>

\* "Cannot free an already free pointer!", "This pointer was not malloc'd!"
FreeFails ==
    /\ \/ At("scan") /\ loc.si < NumSegments /\ IsBlock /\ ~Scanned.occ
       \/ At("turn") /\ loc.pi > loc.last
    /\ End("badfree")

LastPageOfBlock ==
    LET page == mem.pages[loc.at]
    IN  ht_get(mem, page.pid, page.index + page.length - 1)

\* Fault: neighbours are never merged.
MergeNext_Never(headers, cell, size) == headers

MergeNext(headers, cell, size) ==
    LET next == headers[cell + size]
    IN  IF next.occ THEN headers
        ELSE [headers EXCEPT ![cell] = Header(size + next.size, FALSE, next.last)]

\* free_cont_pages: the block's pages are single again, and what it had of its
\* last page is free.
free_cont_pages(m) ==
    LET page == m.pages[loc.at]
        len == Scanned.size
        first == Cell(LastPageOfBlock, 0)
        cleared == [m.headers EXCEPT ![first] = Header(len, FALSE, len >= NumSegments)]
    IN  [m EXCEPT !.pages[loc.at] = Pagedata(page.pid, TRUE, FALSE, page.index, 1),
                  !.headers = IF len < NumSegments THEN MergeNext(cleared, first, len)
                                                   ELSE cleared]

FreeSegments ==
    LET spans == Scanned.last /\ mem.pages[loc.at].ovf
        m == IF spans THEN free_cont_pages(mem) ELSE mem
        cleared == [m.headers EXCEPT ![ScannedCell] =
                    Header(Length(Scanned), FALSE, Scanned.last)]
        merged == IF ~Scanned.last /\ loc.si + Length(Scanned) < NumSegments
                  THEN MergeNext(cleared, ScannedCell, Length(Scanned)) ELSE cleared
        joined == IF loc.prev_free
                  THEN [merged EXCEPT ![loc.prev] =
                          Header(loc.prev_size + merged[ScannedCell].size, FALSE,
                                 merged[ScannedCell].last)]
                  ELSE merged
    IN  [m EXCEPT !.headers = joined]

Found ==
    /\ At("scan") /\ loc.si < NumSegments /\ IsBlock /\ Scanned.occ
    /\ IF Scanned.last /\ mem.pages[loc.at].ovf /\ LastPageOfBlock = NoPage
       THEN End("crash")
       ELSE /\ mem' = FreeSegments
            /\ blocks' = [blocks EXCEPT ![loc.id] = {b \in @ : b.cell # loc.cell}]
            /\ loc' = [id |-> loc.id, first |-> loc.first, last |-> loc.last,
                       pi |-> loc.first, si |-> 0, ovf |-> 0,
                       free_start |-> loc.first]
            /\ freed' = TRUE
            /\ pc' = "release"
            /\ UNCHANGED << view, halt >>

-----------------------------------------------------------------------------
(* free_process_pages *)

\* Pages that are all free are given back at the front of the thread's memory;
\* those at its end are found.
Release ==
    /\ Walking("release") /\ loc.si < NumSegments
    /\ Actual # NoPage
    /\ LET page == mem.pages[Actual]
           empty == loc.si = 0 /\ ~Here.occ /\ Here.last
           front == empty /\ loc.free_start = loc.first
           left == IF front THEN Released(loc.id, loc.pi) ELSE page
           next == Advance(left, Overflow(Here, page), Length(Here))
       IN  /\ loc' = [next EXCEPT !.free_start =
                        CASE Here.occ -> NoPage
                          [] empty /\ loc.free_start = NoPage -> loc.pi
                          [] OTHER -> loc.free_start]
           /\ IF front
              THEN /\ mem' = [ht_delete(mem, loc.id, loc.pi) EXCEPT
                                !.pages[Actual] = left]
                   /\ view' = [view EXCEPT ![loc.id].first = loc.pi + 1]
              ELSE UNCHANGED << mem, view >>
    /\ UNCHANGED << blocks, pc, freed, halt >>

\* Those at the end are given back.
FreeTail == loc.free_start .. loc.last

ReleaseEnds ==
    /\ At("release") /\ loc.pi > loc.last
    /\ LET tail == IF loc.free_start \notin {NoPage, loc.first} THEN FreeTail ELSE {}
           page(index) == ht_get(mem, loc.id, index)
           last == IF tail # {} THEN loc.free_start - 1 ELSE view[loc.id].last
       IN  IF \E index \in tail : page(index) = NoPage
           THEN End("crash")
           ELSE /\ mem' = [mem EXCEPT
                    !.pages = [a \in Pages |->
                        IF \E index \in tail : page(index) = a
                        THEN Released(loc.id, Max({index \in tail : page(index) = a}))
                        ELSE @[a]],
                    !.ht[loc.id] = [index \in Pages |->
                        IF index \in tail THEN NoPage ELSE @[index]]]
                /\ view' = [view EXCEPT ![loc.id] =
                              IF @.first > last THEN NoView ELSE [@ EXCEPT !.last = last]]
                /\ pc' = "idle"
                /\ loc' = NoCall
                /\ UNCHANGED << blocks, freed, halt >>

-----------------------------------------------------------------------------

\* In each of the three walks: the block before this page fills it, so there is
\* no segment to look at.
SkipPage ==
    /\ \/ pc \in {"search", "release"} /\ Actual # NoPage
       \/ pc = "scan"
    /\ Walking(pc) /\ loc.si >= NumSegments
    /\ loc' = NextPage(mem.pages[IF pc = "scan" THEN loc.at ELSE Actual], loc.ovf)
    /\ pc' = IF pc = "scan" THEN "turn" ELSE pc
    /\ UNCHANGED << mem, view, blocks, freed, halt >>

\* A page that the thread should have is not in the page table, or the pages
\* ran out and the list of pages taken is read past what was written.
Segfault ==
    /\ \/ pc \in {"search", "turn", "release"} /\ loc.pi <= loc.last /\ Actual = NoPage
       \/ pc = "take" /\ loc.n # 0 /\ (Taking => Candidate = NoPage)
    /\ halt = "none"
    /\ End("crash")

-----------------------------------------------------------------------------

\* The segment lies where thread p sees it.
InPlace(p, cell) ==
    LET page == mem.pages[cell \div NumSegments]
    IN  page.occ /\ page.pid = p /\ page.index = cell \div NumSegments

\* A program stores a byte where a later segment of its block begins: in the page
\* that lies there, whoever has it.
Store(p) ==
    /\ At("idle")
    /\ \E b \in blocks[p], byte \in UserBytes : \E cell \in b.cell + 1 .. b.cell + b.len - 1 :
          /\ cell \in Cells
          /\ InPlace(p, cell) \/ StoresAway
          /\ mem' = [mem EXCEPT !.headers[cell] = Decoded(byte)]
    /\ UNCHANGED << view, blocks, pc, loc, freed, halt >>

\* No thread calls.
Rest == At("idle") /\ UNCHANGED vars

\* The process is over.
Halted == halt # "none" /\ UNCHANGED vars

Step ==
    \/ Search \/ NotEnoughPages \/ SearchFails \/ SearchFailsFull
    \/ NoRoom \/ FirstPages \/ FromLastSegment \/ FromNextPage
    \/ Take \/ TakeNext \/ TakeEnds \/ Place
    \/ TurnPage \/ Scan \/ FreeFails \/ Found
    \/ Release \/ ReleaseEnds
    \/ SkipPage \/ Segfault

Next ==
    \/ \E p \in Pids :
          \/ \E size \in Sizes : Malloc(p, size)
          \/ \E cell \in Cells : Free(p, cell)
          \/ Store(p)
    \/ Step
    \/ Rest
    \/ Halted

Spec == Init /\ [][Next]_vars /\ WF_vars(Step)

-----------------------------------------------------------------------------
(* Properties *)

Idle == pc = "idle" /\ halt = "none"

\* Types: pages and headers are what their bytes can hold, the page table names
\* pages, a thread's memory lies within the block.
TypeOK ==
    /\ mem.pages \in [Pages -> [pid : Owners, occ : BOOLEAN, ovf : BOOLEAN,
                                index : Pages, length : 1 .. NumPages]]
    /\ mem.headers \in [Cells -> [occ : BOOLEAN, last : BOOLEAN,
                                  size : 1 .. NumSegments]]
    /\ mem.ht \in [Owners -> [Pages -> Pages \cup {NoPage}]]
    /\ view \in [Pids -> [first : NoPage .. NumPages, last : NoPage .. NumPages - 1]]
    /\ \A p \in Pids : \A b \in blocks[p] : b.cell \in Cells /\ b.len \in Nat \ {0}
    /\ loc.id \in Owners
    /\ pc \in {"idle", "search", "pages", "take", "place", "turn", "scan", "release"}
    /\ freed \in BOOLEAN
    /\ halt \in {"none", "nomem", "badfree", "crash"}

\* Between calls, the page table finds every page of a thread's memory (from
\* first_page_index to last_page_index), and it is the thread's page at that
\* index: swap, page_allocate and free_process_pages leave page table and page
\* data in agreement, whoever's pages they move.
PagesMapped ==
    Idle => \A p \in Pids : \A index \in view[p].first .. view[p].last :
        LET page == mem.ht[p][index]
        IN  /\ page # NoPage
            /\ mem.pages[page].occ
            /\ mem.pages[page].pid = p
            /\ mem.pages[page].index = index

CellsOf(b) == b.cell .. b.cell + b.len - 1

\* myallocate never gives a thread the segments of a block it still has, and
\* gives none outside the thread's memory, where programs store into blocks that
\* lie in place (this and the next: ~StoresAway).
BlocksDisjoint ==
    Idle => \A p \in Pids : \A b \in blocks[p] :
        /\ CellsOf(b) \subseteq Cell(view[p].first, 0) .. Cell(view[p].last + 1, 0) - 1
        /\ \A c \in blocks[p] : b # c => CellsOf(b) \cap CellsOf(c) = {}

\* When its last block is freed, all pages of a thread are given back, those
\* before the block and those behind it alike.
NothingLeaks ==
    Idle => \A p \in Pids : blocks[p] = {} =>
        \A page \in Pages : mem.pages[page].occ => mem.pages[page].pid # p

\* The segments of b lie where thread p sees them.
IsResident(p, b) == \A cell \in CellsOf(b) : InPlace(p, cell)

\* When myallocate returns, the block it gives lies where the thread sees it,
\* however many pages had to be swapped into their place.
Resident ==
    [][\A p \in Pids : \A b \in blocks'[p] \ blocks[p] : IsResident(p, b)']_vars

\* mydeallocate frees a pointer if and only if the thread has a block there;
\* any other one ends in error_message, even if it points into the thread's
\* own memory or to a block just freed.  (With several blocks it may also point to
\* a page that the thread sees elsewhere, and then it is taken for a block there.)
HasSought == \E b \in blocks[loc.id] : b.cell = loc.cell
FreesBlocksOnly ==
    [][/\ (pc = "scan" /\ pc' = "release") =>
             HasSought /\ mem.pages[loc.at].index = SoughtPage
       /\ (halt # "badfree" /\ halt' = "badfree") => ~HasSought]_vars

\* Every call returns, or ends the process: the walk over the thread's pages
\* gets to the end of them.
CallsReturn == []<>(Idle \/ halt # "none")

\* Three properties the code does not have (README, "Known not to hold"): a pointer
\* that mydeallocate refuses, with "This pointer was not malloc'd!" or as already
\* free, is none that its thread has, whatever programs store into their blocks ...
OnlyStraysRefused == [][halt # "badfree" /\ halt' = "badfree" => ~HasSought]_vars

\* ... blocks stay where their thread sees them, whatever the others allocate ...
StaysResident == Idle => \A p \in Pids : \A b \in blocks[p] : IsResident(p, b)

\* ... and the allocator only goes where its thread has pages.
NoCrash == halt # "crash"
=============================================================================
