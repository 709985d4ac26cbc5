---------------------------- MODULE PageResidency ----------------------------
(***************************************************************************)
(* The pages a mapped store keeps in memory (bpann/src/index/              *)
(* tree_residency.rs, tree_store.rs, mmap_store.rs).  The incremental tree *)
(* starts in anonymous memory and moves to scratch files when it outgrows  *)
(* its budget; an observation column is a file from the start.  A file     *)
(* larger than the budget is tracked: each access marks the windows it     *)
(* touches in a bitmap shared by all readers, a newly marked window counts *)
(* against the budget, and whoever exceeds it gives all pages back to the  *)
(* kernel and wipes bitmap and count, word by word and without a lock.     *)
(*                                                                         *)
(* A page is a page of the tree or a row of a column; what it holds is     *)
(* "fresh", "rows", or "gone" if memory without a file behind it was given *)
(* back.  Writers are alone, readers are not.                              *)
(***************************************************************************)
EXTENDS Integers, FiniteSets

CONSTANTS
  Readers,       \* threads
  MaxPages,      \* bound on the pages of a store
  FirstCapacity, \* GROW_MIN_SLOTS, MMAP_GROW_ROWS
  PageBytes,     \* bytes of a page's slot, or of a row
  MetaBytes,     \* bytes of a page's record in the metadata file of a tree
  WindowBytes,   \* UNIT_BYTES
  Budget,        \* TREE_RESIDENT_BUDGET_BYTES, DEFAULT_RESIDENT_BUDGET_BYTES
  BitOf,         \* the hash of a window
  WordOf         \* the word of the bitmap a bit is in

ASSUME ResidencyAssumption ==
  /\ {MaxPages, FirstCapacity, PageBytes, WindowBytes} \subseteq Nat \ {0}
  /\ {MetaBytes, Budget} \subseteq Nat

VARIABLES
  kind,     \* "tree" or "column"
  backing,  \* "anon" or "file"
  capacity, \* pages the mapping has room for
  content,  \* what each page holds
  tracking,
  bits,     \* the bitmap: the bits that are set
  bytes,    \* the count
  resident, \* windows of the mapping that are in memory
  raced,    \* of the windows, those of a call that overlapped the last release
  reader    \* the threads

residencyVars ==
  <<kind, backing, capacity, content, tracking, bits, bytes, resident, raced, reader>>

Pages == DOMAIN content
HoldsRows(p) == content[p] = "rows"

\* The windows of a page's slot.
WindowsOf(p) == ((p - 1) * PageBytes) \div WindowBytes .. (p * PageBytes - 1) \div WindowBytes

\* The hash of a window is a bit of the bitmap.
ASSUME BitmapAssumption ==
  /\ IsFiniteSet(Readers)
  /\ \A p \in 1..MaxPages : \A w \in WindowsOf(p) : BitOf[w] \in DOMAIN WordOf

Record == IF kind = "tree" THEN MetaBytes ELSE 0
MappedBytes(n) == n * (Record + PageBytes)
Reserved == capacity * Record

Idle == [at |-> "idle", page |-> 1, todo |-> {}, words |-> {}, writes |-> FALSE]
InCall(t) == reader[t].at # "idle"
Quiet == \A t \in Readers : ~InCall(t)
Releasing == \E t \in Readers : reader[t].at \in {"forget", "zero"}
Called == UNION {WindowsOf(reader[t].page) : t \in {u \in Readers : InCall(u)}}

Holds(t) == reader[t].at = "touch" /\ reader[t].todo = {}

At(t, where) == reader' = [reader EXCEPT ![t].at = where]

---------------------------------------------------------------------------
(* Growth, by a writer.  Each mapping may fail.                            *)

Moves(n) == backing = "anon" /\ MappedBytes(n) > Budget

\* grow, after it moved the store if it had to; ensure_capacity.  A new mapping has no
\* pages in memory, but what was marked stays marked.
Mapped(n) ==
  /\ capacity' = n /\ tracking' = (MappedBytes(n) > Budget)
  /\ backing' = IF Moves(n) THEN "file" ELSE backing
  /\ resident' = IF backing' = "file" THEN {} ELSE resident

\* The files could not be made, or were made and could not be enlarged: what was in
\* anonymous memory is in the files by then.
MapFails(n) ==
  /\ UNCHANGED <<capacity, tracking>>
  /\ \/ UNCHANGED <<backing, resident>>
     \/ Moves(n) /\ backing' = "file" /\ resident' = {}

NextCapacity == IF kind = "tree" THEN 2 * capacity ELSE Cardinality(Pages) + FirstCapacity

Begun(t, p, tracked, writes) ==
  reader' = [reader EXCEPT ![t] =
    [at |-> "touch", page |-> p, todo |-> IF tracked THEN WindowsOf(p) ELSE {},
     words |-> {}, writes |-> writes]]

\* alloc and push_entry, mmap_append
AppendPage(t) ==
  /\ Quiet /\ Cardinality(Pages) < MaxPages
  /\ LET p == Cardinality(Pages) + 1
     IN /\ IF p > capacity THEN Mapped(NextCapacity)
           ELSE UNCHANGED <<backing, capacity, tracking, resident>>
        /\ content' = [q \in 1..p |-> IF q = p THEN "fresh" ELSE content[q]]
        /\ Begun(t, p, tracking', TRUE)
  /\ UNCHANGED <<kind, bits, bytes, raced>>

AppendPageFails ==
  /\ Quiet /\ Cardinality(Pages) = capacity /\ capacity < MaxPages
  /\ MapFails(NextCapacity)
  /\ UNCHANGED <<kind, content, bits, bytes, raced, reader>>

\* release_resident_pages
ReleaseColumn ==
  /\ Quiet /\ kind = "column"
  /\ resident' = {} /\ bits' = {} /\ bytes' = 0 /\ raced' = {}
  /\ UNCHANGED <<kind, backing, capacity, content, tracking, reader>>

---------------------------------------------------------------------------
(* An access: touch, then the slice is read or written for as long as the  *)
(* caller holds it.                                                        *)

\* slot_words, mmap_row_slice
Read(t) ==
  /\ ~InCall(t) /\ \A u \in Readers : InCall(u) => ~reader[u].writes
  /\ \E p \in Pages : /\ Begun(t, p, tracking, FALSE)
                      /\ raced' = IF Releasing THEN raced \cup WindowsOf(p) ELSE raced
  /\ UNCHANGED <<kind, backing, capacity, content, tracking, bits, bytes, resident>>

\* slot_words_mut
Write(t) ==
  /\ Quiet
  /\ \E p \in Pages : Begun(t, p, tracking, TRUE)
  /\ UNCHANGED <<kind, backing, capacity, content, tracking, bits, bytes, resident, raced>>

IsNext(t, w) == w \in reader[t].todo /\ \A v \in reader[t].todo : w <= v

\* touch_tracked: the first to set a window's bit counts it.
Mark(t) ==
  /\ reader[t].at = "touch"
  /\ \E w \in reader[t].todo :
       /\ IsNext(t, w)
       /\ bits' = bits \cup {BitOf[w]}
       /\ reader' = IF BitOf[w] \in bits THEN [reader EXCEPT ![t].todo = @ \ {w}]
                    ELSE [reader EXCEPT ![t].todo = @ \ {w}, ![t].at = "count"]
  /\ UNCHANGED <<kind, backing, capacity, content, tracking, bytes, resident, raced>>

Count(t) ==
  /\ reader[t].at = "count"
  /\ bytes' = bytes + WindowBytes
  /\ At(t, IF bytes' + Reserved > Budget THEN "release" ELSE "touch")
  /\ UNCHANGED <<kind, backing, capacity, content, tracking, bits, resident, raced>>

\* An access faults the whole window in.
Access(t) ==
  /\ Holds(t)
  /\ resident' = resident \cup WindowsOf(reader[t].page)
  /\ content' = IF reader[t].writes THEN [content EXCEPT ![reader[t].page] = "rows"] ELSE content
  /\ UNCHANGED <<kind, backing, capacity, tracking, bits, bytes, raced, reader>>

Leave(t) ==
  /\ Holds(t)
  /\ reader' = [reader EXCEPT ![t] = Idle]
  /\ UNCHANGED <<kind, backing, capacity, content, tracking, bits, bytes, resident, raced>>

---------------------------------------------------------------------------
(* release and forget                                                      *)

\* MADV_DONTNEED: a file keeps what its pages hold, anonymous memory does not.
GivenBack == [p \in Pages |-> IF backing = "anon" /\ HoldsRows(p) THEN "gone" ELSE content[p]]

Release(t) ==
  /\ reader[t].at = "release"
  /\ resident' = {} /\ content' = GivenBack /\ raced' = Called
  /\ reader' = [reader EXCEPT ![t].at = "forget", ![t].words = {WordOf[b] : b \in DOMAIN WordOf}]
  /\ UNCHANGED <<kind, backing, capacity, tracking, bits, bytes>>

\* Mutant: the words of the bitmap are kept.
BitsKept(word) == bits
BitsWithout(word) == {b \in bits : WordOf[b] # word}

Forget(t) ==
  /\ reader[t].at = "forget"
  /\ \E word \in reader[t].words :
       /\ \A other \in reader[t].words : word <= other
       /\ bits' = BitsWithout(word)
       /\ reader' = [reader EXCEPT ![t].words = @ \ {word},
                                   ![t].at = IF reader[t].words = {word} THEN "zero" ELSE @]
  /\ UNCHANGED <<kind, backing, capacity, content, tracking, bytes, resident, raced>>

Zero(t) ==
  /\ reader[t].at = "zero"
  /\ bytes' = 0
  /\ At(t, "touch")
  /\ UNCHANGED <<kind, backing, capacity, content, tracking, bits, resident, raced>>

\* copy_released: a copy of a tree in files gives back each part of it once it is copied.
CopyPart ==
  /\ kind = "tree" /\ backing = "file" /\ \A t \in Readers : InCall(t) => ~reader[t].writes
  /\ \E w \in resident : resident' = resident \ {w}
  /\ UNCHANGED <<kind, backing, capacity, content, tracking, bits, bytes, raced, reader>>

---------------------------------------------------------------------------
ResidencyInit ==
  /\ kind \in {"tree", "column"}
  /\ backing = IF kind = "tree" THEN "anon" ELSE "file"
  /\ capacity = FirstCapacity /\ content = [p \in {} |-> "fresh"]
  /\ tracking = (kind = "column" /\ MappedBytes(FirstCapacity) > Budget)
  /\ bits = {} /\ bytes = 0 /\ resident = {} /\ raced = {}
  /\ reader = [t \in Readers |-> Idle]

Step(t) ==
  \/ AppendPage(t) \/ Read(t) \/ Write(t)
  \/ Mark(t) \/ Count(t) \/ Access(t) \/ Leave(t)
  \/ Release(t) \/ Forget(t) \/ Zero(t)

ResidencyNext ==
  \/ \E t \in Readers : Step(t)
  \/ AppendPageFails \/ ReleaseColumn \/ CopyPart

ResidencySpec == ResidencyInit /\ [][ResidencyNext]_residencyVars

---------------------------------------------------------------------------
(* Properties.                                                             *)

BitsOf(S) == {BitOf[w] : w \in S}

\* No page is given back to the kernel before a file holds it.
PagesKept == \A p \in Pages : content[p] # "gone"

\* Whatever is in memory is marked, except for the windows of calls that overlapped the last
\* release.
ResidentMarked == \A w \in resident : w \in raced \/ BitOf[w] \in bits

\* Between calls the count covers what is in memory, with the same exception, and fits.
CountCovers ==
  Quiet => /\ Cardinality(BitsOf(resident) \ BitsOf(raced)) * WindowBytes <= bytes
           /\ bytes <= Budget

(* tree_store.rs spill, update_tracking; tree_residency.rs touch_tracked, release, forget:  *)
(* whatever mapping fails while a store moves to files, giving pages back loses none, and   *)
(* the budget is kept although the marks, the counts and the wiping of both interleave.     *)
PageMemorySound == PagesKept /\ (tracking => ResidentMarked /\ CountCovers)
=============================================================================
