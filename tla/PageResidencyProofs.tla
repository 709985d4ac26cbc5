------------------------- MODULE PageResidencyProofs -------------------------
(***************************************************************************)
(* What MCStore checks of the pages of a mapping on a small instance, for  *)
(* any number of readers and pages, any budget and any hash: giving pages  *)
(* back loses none, and what is in memory is marked or was touched by a    *)
(* call that overlapped the last release, and between calls the count      *)
(* covers it and fits the budget.                                          *)
(*                                                                         *)
(* Pages are given back only by a call that is tracked, and only a mapping *)
(* of a file is (InFile).  Bits are wiped while somebody releases, and     *)
(* from the release on every window in memory is one of a call that        *)
(* overlapped it (Overlapped); a call that went on before its windows were *)
(* wiped has marked them (Marking).  The second half of the module is      *)
(* about the count.                                                        *)
(***************************************************************************)
EXTENDS PageResidency, FiniteSetTheorems, TLAPS

Tracked == {"count", "release", "forget", "zero"}

ReaderType ==
  [at : {"idle", "touch"} \cup Tracked, page : Nat, todo : SUBSET Int,
   words : SUBSET {WordOf[b] : b \in DOMAIN WordOf}, writes : BOOLEAN]

PagesType == \E n \in Nat : content \in [1..n -> {"fresh", "rows", "gone"}]

ResidencyType ==
  /\ backing \in {"anon", "file"}
  /\ PagesType
  /\ reader \in [Readers -> ReaderType]

InFile ==
  /\ tracking => backing = "file"
  /\ \A t \in Readers :
       /\ reader[t].todo # {} \/ reader[t].at \in Tracked => tracking
       /\ ~InCall(t) => reader[t].todo = {}

Overlapped ==
  Releasing => /\ resident \subseteq raced
               /\ \A t \in Readers : InCall(t) => WindowsOf(reader[t].page) \subseteq raced

MarkedFor(w) == w \in raced \/ BitOf[w] \in bits

Marking ==
  tracking =>
    \A t \in Readers :
      InCall(t) => \A w \in WindowsOf(reader[t].page) \ reader[t].todo : MarkedFor(w)

ResidencyInv ==
  /\ ResidencyType /\ InFile /\ PagesKept /\ Overlapped /\ Marking
  /\ tracking => ResidentMarked

----------------------------------------------------------------------------
\* The next page has the number of the pages and one.
LEMMA NextPage ==
  ASSUME NEW n \in Nat, content \in [1..n -> {"fresh", "rows", "gone"}]
  PROVE  Pages = 1..n /\ Cardinality(Pages) = n
<1>1. Pages = 1..n
  BY DEF Pages
<1>2. Cardinality(1..n) = IF 1 > n THEN 0 ELSE n - 1 + 1
  BY FS_Interval
<1> QED
  BY <1>1, <1>2

LEMMA WindowsAreInts == \A p : WindowsOf(p) \subseteq Int
BY DEF WindowsOf

LEMMA InitResidency == ResidencyInit => ResidencyInv
<1> SUFFICES ASSUME ResidencyInit PROVE ResidencyInv
  OBVIOUS
<1>1. content \in [1..0 -> {"fresh", "rows", "gone"}]
  BY DEF ResidencyInit
<1>2. ResidencyType
  BY <1>1 DEF ResidencyInit, ResidencyType, PagesType, ReaderType, Idle, Tracked
<1>3. InFile /\ PagesKept /\ Overlapped /\ Marking /\ (tracking => ResidentMarked)
  BY DEF ResidencyInit, InFile, PagesKept, Overlapped, Marking, ResidentMarked, Releasing,
         InCall, Idle, Tracked, Pages
<1> QED
  BY <1>2, <1>3 DEF ResidencyInv

----------------------------------------------------------------------------
(* Growth and calls that begin: nobody else writes.                         *)

\* A mapping that is tracked is one of a file, and a new mapping of a file is empty.
LEMMA MappedFacts ==
  ASSUME NEW n, Mapped(n), backing \in {"anon", "file"}
  PROVE  /\ backing' \in {"anon", "file"}
         /\ tracking' => backing' = "file" /\ resident' = {}
         /\ resident' \subseteq resident
<1>1. CASE MappedBytes(n) > Budget
  <2>1. tracking' = TRUE
    BY <1>1, Zenon DEF Mapped
  <2>2. backing' = "file"
    BY <1>1, Zenon DEF Mapped, Moves
  <2> QED
    BY <2>1, <2>2, Zenon DEF Mapped
<1>2. CASE ~(MappedBytes(n) > Budget)
  <2>1. ~tracking'
    BY <1>2, Zenon DEF Mapped
  <2>2. backing' = backing
    BY <1>2, Zenon DEF Mapped, Moves
  <2> QED
    BY <2>1, <2>2, Zenon DEF Mapped
<1> QED
  BY <1>1, <1>2

LEMMA AppendPageStep ==
  ASSUME ResidencyInv, NEW t \in Readers, AppendPage(t)
  PROVE  ResidencyInv'
<1> DEFINE p == Cardinality(Pages) + 1
<1> PICK n \in Nat : content \in [1..n -> {"fresh", "rows", "gone"}]
  BY DEF ResidencyInv, ResidencyType, PagesType
<1>1. Pages = 1..n /\ p = n + 1
  BY NextPage
<1>2. /\ Quiet
      /\ Mapped(NextCapacity) \/ UNCHANGED <<backing, capacity, tracking, resident>>
      /\ content' = [q \in 1..p |-> IF q = p THEN "fresh" ELSE content[q]]
      /\ Begun(t, p, tracking', TRUE)
      /\ UNCHANGED <<kind, bits, bytes, raced>>
  BY DEF AppendPage
<1> HIDE DEF p
<1>3. /\ backing' \in {"anon", "file"}
      /\ tracking' => backing' = "file"
      /\ tracking' => resident' = {} \/ (tracking /\ resident' = resident)
  <2>1. CASE Mapped(NextCapacity)
    BY <2>1, MappedFacts DEF ResidencyInv, ResidencyType
  <2>2. CASE UNCHANGED <<backing, capacity, tracking, resident>>
    BY <2>2 DEF ResidencyInv, ResidencyType, InFile
  <2> QED
    BY <1>2, <2>1, <2>2
<1>4. content' \in [1..n + 1 -> {"fresh", "rows", "gone"}] /\ PagesKept'
  BY <1>1, <1>2 DEF ResidencyInv, PagesKept, Pages
<1>5. /\ reader' \in [Readers -> ReaderType]
      /\ \A u \in Readers : u # t => reader'[u] = reader[u]
      /\ reader'[t].at = "touch" /\ reader'[t].page = p
      /\ reader'[t].todo = IF tracking' THEN WindowsOf(p) ELSE {}
  BY <1>1, <1>2, WindowsAreInts DEF Begun, ResidencyInv, ResidencyType, ReaderType
<1>6. \A u \in Readers : u # t => reader'[u].at = "idle" /\ reader'[u].todo = {}
  <2>1. \A u \in Readers : reader[u].at = "idle"
    BY <1>2 DEF Quiet, InCall
  <2>2. \A u \in Readers : reader[u].todo = {}
    BY <2>1 DEF ResidencyInv, InFile, InCall
  <2> QED
    BY <1>5, <2>1, <2>2
<1>7. ResidencyType'
  BY <1>3, <1>4, <1>5 DEF ResidencyType, PagesType
<1>8. InFile'
  <2>1. \A u \in Readers : u # t => reader'[u].todo = {} /\ reader'[u].at \notin Tracked
    BY <1>6 DEF Tracked
  <2>2. reader'[t].at \notin Tracked /\ reader'[t].at # "idle"
        /\ (reader'[t].todo # {} => tracking')
    BY <1>3, <1>5 DEF Tracked
  <2> QED
    BY <1>3, <2>1, <2>2 DEF InFile, InCall
<1>9. Overlapped' /\ Marking'
  BY <1>5, <1>6 DEF Overlapped, Marking, Releasing, InCall
<1>10. (tracking => ResidentMarked)'
  BY <1>2, <1>3 DEF ResidencyInv, ResidentMarked
<1> QED
  BY <1>4, <1>7, <1>8, <1>9, <1>10 DEF ResidencyInv

\* What a failed mapping leaves: the store where it was, or in its files, with nothing of
\* them in memory.
LEMMA AppendPageFailsStep ==
  ASSUME ResidencyInv, AppendPageFails
  PROVE  ResidencyInv'
<1>1. /\ Quiet /\ UNCHANGED <<tracking, content, bits, raced, reader>>
      /\ backing' = backing \/ backing' = "file"
      /\ resident' \subseteq resident
  BY DEF AppendPageFails, MapFails
<1>2. ResidencyType' /\ InFile' /\ PagesKept'
  BY <1>1
     DEF ResidencyInv, ResidencyType, PagesType, InFile, InCall, PagesKept, Pages
<1>3. ~Releasing' /\ Overlapped'
  BY <1>1 DEF Overlapped, Releasing, Quiet, InCall
<1>4. Marking' /\ (tracking => ResidentMarked)'
  BY <1>1 DEF ResidencyInv, Marking, MarkedFor, ResidentMarked, InCall
<1> QED
  BY <1>2, <1>3, <1>4 DEF ResidencyInv

LEMMA ReleaseColumnStep ==
  ASSUME ResidencyInv, ReleaseColumn
  PROVE  ResidencyInv'
<1>1. /\ Quiet /\ UNCHANGED <<backing, tracking, content, reader>> /\ resident' = {}
  BY DEF ReleaseColumn
<1>2. ResidencyType' /\ InFile' /\ PagesKept'
  BY <1>1
     DEF ResidencyInv, ResidencyType, PagesType, InFile, InCall, PagesKept, Pages
<1>3. Overlapped' /\ Marking' /\ (tracking => ResidentMarked)'
  BY <1>1 DEF Overlapped, Releasing, Quiet, InCall, Marking, ResidentMarked
<1> QED
  BY <1>2, <1>3 DEF ResidencyInv

\* A call that begins has marked nothing, and its windows count as raced if a release is
\* under way.
LEMMA BeginStep ==
  ASSUME ResidencyInv, NEW t \in Readers, NEW p \in Pages, NEW writes \in BOOLEAN,
         ~InCall(t), Begun(t, p, tracking, writes),
         raced' = IF Releasing THEN raced \cup WindowsOf(p) ELSE raced,
         UNCHANGED <<kind, backing, capacity, content, tracking, bits, bytes, resident>>
  PROVE  ResidencyInv'
<1>1. p \in Nat
  BY DEF ResidencyInv, ResidencyType, PagesType, Pages
<1>2. /\ reader' \in [Readers -> ReaderType]
      /\ \A u \in Readers : u # t => reader'[u] = reader[u]
      /\ reader'[t].at = "touch" /\ reader'[t].page = p
      /\ reader'[t].todo = IF tracking THEN WindowsOf(p) ELSE {}
  BY <1>1, WindowsAreInts DEF Begun, ResidencyInv, ResidencyType, ReaderType
<1>3. ResidencyType' /\ PagesKept'
  BY <1>2 DEF ResidencyInv, ResidencyType, PagesType, PagesKept, Pages
<1>4. InFile'
  BY <1>2 DEF ResidencyInv, InFile, InCall, Tracked
<1>5. Releasing' => Releasing
  BY <1>2 DEF Releasing
<1>6. Overlapped'
  BY <1>2, <1>5 DEF ResidencyInv, Overlapped, InCall
<1>7. Marking' /\ (tracking => ResidentMarked)'
  BY <1>2 DEF ResidencyInv, Marking, MarkedFor, ResidentMarked, InCall
<1> QED
  BY <1>3, <1>4, <1>6, <1>7 DEF ResidencyInv

LEMMA ReadWriteStep ==
  ASSUME ResidencyInv, NEW t \in Readers, Read(t) \/ Write(t)
  PROVE  ResidencyInv'
<1>1. CASE Read(t)
  BY <1>1, BeginStep DEF Read
<1>2. CASE Write(t)
  <2>1. ~Releasing
    BY <1>2 DEF Write, Quiet, InCall, Releasing
  <2> QED
    BY <1>2, <2>1, BeginStep DEF Write, Quiet
<1> QED
  BY <1>1, <1>2

----------------------------------------------------------------------------
(* The steps of a call under way.                                          *)

LEMMA MarkStep ==
  ASSUME ResidencyInv, NEW t \in Readers, Mark(t)
  PROVE  ResidencyInv'
<1> PICK w \in reader[t].todo :
      /\ bits' = bits \cup {BitOf[w]}
      /\ reader' = IF BitOf[w] \in bits THEN [reader EXCEPT ![t].todo = @ \ {w}]
                   ELSE [reader EXCEPT ![t].todo = @ \ {w}, ![t].at = "count"]
  BY DEF Mark
<1>1. /\ reader[t].at = "touch" /\ tracking
      /\ UNCHANGED <<backing, content, tracking, resident, raced>>
  BY DEF Mark, ResidencyInv, InFile
<1>2. /\ reader' \in [Readers -> ReaderType]
      /\ \A u \in Readers : u # t => reader'[u] = reader[u]
      /\ reader'[t].at \in {"touch", "count"} /\ reader'[t].page = reader[t].page
      /\ reader'[t].todo = reader[t].todo \ {w}
  <2>1. reader \in [Readers -> ReaderType]
    BY DEF ResidencyInv, ResidencyType
  <2>2. CASE BitOf[w] \in bits
    BY <1>1, <2>1, <2>2 DEF ReaderType
  <2>3. CASE BitOf[w] \notin bits
    BY <1>1, <2>1, <2>3 DEF ReaderType, Tracked
  <2> QED
    BY <2>2, <2>3
<1>3. ResidencyType' /\ PagesKept'
  BY <1>1, <1>2 DEF ResidencyInv, ResidencyType, PagesType, PagesKept, Pages
<1>4. InFile'
  BY <1>1, <1>2 DEF ResidencyInv, InFile, InCall, Tracked
<1>5. Overlapped'
  <2>1. Releasing' => Releasing
    BY <1>2 DEF Releasing
  <2> QED
    BY <1>1, <1>2, <2>1 DEF ResidencyInv, Overlapped, InCall
<1>6. Marking' /\ (tracking => ResidentMarked)'
  BY <1>1, <1>2 DEF ResidencyInv, Marking, MarkedFor, ResidentMarked, InCall
<1> QED
  BY <1>3, <1>4, <1>5, <1>6 DEF ResidencyInv

LEMMA CountStep ==
  ASSUME ResidencyInv, NEW t \in Readers, Count(t) \/ Zero(t)
  PROVE  ResidencyInv'
<1>1. /\ reader[t].at \in Tracked /\ tracking
      /\ \E where \in {"touch", "release"} : At(t, where)
      /\ UNCHANGED <<backing, content, tracking, bits, resident, raced>>
  BY DEF Count, Zero, ResidencyInv, InFile, Tracked
<1>2. /\ reader' \in [Readers -> ReaderType]
      /\ \A u \in Readers : u # t => reader'[u] = reader[u]
      /\ reader'[t].at \in {"touch", "release"} /\ reader'[t].page = reader[t].page
      /\ reader'[t].todo = reader[t].todo
  BY <1>1 DEF At, ResidencyInv, ResidencyType, ReaderType, Tracked
<1>3. ResidencyType' /\ PagesKept'
  BY <1>1, <1>2 DEF ResidencyInv, ResidencyType, PagesType, PagesKept, Pages
<1>4. InFile'
  BY <1>1, <1>2 DEF ResidencyInv, InFile, InCall, Tracked
<1>5. Overlapped'
  <2>1. Releasing' => Releasing
    BY <1>2 DEF Releasing
  <2> QED
    BY <1>1, <1>2, <2>1 DEF ResidencyInv, Overlapped, InCall, Tracked
<1>6. Marking' /\ (tracking => ResidentMarked)'
  BY <1>1, <1>2 DEF ResidencyInv, Marking, MarkedFor, ResidentMarked, InCall, Tracked
<1> QED
  BY <1>3, <1>4, <1>5, <1>6 DEF ResidencyInv

\* What an access brings into memory was marked, or the marks were wiped meanwhile.
LEMMA AccessStep ==
  ASSUME ResidencyInv, NEW t \in Readers, Access(t)
  PROVE  ResidencyInv'
<1>1. /\ reader[t].at = "touch" /\ reader[t].todo = {}
      /\ resident' = resident \cup WindowsOf(reader[t].page)
      /\ content' = IF reader[t].writes THEN [content EXCEPT ![reader[t].page] = "rows"]
                    ELSE content
      /\ UNCHANGED <<backing, tracking, bits, raced, reader>>
  BY DEF Access, Holds
<1>2. PagesType' /\ PagesKept'
  <2> PICK n \in Nat : content \in [1..n -> {"fresh", "rows", "gone"}]
    BY DEF ResidencyInv, ResidencyType, PagesType
  <2>1. content' \in [1..n -> {"fresh", "rows", "gone"}]
    BY <1>1
  <2> QED
    BY <1>1, <2>1 DEF ResidencyInv, PagesType, PagesKept, Pages
<1>3. ResidencyType' /\ InFile'
  BY <1>1, <1>2 DEF ResidencyInv, ResidencyType, InFile, InCall
<1>4. Overlapped' /\ Marking'
  BY <1>1 DEF ResidencyInv, Overlapped, Marking, MarkedFor, Releasing, InCall
<1>5. (tracking => ResidentMarked)'
  BY <1>1 DEF ResidencyInv, Marking, MarkedFor, ResidentMarked, InCall
<1> QED
  BY <1>2, <1>3, <1>4, <1>5 DEF ResidencyInv

LEMMA LeaveStep ==
  ASSUME ResidencyInv, NEW t \in Readers, Leave(t)
  PROVE  ResidencyInv'
<1>1. /\ reader' = [reader EXCEPT ![t] = Idle]
      /\ UNCHANGED <<backing, content, tracking, bits, resident, raced>>
  BY DEF Leave
<1>2. /\ reader' \in [Readers -> ReaderType]
      /\ \A u \in Readers : u # t => reader'[u] = reader[u]
      /\ reader'[t].at = "idle" /\ reader'[t].todo = {}
  BY <1>1 DEF Idle, ResidencyInv, ResidencyType, ReaderType
<1>3. ResidencyType' /\ PagesKept'
  BY <1>1, <1>2 DEF ResidencyInv, ResidencyType, PagesType, PagesKept, Pages
<1>4. InFile' /\ Overlapped'
  BY <1>1, <1>2 DEF ResidencyInv, InFile, Overlapped, Releasing, InCall, Tracked
<1>5. Marking' /\ (tracking => ResidentMarked)'
  BY <1>1, <1>2 DEF ResidencyInv, Marking, MarkedFor, ResidentMarked, InCall
<1> QED
  BY <1>3, <1>4, <1>5 DEF ResidencyInv

----------------------------------------------------------------------------
(* A release and the wiping after it.                                      *)

\* Only a tracked mapping is given back, and its pages are in a file.  From here on every
\* window of a call under way counts as raced.
LEMMA ReleaseStep ==
  ASSUME ResidencyInv, NEW t \in Readers, Release(t)
  PROVE  ResidencyInv'
<1>1. /\ reader[t].at = "release" /\ resident' = {} /\ raced' = Called
      /\ content' = GivenBack
      /\ reader' = [reader EXCEPT ![t].at = "forget",
                                  ![t].words = {WordOf[b] : b \in DOMAIN WordOf}]
      /\ UNCHANGED <<backing, tracking, bits>>
  BY DEF Release
<1>2. tracking /\ backing = "file"
  BY <1>1 DEF ResidencyInv, InFile, Tracked
<1>3. content' = content
  BY <1>1, <1>2 DEF GivenBack, Pages, ResidencyInv, ResidencyType, PagesType
<1>4. /\ reader' \in [Readers -> ReaderType]
      /\ \A u \in Readers : u # t => reader'[u] = reader[u]
      /\ reader'[t].at = "forget" /\ reader'[t].page = reader[t].page
      /\ reader'[t].todo = reader[t].todo
  BY <1>1 DEF ResidencyInv, ResidencyType, ReaderType, Tracked
<1>5. ResidencyType' /\ PagesKept'
  BY <1>1, <1>3, <1>4 DEF ResidencyInv, ResidencyType, PagesType, PagesKept, Pages
<1>6. InFile'
  BY <1>1, <1>2, <1>4 DEF ResidencyInv, InFile, InCall, Tracked
<1>7. \A u \in Readers : InCall(u)' => WindowsOf(reader'[u].page) \subseteq raced'
  <2>1. \A u \in Readers : InCall(u)' => InCall(u) /\ reader'[u].page = reader[u].page
    BY <1>1, <1>4 DEF InCall
  <2>2. \A u \in Readers : InCall(u) => WindowsOf(reader[u].page) \subseteq Called
    BY DEF Called
  <2> QED
    BY <1>1, <2>1, <2>2
<1>8. Overlapped' /\ Marking' /\ (tracking => ResidentMarked)'
  BY <1>1, <1>7 DEF Overlapped, Marking, MarkedFor, ResidentMarked, InCall
<1> QED
  BY <1>5, <1>6, <1>8 DEF ResidencyInv

\* Bits are wiped only while every window in memory, and every one a call is in, is raced.
LEMMA ForgetStep ==
  ASSUME ResidencyInv, NEW t \in Readers, Forget(t)
  PROVE  ResidencyInv'
<1> PICK word \in reader[t].words :
      reader' = [reader EXCEPT ![t].words = @ \ {word},
                               ![t].at = IF reader[t].words = {word} THEN "zero" ELSE @]
  BY DEF Forget
<1>1. /\ reader[t].at = "forget" /\ tracking
      /\ UNCHANGED <<backing, content, tracking, resident, raced>>
  BY DEF Forget, ResidencyInv, InFile, Tracked
<1>2. /\ reader' \in [Readers -> ReaderType]
      /\ \A u \in Readers : u # t => reader'[u] = reader[u]
      /\ reader'[t].at \in {"forget", "zero"} /\ reader'[t].page = reader[t].page
      /\ reader'[t].todo = reader[t].todo
  <2>1. reader \in [Readers -> ReaderType]
    BY DEF ResidencyInv, ResidencyType
  <2>2. CASE reader[t].words = {word}
    BY <1>1, <2>1, <2>2 DEF ReaderType, Tracked
  <2>3. CASE reader[t].words # {word}
    BY <1>1, <2>1, <2>3 DEF ReaderType, Tracked
  <2> QED
    BY <2>2, <2>3
<1>3. ResidencyType' /\ PagesKept'
  BY <1>1, <1>2 DEF ResidencyInv, ResidencyType, PagesType, PagesKept, Pages
<1>4. InFile'
  BY <1>1, <1>2 DEF ResidencyInv, InFile, InCall, Tracked
<1>5. /\ resident \subseteq raced
      /\ \A u \in Readers : InCall(u) => WindowsOf(reader[u].page) \subseteq raced
  BY <1>1 DEF ResidencyInv, Overlapped, Releasing
<1>6. \A u \in Readers : InCall(u)' => InCall(u) /\ reader'[u].page = reader[u].page
  BY <1>1, <1>2 DEF InCall
<1>7. Overlapped' /\ Marking' /\ (tracking => ResidentMarked)'
  BY <1>1, <1>5, <1>6 DEF Overlapped, Marking, MarkedFor, ResidentMarked
<1> QED
  BY <1>3, <1>4, <1>7 DEF ResidencyInv

LEMMA CopyPartStep ==
  ASSUME ResidencyInv, CopyPart
  PROVE  ResidencyInv'
<1>1. /\ resident' \subseteq resident
      /\ UNCHANGED <<backing, content, tracking, bits, raced, reader>>
  BY DEF CopyPart
<1>2. ResidencyType' /\ InFile' /\ PagesKept'
  BY <1>1
     DEF ResidencyInv, ResidencyType, PagesType, InFile, InCall, PagesKept, Pages
<1>3. Overlapped' /\ Marking' /\ (tracking => ResidentMarked)'
  BY <1>1
     DEF ResidencyInv, Overlapped, Releasing, Marking, MarkedFor, ResidentMarked, InCall
<1> QED
  BY <1>2, <1>3 DEF ResidencyInv

----------------------------------------------------------------------------
LEMMA ResidencyStep ==
  ASSUME ResidencyInv, [ResidencyNext]_residencyVars
  PROVE  ResidencyInv'
<1>1. CASE \E t \in Readers : Step(t)
  BY <1>1, AppendPageStep, ReadWriteStep, MarkStep, CountStep, AccessStep, LeaveStep,
     ReleaseStep, ForgetStep DEF Step
<1>2. CASE AppendPageFails \/ ReleaseColumn \/ CopyPart
  BY <1>2, AppendPageFailsStep, ReleaseColumnStep, CopyPartStep
<1>3. CASE UNCHANGED residencyVars
  BY <1>3
     DEF residencyVars, ResidencyInv, ResidencyType, PagesType, InFile, PagesKept, Pages,
         Overlapped, Releasing, Marking, MarkedFor, ResidentMarked, InCall
<1> QED
  BY <1>1, <1>2, <1>3 DEF ResidencyNext

\* The inductive invariant of the pages, the marks and the threads.
THEOREM ResidencyInvariance == ResidencySpec => []ResidencyInv
<1>1. ResidencyInit => ResidencyInv
  BY InitResidency
<1>2. ResidencyInv /\ [ResidencyNext]_residencyVars => ResidencyInv'
  BY ResidencyStep
<1> QED
  BY <1>1, <1>2, PTL DEF ResidencySpec

\* tree_store.rs spill, tree_residency.rs release: no page is given back to the kernel before
\* a file holds it, whichever mapping failed on the way.
THEOREM PagesAreKept == ResidencySpec => []PagesKept
<1>1. ResidencyInv => PagesKept
  BY DEF ResidencyInv
<1> QED
  BY <1>1, ResidencyInvariance, PTL

\* tree_residency.rs touch_tracked, forget: while a store is tracked, what it has in memory is
\* marked, or belongs to a call that overlapped the last release.
THEOREM WhatIsResidentIsMarked == ResidencySpec => [](tracking => ResidentMarked)
<1>1. ResidencyInv => (tracking => ResidentMarked)
  BY DEF ResidencyInv
<1> QED
  BY <1>1, ResidencyInvariance, PTL
----------------------------------------------------------------------------
(* The count.  Between releases it covers every mark that is not a raced   *)
(* one, but for the marks a thread has set and not yet counted (Counted).  *)
(* Two releases may overlap, and the one that began first may end last: the *)
(* marks that are not raced are all of words the latest has still to wipe, *)
(* and none is left once it is through (Wiping).  Whoever takes the count  *)
(* past the budget brings it back to zero (Bounded).                       *)

Unraced == bits \ BitsOf(raced)
Counting == {t \in Readers : reader[t].at = "count"}

\* The places of a call that is about to give the pages back, or does.
GivesBack == {"release", "forget", "zero"}

Fitted ==
  /\ capacity \in Nat /\ bytes \in Nat
  /\ bits \subseteq DOMAIN WordOf /\ IsFiniteSet(bits)
  /\ Pages \subseteq 1..MaxPages
  /\ \A t \in Readers : /\ reader[t].page \in 1..MaxPages
                        /\ reader[t].todo \subseteq WindowsOf(reader[t].page)

Bounded == bytes > Budget => \E t \in Readers : reader[t].at \in GivesBack

Wiping ==
  Releasing =>
    \/ Unraced = {}
    \/ \E t \in Readers : /\ reader[t].at = "forget"
                          /\ \A b \in Unraced : WordOf[b] \in reader[t].words

Counted ==
  ~Releasing =>
    Cardinality(Unraced) * WindowBytes <= bytes + Cardinality(Counting) * WindowBytes

CountInv == Fitted /\ Bounded /\ Wiping /\ Counted

\* What one more, and what fewer, come to in bytes.
LEMMA WindowsInBytes ==
  /\ \A n \in Nat : (n + 1) * WindowBytes = n * WindowBytes + WindowBytes
  /\ \A n \in Nat : n * WindowBytes \in Nat
  /\ \A m, n \in Nat : m <= n => m * WindowBytes <= n * WindowBytes
<1>1. WindowBytes \in Nat
  BY ResidencyAssumption
<1>2. \A n \in Nat : (n + 1) * WindowBytes = n * WindowBytes + WindowBytes
  BY <1>1
<1>3. \A n \in Nat : n * WindowBytes \in Nat
  BY <1>1
<1>4. \A m, n \in Nat : m <= n => m * WindowBytes <= n * WindowBytes
  <2> TAKE m, n \in Nat
  <2> HAVE m <= n
  <2>1. n - m \in Nat /\ n = m + (n - m)
    OBVIOUS
  <2>2. n * WindowBytes = m * WindowBytes + (n - m) * WindowBytes
    BY <1>1, <2>1
  <2>3. (n - m) * WindowBytes \in Nat /\ m * WindowBytes \in Nat
    BY <1>3, <2>1
  <2> HIDE <1>1
  <2> QED
    BY <2>2, <2>3
<1> QED
  BY <1>2, <1>3, <1>4

\* The marks and the threads that are compared are finitely many.
LEMMA CountsAreNaturals ==
  /\ IsFiniteSet(Counting) /\ Cardinality(Counting) \in Nat
  /\ IsFiniteSet(bits) => IsFiniteSet(Unraced) /\ Cardinality(Unraced) \in Nat
<1>1. IsFiniteSet(Counting)
  <2>1. Counting \in SUBSET Readers
    BY DEF Counting
  <2> QED
    BY <2>1, BitmapAssumption, FS_Subset
<1>2. IsFiniteSet(bits) => IsFiniteSet(Unraced)
  BY FS_Difference DEF Unraced
<1> QED
  BY <1>1, <1>2, FS_CardinalityType

LEMMA InitCount == ResidencyInit => CountInv
<1> SUFFICES ASSUME ResidencyInit PROVE CountInv
  OBVIOUS
<1>1. Fitted
  BY ResidencyAssumption, FS_EmptySet DEF ResidencyInit, Fitted, Pages, Idle
<1>2. Bounded /\ Wiping
  BY ResidencyAssumption
     DEF ResidencyInit, Bounded, Wiping, Releasing, Idle
<1>3. Counted
  <2>1. Unraced = {} /\ Counting = {}
    BY DEF ResidencyInit, Unraced, Counting, Idle
  <2>2. Cardinality(Unraced) = 0 /\ Cardinality(Counting) = 0
    BY <2>1, FS_EmptySet
  <2> QED
    BY <2>2, ResidencyAssumption DEF ResidencyInit, Counted
<1> QED
  BY <1>1, <1>2, <1>3 DEF CountInv

\* A step that neither marks nor counts, and lets no thread into a release or out of one,
\* may only add to the raced windows, and that during a release.
LEMMA CountFrame ==
  ASSUME CountInv, Fitted', UNCHANGED <<bits, bytes>>,
         \A t \in Readers :
           reader[t].at \in Tracked \/ reader'[t].at \in Tracked =>
             reader'[t].at = reader[t].at /\ reader'[t].words = reader[t].words,
         raced \subseteq raced', Releasing \/ raced' = raced
  PROVE  CountInv'
<1>1. \A t \in Readers : \A at \in Tracked : reader'[t].at = at <=> reader[t].at = at
  OBVIOUS
<1>2. (Releasing' <=> Releasing) /\ Counting' = Counting
  BY <1>1 DEF Releasing, Counting, Tracked
<1>3. Unraced' \subseteq Unraced /\ (~Releasing => Unraced' = Unraced)
  BY DEF Unraced, BitsOf
<1>4. Bounded'
  BY <1>1 DEF CountInv, Bounded, GivesBack, Tracked
<1>5. Wiping'
  <2> SUFFICES ASSUME Releasing PROVE Wiping'
    BY <1>2 DEF Wiping
  <2>1. CASE Unraced = {}
    BY <2>1, <1>3 DEF Wiping
  <2>2. ASSUME NEW t \in Readers, reader[t].at = "forget",
               \A b \in Unraced : WordOf[b] \in reader[t].words
        PROVE  Wiping'
    <3>1. reader'[t].at = "forget" /\ reader'[t].words = reader[t].words
      BY <2>2 DEF Tracked
    <3> QED
      BY <2>2, <3>1, <1>3 DEF Wiping
  <2> QED
    BY <2>1, <2>2 DEF CountInv, Wiping
<1>6. Counted'
  BY <1>2, <1>3 DEF CountInv, Counted
<1> QED
  BY <1>4, <1>5, <1>6 DEF CountInv

----------------------------------------------------------------------------
\* A call that begins has its windows before it, and no thread releases but by counting.
LEMMA BeginCount ==
  ASSUME ResidencyInv, CountInv, NEW t \in Readers, NEW p \in 1..MaxPages, NEW tracked,
         NEW writes, ~InCall(t), Begun(t, p, tracked, writes),
         capacity' \in Nat, Pages' \subseteq 1..MaxPages, UNCHANGED <<bits, bytes>>,
         raced \subseteq raced', Releasing \/ raced' = raced
  PROVE  CountInv'
<1>1. /\ \A u \in Readers : u # t => reader'[u] = reader[u]
      /\ reader'[t].at = "touch" /\ reader'[t].page = p
      /\ reader'[t].todo \subseteq WindowsOf(p)
  BY DEF Begun, ResidencyInv, ResidencyType
<1>2. Fitted'
  BY <1>1 DEF CountInv, Fitted
<1>3. \A u \in Readers :
        reader[u].at \in Tracked \/ reader'[u].at \in Tracked =>
          reader'[u].at = reader[u].at /\ reader'[u].words = reader[u].words
  <2>1. reader[t].at \notin Tracked /\ reader'[t].at \notin Tracked
    BY <1>1 DEF InCall, Tracked
  <2> QED
    BY <1>1, <2>1
<1> QED
  BY <1>2, <1>3, CountFrame

LEMMA AppendPageCount ==
  ASSUME ResidencyInv, CountInv, NEW t \in Readers, AppendPage(t)
  PROVE  CountInv'
<1> DEFINE p == Cardinality(Pages) + 1
<1> PICK n \in Nat : content \in [1..n -> {"fresh", "rows", "gone"}]
  BY DEF ResidencyInv, ResidencyType, PagesType
<1>1. Pages = 1..n /\ p = n + 1 /\ Cardinality(Pages) = n
  BY NextPage
<1>2. p \in 1..MaxPages /\ ~InCall(t) /\ Begun(t, p, tracking', TRUE)
      /\ UNCHANGED <<bits, bytes, raced>>
  <2>1. /\ Cardinality(Pages) < MaxPages /\ Quiet /\ Begun(t, p, tracking', TRUE)
        /\ UNCHANGED <<bits, bytes, raced>>
    BY DEF AppendPage
  <2>2. n < MaxPages /\ MaxPages \in Nat
    BY <1>1, <2>1, ResidencyAssumption
  <2>3. p \in 1..MaxPages
    BY <1>1, <2>2
  <2> QED
    BY <2>1, <2>3 DEF Quiet
<1>3. Pages' \subseteq 1..MaxPages
  <2>1. Pages' = 1..p
    BY DEF AppendPage, Pages
  <2> QED
    BY <1>1, <1>2, <2>1, ResidencyAssumption
<1>4. capacity' \in Nat
  <2>1. capacity' = NextCapacity \/ capacity' = capacity
    BY DEF AppendPage, Mapped
  <2>2. capacity \in Nat /\ FirstCapacity \in Nat /\ Cardinality(Pages) \in Nat
    BY <1>1, ResidencyAssumption DEF CountInv, Fitted
  <2> QED
    BY <2>1, <2>2 DEF NextCapacity
<1> HIDE DEF p
<1> QED
  BY <1>2, <1>3, <1>4, BeginCount

LEMMA ReadWriteCount ==
  ASSUME ResidencyInv, CountInv, NEW t \in Readers, Read(t) \/ Write(t)
  PROVE  CountInv'
<1>1. /\ ~InCall(t) /\ UNCHANGED <<capacity, content, bits, bytes>>
      /\ raced \subseteq raced' /\ (Releasing \/ raced' = raced)
  BY DEF Read, Write, Quiet
<1>2. PICK p \in Pages, writes \in BOOLEAN : Begun(t, p, tracking, writes)
  BY DEF Read, Write
<1>3. p \in 1..MaxPages /\ capacity' \in Nat /\ Pages' \subseteq 1..MaxPages
  BY <1>1 DEF CountInv, Fitted, Pages
<1> QED
  BY <1>1, <1>2, <1>3, BeginCount

\* The steps of which the threads keep their places, and the end of a call.
LEMMA QuietCount ==
  ASSUME ResidencyInv, CountInv,
         AppendPageFails \/ CopyPart \/ \E t \in Readers : Access(t) \/ Leave(t)
  PROVE  CountInv'
<1>1. UNCHANGED <<capacity, bits, bytes, raced>>
  BY DEF AppendPageFails, MapFails, CopyPart, Access, Leave
<1>2. Pages' = Pages
  <2> PICK n \in Nat : content \in [1..n -> {"fresh", "rows", "gone"}]
    BY DEF ResidencyInv, ResidencyType, PagesType
  <2>1. CASE content' = content
    BY <2>1 DEF Pages
  <2>2. CASE \E q : content' = [content EXCEPT ![q] = "rows"]
    BY <2>2 DEF Pages
  <2> QED
    BY <2>1, <2>2 DEF AppendPageFails, CopyPart, Access, Leave
<1>3. CASE reader' = reader
  <2>1. Fitted'
    BY <1>1, <1>2, <1>3 DEF CountInv, Fitted
  <2> QED
    BY <1>1, <1>3, <2>1, CountFrame
<1>4. ASSUME NEW t \in Readers, Leave(t)
      PROVE  CountInv'
  <2>1. /\ reader[t].at = "touch"
        /\ \A u \in Readers : u # t => reader'[u] = reader[u]
        /\ reader'[t].at = "idle" /\ reader'[t].page = 1 /\ reader'[t].todo = {}
    BY <1>4 DEF Leave, Holds, Idle, ResidencyInv, ResidencyType
  <2>2. Fitted'
    BY <1>1, <1>2, <2>1, ResidencyAssumption DEF CountInv, Fitted
  <2>3. \A u \in Readers :
          reader[u].at \in Tracked \/ reader'[u].at \in Tracked =>
            reader'[u].at = reader[u].at /\ reader'[u].words = reader[u].words
    <3>1. reader[t].at \notin Tracked /\ reader'[t].at \notin Tracked
      BY <2>1 DEF Tracked
    <3> QED
      BY <2>1, <3>1
  <2> QED
    BY <1>1, <2>2, <2>3, CountFrame
<1> QED
  BY <1>3, <1>4 DEF AppendPageFails, CopyPart, Access

LEMMA ReleaseColumnCount ==
  ASSUME ResidencyInv, CountInv, ReleaseColumn
  PROVE  CountInv'
<1>1. /\ Quiet /\ UNCHANGED <<capacity, content, reader>>
      /\ bits' = {} /\ bytes' = 0
  BY DEF ReleaseColumn
<1>2. Fitted'
  BY <1>1, FS_EmptySet DEF CountInv, Fitted, Pages
<1>3. Bounded'
  BY <1>1, ResidencyAssumption DEF Bounded
<1>4. ~Releasing' /\ Wiping'
  BY <1>1 DEF Wiping, Releasing, Quiet, InCall
<1>5. Counted'
  <2>1. Unraced' = {} /\ Counting' = {}
    BY <1>1 DEF Unraced, Counting, Quiet, InCall
  <2>2. Cardinality(Unraced') = 0 /\ Cardinality(Counting') = 0
    BY <2>1, FS_EmptySet
  <2> QED
    BY <1>1, <2>2, ResidencyAssumption DEF Counted
<1> QED
  BY <1>2, <1>3, <1>4, <1>5 DEF CountInv

----------------------------------------------------------------------------
\* A thread that sets a bit counts it next; during a release its window is raced.
LEMMA MarkCount ==
  ASSUME ResidencyInv, CountInv, NEW t \in Readers, Mark(t)
  PROVE  CountInv'
<1> PICK w \in reader[t].todo :
      /\ bits' = bits \cup {BitOf[w]}
      /\ reader' = IF BitOf[w] \in bits THEN [reader EXCEPT ![t].todo = @ \ {w}]
                   ELSE [reader EXCEPT ![t].todo = @ \ {w}, ![t].at = "count"]
  BY DEF Mark
<1> DEFINE new == BitOf[w] \notin bits
<1>1. /\ reader[t].at = "touch" /\ UNCHANGED <<capacity, content, bytes, raced>>
      /\ w \in WindowsOf(reader[t].page) /\ BitOf[w] \in DOMAIN WordOf
  BY BitmapAssumption DEF Mark, CountInv, Fitted
<1>2. /\ \A u \in Readers : u # t => reader'[u] = reader[u]
      /\ reader'[t].page = reader[t].page /\ reader'[t].todo = reader[t].todo \ {w}
      /\ reader'[t].at = IF new THEN "count" ELSE "touch"
  <2>1. reader \in [Readers -> ReaderType]
    BY DEF ResidencyInv, ResidencyType
  <2>2. CASE new
    BY <1>1, <2>1, <2>2 DEF ReaderType
  <2>3. CASE ~new
    BY <1>1, <2>1, <2>3 DEF ReaderType
  <2> QED
    BY <2>2, <2>3
<1>3. Fitted'
  <2>1. IsFiniteSet(bits') /\ bits' \subseteq DOMAIN WordOf
    BY <1>1, FS_AddElement DEF CountInv, Fitted
  <2> QED
    BY <1>1, <1>2, <2>1 DEF CountInv, Fitted, Pages
<1>4. CASE ~new
  <2>1. bits' = bits
    BY <1>4
  <2>2. \A u \in Readers :
          reader[u].at \in Tracked \/ reader'[u].at \in Tracked =>
            reader'[u].at = reader[u].at /\ reader'[u].words = reader[u].words
    BY <1>1, <1>2, <1>4 DEF Tracked
  <2> QED
    BY <1>1, <1>3, <2>1, <2>2, CountFrame
<1>5. CASE new
  <2>1. (Releasing' <=> Releasing) /\ Counting' = Counting \cup {t} /\ t \notin Counting
    <3>1. reader'[t].at = "count"
      BY <1>2, <1>5
    <3>2. Releasing' <=> Releasing
      BY <1>1, <1>2, <3>1 DEF Releasing
    <3>3. Counting' = Counting \cup {t} /\ t \notin Counting
      BY <1>1, <1>2, <3>1 DEF Counting
    <3> QED
      BY <3>2, <3>3
  <2>2. \A u \in Readers : reader[u].at \in GivesBack => reader'[u] = reader[u]
    BY <1>1, <1>2 DEF GivesBack
  <2>3. Bounded'
    BY <1>1, <2>2 DEF CountInv, Bounded
  <2>4. Wiping'
    <3> SUFFICES ASSUME Releasing PROVE Wiping'
      BY <2>1 DEF Wiping
    <3>1. w \in raced
      BY <1>1 DEF ResidencyInv, Overlapped, InCall
    <3>2. Unraced' = Unraced
      BY <1>1, <3>1 DEF Unraced, BitsOf
    <3>3. \A u \in Readers : reader[u].at = "forget" => reader'[u] = reader[u]
      BY <2>2 DEF GivesBack
    <3> QED
      BY <3>2, <3>3 DEF CountInv, Wiping
  <2>5. Counted'
    <3> SUFFICES ASSUME ~Releasing PROVE Counted'
      BY <2>1 DEF Counted
    <3> DEFINE m == Cardinality(Unraced)
               k == Cardinality(Counting)
    <3>1. IsFiniteSet(Unraced) /\ m \in Nat /\ IsFiniteSet(Counting) /\ k \in Nat
      BY CountsAreNaturals DEF CountInv, Fitted
    <3>2. Cardinality(Counting') = k + 1
      BY <2>1, <3>1, FS_AddElement
    <3>3. Unraced' = Unraced \/ Unraced' = Unraced \cup {BitOf[w]}
      BY <1>1 DEF Unraced
    <3>4. Cardinality(Unraced') = m \/ Cardinality(Unraced') = m + 1
      BY <3>1, <3>3, FS_AddElement
    <3>5. m * WindowBytes <= bytes + k * WindowBytes
      BY DEF CountInv, Counted
    <3>6. /\ (m + 1) * WindowBytes = m * WindowBytes + WindowBytes
          /\ (k + 1) * WindowBytes = k * WindowBytes + WindowBytes
          /\ m * WindowBytes \in Nat /\ k * WindowBytes \in Nat
      BY <3>1, WindowsInBytes
    <3>7. bytes \in Nat /\ WindowBytes \in Nat /\ bytes' = bytes
      BY <1>1, ResidencyAssumption DEF CountInv, Fitted
    <3> HIDE DEF m, k
    <3>8. Cardinality(Unraced') * WindowBytes <= bytes + (k + 1) * WindowBytes
      BY <3>4, <3>5, <3>6, <3>7
    <3> QED
      BY <3>2, <3>7, <3>8 DEF Counted
  <2> QED
    BY <1>3, <2>3, <2>4, <2>5 DEF CountInv
<1> QED
  BY <1>4, <1>5

\* A count moves a window from the thread to the sum, and past the budget the thread goes on
\* to give the pages back.
LEMMA CountCount ==
  ASSUME ResidencyInv, CountInv, NEW t \in Readers, Count(t)
  PROVE  CountInv'
<1>1. /\ reader[t].at = "count" /\ bytes' = bytes + WindowBytes
      /\ UNCHANGED <<capacity, kind, content, bits, raced>>
  BY DEF Count
<1>2. bytes \in Nat /\ WindowBytes \in Nat /\ Reserved \in Nat /\ Budget \in Nat
  <2>1. capacity \in Nat /\ Record \in Nat
    BY ResidencyAssumption DEF CountInv, Fitted, Record
  <2> QED
    BY <2>1, ResidencyAssumption DEF CountInv, Fitted, Reserved
<1>3. /\ \A u \in Readers : u # t => reader'[u] = reader[u]
      /\ reader'[t].page = reader[t].page /\ reader'[t].todo = reader[t].todo
      /\ reader'[t].at \in {"touch", "release"}
      /\ bytes' + Reserved > Budget => reader'[t].at = "release"
  BY DEF Count, At, ResidencyInv, ResidencyType, ReaderType
<1>4. Fitted'
  BY <1>1, <1>2, <1>3 DEF CountInv, Fitted, Pages
<1>5. Bounded'
  BY <1>1, <1>2, <1>3 DEF Bounded, GivesBack
<1>6. /\ Releasing' <=> Releasing
      /\ Counting' = Counting \ {t} /\ t \in Counting /\ Unraced' = Unraced
  BY <1>1, <1>3 DEF Releasing, Counting, Unraced
<1>7. Wiping'
  <2>1. \A u \in Readers : reader[u].at = "forget" => reader'[u] = reader[u]
    BY <1>1, <1>3
  <2> QED
    BY <1>6, <2>1 DEF CountInv, Wiping
<1>8. Counted'
  <2> SUFFICES ASSUME ~Releasing PROVE Counted'
    BY <1>6 DEF Counted
  <2> DEFINE m == Cardinality(Unraced)
             k == Cardinality(Counting')
  <2>1. IsFiniteSet(Counting) /\ Cardinality(Counting) \in Nat /\ m \in Nat
    BY CountsAreNaturals DEF CountInv, Fitted
  <2>2. IsFiniteSet(Counting') /\ k = Cardinality(Counting) - 1
    BY <1>6, <2>1, FS_RemoveElement
  <2>3. k \in Nat
    BY <2>2, FS_CardinalityType
  <2>4. m * WindowBytes <= bytes + (k + 1) * WindowBytes
    <3>1. Cardinality(Counting) = k + 1
      BY <2>1, <2>2
    <3> QED
      BY <3>1 DEF CountInv, Counted
  <2>5. (k + 1) * WindowBytes = k * WindowBytes + WindowBytes
        /\ k * WindowBytes \in Nat /\ m * WindowBytes \in Nat
    BY <2>1, <2>3, WindowsInBytes
  <2> HIDE DEF k, m
  <2>6. m * WindowBytes <= bytes' + k * WindowBytes
    BY <1>1, <1>2, <2>4, <2>5
  <2> QED
    BY <1>6, <2>6 DEF Counted, k, m
<1> QED
  BY <1>4, <1>5, <1>7, <1>8 DEF CountInv

----------------------------------------------------------------------------
\* A release has every word to wipe, whatever is marked and raced.
LEMMA ReleaseCount ==
  ASSUME ResidencyInv, CountInv, NEW t \in Readers, Release(t)
  PROVE  CountInv'
<1>1. /\ reader[t].at = "release" /\ content' = GivenBack
      /\ UNCHANGED <<capacity, bits, bytes>>
  BY DEF Release
<1>2. /\ \A u \in Readers : u # t => reader'[u] = reader[u]
      /\ reader'[t].page = reader[t].page /\ reader'[t].todo = reader[t].todo
      /\ reader'[t].at = "forget" /\ reader'[t].words = {WordOf[b] : b \in DOMAIN WordOf}
  BY DEF Release, ResidencyInv, ResidencyType, ReaderType
<1>3. Pages' = Pages
  BY <1>1 DEF GivenBack, Pages
<1>4. Fitted'
  BY <1>1, <1>2, <1>3 DEF CountInv, Fitted
<1>5. Bounded'
  BY <1>2 DEF Bounded, GivesBack
<1>6. \A b \in Unraced' : WordOf[b] \in reader'[t].words
  BY <1>1, <1>2 DEF CountInv, Fitted, Unraced
<1>7. Releasing' /\ Wiping' /\ Counted'
  BY <1>2, <1>6 DEF Releasing, Wiping, Counted
<1> QED
  BY <1>4, <1>5, <1>7 DEF CountInv

\* Wiping a word takes it off the list of the thread that wipes it, and its bits with it.
LEMMA ForgetCount ==
  ASSUME ResidencyInv, CountInv, NEW t \in Readers, Forget(t)
  PROVE  CountInv'
<1> PICK word \in reader[t].words :
      /\ bits' = BitsWithout(word)
      /\ reader' = [reader EXCEPT ![t].words = @ \ {word},
                                  ![t].at = IF reader[t].words = {word} THEN "zero" ELSE @]
  BY DEF Forget
<1>1. reader[t].at = "forget" /\ UNCHANGED <<capacity, content, bytes, raced>>
  BY DEF Forget
<1>2. /\ \A u \in Readers : u # t => reader'[u] = reader[u]
      /\ reader'[t].page = reader[t].page /\ reader'[t].todo = reader[t].todo
      /\ reader'[t].words = reader[t].words \ {word}
      /\ reader'[t].at = IF reader[t].words = {word} THEN "zero" ELSE "forget"
  <2>1. reader \in [Readers -> ReaderType]
    BY DEF ResidencyInv, ResidencyType
  <2>2. CASE reader[t].words = {word}
    BY <1>1, <2>1, <2>2 DEF ReaderType
  <2>3. CASE reader[t].words # {word}
    BY <1>1, <2>1, <2>3 DEF ReaderType
  <2> QED
    BY <2>2, <2>3
<1>3. bits' \subseteq bits /\ \A b \in bits' : WordOf[b] # word
  BY DEF BitsWithout
<1>4. Fitted'
  <2>1. IsFiniteSet(bits')
    BY <1>3, FS_Subset DEF CountInv, Fitted
  <2> QED
    BY <1>1, <1>2, <1>3, <2>1 DEF CountInv, Fitted, Pages
<1>5. Bounded'
  BY <1>1, <1>2 DEF Bounded, GivesBack
<1>6. Releasing /\ Releasing' /\ Counted'
  BY <1>1, <1>2 DEF Releasing, Counted
<1>7. Unraced' \subseteq Unraced /\ \A b \in Unraced' : WordOf[b] # word
  BY <1>1, <1>3 DEF Unraced, BitsOf
<1>8. Wiping'
  <2>1. CASE Unraced = {}
    BY <2>1, <1>7 DEF Wiping
  <2>2. ASSUME NEW u \in Readers, reader[u].at = "forget",
               \A b \in Unraced : WordOf[b] \in reader[u].words
        PROVE  Wiping'
    <3>1. CASE u # t
      BY <1>2, <1>7, <2>2, <3>1 DEF Wiping
    <3>2. CASE u = t /\ reader[t].words = {word}
      <4>1. Unraced' = {}
        BY <1>7, <2>2, <3>2
      <4> QED
        BY <4>1 DEF Wiping
    <3>3. CASE u = t /\ reader[t].words # {word}
      <4>1. reader'[t].at = "forget" /\ \A b \in Unraced' : WordOf[b] \in reader'[t].words
        BY <1>2, <1>7, <2>2, <3>3
      <4> QED
        BY <4>1 DEF Wiping
    <3> QED
      BY <3>1, <3>2, <3>3
  <2> QED
    BY <1>6, <2>1, <2>2 DEF CountInv, Wiping
<1> QED
  BY <1>4, <1>5, <1>6, <1>8 DEF CountInv

\* The last release to end leaves a count of nothing, and no mark that is not raced.
LEMMA ZeroCount ==
  ASSUME ResidencyInv, CountInv, NEW t \in Readers, Zero(t)
  PROVE  CountInv'
<1>1. /\ reader[t].at = "zero" /\ bytes' = 0
      /\ UNCHANGED <<capacity, content, bits, raced>>
  BY DEF Zero
<1>2. /\ \A u \in Readers : u # t => reader'[u] = reader[u]
      /\ reader'[t].page = reader[t].page /\ reader'[t].todo = reader[t].todo
      /\ reader'[t].at = "touch"
  BY DEF Zero, At, ResidencyInv, ResidencyType, ReaderType
<1>3. Fitted'
  BY <1>1, <1>2 DEF CountInv, Fitted, Pages
<1>4. Bounded'
  BY <1>1, ResidencyAssumption DEF Bounded
<1>5. Releasing /\ Unraced' = Unraced
  BY <1>1 DEF Releasing, Unraced
<1>6. CASE Unraced = {}
  <2>1. Cardinality(Unraced') = 0
    BY <1>5, <1>6, FS_EmptySet
  <2>2. Cardinality(Counting') * WindowBytes \in Nat
    <3>1. Counting' \in SUBSET Readers
      BY DEF Counting
    <3>2. Cardinality(Counting') \in Nat
      BY <3>1, BitmapAssumption, FS_Subset, FS_CardinalityType
    <3> QED
      BY <3>2, WindowsInBytes
  <2>3. Cardinality(Unraced') * WindowBytes = 0
    BY <2>1, ResidencyAssumption
  <2> QED
    BY <1>1, <1>3, <1>4, <1>5, <1>6, <2>2, <2>3 DEF CountInv, Wiping, Counted
<1>7. ASSUME NEW u \in Readers, reader[u].at = "forget",
             \A b \in Unraced : WordOf[b] \in reader[u].words
      PROVE  CountInv'
  <2>1. reader'[u] = reader[u]
    BY <1>1, <1>2, <1>7
  <2>2. Releasing' /\ Wiping' /\ Counted'
    BY <1>5, <1>7, <2>1 DEF Releasing, Wiping, Counted
  <2> QED
    BY <1>3, <1>4, <2>2 DEF CountInv
<1> QED
  BY <1>5, <1>6, <1>7 DEF CountInv, Wiping

LEMMA CountingStep ==
  ASSUME ResidencyInv, CountInv, [ResidencyNext]_residencyVars
  PROVE  CountInv'
<1>1. CASE \E t \in Readers : Step(t)
  BY <1>1, AppendPageCount, ReadWriteCount, MarkCount, CountCount, QuietCount,
     ReleaseCount, ForgetCount, ZeroCount DEF Step
<1>2. CASE AppendPageFails \/ ReleaseColumn \/ CopyPart
  BY <1>2, QuietCount, ReleaseColumnCount
<1>3. CASE UNCHANGED residencyVars
  <2>1. Fitted' /\ UNCHANGED <<bits, bytes, raced, reader>>
    BY <1>3 DEF residencyVars, CountInv, Fitted, Pages
  <2> QED
    BY <2>1, CountFrame
<1> QED
  BY <1>1, <1>2, <1>3 DEF ResidencyNext

\* What is in memory and not raced is among the marks that are counted.
LEMMA CountIsEnough ==
  ASSUME ResidencyInv, CountInv, tracking
  PROVE  CountCovers
<1> SUFFICES ASSUME Quiet
             PROVE  /\ Cardinality(BitsOf(resident) \ BitsOf(raced)) * WindowBytes <= bytes
                    /\ bytes <= Budget
  BY DEF CountCovers
<1>1. \A t \in Readers : reader[t].at = "idle"
  BY DEF Quiet, InCall
<1>2. ~Releasing /\ Counting = {} /\ ~\E t \in Readers : reader[t].at \in GivesBack
  BY <1>1 DEF Releasing, Counting, GivesBack
<1>3. bytes <= Budget
  BY <1>2, ResidencyAssumption DEF CountInv, Bounded, Fitted
<1> DEFINE seen == BitsOf(resident) \ BitsOf(raced)
<1>4. seen \in SUBSET Unraced
  BY DEF ResidencyInv, ResidentMarked, BitsOf, Unraced
<1>5. IsFiniteSet(Unraced) /\ Cardinality(Unraced) \in Nat
  BY CountsAreNaturals DEF CountInv, Fitted
<1>6. Cardinality(seen) <= Cardinality(Unraced) /\ Cardinality(seen) \in Nat
  BY <1>4, <1>5, FS_Subset, FS_CardinalityType
<1>7. Cardinality(seen) * WindowBytes <= Cardinality(Unraced) * WindowBytes
      /\ Cardinality(seen) * WindowBytes \in Nat
      /\ Cardinality(Unraced) * WindowBytes \in Nat
  BY <1>5, <1>6, WindowsInBytes
<1>8. Cardinality(Unraced) * WindowBytes <= bytes
  <2>1. Cardinality(Counting) = 0
    BY <1>2, FS_EmptySet
  <2>2. Cardinality(Counting) * WindowBytes = 0
    BY <2>1, ResidencyAssumption
  <2> QED
    BY <1>2, <2>2 DEF CountInv, Counted, Fitted
<1> HIDE DEF seen
<1>9. Cardinality(seen) * WindowBytes <= bytes
  BY <1>7, <1>8 DEF CountInv, Fitted
<1> QED
  BY <1>3, <1>9 DEF seen

\* tree_residency.rs touch_tracked, release, forget; tree_store.rs spill: whatever mapping
\* fails while a store moves to files, giving pages back loses none, and between calls the
\* count covers what is in memory and fits the budget, although the marks, the counts and the
\* wiping of both interleave.
THEOREM PageMemoryIsSound == ResidencySpec => []PageMemorySound
<1>1. ResidencyInit => ResidencyInv /\ CountInv
  BY InitResidency, InitCount
<1>2. ResidencyInv /\ CountInv /\ [ResidencyNext]_residencyVars => ResidencyInv' /\ CountInv'
  BY ResidencyStep, CountingStep
<1>3. ResidencyInv /\ CountInv => PageMemorySound
  BY CountIsEnough DEF PageMemorySound, ResidencyInv
<1> QED
  BY <1>1, <1>2, <1>3, PTL DEF ResidencySpec
===============================================================================
