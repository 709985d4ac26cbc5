-------------------------- MODULE BpannStoreProofs --------------------------
(***************************************************************************)
(* What MCStore checks of a store's files on a small instance, for any     *)
(* number of rows, batches, crashes and failing writes: acknowledged rows, *)
(* what a persist leaves behind, and the metric rows are searched in.      *)
(*                                                                         *)
(* AckedDurable is not inductive: what a reopen counts may be less than    *)
(* what metadata.json said a moment ago, because that file is torn while   *)
(* it is written.  Acknowledged rows are within the counter alone          *)
(* (Held), and every count, on disk or in memory, covers only rows that    *)
(* both columns have (Counts), so an append never overwrites one (Whole).  *)
(*                                                                         *)
(* What a persist leaves behind and the metric of index, pages and cache   *)
(* rest on two more chains of facts, in the second half of the module.     *)
(***************************************************************************)
EXTENDS BpannStore, SequenceTheorems, TLAPS

Counted == IF IsFile(numObs) THEN numObs ELSE 0

Appending == {"append_y", "append_count", "append_index"}

Typed ==
  /\ fx \in Seq(Nat) /\ fy \in Seq(Nat) /\ batch \in Seq(Nat)
  /\ nx \in Nat /\ ny \in Nat /\ crashes \in Nat
  /\ numObs \in Nat \cup {None}
  /\ IsFile(meta) => meta.obs \in Nat

\* The rows of the acknowledged observations, in both columns.
Held(n) ==
  \A o \in acked : \E i \in 1..n :
    i <= Len(fx) /\ i <= Len(fy) /\ fx[i] = o /\ fy[i] = o

\* What the files count, both columns have.
Counts ==
  /\ Counted <= Len(fx) /\ Counted <= Len(fy)
  /\ IsFile(meta) => meta.obs <= Len(fx) /\ meta.obs <= Len(fy)

\* What the process counts covers what the files count, and both columns have it.
Whole ==
  pc # "down" =>
    /\ nx <= Len(fx) /\ ny <= Len(fy)
    /\ Counted <= ny
    /\ IsFile(meta) => meta.obs <= ny
    /\ nx = ny + (IF pc = "append_y" THEN Len(batch) ELSE 0)

\* The rows of the batch under way are the last ones.
IsLastRows(f, n) == Len(batch) <= n /\ \A j \in 1..Len(batch) : f[n - Len(batch) + j] = batch[j]

Underway ==
  /\ pc \in Appending => IsLastRows(fx, nx)
  /\ pc \in {"append_count", "append_index"} => IsLastRows(fy, ny)
  /\ pc = "append_index" => numObs = nx

DurableInv == Typed /\ Held(Counted) /\ Counts /\ Whole /\ Underway

----------------------------------------------------------------------------
\* mmap_append keeps the rows before the store's count and puts the new ones after them.
LEMMA AppendedRows ==
  ASSUME NEW f \in Seq(Nat), NEW n \in Nat, n <= Len(f), NEW new \in Seq(Nat)
  PROVE  /\ Appended(f, n, new) \in Seq(Nat)
         /\ Len(Appended(f, n, new)) = n + Len(new)
         /\ \A i \in 1..n : Appended(f, n, new)[i] = f[i]
         /\ \A j \in 1..Len(new) : Appended(f, n, new)[n + j] = new[j]
<1> DEFINE head == SubSeq(f, 1, n)
<1>1. \A i \in 1..n : f[i] \in Nat
  BY ElementOfSeq, LenProperties
<1>2. /\ head \in Seq(Nat) /\ Len(head) = n
      /\ \A i \in 1..n : head[i] = f[i]
  <2>1. /\ head \in Seq(Nat)
        /\ Len(head) = IF 1 <= n THEN n - 1 + 1 ELSE 0
        /\ \A i \in 1..n - 1 + 1 : head[i] = f[1 + i - 1]
    BY <1>1, SubSeqProperties
  <2> QED
    BY <2>1
<1> HIDE DEF head
<1>3. /\ head \o new \in Seq(Nat) /\ Len(head \o new) = n + Len(new)
      /\ \A i \in 1..n + Len(new) : (head \o new)[i] = IF i <= n THEN head[i] ELSE new[i - n]
  BY <1>2, ConcatProperties
<1>4. Len(new) \in Nat
  BY LenProperties
<1>5. Appended(f, n, new) = head \o new
  BY DEF Appended, head
<1>6. \A j \in 1..Len(new) : (head \o new)[n + j] = new[j]
  BY <1>3, <1>4
<1>7. \A i \in 1..n : (head \o new)[i] = f[i]
  BY <1>2, <1>3, <1>4
<1> QED
  BY <1>3, <1>5, <1>6, <1>7

\* The observations of an append are numbers.
LEMMA FreshRows ==
  ASSUME Typed, NEW k \in Nat
  PROVE  Fresh(k) \in Seq(Nat) /\ Len(Fresh(k)) = k
<1>1. \A i \in 1..k : crashes * MaxObs + nx + i \in Nat
  <2>1. crashes * MaxObs \in Nat
    BY StoreAssumption DEF Typed
  <2> QED
    BY <2>1 DEF Typed
<1> QED
  BY <1>1 DEF Fresh

LEMMA CountedType == Typed => Counted \in Nat
BY DEF Typed, Counted, IsFile

\* What an open counts is at least what the counter says, and both columns have it.
LEMMA OnDisk ==
  ASSUME Typed, Counts
  PROVE  /\ RowsOnDisk \in Nat /\ Counted <= RowsOnDisk
         /\ RowsOnDisk <= Len(fx) /\ RowsOnDisk <= Len(fy)
         /\ IsFile(meta) => meta.obs <= RowsOnDisk
BY CountedType, LenProperties DEF Typed, Counts, RowsOnDisk, Counted, Larger

\* A new, empty store.
LEMMA InitDurable == Init => DurableInv
BY EmptySeq, StoreAssumption
   DEF Init, DurableInv, Typed, Held, Counts, Whole, Underway, Appending, Counted, IsFile

\* A step that moves neither rows nor counts and ends outside an append.
LEMMA QuietStep ==
  ASSUME DurableInv, UNCHANGED <<fx, fy, numObs, meta, nx, ny, batch, acked, crashes>>,
         pc # "down", pc \notin Appending, pc' \notin Appending
  PROVE  DurableInv'
BY DEF DurableInv, Typed, Held, Counts, Whole, Underway, Appending, Counted, IsFile

----------------------------------------------------------------------------
(* The steps that move rows or counts.                                      *)

\* The process is gone; the files stay.
LEMMA GoneStep ==
  ASSUME DurableInv, Gone, UNCHANGED files, acked' = acked, crashes' \in Nat
  PROVE  DurableInv'
BY EmptySeq
   DEF DurableInv, Typed, Held, Counts, Whole, Underway, Appending, Counted, IsFile, Gone, files

\* An open counts what the files say and makes a counter if there is none.
LEMMA OpenBeginStep ==
  ASSUME DurableInv, OpenBegin
  PROVE  DurableInv'
<1>1. /\ RowsOnDisk \in Nat /\ Counted <= RowsOnDisk
      /\ RowsOnDisk <= Len(fx) /\ RowsOnDisk <= Len(fy)
      /\ IsFile(meta) => meta.obs <= RowsOnDisk
  BY OnDisk DEF DurableInv
<1>2. /\ nx' = RowsOnDisk /\ ny' = RowsOnDisk /\ pc' = "open_meta0"
      /\ numObs' = IF IsFile(numObs) THEN numObs ELSE 0
      /\ UNCHANGED <<fx, fy, meta, batch, acked, crashes>>
  BY DEF OpenBegin, Goto, ghosts
<1>3. numObs' \in Nat /\ Counted' = Counted
  BY <1>2, StoreAssumption DEF DurableInv, Typed, Counted, IsFile
<1>4. Typed' /\ Held(Counted)' /\ Counts'
  BY <1>1, <1>2, <1>3 DEF DurableInv, Typed, Held, Counts, IsFile
<1>5. Whole' /\ Underway'
  BY <1>1, <1>2, <1>3 DEF Whole, Underway, Appending, IsFile
<1> QED
  BY <1>4, <1>5 DEF DurableInv

\* fs::write of metadata.json truncates the file, then writes what the process counts.
LEMMA MetadataStep ==
  ASSUME DurableInv, pc # "down", pc \notin Appending, pc' \notin Appending,
         meta' = Torn \/ meta' = MetadataNow,
         UNCHANGED <<fx, fy, numObs, nx, ny, batch, acked, crashes>>
  PROVE  DurableInv'
<1>1. nx = ny /\ nx <= Len(fx) /\ ny <= Len(fy) /\ nx \in Nat
  BY DEF DurableInv, Typed, Whole, Appending
<1>2. IsFile(meta') => meta'.obs = nx
  BY DEF IsFile, MetadataNow
<1>3. Typed' /\ Held(Counted)' /\ Counts'
  BY <1>1, <1>2 DEF DurableInv, Typed, Held, Counts, Counted, IsFile
<1>4. Whole' /\ Underway'
  BY <1>1, <1>2 DEF DurableInv, Whole, Underway, Appending, Counted, IsFile
<1> QED
  BY <1>3, <1>4 DEF DurableInv

\* The counter is set to what the process counts, which is all in both columns.
LEMMA CounterStep ==
  ASSUME DurableInv, pc # "down", pc # "append_y", pc' # "append_y", numObs' = nx,
         pc' \in Appending => pc \in {"append_count", "append_index"},
         UNCHANGED <<fx, fy, meta, nx, ny, batch, acked, crashes>>
  PROVE  DurableInv'
<1>1. nx = ny /\ nx <= Len(fx) /\ ny <= Len(fy) /\ Counted <= nx /\ nx \in Nat
  BY DEF DurableInv, Typed, Whole
<1>2. Counted' = nx
  BY <1>1, StoreAssumption DEF Counted, IsFile
<1>3. Held(Counted)'
  <2>1. Held(nx)
    BY <1>1, CountedType DEF DurableInv, Held
  <2> QED
    BY <1>2, <2>1 DEF Held
<1>4. Typed' /\ Counts'
  BY <1>1, <1>2 DEF DurableInv, Typed, Counts, IsFile
<1>5. Whole' /\ Underway'
  BY <1>1, <1>2 DEF DurableInv, Whole, Underway, Appending, IsLastRows, IsFile
<1> QED
  BY <1>3, <1>4, <1>5 DEF DurableInv

\* The rows of an append overwrite only rows nothing counts.
LEMMA AppendXStep ==
  ASSUME DurableInv, AppendX
  PROVE  DurableInv'
<1> PICK k \in 1..MaxBatch :
      /\ batch' = Fresh(k)
      /\ fx' = Appended(fx, nx, Fresh(k))
      /\ nx' = nx + k
  BY DEF AppendX
<1>1. /\ pc = "idle" /\ pc' = "append_y"
      /\ UNCHANGED <<fy, numObs, meta, ny, acked, crashes>>
  BY DEF AppendX, Goto, ghosts
<1>2. /\ nx = ny /\ nx <= Len(fx) /\ ny <= Len(fy) /\ Counted <= ny
      /\ IsFile(meta) => meta.obs <= ny
      /\ fx \in Seq(Nat) /\ nx \in Nat /\ k \in Nat
  BY <1>1, StoreAssumption DEF DurableInv, Typed, Whole
<1>3. Fresh(k) \in Seq(Nat) /\ Len(Fresh(k)) = k
  BY <1>2, FreshRows DEF DurableInv
<1>4. /\ fx' \in Seq(Nat) /\ Len(fx') = nx + k
      /\ \A i \in 1..nx : fx'[i] = fx[i]
      /\ \A j \in 1..k : fx'[nx + j] = Fresh(k)[j]
  <2>1. /\ Appended(fx, nx, Fresh(k)) \in Seq(Nat)
        /\ Len(Appended(fx, nx, Fresh(k))) = nx + Len(Fresh(k))
        /\ \A i \in 1..nx : Appended(fx, nx, Fresh(k))[i] = fx[i]
        /\ \A j \in 1..Len(Fresh(k)) : Appended(fx, nx, Fresh(k))[nx + j] = Fresh(k)[j]
    BY <1>2, <1>3, AppendedRows
  <2> QED
    BY <1>3, <2>1
<1>5. Counted \in Nat /\ Counted' = Counted
  BY <1>1, CountedType DEF DurableInv, Counted, IsFile
<1>6. Typed'
  BY <1>1, <1>2, <1>3, <1>4 DEF DurableInv, Typed, IsFile
<1>7. Held(Counted)'
  <2>1. \A i \in 1..Counted : i <= Len(fx') /\ fx'[i] = fx[i]
    BY <1>2, <1>4, <1>5
  <2> QED
    BY <1>1, <1>5, <2>1 DEF DurableInv, Held
<1>8. Counts' /\ Whole'
  <2>1. IsFile(meta) => meta.obs \in Nat
    BY DEF DurableInv, Typed
  <2> QED
    BY <1>1, <1>2, <1>3, <1>4, <1>5, <2>1 DEF DurableInv, Counts, Whole, IsFile
<1>9. Underway'
  <2>1. IsLastRows(fx, nx)'
    BY <1>2, <1>3, <1>4 DEF IsLastRows
  <2> QED
    BY <1>1, <2>1 DEF Underway, Appending
<1> QED
  BY <1>6, <1>7, <1>8, <1>9 DEF DurableInv

LEMMA AppendYStep ==
  ASSUME DurableInv, AppendY
  PROVE  DurableInv'
<1>1. /\ pc = "append_y" /\ pc' = "append_count"
      /\ fy' = Appended(fy, ny, batch) /\ ny' = ny + Len(batch)
      /\ UNCHANGED <<fx, numObs, meta, nx, batch, acked, crashes>>
  BY DEF AppendY, Then, Goto, ghosts
<1>2. /\ nx = ny + Len(batch) /\ nx <= Len(fx) /\ ny <= Len(fy) /\ Counted <= ny
      /\ IsFile(meta) => meta.obs <= ny
      /\ fy \in Seq(Nat) /\ ny \in Nat /\ batch \in Seq(Nat) /\ Len(batch) \in Nat
  BY <1>1, LenProperties DEF DurableInv, Typed, Whole
<1>3. /\ fy' \in Seq(Nat) /\ Len(fy') = ny + Len(batch)
      /\ \A i \in 1..ny : fy'[i] = fy[i]
      /\ \A j \in 1..Len(batch) : fy'[ny + j] = batch[j]
  BY <1>1, <1>2, AppendedRows
<1>4. Counted \in Nat /\ Counted' = Counted
  BY <1>1, CountedType DEF DurableInv, Counted, IsFile
<1>5. Typed'
  BY <1>1, <1>2, <1>3 DEF DurableInv, Typed, IsFile
<1>6. Held(Counted)'
  <2>1. \A i \in 1..Counted : i <= Len(fy') /\ fy'[i] = fy[i]
    <3> TAKE i \in 1..Counted
    <3>1. i \in 1..ny
      BY <1>2, <1>4
    <3>2. i <= Len(fy')
      BY <1>2, <1>3, <3>1
    <3> QED
      BY <1>3, <3>1, <3>2
  <2> QED
    BY <1>1, <1>4, <2>1 DEF DurableInv, Held
<1>7. Counts' /\ Whole'
  <2>1. IsFile(meta) => meta.obs \in Nat
    BY DEF DurableInv, Typed
  <2> QED
    BY <1>1, <1>2, <1>3, <1>4, <2>1 DEF DurableInv, Counts, Whole, IsFile
<1>8. Underway'
  <2>1. IsLastRows(fx, nx)'
    BY <1>1 DEF DurableInv, Underway, Appending, IsLastRows
  <2>2. IsLastRows(fy, ny)'
    BY <1>1, <1>2, <1>3 DEF IsLastRows
  <2> QED
    BY <1>1, <2>1, <2>2 DEF Underway, Appending
<1> QED
  BY <1>5, <1>6, <1>7, <1>8 DEF DurableInv

\* The append returns once its rows are counted in both columns.
LEMMA AppendIndexStep ==
  ASSUME DurableInv, AppendIndex
  PROVE  DurableInv'
<1>1. /\ pc = "append_index" /\ pc' \in {"idle", "closing"}
      /\ acked' = acked \cup {batch[i] : i \in DOMAIN batch} /\ batch' = <<>>
      /\ UNCHANGED <<fx, fy, numObs, meta, nx, ny, crashes>>
  BY DEF AppendIndex, Return, files
<1>2. /\ numObs = nx /\ nx = ny /\ nx <= Len(fx) /\ ny <= Len(fy)
      /\ nx \in Nat /\ IsLastRows(fx, nx) /\ IsLastRows(fy, ny)
      /\ Len(batch) \in Nat /\ DOMAIN batch = 1..Len(batch)
  BY <1>1, LenProperties DEF DurableInv, Typed, Whole, Underway, Appending
<1>3. Counted = nx /\ Counted' = nx
  BY <1>1, <1>2, StoreAssumption DEF Counted, IsFile
<1>4. Held(Counted)'
  <2> SUFFICES ASSUME NEW o \in acked'
               PROVE  \E i \in 1..nx : i <= Len(fx) /\ i <= Len(fy) /\ fx[i] = o /\ fy[i] = o
    BY <1>1, <1>3 DEF Held
  <2>1. CASE o \in acked
    BY <1>3, <2>1 DEF DurableInv, Held
  <2>2. CASE o \notin acked
    <3> PICK j \in 1..Len(batch) : o = batch[j]
      BY <1>1, <1>2, <2>2
    <3>1. nx - Len(batch) + j \in 1..nx
      BY <1>2 DEF IsLastRows
    <3>2. fx[nx - Len(batch) + j] = o /\ fy[nx - Len(batch) + j] = o
      BY <1>2 DEF IsLastRows
    <3> QED
      BY <1>2, <3>1, <3>2
  <2> QED
    BY <2>1, <2>2
<1>5. Typed' /\ Counts' /\ Whole' /\ Underway'
  BY <1>1, <1>2, <1>3, EmptySeq
     DEF DurableInv, Typed, Counts, Whole, Underway, Appending, IsFile
<1> QED
  BY <1>4, <1>5 DEF DurableInv

----------------------------------------------------------------------------
\* Every step keeps what is acknowledged within what is counted.
LEMMA DurableStep ==
  ASSUME DurableInv, [Next]_vars
  PROVE  DurableInv'
<1>1. CASE Crash \/ Exit
  BY <1>1, GoneStep DEF Crash, Exit, ghosts, DurableInv, Typed
<1>2. CASE OpenBegin
  BY <1>2, OpenBeginStep
<1>3. CASE OpenMeta0 \/ OpenMeta1 \/ PersistMeta0 \/ PersistMeta1
  BY <1>3, MetadataStep
     DEF OpenMeta0, OpenMeta1, PersistMeta0, PersistMeta1, Then, Goto, Appending, memory, ghosts
<1>4. CASE OpenCount \/ AppendCount
  BY <1>4, CounterStep DEF OpenCount, AppendCount, Then, Goto, Appending, memory, ghosts
<1>5. CASE AppendX \/ AppendY \/ AppendIndex
  BY <1>5, AppendXStep, AppendYStep, AppendIndexStep
<1>6. CASE OpenDiscard \/ BeginEnsure \/ Sync \/ SyncIdx0 \/ SyncIdx1
  BY <1>6, QuietStep
     DEF OpenDiscard, BeginEnsure, Sync, SyncIdx0, SyncIdx1, Then, Goto, Return, Appending,
         files, memory, ghosts
<1>7. CASE Search \/ SetMetric \/ BeginPersist \/ Persist
  BY <1>7, QuietStep
     DEF Search, SetMetric, BeginPersist, Persist, Then, Goto, Return, Appending,
         files, memory, ghosts
<1>8. CASE PersistPages \/ PersistHeader0 \/ PersistHeader1 \/ HeaderFails
  BY <1>8, QuietStep
     DEF PersistPages, PersistHeader0, PersistHeader1, HeaderFails, Then, Goto, Return,
         Appending, files, memory, ghosts
<1>9. CASE PersistIdx0 \/ PersistIdx1 \/ WriteFails
  BY <1>9, QuietStep
     DEF PersistIdx0, PersistIdx1, WriteFails, Then, Goto, Return, Appending,
         files, memory, ghosts
<1>10. CASE OpenFails \/ UNCHANGED vars
  BY <1>10
     DEF OpenFails, vars, files, memory, ghosts, DurableInv, Typed, Held, Counts, Whole,
         Underway, IsLastRows, Counted, IsFile
<1> QED
  BY <1>1, <1>2, <1>3, <1>4, <1>5, <1>6, <1>7, <1>8, <1>9, <1>10 DEF Next

\* The inductive invariant of the rows and their counts.
THEOREM Durability == Spec => []DurableInv
<1>1. Init => DurableInv
  BY InitDurable
<1>2. DurableInv /\ [Next]_vars => DurableInv'
  BY DurableStep
<1> QED
  BY <1>1, <1>2, PTL DEF Spec

\* append_rows, bpann_load_num_obs: a row whose append returned is found by every later open,
\* after any number of crashes and failed writes.
THEOREM AcknowledgedIsDurable == Spec => []AckedDurable
<1>1. DurableInv => AckedDurable
  BY OnDisk, CountedType DEF DurableInv, Held, AckedDurable
<1> QED
  BY <1>1, Durability, PTL

----------------------------------------------------------------------------
(* What persist leaves behind, and which metric rows and pages are in.  Two  *)
(* chains of facts meet at a reopen: the flag of a process speaks for its    *)
(* files (Flagged), and foreign pages are announced by the marker or by the  *)
(* metadata until they are rewritten (OfPages).                              *)

Opening    == {"open_meta0", "open_meta1", "open_count", "open_discard"}
Syncing    == {"sync", "sync_idx0", "sync_idx1"}
Persisting == {"persist", "pages", "header0", "header1", "meta0", "meta1", "idx0", "idx1"}

Trees == [rows : Nat, metric : Metrics \cup {None}]

\* Files and memory hold values of their kind.
Shapes ==
  /\ meta \in [obs : Nat, indexed : Nat, scaled : BOOLEAN] \cup {None, Torn}
  /\ idxRows \in Nat \cup {None, Torn} /\ header \in Nat \cup {None, Torn}
  /\ pages \in Trees \cup {None} /\ bak \in Trees \cup {None} /\ cache \in Trees \cup {None}
  /\ index \in Trees /\ written \in Nat
  /\ scale \in BOOLEAN \X Metrics /\ want \in BOOLEAN \X Metrics
  /\ marker \in BOOLEAN /\ dirty \in BOOLEAN /\ faulted \in BOOLEAN

\* Which calls are at which places.
Calls ==
  /\ pc \in {"down", "idle", "closing"} \cup Appending \cup Opening \cup Syncing \cup Persisting
  /\ pc \in {"down", "idle", "closing"} => op = "none"
  /\ pc \in Appending => op = "append"
  /\ pc \in Opening => op = "open"
  /\ pc \in Syncing => op \in {"open", "ensure"}
  /\ pc \in Persisting => op \in {"persist", "close"}

\* Between calls the counter and the index are up to date; a page file is never empty.
UpToDate ==
  /\ pc \in {"idle", "closing", "open_discard"} \cup Syncing \cup Persisting => numObs = nx
  /\ pc \in {"idle", "closing", "sync_idx0", "sync_idx1"} \cup Opening \cup Persisting =>
       index.rows = nx
  /\ pages # None => IsFile(numObs) /\ numObs > 0

\* How far a persist has come.
Progress ==
  /\ pc \in {"pages", "header0", "header1"} => nx > 0
  /\ pc \in {"header0", "header1"} => pages = index
  /\ pc \in {"meta0", "meta1", "idx0", "idx1"} /\ nx > 0 => pages = index /\ header = nx
  /\ pc \in {"idx0", "idx1"} => meta = MetadataNow
  /\ pc = "idx1" => idxRows = Torn
  /\ pc = "open_meta1" => meta = Torn

\* A process whose files were all written knows it by its flag.
InDoubt == {"down", "open_meta0", "open_meta1", "meta1"}
Sidecar == IF IsFile(idxRows) THEN idxRows >= nx ELSE IsFile(meta) => meta.indexed >= nx
Flagged ==
  ~faulted =>
    /\ pc \notin InDoubt => IsFile(meta)
    /\ pc \in {"sync_idx0", "sync_idx1", "append_index"} => dirty
    /\ pc \in {"idle", "sync", "persist"} \cup Opening /\ ~dirty => written = nx /\ Sidecar
    /\ pc = "closing" /\ nx > 0 => pages = index

\* Pages in a metric that a new process would not expect, and metadata that warns of it.
Foreign == pages # None /\ pages.metric # One
SaysScaled == meta = Torn \/ (IsFile(meta) /\ meta.scaled)

\* Backend and model agree on the metric, and so does the cache.
Scales ==
  /\ InForce(want) = Metric
  /\ pc \in Opening \/ op = "open" => want = Identity /\ scale[2] = One /\ cache = None
  /\ pc = "down" => want = Identity /\ scale = Identity /\ cache = None
  /\ cache # None => cache.metric = Metric
  /\ Metric # One => marker

\* The index is in that metric, or a reset of it is under way.
OfIndex ==
  /\ pc \notin {"down", "sync"} \cup Opening /\ index.rows > 0 => index.metric = Metric
  /\ pc \in Opening /\ index.rows > 0 /\ index.metric # One => scale[1] \/ marker
  /\ pc = "sync" /\ index.rows > 0 /\ scale = want => index.metric = Metric

\* Foreign pages are announced as long as a crash may still be survived.
OfPages ==
  /\ pc = "down" /\ Foreign => marker \/ SaysScaled
  /\ crashes = 0 /\ Foreign =>
       /\ pc \notin {"header0", "header1", "meta0", "meta1"} => SaysScaled
       /\ pc \in {"open_meta0", "open_meta1"} => scale[1]

MetricInv == ~faulted => Scales /\ (crashes <= 1 => OfIndex /\ OfPages)

\* A tree of so many rows in a metric is one of Trees.
LEMMA TreeType ==
  ASSUME NEW r \in Nat, NEW m \in Metrics \cup {None}
  PROVE  Tree(r, m) \in Trees
BY DEF Tree, Trees

\* Whatever scale is set, one of the metrics is in force.
LEMMA ForceType ==
  ASSUME NEW s \in BOOLEAN \X Metrics
  PROVE  InForce(s) \in Metrics
BY StoreAssumption DEF InForce

\* What an open reads of counts is a number.
LEMMA DiskType ==
  ASSUME DurableInv, Shapes
  PROVE  RowsOnDisk \in Nat /\ IndexedOnDisk \in Nat
BY OnDisk DEF DurableInv, Shapes, IndexedOnDisk, IsFile

\* What is in a file or in memory keeps its shape.
LEMMA ShapesStep ==
  ASSUME DurableInv, DurableInv', Shapes, [Next]_vars
  PROVE  Shapes'
<1>a. /\ nx \in Nat /\ ny \in Nat /\ crashes \in Nat
      /\ numObs \in Nat \cup {None} /\ numObs' \in Nat \cup {None}
  BY DEF DurableInv, Typed
<1>1. CASE Crash \/ Exit
  <2>1. Tree(0, One) \in Trees /\ Identity \in BOOLEAN \X Metrics
    BY TreeType, StoreAssumption DEF Identity
  <2>2. UNCHANGED <<meta, idxRows, header, pages, marker, faulted>>
    BY <1>1 DEF Crash, Exit, files, ghosts
  <2>3. /\ scale' = Identity /\ want' = Identity /\ index' = Tree(0, One) /\ written' = 0
        /\ dirty' = FALSE /\ cache' = None /\ bak' = None
    BY <1>1 DEF Crash, Exit, Gone
  <2> QED
    BY <2>1, <2>2, <2>3 DEF Shapes
<1>2. CASE OpenMeta0 \/ OpenMeta1 \/ OpenCount \/ BeginEnsure \/ SyncIdx0 \/ SyncIdx1
  BY <1>2, <1>a, StoreAssumption
     DEF OpenMeta0, OpenMeta1, OpenCount, BeginEnsure, SyncIdx0, SyncIdx1, Then, Goto, Return,
         Gone, files, memory, ghosts, Shapes, Trees, Tree, Identity, MetadataNow
<1>3. CASE AppendX \/ AppendY \/ AppendCount \/ BeginPersist
  BY <1>3, <1>a, StoreAssumption
     DEF AppendX, AppendY, AppendCount, BeginPersist, Then, Goto, Return, Gone, files, memory,
         ghosts, Shapes, Trees, Tree, Identity, MetadataNow
<1>4. CASE PersistPages \/ PersistHeader0
  BY <1>4, <1>a, StoreAssumption
     DEF PersistPages, PersistHeader0, Then, Goto, Return, Gone, files, memory, ghosts, Shapes,
         Trees, Tree, Identity, MetadataNow
<1>5. CASE PersistHeader1
  BY <1>5, <1>a, StoreAssumption
     DEF PersistHeader1, Then, Goto, Return, Gone, files, memory, ghosts, Shapes, Trees, Tree,
         Identity, MetadataNow
<1>6. CASE HeaderFails
  BY <1>6, <1>a, StoreAssumption
     DEF HeaderFails, Then, Goto, Return, Gone, files, memory, ghosts, Shapes, Trees, Tree,
         Identity, MetadataNow
<1>7. CASE PersistMeta0 \/ PersistMeta1
  BY <1>7, <1>a, StoreAssumption
     DEF PersistMeta0, PersistMeta1, Then, Goto, Return, Gone, files, memory, ghosts, Shapes,
         Trees, Tree, Identity, MetadataNow
<1>8. CASE PersistIdx0 \/ PersistIdx1 \/ WriteFails
  BY <1>8, <1>a, StoreAssumption
     DEF PersistIdx0, PersistIdx1, WriteFails, Then, Goto, Return, Gone, files, memory, ghosts,
         Shapes, Trees, Tree, Identity, MetadataNow
<1>9. CASE OpenBegin
  <2>1. RowsOnDisk \in Nat /\ Smaller(IndexedOnDisk, RowsOnDisk) \in Nat
    BY DiskType DEF Smaller
  <2>2. /\ written' = Smaller(IndexedOnDisk, RowsOnDisk)
        /\ dirty' = (Smaller(IndexedOnDisk, RowsOnDisk) < RowsOnDisk)
        /\ scale' = IF IsFile(meta) THEN <<meta.scaled, One>> ELSE Identity
        /\ UNCHANGED <<meta, idxRows, marker, header, pages, want, cache, bak, faulted>>
    BY <1>9 DEF OpenBegin, ghosts
  <2>3. PICK m \in {pages.metric, InForce(scale')} :
          /\ m = pages.metric => IsFile(pages) \/ m = InForce(scale')
          /\ index' = Tree(RowsOnDisk, m)
    BY <1>9, <2>2 DEF OpenBegin, Adopts
  <2>4. scale' \in BOOLEAN \X Metrics
    BY <2>2, StoreAssumption DEF Shapes, IsFile, Identity
  <2>5. m \in Metrics \cup {None}
    BY <2>3, <2>4, ForceType DEF Shapes, Trees, IsFile
  <2>6. index' \in Trees
    BY <2>1, <2>3, <2>5, TreeType
  <2>7. dirty' \in BOOLEAN
    BY <2>2
  <2> QED
    BY <2>1, <2>2, <2>4, <2>6, <2>7 DEF Shapes
<1>10. CASE OpenDiscard
  <2>1. Tree(0, Metric) \in Trees
    BY TreeType, ForceType DEF Metric, Shapes
  <2> QED
    BY <1>10, <2>1 DEF OpenDiscard, Shapes, ghosts
<1>11. CASE Sync
  <2>1. /\ Tree(nx, InForce(want)) \in Trees
        /\ Tree(nx, index.metric) \in Trees
    BY TreeType, ForceType DEF Shapes, Trees, DurableInv, Typed
  <2>2. index' \in Trees
    BY <1>11, <2>1 DEF Sync
  <2> QED
    BY <1>11, <2>2 DEF Sync, Shapes, files, ghosts
<1>12. CASE AppendIndex
  <2>1. /\ Tree(nx, Metric) \in Trees
        /\ Tree(nx, index.metric) \in Trees
    BY TreeType, ForceType DEF Metric, Shapes, Trees, DurableInv, Typed
  <2>2. index' \in Trees
    BY <1>12, <2>1 DEF AppendIndex
  <2> QED
    BY <1>12, <2>2 DEF AppendIndex, Shapes, files
<1>13. CASE Search
  <2>1. Tree(nx, Metric) \in Trees
    BY TreeType, ForceType DEF Metric, Shapes, DurableInv, Typed
  <2>2. cache' \in Trees \cup {None}
    BY <1>13, <2>1 DEF Search, Shapes
  <2> QED
    BY <1>13, <2>2 DEF Search, Shapes, files, ghosts
<1>14. CASE SetMetric
  <2> PICK m \in Metrics :
        /\ scale' = <<TRUE, m>>
        /\ index' = IF index.metric = Metric THEN Tree(index.rows, m)
                    ELSE Tree(index.rows, None)
        /\ want' = want \/ want' = <<TRUE, m>>
        /\ marker' = marker \/ marker' = TRUE
        /\ faulted' = faulted \/ faulted' = TRUE
    BY <1>14 DEF SetMetric
  <2>1. Tree(index.rows, m) \in Trees /\ Tree(index.rows, None) \in Trees
    BY TreeType DEF Shapes, Trees
  <2>2. index' \in Trees
    BY <2>1
  <2>3. scale' \in BOOLEAN \X Metrics /\ want' \in BOOLEAN \X Metrics
    <3>1. <<TRUE, m>> \in BOOLEAN \X Metrics
      OBVIOUS
    <3> QED
      BY <3>1, Zenon DEF Shapes
  <2>4. marker' \in BOOLEAN /\ faulted' \in BOOLEAN
    BY DEF Shapes
  <2> QED
    BY <1>14, <2>2, <2>3, <2>4 DEF SetMetric, Shapes
<1>15. CASE Persist
  <2>1. /\ Tree(nx, Metric) \in Trees
        /\ Tree(nx, index.metric) \in Trees
    BY TreeType, ForceType DEF Metric, Shapes, Trees, DurableInv, Typed
  <2>2. index' \in Trees /\ bak' \in Trees \cup {None} /\ dirty' \in BOOLEAN
    BY <1>15, <2>1 DEF Persist, Shapes
  <2> QED
    BY <1>15, <2>2 DEF Persist, Shapes, files, ghosts
<1>16. CASE OpenFails \/ UNCHANGED vars
  BY <1>16, <1>a, StoreAssumption
     DEF OpenFails, vars, files, memory, ghosts, Shapes, Trees, Tree, Identity, MetadataNow
<1> QED BY <1>1, <1>2, <1>3, <1>4, <1>5, <1>6, <1>7, <1>8, <1>9, <1>10, <1>11, <1>12, <1>13,
           <1>14, <1>15, <1>16 DEF Next

\* A call goes from place to place as its code does.
LEMMA CallsStep ==
  ASSUME Calls, [Next]_vars
  PROVE  Calls'
<1>1. CASE Crash \/ Exit
  BY <1>1
     DEF Crash, Exit, Then, Goto, Return, Gone, files, memory, ghosts, Calls, Appending,
         Opening, Syncing, Persisting
<1>2. CASE OpenBegin \/ OpenMeta0 \/ OpenMeta1 \/ OpenCount \/ OpenDiscard
  BY <1>2
     DEF OpenBegin, OpenMeta0, OpenMeta1, OpenCount, OpenDiscard, Then, Goto, Return, Gone,
         files, memory, ghosts, Calls, Appending, Opening, Syncing, Persisting
<1>3. CASE BeginEnsure \/ Sync \/ SyncIdx0 \/ SyncIdx1
  BY <1>3
     DEF BeginEnsure, Sync, SyncIdx0, SyncIdx1, Then, Goto, Return, Gone, files, memory, ghosts,
         Calls, Appending, Opening, Syncing, Persisting
<1>4. CASE AppendX \/ AppendY \/ AppendCount \/ AppendIndex \/ Search \/ SetMetric
  BY <1>4
     DEF AppendX, AppendY, AppendCount, AppendIndex, Search, SetMetric, Then, Goto, Return,
         Gone, files, memory, ghosts, Calls, Appending, Opening, Syncing, Persisting
<1>5. CASE BeginPersist \/ Persist \/ PersistPages \/ PersistHeader0 \/ PersistHeader1 \/
           HeaderFails
  BY <1>5
     DEF BeginPersist, Persist, PersistPages, PersistHeader0, PersistHeader1, HeaderFails, Then,
         Goto, Return, Gone, files, memory, ghosts, Calls, Appending, Opening, Syncing,
         Persisting
<1>6. CASE PersistMeta0 \/ PersistMeta1 \/ PersistIdx0 \/ PersistIdx1 \/ WriteFails
  BY <1>6
     DEF PersistMeta0, PersistMeta1, PersistIdx0, PersistIdx1, WriteFails, Then, Goto, Return,
         Gone, files, memory, ghosts, Calls, Appending, Opening, Syncing, Persisting
<1>7. CASE OpenFails \/ UNCHANGED vars
  BY <1>7
     DEF OpenFails, vars, files, memory, ghosts, Calls, Appending, Opening, Syncing, Persisting
<1> QED BY <1>1, <1>2, <1>3, <1>4, <1>5, <1>6, <1>7 DEF Next

\* Between calls the counter and the index are up to date.
LEMMA UpToDateStep ==
  ASSUME DurableInv, DurableInv', Shapes, Calls, UpToDate, Progress, [Next]_vars
  PROVE  UpToDate'
<1>a. /\ nx \in Nat /\ ny \in Nat /\ index \in Trees /\ written \in Nat
      /\ pages \in Trees \cup {None} /\ bak \in Trees \cup {None}
      /\ numObs \in Nat \cup {None} /\ header \in Nat \cup {None, Torn}
  BY DEF DurableInv, Typed, Shapes
<1>b. /\ pc # "down" => Counted <= nx
      /\ pc = "append_index" => numObs = nx
      /\ IsFile(numObs) => Counted = numObs
      /\ Counted \in Nat
  BY CountedType, LenProperties DEF DurableInv, Typed, Whole, Underway, Counted
<1>c. \A n \in Nat : IsFile(n)
  BY StoreAssumption DEF IsFile
<1>1. CASE Crash \/ Exit
  BY <1>1, <1>a, <1>b, <1>c, StoreAssumption
     DEF Crash, Exit, Then, Goto, Return, Gone, files, memory, ghosts, Tree, UpToDate, Calls,
         Appending, Opening, Syncing, Persisting
<1>2. CASE OpenBegin
  BY <1>2, <1>a, <1>b, <1>c, StoreAssumption
     DEF OpenBegin, Then, Goto, Return, Gone, files, memory, ghosts, Tree, UpToDate, Calls,
         Appending, Opening, Syncing, Persisting
<1>3. CASE OpenMeta0 \/ OpenMeta1
  BY <1>3, <1>a, <1>b, <1>c, StoreAssumption
     DEF OpenMeta0, OpenMeta1, Then, Goto, Return, Gone, files, memory, ghosts, Tree, UpToDate,
         Calls, Appending, Opening, Syncing, Persisting
<1>4. CASE OpenCount
  <2>1. pages # None => nx > 0
    BY <1>4, <1>a, <1>b DEF OpenCount, UpToDate
  <2>2. IsFile(numObs')
    BY <1>4, <1>a, <1>c DEF OpenCount
  <2> QED
    BY <1>4, <2>1, <2>2
       DEF OpenCount, Then, Goto, memory, UpToDate, Calls, Appending, Opening, Syncing, Persisting
<1>5. CASE OpenDiscard
  BY <1>5, <1>a, <1>b, <1>c, StoreAssumption
     DEF OpenDiscard, Then, Goto, Return, Gone, files, memory, ghosts, Tree, UpToDate, Calls,
         Appending, Opening, Syncing, Persisting
<1>6. CASE BeginEnsure
  BY <1>6, <1>a, <1>b, <1>c, StoreAssumption
     DEF BeginEnsure, Then, Goto, Return, Gone, files, memory, ghosts, Tree, UpToDate, Calls,
         Appending, Opening, Syncing, Persisting
<1>7. CASE Sync
  BY <1>7, <1>a, <1>b, <1>c, StoreAssumption
     DEF Sync, Then, Goto, Return, Gone, files, memory, ghosts, Tree, UpToDate, Calls,
         Appending, Opening, Syncing, Persisting
<1>8. CASE SyncIdx0 \/ SyncIdx1
  BY <1>8, <1>a, <1>b, <1>c, StoreAssumption
     DEF SyncIdx0, SyncIdx1, Then, Goto, Return, Gone, files, memory, ghosts, Tree, UpToDate,
         Calls, Appending, Opening, Syncing, Persisting
<1>9. CASE AppendX \/ AppendY
  BY <1>9, <1>a, <1>b, <1>c, StoreAssumption
     DEF AppendX, AppendY, Then, Goto, Return, Gone, files, memory, ghosts, Tree, UpToDate,
         Calls, Appending, Opening, Syncing, Persisting
<1>10. CASE AppendCount
  <2>1. pages # None => nx > 0
    BY <1>10, <1>a, <1>b DEF AppendCount, UpToDate
  <2>2. IsFile(numObs')
    BY <1>10, <1>a, <1>c DEF AppendCount
  <2> QED
    BY <1>10, <2>1, <2>2
       DEF AppendCount, Then, Goto, memory, UpToDate, Calls, Appending, Opening, Syncing, Persisting
<1>11. CASE AppendIndex
  BY <1>11, <1>a, <1>b, <1>c, StoreAssumption
     DEF AppendIndex, Then, Goto, Return, Gone, files, memory, ghosts, Tree, UpToDate, Calls,
         Appending, Opening, Syncing, Persisting
<1>12. CASE Search
  BY <1>12, <1>a, <1>b, <1>c, StoreAssumption
     DEF Search, Then, Goto, Return, Gone, files, memory, ghosts, Tree, UpToDate, Calls,
         Appending, Opening, Syncing, Persisting
<1>13. CASE SetMetric
  BY <1>13, <1>a, <1>b, <1>c, StoreAssumption
     DEF SetMetric, Then, Goto, Return, Gone, files, memory, ghosts, Tree, UpToDate, Calls,
         Appending, Opening, Syncing, Persisting
<1>14. CASE BeginPersist
  BY <1>14, <1>a, <1>b, <1>c, StoreAssumption
     DEF BeginPersist, Then, Goto, Return, Gone, files, memory, ghosts, Tree, UpToDate, Calls,
         Appending, Opening, Syncing, Persisting
<1>15. CASE Persist
  BY <1>15, <1>a, <1>b, <1>c, StoreAssumption
     DEF Persist, Then, Goto, Return, Gone, files, memory, ghosts, Tree, UpToDate, Calls,
         Appending, Opening, Syncing, Persisting
<1>16. CASE PersistPages
  <2>1. numObs = nx /\ nx > 0
    BY <1>16 DEF PersistPages, UpToDate, Progress, Persisting
  <2>2. IsFile(numObs') /\ numObs' > 0 /\ nx' = nx /\ numObs' = nx /\ index' = index
    BY <1>16, <2>1, <1>a, <1>c DEF PersistPages, Then, files, memory
  <2>3. op' = op /\ pc' = "header0"
    BY <1>16 DEF PersistPages, Then, Goto
  <2> QED
    BY <1>16, <2>1, <2>2, <2>3
       DEF PersistPages, UpToDate, Calls, Appending, Opening, Syncing, Persisting
<1>17. CASE PersistHeader0 \/ PersistHeader1
  BY <1>17, <1>a, <1>b, <1>c, StoreAssumption
     DEF PersistHeader0, PersistHeader1, Then, Goto, Return, Gone, files, memory, ghosts, Tree,
         UpToDate, Calls, Appending, Opening, Syncing, Persisting
<1>18. CASE HeaderFails
  <2>1. numObs = nx /\ nx > 0
    BY <1>18 DEF HeaderFails, UpToDate, Progress, Persisting
  <2>2. IsFile(numObs') /\ numObs' > 0 /\ nx' = nx /\ numObs' = nx /\ index' = index
    BY <1>18, <2>1, <1>a, <1>c DEF HeaderFails, Then, files, memory
  <2>3. pc' \in {"idle", "closing"}
    BY <1>18 DEF HeaderFails, Return
  <2> QED
    BY <1>18, <2>1, <2>2, <2>3
       DEF HeaderFails, UpToDate, Calls, Appending, Opening, Syncing, Persisting
<1>19. CASE PersistMeta0 \/ PersistMeta1 \/ PersistIdx0 \/ PersistIdx1 \/ WriteFails
  BY <1>19, <1>a, <1>b, <1>c, StoreAssumption
     DEF PersistMeta0, PersistMeta1, PersistIdx0, PersistIdx1, WriteFails, Then, Goto, Return,
         Gone, files, memory, ghosts, Tree, UpToDate, Calls, Appending, Opening, Syncing,
         Persisting
<1>20. CASE OpenFails \/ UNCHANGED vars
  BY <1>20, <1>a, <1>b, <1>c, StoreAssumption
     DEF OpenFails, vars, files, memory, ghosts, Tree, UpToDate, Calls, Appending, Opening,
         Syncing, Persisting
<1> QED BY <1>1, <1>2, <1>3, <1>4, <1>5, <1>6, <1>7, <1>8, <1>9, <1>10, <1>11, <1>12, <1>13,
           <1>14, <1>15, <1>16, <1>17, <1>18, <1>19, <1>20 DEF Next

\* A persist has written what the files it is past hold.
LEMMA ProgressStep ==
  ASSUME DurableInv, Shapes, Calls, UpToDate, Progress, [Next]_vars
  PROVE  Progress'
<1>a. /\ nx \in Nat /\ ny \in Nat /\ index \in Trees /\ written \in Nat
      /\ pages \in Trees \cup {None} /\ bak \in Trees \cup {None}
      /\ numObs \in Nat \cup {None} /\ header \in Nat \cup {None, Torn}
  BY DEF DurableInv, Typed, Shapes
<1>1. CASE Crash \/ Exit
  BY <1>1, <1>a, StoreAssumption
     DEF Crash, Exit, Then, Goto, Return, Gone, files, memory, ghosts, MetadataNow, Progress,
         UpToDate, Calls, Appending, Opening, Syncing, Persisting
<1>2. CASE OpenBegin \/ OpenMeta0 \/ OpenMeta1
  BY <1>2, <1>a, StoreAssumption
     DEF OpenBegin, OpenMeta0, OpenMeta1, Then, Goto, Return, Gone, files, memory, ghosts,
         MetadataNow, Progress, UpToDate, Calls, Appending, Opening, Syncing, Persisting
<1>3. CASE OpenCount \/ OpenDiscard
  BY <1>3, <1>a, StoreAssumption
     DEF OpenCount, OpenDiscard, Then, Goto, Return, Gone, files, memory, ghosts, MetadataNow,
         Progress, UpToDate, Calls, Appending, Opening, Syncing, Persisting
<1>4. CASE BeginEnsure \/ Sync \/ SyncIdx0 \/ SyncIdx1
  BY <1>4, <1>a, StoreAssumption
     DEF BeginEnsure, Sync, SyncIdx0, SyncIdx1, Then, Goto, Return, Gone, files, memory, ghosts,
         MetadataNow, Progress, UpToDate, Calls, Appending, Opening, Syncing, Persisting
<1>5. CASE AppendX \/ AppendY \/ AppendCount \/ AppendIndex
  BY <1>5, <1>a, StoreAssumption
     DEF AppendX, AppendY, AppendCount, AppendIndex, Then, Goto, Return, Gone, files, memory,
         ghosts, MetadataNow, Progress, UpToDate, Calls, Appending, Opening, Syncing, Persisting
<1>6. CASE Search \/ SetMetric
  BY <1>6, <1>a, StoreAssumption
     DEF Search, SetMetric, Then, Goto, Return, Gone, files, memory, ghosts, MetadataNow,
         Progress, UpToDate, Calls, Appending, Opening, Syncing, Persisting
<1>7. CASE BeginPersist
  BY <1>7, <1>a, StoreAssumption
     DEF BeginPersist, Then, Goto, Return, Gone, files, memory, ghosts, MetadataNow, Progress,
         UpToDate, Calls, Appending, Opening, Syncing, Persisting
<1>8. CASE Persist
  BY <1>8, <1>a, StoreAssumption
     DEF Persist, Then, Goto, Return, Gone, files, memory, ghosts, MetadataNow, Progress,
         UpToDate, Calls, Appending, Opening, Syncing, Persisting
<1>9. CASE PersistPages
  BY <1>9, <1>a, StoreAssumption
     DEF PersistPages, Then, Goto, Return, Gone, files, memory, ghosts, MetadataNow, Progress,
         UpToDate, Calls, Appending, Opening, Syncing, Persisting
<1>10. CASE PersistHeader0 \/ PersistHeader1
  BY <1>10, <1>a, StoreAssumption
     DEF PersistHeader0, PersistHeader1, Then, Goto, Return, Gone, files, memory, ghosts,
         MetadataNow, Progress, UpToDate, Calls, Appending, Opening, Syncing, Persisting
<1>11. CASE HeaderFails
  BY <1>11, <1>a, StoreAssumption
     DEF HeaderFails, Then, Goto, Return, Gone, files, memory, ghosts, MetadataNow, Progress,
         UpToDate, Calls, Appending, Opening, Syncing, Persisting
<1>12. CASE PersistMeta0 \/ PersistMeta1
  BY <1>12, <1>a, StoreAssumption
     DEF PersistMeta0, PersistMeta1, Then, Goto, Return, Gone, files, memory, ghosts,
         MetadataNow, Progress, UpToDate, Calls, Appending, Opening, Syncing, Persisting
<1>13. CASE PersistIdx0 \/ PersistIdx1
  BY <1>13, <1>a, StoreAssumption
     DEF PersistIdx0, PersistIdx1, Then, Goto, Return, Gone, files, memory, ghosts, MetadataNow,
         Progress, UpToDate, Calls, Appending, Opening, Syncing, Persisting
<1>14. CASE WriteFails
  BY <1>14, <1>a, StoreAssumption
     DEF WriteFails, Then, Goto, Return, Gone, files, memory, ghosts, MetadataNow, Progress,
         UpToDate, Calls, Appending, Opening, Syncing, Persisting
<1>15. CASE OpenFails \/ UNCHANGED vars
  BY <1>15, <1>a, StoreAssumption
     DEF OpenFails, vars, files, memory, ghosts, MetadataNow, Progress, UpToDate, Calls,
         Appending, Opening, Syncing, Persisting
<1> QED BY <1>1, <1>2, <1>3, <1>4, <1>5, <1>6, <1>7, <1>8, <1>9, <1>10, <1>11, <1>12, <1>13,
           <1>14, <1>15 DEF Next

\* A flag that is clear speaks for the files, as long as every write succeeded.
LEMMA FlaggedStep ==
  ASSUME DurableInv, DurableInv', Shapes, Shapes', Calls, UpToDate, Progress, Flagged, [Next]_vars
  PROVE  Flagged'
<1>a. /\ nx \in Nat /\ ny \in Nat /\ index \in Trees /\ written \in Nat
      /\ pages \in Trees \cup {None} /\ bak \in Trees \cup {None}
      /\ numObs \in Nat \cup {None} /\ header \in Nat \cup {None, Torn}
  BY DEF DurableInv, Typed, Shapes
<1>b. pc \notin {"down", "append_y"} => nx = ny
  BY DEF DurableInv, Typed, Whole
<1>c. /\ \A r \in Trees : IsFile(r)
      /\ \A r \in [obs : Nat, indexed : Nat, scaled : BOOLEAN] : IsFile(r)
  BY StoreAssumption DEF IsFile, Trees
<1>1. CASE Crash \/ Exit
  BY <1>1, <1>a, <1>b, StoreAssumption
     DEF Crash, Exit, Then, Goto, Return, Gone, files, memory, ghosts, NeedsDiskRewrite,
         MetadataNow, Flagged, InDoubt, Sidecar, IsFile, Apart, UpToDate, Progress, Calls,
         Shapes, Appending, Opening, Syncing, Persisting
<1>2. CASE OpenBegin
  <2>1. /\ RowsOnDisk \in Nat /\ IndexedOnDisk \in Nat
        /\ nx' = RowsOnDisk /\ written' = Smaller(IndexedOnDisk, RowsOnDisk)
        /\ ~dirty' => ~(Smaller(IndexedOnDisk, RowsOnDisk) < RowsOnDisk)
        /\ UNCHANGED <<idxRows, meta, faulted>> /\ pc' = "open_meta0"
    BY <1>2, DiskType DEF OpenBegin, Goto, ghosts
  <2>2. ~dirty' => written' = nx' /\ IndexedOnDisk >= nx'
    BY <2>1 DEF Smaller
  <2>3. ~dirty' => Sidecar'
    BY <2>1, <2>2 DEF Sidecar, IndexedOnDisk, IsFile
  <2> QED
    BY <2>1, <2>2, <2>3 DEF Flagged, InDoubt, Opening
<1>3. CASE OpenMeta0 \/ OpenMeta1
  BY <1>3, <1>a, <1>b, StoreAssumption
     DEF OpenMeta0, OpenMeta1, Then, Goto, Return, Gone, files, memory, ghosts,
         NeedsDiskRewrite, MetadataNow, Flagged, InDoubt, Sidecar, IsFile, Apart, UpToDate,
         Progress, Calls, Shapes, Appending, Opening, Syncing, Persisting
<1>4. CASE OpenCount \/ OpenDiscard
  BY <1>4, <1>a, <1>b, StoreAssumption
     DEF OpenCount, OpenDiscard, Then, Goto, Return, Gone, files, memory, ghosts,
         NeedsDiskRewrite, MetadataNow, Flagged, InDoubt, Sidecar, IsFile, Apart, UpToDate,
         Progress, Calls, Shapes, Appending, Opening, Syncing, Persisting
<1>5. CASE BeginEnsure
  BY <1>5, <1>a, <1>b, StoreAssumption
     DEF BeginEnsure, Then, Goto, Return, Gone, files, memory, ghosts, NeedsDiskRewrite,
         MetadataNow, Flagged, InDoubt, Sidecar, IsFile, Apart, UpToDate, Progress, Calls,
         Shapes, Appending, Opening, Syncing, Persisting
<1>6. CASE Sync
  BY <1>6, <1>a, <1>b, StoreAssumption
     DEF Sync, Then, Goto, Return, Gone, files, memory, ghosts, NeedsDiskRewrite, MetadataNow,
         Flagged, InDoubt, Sidecar, IsFile, Apart, UpToDate, Progress, Calls, Shapes, Appending,
         Opening, Syncing, Persisting
<1>7. CASE SyncIdx0 \/ SyncIdx1
  BY <1>7, <1>a, <1>b, StoreAssumption
     DEF SyncIdx0, SyncIdx1, Then, Goto, Return, Gone, files, memory, ghosts, NeedsDiskRewrite,
         MetadataNow, Flagged, InDoubt, Sidecar, IsFile, Apart, UpToDate, Progress, Calls,
         Shapes, Appending, Opening, Syncing, Persisting
<1>8. CASE AppendX \/ AppendY
  BY <1>8, <1>a, <1>b, StoreAssumption
     DEF AppendX, AppendY, Then, Goto, Return, Gone, files, memory, ghosts, NeedsDiskRewrite,
         MetadataNow, Flagged, InDoubt, Sidecar, IsFile, Apart, UpToDate, Progress, Calls,
         Shapes, Appending, Opening, Syncing, Persisting
<1>9. CASE AppendCount \/ AppendIndex
  BY <1>9, <1>a, <1>b, StoreAssumption
     DEF AppendCount, AppendIndex, Then, Goto, Return, Gone, files, memory, ghosts,
         NeedsDiskRewrite, MetadataNow, Flagged, InDoubt, Sidecar, IsFile, Apart, UpToDate,
         Progress, Calls, Shapes, Appending, Opening, Syncing, Persisting
<1>10. CASE Search
  BY <1>10, <1>a, <1>b, StoreAssumption
     DEF Search, Then, Goto, Return, Gone, files, memory, ghosts, NeedsDiskRewrite, MetadataNow,
         Flagged, InDoubt, Sidecar, IsFile, Apart, UpToDate, Progress, Calls, Shapes, Appending,
         Opening, Syncing, Persisting
<1>11. CASE SetMetric
  <2>1. /\ UNCHANGED <<idxRows, meta, nx, written, dirty, pc>>
        /\ pc = "idle" /\ faulted' \in {faulted, TRUE}
    BY <1>11 DEF SetMetric
  <2>2. Sidecar' = Sidecar
    BY <2>1 DEF Sidecar, IsFile
  <2> QED
    BY <2>1, <2>2 DEF Flagged, InDoubt, Shapes, IsFile
<1>12. CASE BeginPersist
  BY <1>12, <1>a, <1>b, StoreAssumption
     DEF BeginPersist, Then, Goto, Return, Gone, files, memory, ghosts, NeedsDiskRewrite,
         MetadataNow, Flagged, InDoubt, Sidecar, IsFile, Apart, UpToDate, Progress, Calls,
         Shapes, Appending, Opening, Syncing, Persisting
<1>13. CASE Persist
  BY <1>13, <1>a, <1>b, StoreAssumption
     DEF Persist, Then, Goto, Return, Gone, files, memory, ghosts, NeedsDiskRewrite,
         MetadataNow, Flagged, InDoubt, Sidecar, IsFile, Apart, UpToDate, Progress, Calls,
         Shapes, Appending, Opening, Syncing, Persisting
<1>14. CASE PersistPages \/ PersistHeader0 \/ PersistHeader1
  BY <1>14, <1>a, <1>b, StoreAssumption
     DEF PersistPages, PersistHeader0, PersistHeader1, Then, Goto, Return, Gone, files, memory,
         ghosts, NeedsDiskRewrite, MetadataNow, Flagged, InDoubt, Sidecar, IsFile, Apart,
         UpToDate, Progress, Calls, Shapes, Appending, Opening, Syncing, Persisting
<1>15. CASE HeaderFails
  BY <1>15, <1>a, <1>b, StoreAssumption
     DEF HeaderFails, Then, Goto, Return, Gone, files, memory, ghosts, NeedsDiskRewrite,
         MetadataNow, Flagged, InDoubt, Sidecar, IsFile, Apart, UpToDate, Progress, Calls,
         Shapes, Appending, Opening, Syncing, Persisting
<1>16. CASE PersistMeta0 \/ PersistMeta1
  BY <1>16, <1>a, <1>b, StoreAssumption
     DEF PersistMeta0, PersistMeta1, Then, Goto, Return, Gone, files, memory, ghosts,
         NeedsDiskRewrite, MetadataNow, Flagged, InDoubt, Sidecar, IsFile, Apart, UpToDate,
         Progress, Calls, Shapes, Appending, Opening, Syncing, Persisting
<1>17. CASE PersistIdx0
  BY <1>17, <1>a, <1>b, StoreAssumption
     DEF PersistIdx0, Then, Goto, Return, Gone, files, memory, ghosts, NeedsDiskRewrite,
         MetadataNow, Flagged, InDoubt, Sidecar, IsFile, Apart, UpToDate, Progress, Calls,
         Shapes, Appending, Opening, Syncing, Persisting
<1>18. CASE PersistIdx1
  BY <1>18, <1>a, <1>b, StoreAssumption
     DEF PersistIdx1, Then, Goto, Return, Gone, files, memory, ghosts, NeedsDiskRewrite,
         MetadataNow, Flagged, InDoubt, Sidecar, IsFile, Apart, UpToDate, Progress, Calls,
         Shapes, Appending, Opening, Syncing, Persisting
<1>19. CASE WriteFails
  BY <1>19, <1>a, <1>b, StoreAssumption
     DEF WriteFails, Then, Goto, Return, Gone, files, memory, ghosts, NeedsDiskRewrite,
         MetadataNow, Flagged, InDoubt, Sidecar, IsFile, Apart, UpToDate, Progress, Calls,
         Shapes, Appending, Opening, Syncing, Persisting
<1>20. CASE OpenFails \/ UNCHANGED vars
  BY <1>20, <1>a, <1>b, StoreAssumption
     DEF OpenFails, vars, files, memory, ghosts, NeedsDiskRewrite, MetadataNow, Flagged,
         InDoubt, Sidecar, IsFile, Apart, UpToDate, Progress, Calls, Shapes, Appending, Opening,
         Syncing, Persisting
<1> QED BY <1>1, <1>2, <1>3, <1>4, <1>5, <1>6, <1>7, <1>8, <1>9, <1>10, <1>11, <1>12, <1>13,
           <1>14, <1>15, <1>16, <1>17, <1>18, <1>19, <1>20 DEF Next

\* A failure and a crash are not forgotten.
LEMMA HistoryStep ==
  ASSUME [Next]_vars, crashes \in Nat
  PROVE  (faulted => faulted') /\ crashes <= crashes'
<1>1. CASE Crash \/ Exit \/ OpenBegin \/ OpenMeta0 \/ OpenMeta1 \/ OpenCount \/ OpenDiscard
  BY <1>1 DEF Crash, Exit, OpenBegin, OpenMeta0, OpenMeta1, OpenCount, OpenDiscard, Then, ghosts
<1>2. CASE BeginEnsure \/ Sync \/ SyncIdx0 \/ SyncIdx1 \/ AppendX \/ AppendY \/ AppendCount
  BY <1>2 DEF BeginEnsure, Sync, SyncIdx0, SyncIdx1, AppendX, AppendY, AppendCount, Then, ghosts
<1>6. CASE SetMetric
  <2>1. (faulted' = faulted \/ faulted' = TRUE) /\ crashes' = crashes
    BY <1>6, Zenon DEF SetMetric
  <2> QED
    BY <2>1
<1>3. CASE AppendIndex \/ Search \/ BeginPersist \/ Persist \/ PersistPages
  BY <1>3 DEF AppendIndex, Search, BeginPersist, Persist, PersistPages, Then, ghosts
<1>4. CASE PersistHeader0 \/ PersistHeader1 \/ HeaderFails \/ PersistMeta0 \/ PersistMeta1
  BY <1>4 DEF PersistHeader0, PersistHeader1, HeaderFails, PersistMeta0, PersistMeta1, Then, ghosts
<1>5. CASE PersistIdx0 \/ PersistIdx1 \/ WriteFails \/ OpenFails \/ UNCHANGED vars
  BY <1>5 DEF PersistIdx0, PersistIdx1, WriteFails, OpenFails, Then, vars, ghosts
<1> QED BY <1>1, <1>2, <1>3, <1>4, <1>5, <1>6 DEF Next


\* As long as every write succeeded, rows and pages are in the metric that is claimed for them.
LEMMA MetricInvStep ==
  ASSUME DurableInv, DurableInv', Shapes, Shapes', Calls, UpToDate, Progress, Flagged,
         MetricInv, [Next]_vars
  PROVE  MetricInv'
<1>a. /\ nx \in Nat /\ ny \in Nat /\ index \in Trees /\ written \in Nat
      /\ pages \in Trees \cup {None} /\ bak \in Trees \cup {None}
      /\ numObs \in Nat \cup {None} /\ header \in Nat \cup {None, Torn}
  BY DEF DurableInv, Typed, Shapes
<1>b. pc \notin {"down", "append_y"} => nx = ny
  BY DEF DurableInv, Typed, Whole
<1>c. crashes \in Nat /\ crashes' \in Nat /\ One \in Metrics
  BY StoreAssumption DEF DurableInv, Typed
<1> SUFFICES ASSUME ~faulted'
             PROVE  Scales' /\ (crashes' <= 1 => OfIndex' /\ OfPages')
  BY DEF MetricInv
<1>d. ~faulted /\ crashes <= crashes'
  BY <1>c, HistoryStep
<1>e. Scales /\ (crashes <= 1 => OfIndex /\ OfPages)
  BY <1>d DEF MetricInv
<1>1. CASE Crash
  BY <1>1, <1>a, <1>b, <1>c, <1>d, <1>e, StoreAssumption
     DEF Crash, Then, Goto, Return, Gone, files, memory, ghosts, Scales, OfIndex, OfPages,
         Foreign, SaysScaled, Metric, InForce, Identity, MetadataNow, IsFile, Tree, Flagged,
         InDoubt, UpToDate, Progress, Calls, Shapes, Appending, Opening, Syncing, Persisting
<1>2. CASE Exit
  BY <1>2, <1>a, <1>b, <1>c, <1>d, <1>e, StoreAssumption
     DEF Exit, Then, Goto, Return, Gone, files, memory, ghosts, Scales, OfIndex, OfPages,
         Foreign, SaysScaled, Metric, InForce, Identity, MetadataNow, IsFile, Tree, Flagged,
         InDoubt, UpToDate, Progress, Calls, Shapes, Appending, Opening, Syncing, Persisting
<1>3. CASE OpenBegin
  <2>1. /\ pc = "down" /\ meta # Torn /\ pc' = "open_meta0" /\ op' = "open"
        /\ scale' = IF IsFile(meta) THEN <<meta.scaled, One>> ELSE Identity
        /\ UNCHANGED <<meta, marker, pages, want, cache, crashes, faulted>>
    BY <1>3 DEF OpenBegin, Goto, ghosts
  <2>2. scale'[2] = One /\ InForce(scale') = One /\ (IsFile(meta) /\ meta.scaled => scale'[1])
    BY <2>1 DEF Identity, InForce
  <2>3. index'.metric = One \/ (pages # None /\ index'.metric = pages.metric)
    BY <1>3, <2>2 DEF OpenBegin, Adopts, IsFile, Tree
  <2>4. crashes <= 1 /\ Foreign => marker \/ SaysScaled
    BY <1>e, <2>1 DEF OfPages
  <2>5. crashes = 0 /\ Foreign => SaysScaled
    BY <1>e, <2>1 DEF OfPages
  <2>6. SaysScaled => scale'[1]
    BY <2>1, <2>2 DEF SaysScaled
  <2>7. Foreign' = Foreign /\ SaysScaled' = SaysScaled
    BY <2>1 DEF Foreign, SaysScaled, IsFile
  <2>8. crashes <= 1 => OfIndex'
    BY <2>1, <2>3, <2>4, <2>6 DEF OfIndex, Opening, Foreign
  <2>9. crashes <= 1 => OfPages'
    BY <1>c, <2>1, <2>5, <2>6, <2>7 DEF OfPages
  <2>10. Scales'
    <3>1. want = Identity /\ cache = None /\ InForce(Identity) = One
      BY <1>e, <2>1 DEF Scales, Identity, InForce
    <3>2. InForce(want') = One /\ Metric' = One
      BY <2>1, <2>2, <3>1 DEF Metric, InForce
    <3> QED
      BY <2>1, <2>2, <3>1, <3>2 DEF Scales, Opening
  <2> QED
    BY <2>1, <2>8, <2>9, <2>10
<1>4. CASE OpenMeta0
  BY <1>4, <1>a, <1>b, <1>c, <1>d, <1>e, StoreAssumption
     DEF OpenMeta0, Then, Goto, Return, Gone, files, memory, ghosts, Scales, OfIndex, OfPages,
         Foreign, SaysScaled, Metric, InForce, Identity, MetadataNow, IsFile, Tree, Flagged,
         InDoubt, UpToDate, Progress, Calls, Shapes, Appending, Opening, Syncing, Persisting
<1>5. CASE OpenMeta1
  BY <1>5, <1>a, <1>b, <1>c, <1>d, <1>e, StoreAssumption
     DEF OpenMeta1, Then, Goto, Return, Gone, files, memory, ghosts, Scales, OfIndex, OfPages,
         Foreign, SaysScaled, Metric, InForce, Identity, MetadataNow, IsFile, Tree, Flagged,
         InDoubt, UpToDate, Progress, Calls, Shapes, Appending, Opening, Syncing, Persisting
<1>6. CASE OpenCount
  BY <1>6, <1>a, <1>b, <1>c, <1>d, <1>e, StoreAssumption
     DEF OpenCount, Then, Goto, Return, Gone, files, memory, ghosts, Scales, OfIndex, OfPages,
         Foreign, SaysScaled, Metric, InForce, Identity, MetadataNow, IsFile, Tree, Flagged,
         InDoubt, UpToDate, Progress, Calls, Shapes, Appending, Opening, Syncing, Persisting
<1>7. CASE OpenDiscard
  <2>1. /\ pc = "open_discard" /\ op = "open" /\ marker' = FALSE
        /\ \/ pc' = "sync" /\ op' = op
           \/ pc' = "idle" /\ op' = "none" /\ nx = 0
        /\ index' = IF marker THEN Tree(0, Metric) ELSE index
        /\ UNCHANGED <<meta, pages, scale, want, cache, nx, crashes, faulted>>
    BY <1>7, <1>a DEF OpenDiscard, Return, Goto, ghosts, Calls, Opening
  <2>2. Metric = One /\ want = Identity /\ cache = None /\ scale[2] = One
    BY <1>e, <2>1 DEF Scales, InForce, Metric
  <2>3. index'.rows > 0 => index' = index /\ ~marker
    BY <2>1 DEF Tree, Shapes
  <2>4. pc' = "idle" => index'.rows = 0
    BY <2>1 DEF UpToDate, Opening, Tree
  <2>5. Metric' = Metric
    BY <2>1 DEF Metric
  <2>6. crashes <= 1 => OfPages'
    <3>1. Foreign' = Foreign /\ SaysScaled' = SaysScaled
      BY <2>1 DEF Foreign, SaysScaled, IsFile
    <3> QED
      BY <1>c, <1>e, <2>1, <3>1 DEF OfPages
  <2>7. Scales'
    BY <1>e, <2>1, <2>2, <2>5 DEF Scales, Opening
  <2>8. crashes <= 1 => OfIndex'
    <3>1. crashes <= 1 /\ index'.rows > 0 => index.metric = One \/ scale[1]
      BY <1>e, <2>1, <2>3 DEF OfIndex, Opening
    <3>2. scale = want => ~scale[1]
      BY <2>2 DEF Identity
    <3> QED
      BY <2>1, <2>2, <2>3, <2>4, <2>5, <3>1, <3>2 DEF OfIndex, Opening
  <2> QED
    BY <2>1, <2>6, <2>7, <2>8
<1>8. CASE BeginEnsure
  BY <1>8, <1>a, <1>b, <1>c, <1>d, <1>e, StoreAssumption
     DEF BeginEnsure, Then, Goto, Return, Gone, files, memory, ghosts, Scales, OfIndex, OfPages,
         Foreign, SaysScaled, Metric, InForce, Identity, MetadataNow, IsFile, Tree, Flagged,
         InDoubt, UpToDate, Progress, Calls, Shapes, Appending, Opening, Syncing, Persisting
<1>9. CASE Sync
  <2>1. /\ pc = "sync" /\ scale' = want
        /\ index' = Tree(nx, IF scale # want \/ index.rows = 0 THEN InForce(want)
                                                             ELSE index.metric)
        /\ \/ pc' = "sync_idx0" /\ op' = op
           \/ pc' = "idle" /\ op' = "none"
        /\ UNCHANGED <<meta, marker, pages, nx, want, cache, crashes, faulted>>
    BY <1>9 DEF Sync, Return, Goto, files, ghosts, Calls, Syncing
  <2>2. Metric' = InForce(want)
    BY <2>1 DEF Metric
  <2>3. InForce(want) = Metric
    BY <1>e DEF Scales
  <2>4. crashes <= 1 => index'.metric = Metric
    BY <1>a, <1>e, <2>1, <2>3 DEF OfIndex, Tree, Trees
  <2>5. crashes <= 1 => OfIndex'
    BY <2>1, <2>2, <2>3, <2>4 DEF OfIndex, Opening
  <2>6. crashes <= 1 => OfPages'
    <3>1. Foreign' = Foreign /\ SaysScaled' = SaysScaled
      BY <2>1 DEF Foreign, SaysScaled, IsFile
    <3> QED
      BY <1>c, <1>e, <2>1, <3>1 DEF OfPages
  <2>7. Scales'
    <3>1. op = "open" => want = Identity /\ Identity[2] = One /\ cache = None
      BY <1>e DEF Scales, Identity
    <3> QED
      BY <1>e, <2>1, <2>2, <2>3, <3>1 DEF Scales, Opening
  <2> QED
    BY <2>1, <2>5, <2>6, <2>7
<1>10. CASE SyncIdx0 \/ SyncIdx1
  BY <1>10, <1>a, <1>b, <1>c, <1>d, <1>e, StoreAssumption
     DEF SyncIdx0, SyncIdx1, Then, Goto, Return, Gone, files, memory, ghosts, Scales, OfIndex,
         OfPages, Foreign, SaysScaled, Metric, InForce, Identity, MetadataNow, IsFile, Tree,
         Flagged, InDoubt, UpToDate, Progress, Calls, Shapes, Appending, Opening, Syncing,
         Persisting
<1>11. CASE AppendX \/ AppendY
  BY <1>11, <1>a, <1>b, <1>c, <1>d, <1>e, StoreAssumption
     DEF AppendX, AppendY, Then, Goto, Return, Gone, files, memory, ghosts, Scales, OfIndex,
         OfPages, Foreign, SaysScaled, Metric, InForce, Identity, MetadataNow, IsFile, Tree,
         Flagged, InDoubt, UpToDate, Progress, Calls, Shapes, Appending, Opening, Syncing,
         Persisting
<1>12. CASE AppendCount
  BY <1>12, <1>a, <1>b, <1>c, <1>d, <1>e, StoreAssumption
     DEF AppendCount, Then, Goto, Return, Gone, files, memory, ghosts, Scales, OfIndex, OfPages,
         Foreign, SaysScaled, Metric, InForce, Identity, MetadataNow, IsFile, Tree, Flagged,
         InDoubt, UpToDate, Progress, Calls, Shapes, Appending, Opening, Syncing, Persisting
<1>13. CASE AppendIndex
  <2>1. /\ pc = "append_index" /\ op = "append" /\ pc' = "idle" /\ op' = "none"
        /\ index' = Tree(nx, IF index.rows = 0 THEN Metric ELSE index.metric)
        /\ UNCHANGED <<meta, marker, pages, nx, scale, want, cache, crashes, faulted>>
    BY <1>13 DEF AppendIndex, Return, files, Calls, Appending
  <2>2. crashes <= 1 => index'.metric = Metric
    BY <1>a, <1>e, <2>1 DEF OfIndex, Opening, Tree, Trees
  <2>3. Metric' = Metric
    BY <2>1 DEF Metric
  <2>4. crashes <= 1 => OfPages'
    <3>1. Foreign' = Foreign /\ SaysScaled' = SaysScaled
      BY <2>1 DEF Foreign, SaysScaled, IsFile
    <3> QED
      BY <1>c, <1>e, <2>1, <3>1 DEF OfPages
  <2>5. Scales'
    BY <1>e, <2>1, <2>3 DEF Scales, Opening
  <2>6. crashes <= 1 => OfIndex'
    BY <2>1, <2>2, <2>3 DEF OfIndex, Opening
  <2> QED
    BY <2>1, <2>4, <2>5, <2>6
<1>14. CASE Search
  BY <1>14, <1>a, <1>b, <1>c, <1>d, <1>e, StoreAssumption
     DEF Search, Then, Goto, Return, Gone, files, memory, ghosts, Scales, OfIndex, OfPages,
         Foreign, SaysScaled, Metric, InForce, Identity, MetadataNow, IsFile, Tree, Flagged,
         InDoubt, UpToDate, Progress, Calls, Shapes, Appending, Opening, Syncing, Persisting
<1>15. CASE SetMetric
  <2> PICK m \in Metrics :
        /\ scale' = <<TRUE, m>> /\ want' = <<TRUE, m>> /\ marker' = TRUE
        /\ index' = IF index.metric = Metric THEN Tree(index.rows, m)
                    ELSE Tree(index.rows, None)
    BY <1>15 DEF SetMetric
  <2>1. /\ pc = "idle" /\ cache' = None
        /\ UNCHANGED <<meta, pages, pc, op, crashes>>
    BY <1>15 DEF SetMetric
  <2>2. Metric' = m /\ InForce(want') = m
    BY DEF Metric, InForce
  <2>3. crashes <= 1 /\ index'.rows > 0 => index'.metric = m
    BY <1>e, <2>1 DEF OfIndex, Opening, Tree
  <2>4. crashes <= 1 => OfPages'
    <3>1. Foreign' = Foreign /\ SaysScaled' = SaysScaled
      BY <2>1 DEF Foreign, SaysScaled, IsFile
    <3> QED
      BY <1>c, <1>e, <2>1, <3>1 DEF OfPages
  <2>5. Scales'
    BY <1>e, <2>1, <2>2 DEF Scales, Opening, Calls
  <2>6. crashes <= 1 => OfIndex'
    BY <2>1, <2>2, <2>3 DEF OfIndex, Opening
  <2> QED
    BY <2>1, <2>4, <2>5, <2>6
<1>16. CASE BeginPersist
  BY <1>16, <1>a, <1>b, <1>c, <1>d, <1>e, StoreAssumption
     DEF BeginPersist, Then, Goto, Return, Gone, files, memory, ghosts, Scales, OfIndex,
         OfPages, Foreign, SaysScaled, Metric, InForce, Identity, MetadataNow, IsFile, Tree,
         Flagged, InDoubt, UpToDate, Progress, Calls, Shapes, Appending, Opening, Syncing,
         Persisting
<1>17. CASE Persist
  <2>1. /\ pc = "persist" /\ pc' \in {"pages", "meta0", "idle", "closing"}
        /\ \/ index' = Tree(nx, IF index.rows = 0 THEN Metric ELSE index.metric)
           \/ index' = index
        /\ op' # "open"
        /\ UNCHANGED <<meta, marker, pages, nx, scale, want, cache, crashes, faulted>>
    BY <1>17 DEF Persist, Return, Goto, files, ghosts, Calls, Persisting
  <2>2. crashes <= 1 /\ index'.rows > 0 => index'.metric = Metric
    BY <1>a, <1>e, <2>1 DEF OfIndex, Opening, Tree, Trees
  <2>3. Metric' = Metric
    BY <2>1 DEF Metric
  <2>4. crashes <= 1 => OfPages'
    <3>1. Foreign' = Foreign /\ SaysScaled' = SaysScaled
      BY <2>1 DEF Foreign, SaysScaled, IsFile
    <3> QED
      BY <1>c, <1>e, <2>1, <3>1 DEF OfPages
  <2>5. Scales'
    BY <1>e, <2>1, <2>3 DEF Scales, Opening
  <2>6. crashes <= 1 => OfIndex'
    BY <2>1, <2>2, <2>3 DEF OfIndex, Opening
  <2> QED
    BY <2>1, <2>4, <2>5, <2>6
<1>18. CASE PersistPages
  BY <1>18, <1>a, <1>b, <1>c, <1>d, <1>e, StoreAssumption
     DEF PersistPages, Then, Goto, Return, Gone, files, memory, ghosts, Scales, OfIndex,
         OfPages, Foreign, SaysScaled, Metric, InForce, Identity, MetadataNow, IsFile, Tree,
         Flagged, InDoubt, UpToDate, Progress, Calls, Shapes, Appending, Opening, Syncing,
         Persisting
<1>19. CASE PersistHeader0 \/ PersistHeader1
  BY <1>19, <1>a, <1>b, <1>c, <1>d, <1>e, StoreAssumption
     DEF PersistHeader0, PersistHeader1, Then, Goto, Return, Gone, files, memory, ghosts,
         Scales, OfIndex, OfPages, Foreign, SaysScaled, Metric, InForce, Identity, MetadataNow,
         IsFile, Tree, Flagged, InDoubt, UpToDate, Progress, Calls, Shapes, Appending, Opening,
         Syncing, Persisting
<1>20. CASE HeaderFails
  BY <1>20, <1>a, <1>b, <1>c, <1>d, <1>e, StoreAssumption
     DEF HeaderFails, Then, Goto, Return, Gone, files, memory, ghosts, Scales, OfIndex, OfPages,
         Foreign, SaysScaled, Metric, InForce, Identity, MetadataNow, IsFile, Tree, Flagged,
         InDoubt, UpToDate, Progress, Calls, Shapes, Appending, Opening, Syncing, Persisting
<1>21. CASE PersistMeta0
  BY <1>21, <1>a, <1>b, <1>c, <1>d, <1>e, StoreAssumption
     DEF PersistMeta0, Then, Goto, Return, Gone, files, memory, ghosts, Scales, OfIndex,
         OfPages, Foreign, SaysScaled, Metric, InForce, Identity, MetadataNow, IsFile, Tree,
         Flagged, InDoubt, UpToDate, Progress, Calls, Shapes, Appending, Opening, Syncing,
         Persisting
<1>22. CASE PersistMeta1
  BY <1>22, <1>a, <1>b, <1>c, <1>d, <1>e, StoreAssumption
     DEF PersistMeta1, Then, Goto, Return, Gone, files, memory, ghosts, Scales, OfIndex,
         OfPages, Foreign, SaysScaled, Metric, InForce, Identity, MetadataNow, IsFile, Tree,
         Flagged, InDoubt, UpToDate, Progress, Calls, Shapes, Appending, Opening, Syncing,
         Persisting
<1>23. CASE PersistIdx0
  BY <1>23, <1>a, <1>b, <1>c, <1>d, <1>e, StoreAssumption
     DEF PersistIdx0, Then, Goto, Return, Gone, files, memory, ghosts, Scales, OfIndex, OfPages,
         Foreign, SaysScaled, Metric, InForce, Identity, MetadataNow, IsFile, Tree, Flagged,
         InDoubt, UpToDate, Progress, Calls, Shapes, Appending, Opening, Syncing, Persisting
<1>24. CASE PersistIdx1
  BY <1>24, <1>a, <1>b, <1>c, <1>d, <1>e, StoreAssumption
     DEF PersistIdx1, Then, Goto, Return, Gone, files, memory, ghosts, Scales, OfIndex, OfPages,
         Foreign, SaysScaled, Metric, InForce, Identity, MetadataNow, IsFile, Tree, Flagged,
         InDoubt, UpToDate, Progress, Calls, Shapes, Appending, Opening, Syncing, Persisting
<1>25. CASE WriteFails
  BY <1>25, <1>a, <1>b, <1>c, <1>d, <1>e, StoreAssumption
     DEF WriteFails, Then, Goto, Return, Gone, files, memory, ghosts, Scales, OfIndex, OfPages,
         Foreign, SaysScaled, Metric, InForce, Identity, MetadataNow, IsFile, Tree, Flagged,
         InDoubt, UpToDate, Progress, Calls, Shapes, Appending, Opening, Syncing, Persisting
<1>26. CASE OpenFails \/ UNCHANGED vars
  BY <1>26, <1>a, <1>b, <1>c, <1>d, <1>e, StoreAssumption
     DEF OpenFails, vars, files, memory, ghosts, Scales, OfIndex, OfPages, Foreign, SaysScaled,
         Metric, InForce, Identity, IsFile, Opening
<1> QED BY <1>1, <1>2, <1>3, <1>4, <1>5, <1>6, <1>7, <1>8, <1>9, <1>10, <1>11, <1>12, <1>13,
           <1>14, <1>15, <1>16, <1>17, <1>18, <1>19, <1>20, <1>21, <1>22, <1>23, <1>24, <1>25,
           <1>26 DEF Next

----------------------------------------------------------------------------
\* All of it: the inductive invariant.
StoreInv == DurableInv /\ Shapes /\ Calls /\ UpToDate /\ Progress /\ Flagged /\ MetricInv

\* A new, empty store.
LEMMA InitStore == Init => StoreInv
<1> SUFFICES ASSUME Init PROVE StoreInv
  OBVIOUS
<1>1. /\ numObs = None /\ meta = None /\ idxRows = None /\ marker = FALSE /\ header = None
      /\ pages = None /\ nx = 0 /\ scale = Identity /\ want = Identity /\ index = Tree(0, One)
      /\ written = 0 /\ dirty = FALSE /\ cache = None /\ bak = None /\ pc = "down"
      /\ op = "none" /\ faulted = FALSE
  BY DEF Init
<1>2. Tree(0, One) \in Trees /\ Identity \in BOOLEAN \X Metrics
  BY TreeType, StoreAssumption DEF Identity
<1>3. Shapes
  BY <1>1, <1>2 DEF Shapes
<1>4. InForce(Identity) = One /\ Identity[1] = FALSE
  BY DEF InForce, Identity
<1>5. Calls /\ UpToDate /\ Progress /\ Flagged
  BY <1>1 DEF Calls, UpToDate, Progress, Flagged, InDoubt, Appending, Opening, Syncing, Persisting
<1>6. MetricInv
  BY <1>1, <1>4
     DEF MetricInv, Scales, OfIndex, OfPages, Foreign, Metric, Opening, Appending, Persisting
<1> QED
  BY <1>3, <1>5, <1>6, InitDurable DEF StoreInv

\* One step of the whole invariant, part by part.
LEMMA StoreStep ==
  ASSUME StoreInv, [Next]_vars
  PROVE  StoreInv'
<1>1. DurableInv'
  BY DurableStep DEF StoreInv
<1>2. Shapes' /\ Calls'
  BY <1>1, ShapesStep, CallsStep DEF StoreInv
<1>3. UpToDate' /\ Progress'
  BY <1>1, UpToDateStep, ProgressStep DEF StoreInv
<1>4. Flagged' /\ MetricInv'
  BY <1>1, <1>2, FlaggedStep, MetricInvStep DEF StoreInv
<1> QED
  BY <1>1, <1>2, <1>3, <1>4 DEF StoreInv

\* The inductive invariant of a store's files and of the process that writes them, for any
\* rows, crashes and failing writes.
THEOREM StoreConsistent == Spec => []StoreInv
<1>1. Init => StoreInv
  BY InitStore
<1>2. StoreInv /\ [Next]_vars => StoreInv'
  BY StoreStep
<1> QED
  BY <1>1, <1>2, PTL DEF Spec

\* metric.rs:3-4, 85-97, small_n_search.rs:151-176: index and cache are in the metric in force,
\* as long as no write failed and, for the index, the process died at most once.
THEOREM IndexStaysInForce == Spec => []IndexInForce
<1>1. StoreInv => IndexInForce
  BY DEF StoreInv, MetricInv, Scales, OfIndex, Opening, IndexInForce
<1> QED
  BY <1>1, StoreConsistent, PTL

\* What a persist that rewrote nothing relies on, and what one that wrote has written.
LEMMA PersistedWhole ==
  ASSUME StoreInv, [Next]_vars, PersistOk, ~faulted
  PROVE  ReopensWhole'
<1>1. /\ nx \in Nat /\ index \in Trees /\ numObs \in Nat \cup {None}
      /\ header \in Nat \cup {None, Torn}
  BY DEF StoreInv, DurableInv, Typed, Shapes
<1>2. /\ \A n \in Nat : IsFile(n)
      /\ \A t \in Trees : IsFile(t)
      /\ IsFile(MetadataNow)
  BY <1>1, StoreAssumption DEF StoreInv, Shapes, IsFile, Trees, MetadataNow
<1>3. CASE pc = "persist"
  <2>1. Persist
    BY <1>3
       DEF Next, vars, PersistOk, StoreInv, Calls, Crash, Gone, Exit, OpenFails, OpenBegin,
           OpenMeta0, OpenMeta1, OpenCount, OpenDiscard, BeginEnsure, Sync, SyncIdx0, SyncIdx1,
           AppendX, AppendY, AppendCount, AppendIndex, Search, SetMetric, BeginPersist,
           PersistPages, PersistHeader0, PersistHeader1, HeaderFails, PersistMeta0,
           PersistMeta1, PersistIdx0, PersistIdx1, WriteFails
  <2>2. /\ ~NeedsDiskRewrite
        /\ UNCHANGED <<numObs, meta, idxRows, header, pages, nx, index>>
    BY <2>1 DEF Persist, PersistOk, files
  <2>3. ~dirty /\ header # Torn /\ (nx > 0 => header = nx /\ pages = index)
    BY <1>1, <1>3, <2>2 DEF NeedsDiskRewrite, StoreInv, UpToDate, Persisting
  <2>4. /\ numObs = nx /\ index.rows = nx /\ IsFile(meta)
        /\ Sidecar
    BY <1>3, <2>3 DEF StoreInv, UpToDate, Flagged, InDoubt, Persisting
  <2>5. RowsOnDisk = nx
    BY <1>1, <1>2, <1>3, <2>4
       DEF RowsOnDisk, Larger, StoreInv, DurableInv, Typed, Whole, Appending
  <2>6. IndexedOnDisk >= nx
    BY <2>4 DEF IndexedOnDisk, Sidecar
  <2>7. nx > 0 => Adopts(nx)
    BY <1>1, <1>2, <2>3, <2>4 DEF Adopts
  <2>8. ReopensWhole
    BY <2>3, <2>4, <2>5, <2>6, <2>7 DEF ReopensWhole
  <2> QED
    BY <2>2, <2>8 DEF ReopensWhole, RowsOnDisk, IndexedOnDisk, Adopts, IsFile
<1>4. CASE pc = "idx1"
  <2>1. idxRows = Torn /\ meta = MetadataNow /\ numObs = nx /\ index.rows = nx
        /\ (nx > 0 => pages = index /\ header = nx)
    BY <1>4 DEF StoreInv, UpToDate, Progress, Persisting
  <2>2. PersistIdx1
    BY <1>4, <2>1
       DEF Next, vars, files, PersistOk, StoreInv, Calls, Crash, Gone, Exit, OpenFails, OpenBegin,
           OpenMeta0, OpenMeta1, OpenCount, OpenDiscard, BeginEnsure, Sync, SyncIdx0, SyncIdx1,
           AppendX, AppendY, AppendCount, AppendIndex, Search, SetMetric, BeginPersist, Persist,
           PersistPages, PersistHeader0, PersistHeader1, HeaderFails, PersistMeta0,
           PersistMeta1, PersistIdx0, WriteFails
  <2>3. idxRows' = nx /\ UNCHANGED <<numObs, meta, header, pages, nx, index>>
    BY <2>1, <2>2 DEF PersistIdx1
  <2>4. RowsOnDisk' = nx /\ IndexedOnDisk' = nx /\ IsFile(meta')
    BY <1>1, <1>2, <2>1, <2>3 DEF RowsOnDisk, IndexedOnDisk, Larger, MetadataNow
  <2>5. nx > 0 => Adopts(nx)
    BY <1>1, <1>2, <2>1 DEF Adopts
  <2> QED
    BY <1>1, <2>1, <2>3, <2>4, <2>5 DEF ReopensWhole, Adopts, IsFile
<1> QED
  BY <1>3, <1>4 DEF PersistOk

\* backend.rs:303-325 against 104-110: a persist that returned Ok, with no write failed before,
\* leaves files that the next open adopts in full, whichever branch it took.
THEOREM CleanPersistIsWhole == Spec => CleanPersistReopensWhole
<1>1. StoreInv /\ [Next]_vars => [PersistOk /\ ~faulted => ReopensWhole']_vars
  BY PersistedWhole
<1> QED
  BY <1>1, StoreConsistent, PTL DEF Spec, CleanPersistReopensWhole
=============================================================================
