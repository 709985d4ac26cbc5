----------------------------- MODULE BpannStore -----------------------------
(***************************************************************************)
(* The files of a disk BPANN store and the process that writes them        *)
(* (bpann/src/backend.rs, observation.rs, metric.rs,                       *)
(* index/persist_atomic.rs, index/sync.rs, and the reopen of               *)
(* ennbo/src/disk_bpann/enn_backend.rs as a DiskAuto model uses it).       *)
(*                                                                         *)
(* One action is one change of one file, so the process may die between    *)
(* any two of them: Crash.  It is the process that dies, not the machine:  *)
(* what was written to a file or to a mapping stays.  fs::write truncates  *)
(* and then writes, which are two actions with a Torn file in between;     *)
(* rename and the mapped counter are one.  A file operation in Faults may  *)
(* fail instead, with the code's own error path.                           *)
(*                                                                         *)
(* An observation is a number; a row of train_x or train_y is the number   *)
(* of the observation it belongs to.  A tree is the number of rows it      *)
(* holds and the metric its pages' centroids are expressed in, None if     *)
(* that is the metric of no scale it was ever given.                       *)
(***************************************************************************)
EXTENDS Naturals, Sequences

CONSTANTS
  Metrics,     \* x_scale vectors
  One,         \* the identity metric, Array1::ones
  Hard,        \* pending_hard_flush_threshold
  MaxObs,      \* bound on observations told to the store
  MaxBatch,    \* bound on the rows of one append
  MaxCrashes,  \* bound on crashes
  Faults,      \* file operations that may fail
  None, Torn   \* no such file; a file that was truncated and not yet written

ASSUME StoreAssumption ==
  /\ One \in Metrics
  /\ Hard \in Nat \ {0}
  /\ MaxObs \in Nat /\ MaxBatch \in Nat /\ MaxCrashes \in Nat
  /\ Faults \subseteq {"header", "metadata", "sidecar", "marker"}
  /\ None # Torn
  /\ \A f \in {None, Torn} :
       /\ f \notin Nat
       /\ f \notin [rows : Nat, metric : Metrics \cup {None}]
       /\ f \notin [obs : Nat, indexed : Nat, scaled : BOOLEAN]

VARIABLES
  fx, fy,     \* train_x.bin, train_y.bin
  numObs,     \* num_obs.bin
  meta,       \* metadata.json
  idxRows,    \* indexed_rows.bin
  marker,     \* metric_x_scale.json exists
  header,     \* index/header.json (its row count)
  pages,      \* index/pages.bin
  nx, ny,     \* train_x.nrows, train_y.nrows
  scale,      \* <<scale_x, x_scale>> of the backend
  want,       \* <<scale_x, x_scale>> of the model, passed to ensure_index_sync
  index,      \* the live index
  written,    \* indexed_rows_written
  dirty,      \* index_dirty
  cache,      \* small_n_x_cache: rows and metric it was built for
  bak,        \* pages.bin.bak
  pc, op,     \* where the process is, in which call
  batch,      \* the observations of the append under way
  acked,      \* history: observations whose append returned Ok
  faulted,    \* history: a file operation of this model's Faults failed
  crashes     \* history: crashes so far

files  == <<fx, fy, numObs, meta, idxRows, marker, header, pages>>
memory == <<nx, ny, scale, want, index, written, dirty, cache, bak>>
ghosts == <<acked, faulted, crashes>>
vars   == <<files, memory, pc, op, batch, ghosts>>

Tree(r, m)    == [rows |-> r, metric |-> m]
Identity      == <<FALSE, One>>
InForce(s)    == IF s[1] THEN s[2] ELSE One
Metric        == InForce(scale)
IsFile(f)     == f # None /\ f # Torn
Larger(a, b)  == IF a >= b THEN a ELSE b
Smaller(a, b) == IF a <= b THEN a ELSE b

----------------------------------------------------------------------------
(* What is read back when a store is opened.                                *)

\* bpann_load_num_obs: the larger of the counter and the metadata.
RowsOnDisk == Larger(IF IsFile(numObs) THEN numObs ELSE 0,
                     IF IsFile(meta) THEN meta.obs ELSE 0)

\* bpann_load_indexed_rows: the sidecar, or the metadata if it is unreadable.
IndexedOnDisk == IF IsFile(idxRows) THEN idxRows
                 ELSE IF IsFile(meta) THEN meta.indexed ELSE 0

\* open_persisted takes the pages only if they hold as many rows as the header
\* says, and the backend only if the sidecar knows of that many.
Adopts(rows) ==
  /\ IsFile(header) /\ IsFile(pages)
  /\ pages.rows = header
  /\ header <= rows

Init ==
  /\ fx = <<>> /\ fy = <<>>
  /\ numObs = None /\ meta = None /\ idxRows = None /\ marker = FALSE
  /\ header = None /\ pages = None
  /\ nx = 0 /\ ny = 0 /\ scale = Identity /\ want = Identity
  /\ index = Tree(0, One) /\ written = 0 /\ dirty = FALSE /\ cache = None /\ bak = None
  /\ pc = "down" /\ op = "none" /\ batch = <<>> /\ acked = {} /\ faulted = FALSE /\ crashes = 0

Goto(l)   == pc' = l
Return    == pc' = (IF op = "close" THEN "closing" ELSE "idle") /\ op' = "none"
Then(l)  == Goto(l) /\ UNCHANGED <<op, batch, ghosts>>

\* The process is gone, and with it what it held in memory.
Gone ==
  /\ pc' = "down" /\ op' = "none" /\ batch' = <<>>
  /\ nx' = 0 /\ ny' = 0 /\ scale' = Identity /\ want' = Identity
  /\ index' = Tree(0, One) /\ written' = 0 /\ dirty' = FALSE
  /\ cache' = None /\ bak' = None

Crash ==
  /\ pc # "down" /\ crashes < MaxCrashes
  /\ crashes' = crashes + 1
  /\ Gone
  /\ UNCHANGED <<files, acked, faulted>>

Exit ==
  /\ pc = "closing"
  /\ Gone
  /\ UNCHANGED <<files, ghosts>>

----------------------------------------------------------------------------
(* Open: BpannBackend::new, the reopen of the ENN backend, and the sync that *)
(* the model runs while it recomputes its statistics.                       *)

\* The store cannot be read: metadata or header are not valid JSON.
OpenFails ==
  /\ pc = "down"
  /\ meta = Torn \/ (header = Torn /\ Smaller(IndexedOnDisk, RowsOnDisk) > 0)
  /\ UNCHANGED vars

OpenBegin ==
  LET n       == RowsOnDisk
      indexed == Smaller(IndexedOnDisk, n)
      s       == IF IsFile(meta) THEN <<meta.scaled, One>> ELSE Identity
  IN /\ pc = "down"
     /\ meta # Torn
     /\ indexed > 0 => header # Torn
     /\ numObs' = IF IsFile(numObs) THEN numObs ELSE 0
     /\ nx' = n /\ ny' = n
     /\ scale' = s
     /\ index' = Tree(n, IF indexed > 0 /\ Adopts(indexed) /\ header > 0
                            THEN pages.metric ELSE InForce(s))
     /\ written' = indexed
     /\ dirty' = (indexed < n)
     /\ op' = "open" /\ Goto("open_meta0")
     /\ UNCHANGED <<fx, fy, meta, idxRows, marker, header, pages, want, cache, bak,
                    batch, ghosts>>

MetadataNow == [obs |-> nx, indexed |-> index.rows, scaled |-> scale[1]]

OpenMeta0 ==
  /\ pc = "open_meta0"
  /\ meta' = Torn
  /\ Then("open_meta1")
  /\ UNCHANGED <<fx, fy, numObs, idxRows, marker, header, pages, memory>>

OpenMeta1 ==
  /\ pc = "open_meta1"
  /\ meta' = MetadataNow
  /\ Then("open_count")
  /\ UNCHANGED <<fx, fy, numObs, idxRows, marker, header, pages, memory>>

OpenCount ==
  /\ pc = "open_count"
  /\ numObs' = nx
  /\ Then("open_discard")
  /\ UNCHANGED <<fx, fy, meta, idxRows, marker, header, pages, memory>>

\* Mutant: the marker goes, the index stays.
MarkerOnly ==
  /\ pc = "open_discard"
  /\ marker' = FALSE
  /\ IF nx > 0 THEN Goto("sync") /\ UNCHANGED op ELSE Return
  /\ UNCHANGED <<fx, fy, numObs, meta, idxRows, header, pages, memory, batch, ghosts>>

\* discard_metric_index_on_reopen: an index left in a caller's metric is not
\* used; the marker goes, the files of that index stay until the next persist.
OpenDiscard ==
  /\ pc = "open_discard"
  /\ marker' = FALSE
  /\ IF marker THEN index' = Tree(0, Metric) /\ dirty' = TRUE
               ELSE UNCHANGED <<index, dirty>>
  /\ IF nx > 0 THEN Goto("sync") /\ UNCHANGED op ELSE Return
  /\ UNCHANGED <<fx, fy, numObs, meta, idxRows, header, pages,
                 nx, ny, scale, want, written, cache, bak, batch, ghosts>>

----------------------------------------------------------------------------
(* ensure_index_sync_with_scale: a scale other than the backend's resets the *)
(* index; the sidecar is rewritten once per Hard rows.                      *)

BeginEnsure ==
  /\ pc = "idle"
  /\ op' = "ensure" /\ Goto("sync")
  /\ UNCHANGED <<files, memory, batch, ghosts>>

Apart(a, b) == IF a >= b THEN a - b ELSE b - a

Sync ==
  /\ pc = "sync"
  /\ scale' = want
  /\ index' = Tree(nx, IF scale # want \/ index.rows = 0 THEN InForce(want)
                                                        ELSE index.metric)
  /\ dirty' = (dirty \/ scale # want)
  /\ IF Apart(nx, written) >= Hard THEN Goto("sync_idx0") /\ UNCHANGED op ELSE Return
  /\ UNCHANGED <<files, nx, ny, want, written, cache, bak, batch, ghosts>>

SyncIdx0 ==
  /\ pc = "sync_idx0"
  /\ idxRows' = Torn
  /\ Then("sync_idx1")
  /\ UNCHANGED <<fx, fy, numObs, meta, marker, header, pages, memory>>

SyncIdx1 ==
  /\ pc = "sync_idx1"
  /\ idxRows' = index.rows
  /\ written' = index.rows
  /\ Return
  /\ UNCHANGED <<fx, fy, numObs, meta, marker, header, pages,
                 nx, ny, scale, want, index, dirty, cache, bak, batch, ghosts>>

----------------------------------------------------------------------------
(* append_rows: x, then y, then the counter that makes both count.          *)

\* mmap_append: rows past the store's count are overwritten.
Appended(f, n, rows) == SubSeq(f, 1, n) \o rows

\* The k observations of one append, new ones even if an earlier process told
\* others that were lost with it.
Fresh(k) == [i \in 1..k |-> crashes * MaxObs + nx + i]

AppendX ==
  /\ pc = "idle"
  /\ \E k \in 1..MaxBatch :
       /\ nx + k <= MaxObs
       /\ batch' = Fresh(k)
       /\ fx' = Appended(fx, nx, Fresh(k))
       /\ nx' = nx + k
  /\ op' = "append" /\ Goto("append_y")
  /\ UNCHANGED <<fy, numObs, meta, idxRows, marker, header, pages,
                 ny, scale, want, index, written, dirty, cache, bak, ghosts>>

AppendY ==
  /\ pc = "append_y"
  /\ fy' = Appended(fy, ny, batch)
  /\ ny' = ny + Len(batch)
  /\ Then("append_count")
  /\ UNCHANGED <<fx, numObs, meta, idxRows, marker, header, pages,
                 nx, scale, want, index, written, dirty, cache, bak>>

\* Mutant: num_obs.bin is left to the next persist.
CountAtPersist ==
  /\ pc = "append_count"
  /\ dirty' = TRUE
  /\ cache' = None
  /\ Then("append_index")
  /\ UNCHANGED <<files, nx, ny, scale, want, index, written, bak>>

AppendCount ==
  /\ pc = "append_count"
  /\ dirty' = TRUE
  /\ cache' = None
  /\ numObs' = nx
  /\ Then("append_index")
  /\ UNCHANGED <<fx, fy, meta, idxRows, marker, header, pages,
                 nx, ny, scale, want, index, written, bak>>

\* insert_unindexed_rows, and the call returns Ok.
AppendIndex ==
  /\ pc = "append_index"
  /\ index' = Tree(nx, IF index.rows = 0 THEN Metric ELSE index.metric)
  /\ acked' = acked \cup {batch[i] : i \in DOMAIN batch}
  /\ batch' = <<>>
  /\ Return
  /\ UNCHANGED <<files, nx, ny, scale, want, written, dirty, cache, bak, faulted, crashes>>

----------------------------------------------------------------------------
(* Searches and metric changes.                                             *)

\* load_or_build_small_n_cache: reused as long as the row count is the same.
Search ==
  /\ pc = "idle" /\ nx > 0
  /\ cache' = IF cache # None /\ cache.rows = nx THEN cache ELSE Tree(nx, Metric)
  /\ UNCHANGED <<files, nx, ny, scale, want, index, written, dirty, bak, pc, op,
                 batch, ghosts>>

\* set_metric_scale: the index is rescaled before the marker is written, and
\* the model takes the new scale over only if both succeed.  Rescaling multiplies
\* by old over new, so it puts right only what was in the old metric.
SetMetric ==
  /\ pc = "idle"
  /\ \E m \in Metrics :
       /\ scale' = <<TRUE, m>>
       /\ index' = IF index.metric = Metric THEN Tree(index.rows, m)
                 ELSE Tree(index.rows, None)
       /\ \/ marker' = TRUE /\ want' = scale' /\ UNCHANGED faulted
          \/ /\ "marker" \in Faults
             /\ marker' \in {marker, TRUE}
             /\ faulted' = TRUE
             /\ UNCHANGED want
  /\ cache' = None
  /\ UNCHANGED <<fx, fy, numObs, meta, idxRows, header, pages, nx, ny, written, dirty,
                 bak, pc, op, batch, acked, crashes>>

----------------------------------------------------------------------------
(* persist_index_to_disk, called by the model or by Drop.                   *)

BeginPersist ==
  /\ pc = "idle"
  /\ op' \in {"persist", "close"} /\ Goto("persist")
  /\ UNCHANGED <<files, memory, batch, ghosts>>

\* Mutant: the flag alone decides.
OnlyDirty == dirty

\* needs_disk_rewrite: the files differ from what a persist would write.
NeedsDiskRewrite ==
  \/ dirty
  \/ header = Torn
  \/ (IF header = None THEN 0 ELSE header) # nx
  \/ index.rows > 0 /\ pages # index
  \/ index.rows = 0 /\ nx # 0

Persist ==
  /\ pc = "persist"
  /\ IF NeedsDiskRewrite
       THEN /\ index' = Tree(nx, IF index.rows = 0 THEN Metric ELSE index.metric)
            /\ bak' = pages
            /\ Goto(IF nx > 0 THEN "pages" ELSE "meta0")
            /\ UNCHANGED <<dirty, op>>
       ELSE dirty' = FALSE /\ Return /\ UNCHANGED <<index, bak>>
  /\ UNCHANGED <<files, nx, ny, scale, want, written, cache, batch, ghosts>>

PersistPages ==
  /\ pc = "pages"
  /\ pages' = index
  /\ Then("header0")
  /\ UNCHANGED <<fx, fy, numObs, meta, idxRows, marker, header, memory>>

PersistHeader0 ==
  /\ pc = "header0"
  /\ header' = Torn
  /\ Then("header1")
  /\ UNCHANGED <<fx, fy, numObs, meta, idxRows, marker, pages, memory>>

PersistHeader1 ==
  /\ pc = "header1"
  /\ header' = index.rows
  /\ bak' = None
  /\ Then("meta0")
  /\ UNCHANGED <<fx, fy, numObs, meta, idxRows, marker, pages,
                 nx, ny, scale, want, index, written, dirty, cache>>

\* restore_backup: the pages are put back if there were any; the header is not.
HeaderFails ==
  /\ "header" \in Faults /\ pc \in {"header0", "header1"}
  /\ pages' = IF bak = None THEN pages ELSE bak
  /\ bak' = None
  /\ faulted' = TRUE
  /\ Return
  /\ UNCHANGED <<fx, fy, numObs, meta, idxRows, marker, header,
                 nx, ny, scale, want, index, written, dirty, cache, batch, acked, crashes>>

PersistMeta0 ==
  /\ pc = "meta0"
  /\ meta' = Torn
  /\ Then("meta1")
  /\ UNCHANGED <<fx, fy, numObs, idxRows, marker, header, pages, memory>>

PersistMeta1 ==
  /\ pc = "meta1"
  /\ meta' = MetadataNow
  /\ Then("idx0")
  /\ UNCHANGED <<fx, fy, numObs, idxRows, marker, header, pages, memory>>

PersistIdx0 ==
  /\ pc = "idx0"
  /\ idxRows' = Torn
  /\ Then("idx1")
  /\ UNCHANGED <<fx, fy, numObs, meta, marker, header, pages, memory>>

PersistIdx1 ==
  /\ pc = "idx1"
  /\ idxRows' = index.rows
  /\ written' = index.rows
  /\ dirty' = FALSE
  /\ Return
  /\ UNCHANGED <<fx, fy, numObs, meta, marker, header, pages,
                 nx, ny, scale, want, index, cache, bak, batch, ghosts>>

\* A failed fs::write ends the call with what is in the file by then.
WriteFails ==
  /\ \/ "metadata" \in Faults /\ pc \in {"meta0", "meta1"}
     \/ "sidecar" \in Faults /\ pc \in {"idx0", "idx1"}
     \/ "sidecar" \in Faults /\ pc \in {"sync_idx0", "sync_idx1"} /\ op # "open"
  /\ faulted' = TRUE
  /\ Return
  /\ UNCHANGED <<files, memory, batch, acked, crashes>>

----------------------------------------------------------------------------
Next ==
  \/ Crash \/ Exit
  \/ OpenFails \/ OpenBegin \/ OpenMeta0 \/ OpenMeta1 \/ OpenCount \/ OpenDiscard
  \/ BeginEnsure \/ Sync \/ SyncIdx0 \/ SyncIdx1
  \/ AppendX \/ AppendY \/ AppendCount \/ AppendIndex
  \/ Search \/ SetMetric
  \/ BeginPersist \/ Persist \/ PersistPages \/ PersistHeader0 \/ PersistHeader1
  \/ HeaderFails \/ PersistMeta0 \/ PersistMeta1 \/ PersistIdx0 \/ PersistIdx1
  \/ WriteFails

Spec == Init /\ [][Next]_vars

----------------------------------------------------------------------------
(* Properties.                                                              *)

\* An observation whose append returned is found by every later reopen, its x and
\* its y in the same row, whatever crashes and failed writes came after
\* (append_rows, backend.rs:239-249; bpann_load_num_obs, observation.rs:86-108).
AckedDurable ==
  \A o \in acked : \E i \in 1..RowsOnDisk :
    i <= Len(fx) /\ i <= Len(fy) /\ fx[i] = o /\ fy[i] = o

\* When persist_index_to_disk returns Ok, whichever branch it took, a reopen adopts
\* the very index in memory and has no row left to insert (backend.rs:303-325
\* against 104-110; tests/fast/test_ops_stress_sample.py:100).
PersistOk ==
  /\ op \in {"persist", "close"} /\ op' = "none" /\ pc' # "down"
  /\ pc = "persist" \/ (pc = "idx1" /\ idxRows' # Torn)
ReopensWhole ==
  /\ RowsOnDisk = nx /\ IndexedOnDisk >= nx
  /\ IsFile(meta)
  /\ nx > 0 => Adopts(nx) /\ header = nx /\ pages = index
PersistedReopensWhole == [][PersistOk => ReopensWhole']_vars

\* The same, as long as no file operation failed before.
CleanPersistReopensWhole == [][PersistOk /\ ~faulted => ReopensWhole']_vars

\* An index that answers searches is expressed in the metric in force, also after a
\* reopen, and so is the small-N cache the next search would use, as long as no file
\* operation failed and, for the index, the process died at most once (metric.rs:3-4,
\* 85-97; tests/fast/test_mbpann.py:202; load_or_build_small_n_cache, small_n_search.rs:
\* 151-176).
IndexInForce ==
  ~faulted /\ pc = "idle" =>
    /\ index.rows > 0 /\ crashes <= 1 => index.metric = Metric
    /\ cache # None /\ cache.rows = nx => cache.metric = Metric
=============================================================================
