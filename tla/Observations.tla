---------------------------- MODULE Observations ----------------------------
(***************************************************************************)
(* What a disk model keeps of the rows it is told, and under which bounds  *)
(* (ennbo/src/model.rs, model/y_bounds_api.rs, y_bounds.rs,                *)
(* bpann/src/observation.rs, backend.rs, mmap_store.rs).                   *)
(*                                                                         *)
(* y is stored warped: a value means something only together with the      *)
(* y_bounds it was warped under, and those are in another file.  The       *)
(* variances of the rows are in a third that exists only if the first rows *)
(* came with some, and the count that says which rows are there in a       *)
(* fourth and, once more, in metadata.json.  BpannStore is about the rows' *)
(* count and index; here they are left out, and whether an index needs to  *)
(* be rewritten when nothing was added is either.                          *)
(*                                                                         *)
(* One action changes one file and the process may die in between.  A      *)
(* refused call changes nothing that is read back and is not a step.       *)
(***************************************************************************)
EXTENDS Integers, Sequences

CONSTANTS
  YBounds,     \* the y_bounds of one metric: pairs, Unbounded for an open side
  Unbounded,
  YBatches,    \* the y of the rows of one call
  NoFile, Torn,\* no such file; a file that was truncated and not yet written
  NotOpen,     \* no model is open on the store
  MaxRows,     \* bound on the rows told
  MaxDeaths,   \* bound on crashes
  MaxFailures  \* bound on metadata writes that fail

ASSUME ObservationsAssumption ==
  /\ \A b \in YBounds : b \in Seq(Int \cup {Unbounded}) /\ Len(b) = 2
  /\ YBatches \subseteq Seq(Int) /\ MaxRows \in Nat /\ MaxDeaths \in Nat /\ MaxFailures \in Nat
  /\ \A f \in {NoFile, Torn} :
       /\ f \notin Nat /\ f \notin Seq(Nat) /\ f \notin Seq(Int \cup {Unbounded})
       /\ f \notin Seq([row : Nat, z : [y : Int, under : Seq(Int \cup {Unbounded})]])
       /\ f \notin [obs : Nat, bounds : Seq(Int \cup {Unbounded}) \cup {NoFile}]
  /\ NotOpen \notin [n : Nat, vars : Nat \cup {NoFile}, bounds : Seq(Int \cup {Unbounded}),
                      dirty : BOOLEAN, new : Seq([row : Nat, y : Int]), noisy : BOOLEAN,
                      extras : Seq(Int \cup {Unbounded}) \cup {NoFile}]
  /\ NoFile # Torn

VARIABLES
  rowFile,  \* train_x.bin and train_y.bin
  varFile,  \* train_yvar.bin: the rows whose variances it holds
  counter,  \* num_obs.bin
  metadata, \* metadata.json: its num_obs and y_bounds
  store,    \* the open model: its row counts and bounds, and what a call needs later
  at, call, \* where the process is, in which call
  told,     \* history: how many rows were told, which gives them their numbers
  since,    \* history: how many of them before the store was last removed
  kept,     \* history: those whose call returned Ok, and where they are
  stray,    \* history: the first rows were lost with a call, their variances were not
  foreign,  \* history: a model in memory wrote its bounds into this store
  deaths, failures

obsFiles == <<rowFile, varFile, counter, metadata>>
obsGhosts == <<told, since, kept, stray, foreign, deaths, failures>>
obsVars == <<obsFiles, store, at, call, obsGhosts>>

---------------------------------------------------------------------------
(* Bounds.                                                                 *)

AllOpen == <<Unbounded, Unbounded>>

\* validate_bounds
ValidBounds(b) == Unbounded \in {b[1], b[2]} \/ b[1] < b[2]

\* validate_y_in_open_interval
InInterval(y, b) ==
  /\ b[1] # Unbounded => y > b[1]
  /\ b[2] # Unbounded => y < b[2]

\* A warped value is a number that only the inverse of its own warp takes back.
Warped(y, b) == [y |-> y, under |-> b]
Natural(z, b) == IF z.under = b THEN z.y ELSE Unbounded

IsWritten(f) == f # NoFile /\ f # Torn

\* resolve_y_bounds of what a caller asks for, NoFile if for nothing, and of what is in
\* the metadata; the empty set if they do not match.
Resolved(asked, loaded) ==
  IF asked = NoFile THEN {IF loaded = NoFile THEN AllOpen ELSE loaded}
  ELSE {b \in {asked} : ValidBounds(b) /\ loaded \in {NoFile, b}}

---------------------------------------------------------------------------
(* Files.                                                                  *)

\* bpann_load_num_obs
Counted ==
  LET c == IF IsWritten(counter) THEN counter ELSE 0
      m == IF IsWritten(metadata) THEN metadata.obs ELSE 0
  IN IF c >= m THEN c ELSE m

\* mmap_open_or_create of n known rows: a file grows by more rows than are ever told
\* here, so one that holds any has room for all.
HasRoom(f, n) == n = 0 \/ (f # NoFile /\ f # <<>>)

\* mmap_append after n rows; those beyond are overwritten.
Appending(f, n, rows) ==
  [i \in 1..(n + Len(rows)) |->
     IF i > n THEN rows[i - n] ELSE IF i <= Len(f) THEN f[i] ELSE 0]

\* Mutant: what the metadata says beyond its own fields is not carried over.
CoreFieldsOnly == NoFile

\* preserve_metadata_extension_fields: of a file that cannot be read, nothing.
Preserved == IF IsWritten(metadata) THEN metadata.bounds ELSE NoFile

ObsInit ==
  /\ rowFile = <<>> /\ varFile = NoFile /\ counter = NoFile /\ metadata = NoFile
  /\ store = NotOpen /\ at = "idle" /\ call = "none"
  /\ told = 0 /\ since = 0 /\ kept = {} /\ stray = FALSE /\ foreign = FALSE
  /\ deaths = 0 /\ failures = 0

At(l) == at' = l
Returned == at' = "idle" /\ call' = "none"

---------------------------------------------------------------------------
(* Rows, told to a constructor or to add: x and y, then the variances.     *)

NewRows(ys) == [i \in DOMAIN ys |-> [row |-> told + i, y |-> ys[i]]]

TellRows(ys, b, n) ==
  /\ \A i \in DOMAIN ys : InInterval(ys[i], b)
  /\ told + Len(ys) <= MaxRows
  /\ rowFile' = Appending(rowFile, n, [i \in DOMAIN ys |->
                            [row |-> told + i, z |-> Warped(ys[i], b)]])
  /\ told' = told + Len(ys)

\* A model, as its constructor makes it of n rows in the store.
Opened(n, vars, b, dirty) ==
  [n |-> n, vars |-> vars, bounds |-> b, dirty |-> dirty, new |-> <<>>, noisy |-> FALSE,
   extras |-> NoFile]

\* new_with_storage, other than of empty arrays on a store that has metadata:
\* a store with rows is refused.  The bounds are those that are asked for.
CreateModel ==
  \E ys \in YBatches \cup {<<>>}, noisy \in BOOLEAN, asked \in YBounds \cup {NoFile} :
    /\ at = "idle" /\ store = NotOpen
    /\ ys = <<>> => metadata = NoFile /\ ~noisy
    /\ Counted = 0
    /\ \E b \in Resolved(asked, NoFile) :
         /\ TellRows(ys, b, 0)
         /\ store' = [Opened(Len(ys), IF varFile = NoFile THEN NoFile ELSE 0, b, ys # <<>>)
                        EXCEPT !.new = NewRows(ys), !.noisy = noisy]
    /\ counter' = IF IsWritten(counter) THEN counter ELSE 0
    /\ call' = "create" /\ At("variance")
    /\ UNCHANGED <<varFile, metadata, since, kept, stray, foreign, deaths, failures>>

\* new_with_storage of empty arrays: the bounds are loaded.
ReopenModel ==
  \E asked \in YBounds \cup {NoFile}, behind \in BOOLEAN :
    /\ at = "idle" /\ store = NotOpen
    /\ IsWritten(metadata)
    /\ HasRoom(rowFile, Counted) /\ (varFile # NoFile => HasRoom(varFile, Counted))
    /\ \E b \in Resolved(asked, metadata.bounds) :
         store' = Opened(Counted, IF varFile = NoFile THEN NoFile ELSE Counted, b,
                         behind /\ Counted > 0)
    /\ counter' = IF IsWritten(counter) THEN counter ELSE 0
    /\ call' = "reopen" /\ At("write")
    /\ UNCHANGED <<rowFile, varFile, metadata, obsGhosts>>

\* Mutant: rows without variances are taken by a model whose rows have some.
AnyVariance(noisy) == store.n > 0 /\ noisy => store.vars # NoFile /\ store.vars > 0

\* validate_add: all rows have a variance, or none.
SameVariance(noisy) == store.n > 0 => (noisy <=> store.vars # NoFile /\ store.vars > 0)

\* add, append_rows: x and y.
AddRows ==
  \E ys \in YBatches \ {<<>>}, noisy \in BOOLEAN :
    /\ at = "idle" /\ store # NotOpen
    /\ SameVariance(noisy)
    /\ TellRows(ys, store.bounds, store.n)
    /\ store' = [store EXCEPT !.n = @ + Len(ys), !.new = NewRows(ys), !.noisy = noisy]
    /\ call' = "add" /\ At("variance")
    /\ UNCHANGED <<varFile, counter, metadata, since, kept, stray, foreign, deaths, failures>>

\* bpann_open_or_append_yvar, bpann_append_yvar_on_add: the file, if the rows have
\* variances and there is none yet, then the variances.
WriteVariance ==
  LET next == IF call = "add" THEN "count" ELSE "write"
      ids  == [i \in DOMAIN store.new |-> store.new[i].row]
  IN /\ at = "variance"
     /\ IF ~store.noisy THEN At(next) /\ UNCHANGED <<varFile, store>>
        ELSE IF varFile = NoFile
        THEN varFile' = <<>> /\ store' = [store EXCEPT !.vars = 0] /\ UNCHANGED at
        ELSE /\ varFile' = Appending(varFile, store.vars, ids)
             /\ store' = [store EXCEPT !.vars = @ + Len(ids)]
             /\ At(next)
     /\ UNCHANGED <<rowFile, counter, metadata, call, obsGhosts>>

\* The rows of the call are there, where the call ends.
Keep ==
  kept' = kept \cup {[row |-> store.new[i].row, y |-> store.new[i].y, noisy |-> store.noisy,
                      place |-> store.n - Len(store.new) + i] : i \in DOMAIN store.new}

\* num_obs.bin, with which the rows of an add count and it returns.
SetCount ==
  /\ at = "count"
  /\ counter' = store.n
  /\ IF call = "add"
     THEN /\ Keep /\ Returned
          /\ store' = [store EXCEPT !.dirty = TRUE, !.new = <<>>]
     ELSE At("patch") /\ UNCHANGED <<kept, store, call>>
  /\ UNCHANGED <<rowFile, varFile, metadata, told, since, stray, foreign, deaths, failures>>

---------------------------------------------------------------------------
(* metadata.json: rewritten by a constructor and by a persist, then given  *)
(* the bounds by the constructor, which makes y_bounds_persisted true and  *)
(* so is the only one to do it.                                            *)

\* bpann_write_metadata: read, truncate, write.
TruncateMetadata ==
  /\ at = "write"
  /\ store' = [store EXCEPT !.extras = Preserved]
  /\ metadata' = Torn
  /\ At("written")
  /\ UNCHANGED <<rowFile, varFile, counter, call, obsGhosts>>

WriteMetadata ==
  /\ at = "written"
  /\ metadata' = [obs |-> store.n, bounds |-> store.extras]
  /\ IF call \in {"create", "reopen"} THEN At("count") /\ UNCHANGED <<store, call>>
     ELSE Returned /\ store' = IF call = "close" THEN NotOpen
                               ELSE [store EXCEPT !.dirty = FALSE, !.extras = NoFile]
  /\ UNCHANGED <<rowFile, varFile, counter, obsGhosts>>

Finish ==
  /\ Keep /\ Returned
  /\ store' = [store EXCEPT !.new = <<>>, !.extras = NoFile]

\* patch_metadata_y_bounds: nothing is written if the bounds are there.
PatchMetadata ==
  /\ at = "patch"
  /\ IF metadata.bounds = store.bounds
     THEN Finish /\ UNCHANGED metadata
     ELSE metadata' = Torn /\ At("patched") /\ UNCHANGED <<store, call, kept>>
  /\ UNCHANGED <<rowFile, varFile, counter, told, since, stray, foreign, deaths, failures>>

WritePatched ==
  /\ at = "patched"
  /\ metadata' = [obs |-> store.n, bounds |-> store.bounds]
  /\ Finish
  /\ UNCHANGED <<rowFile, varFile, counter, told, since, stray, foreign, deaths, failures>>

\* Of rows that never counted, the variances are there for the next ones.
StrayVariance == varFile # NoFile /\ Counted = 0

\* A write of metadata.json fails, before or after it is truncated.  A constructor that
\* has its backend drops it, which persists it; one that has not leaves it at that.
MetadataFails ==
  /\ failures < MaxFailures
  /\ at \in {"write", "written", "patch", "patched"}
  /\ at = "patch" => metadata.bounds # store.bounds
  /\ failures' = failures + 1
  /\ stray' = (stray \/ StrayVariance)
  /\ \/ /\ at \in {"patch", "patched"}
        /\ call' = "close" /\ At("write") /\ UNCHANGED store
     \/ /\ at \in {"write", "written"} \/ ~store.dirty
        /\ Returned
        /\ store' = IF call = "persist" THEN [store EXCEPT !.extras = NoFile] ELSE NotOpen
  /\ UNCHANGED <<obsFiles, told, since, kept, foreign, deaths>>

\* persist_index_to_disk, by a caller or by Drop.
PersistStore ==
  /\ at = "idle" /\ store # NotOpen
  /\ call' \in {"persist", "close"}
  /\ At("write")
  /\ UNCHANGED <<obsFiles, store, obsGhosts>>

\* Drop where nothing needs to be written.
CloseClean ==
  /\ at = "idle" /\ store # NotOpen /\ ~store.dirty
  /\ store' = NotOpen
  /\ UNCHANGED <<obsFiles, at, call, obsGhosts>>

\* The constructors of a model in memory: with ENN_WORK_DIR in the environment its
\* work_dir is that directory, too, and its bounds go into the metadata there.
MemoryModel ==
  \E asked \in YBounds \cup {NoFile} :
    /\ at = "idle" /\ IsWritten(metadata)
    /\ \E b \in Resolved(asked, NoFile) :
         /\ metadata' = [metadata EXCEPT !.bounds = b]
         /\ foreign' = (foreign \/ b # metadata.bounds)
    /\ UNCHANGED <<rowFile, varFile, counter, store, at, call, told, since, kept, stray,
                   deaths, failures>>

---------------------------------------------------------------------------
(* bpann_remove_store, with no model open: file by file, in this order.    *)

RemoveRows ==
  /\ at = "idle" /\ store = NotOpen
  /\ rowFile' = <<>>
  /\ kept' = {} /\ since' = told
  /\ At("remove_yvar")
  /\ UNCHANGED <<varFile, counter, metadata, store, call, told, stray, foreign, deaths, failures>>

RemoveVariance ==
  /\ at = "remove_yvar"
  /\ varFile' = NoFile /\ stray' = FALSE
  /\ At("remove_count")
  /\ UNCHANGED <<rowFile, counter, metadata, store, call, told, since, kept, foreign,
                 deaths, failures>>

RemoveCount ==
  /\ at = "remove_count"
  /\ counter' = NoFile
  /\ At("remove_metadata")
  /\ UNCHANGED <<rowFile, varFile, metadata, store, call, obsGhosts>>

RemoveMetadata ==
  /\ at = "remove_metadata"
  /\ metadata' = NoFile
  /\ foreign' = FALSE
  /\ Returned
  /\ UNCHANGED <<rowFile, varFile, counter, store, told, since, kept, stray, deaths, failures>>

ProcessDies ==
  /\ at # "idle" \/ store # NotOpen
  /\ deaths < MaxDeaths
  /\ deaths' = deaths + 1
  /\ store' = NotOpen
  /\ stray' = (stray \/ StrayVariance)
  /\ Returned
  /\ UNCHANGED <<obsFiles, told, since, kept, foreign, failures>>

ObsNext ==
  \/ CreateModel \/ ReopenModel \/ AddRows \/ WriteVariance \/ SetCount
  \/ TruncateMetadata \/ WriteMetadata \/ PatchMetadata \/ WritePatched \/ MetadataFails
  \/ PersistStore \/ CloseClean \/ MemoryModel
  \/ RemoveRows \/ RemoveVariance \/ RemoveCount \/ RemoveMetadata
  \/ ProcessDies

ObsSpec == ObsInit /\ [][ObsNext]_obsVars

---------------------------------------------------------------------------
(* Properties.                                                             *)

\* A constructor of empty arrays would open the store, and with these bounds.
Opens ==
  /\ IsWritten(metadata)
  /\ HasRoom(rowFile, Counted)
  /\ varFile # NoFile => HasRoom(varFile, Counted)
Loaded == CHOOSE b \in Resolved(NoFile, metadata.bounds) : TRUE

\* What train_rows_at gives, of the model that is open or would be.
RowCount == IF store # NotOpen THEN store.n ELSE Counted
Variances == IF store # NotOpen THEN store.vars ELSE IF varFile = NoFile THEN NoFile ELSE Counted
ReadsBack(k) ==
  LET bounds == IF store # NotOpen THEN store.bounds ELSE Loaded
  IN Natural(rowFile[k.place].z, bounds) = k.y
VarianceReadsBack(k) ==
  IF k.noisy THEN Variances # NoFile /\ Variances >= k.place /\ varFile[k.place] = k.row
             ELSE Variances = NoFile \/ Variances < k.place

\* model.rs, y_bounds_api.rs: whatever was interrupted before, rows whose call returned are
\* at their place with the variance they came with, in a store that opens unless its
\* metadata was cut short, and no other row than those told since the last removal is
\* counted.  As long as no write of metadata failed and no model in memory shares the
\* directory, their y reads in the unit it was told in.
RowsReadAsTold ==
  at = "idle" /\ (store # NotOpen \/ Opens \/ (kept # {} /\ ~stray /\ metadata # Torn)) =>
    /\ store # NotOpen \/ Opens
    /\ \A i \in 1..RowCount : i <= Len(rowFile) /\ rowFile[i].row \in since + 1..told
    /\ \A k \in kept :
         /\ k.place <= RowCount /\ rowFile[k.place].row = k.row
         /\ ~stray => VarianceReadsBack(k)
         /\ failures = 0 /\ ~foreign => ReadsBack(k)

\* tests/fast/test_y_bounds.py:107: the rows of a store that is opened again without
\* bounds read as they were told; no write failed.
ReopenLoadsBounds ==
  at = "idle" /\ store = NotOpen /\ Opens /\ failures = 0 => \A k \in kept : ReadsBack(k)
=============================================================================
