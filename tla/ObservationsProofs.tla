------------------------- MODULE ObservationsProofs -------------------------
(***************************************************************************)
(* Proof that the rows of a disk model read as they were told.             *)
(*                                                                         *)
(* The property says what a reader gets between calls; the invariant says  *)
(* what each step may rely on.  Three things carry it.  The count is never *)
(* ahead of the rows, and num_obs.bin alone covers those whose call has    *)
(* returned, so that no write of metadata.json can lose them.  Variances   *)
(* are appended at the count the rows had, so the two files stay aligned   *)
(* unless one of them outlives a call that died before it counted.  And    *)
(* the bounds travel: from the file to the model, from the model to the    *)
(* rows, from the model or from what it read back to the file.             *)
(***************************************************************************)
EXTENDS Observations, SequenceTheorems, TLAPS

\* The types of the state.
Sides   == Seq(Int \cup {Unbounded})
StoredRows == [row : Nat, z : [y : Int, under : Sides]]
Toldrows == [row : Nat, y : Int]
Stores  == [n : Nat, vars : Nat \cup {NoFile}, bounds : Sides, dirty : BOOLEAN,
            new : Seq(Toldrows), noisy : BOOLEAN, extras : Sides \cup {NoFile}]

Typed ==
  /\ rowFile \in Seq(StoredRows)
  /\ varFile \in Seq(Nat) \cup {NoFile}
  /\ counter \in Nat \cup {NoFile}
  /\ metadata \in [obs : Nat, bounds : Sides \cup {NoFile}] \cup {NoFile, Torn}
  /\ store \in Stores \cup {NotOpen}
  /\ told \in Nat /\ since \in Nat
  /\ kept \subseteq [row : Nat, y : Int, noisy : BOOLEAN, place : Nat \ {0}]
  /\ stray \in BOOLEAN /\ foreign \in BOOLEAN
  /\ deaths \in Nat /\ failures \in Nat

\* The places of a call: writing metadata.json, patching its bounds, removing the store.
Writing  == {"write", "written"}
Patching == {"patch", "patched"}
Removing == {"remove_yvar", "remove_count", "remove_metadata"}
Constructors == {"create", "reopen"}

\* Which call is where, and what it has done to the files by then.
Places ==
  /\ at \in {"idle", "variance", "count"} \cup Writing \cup Patching \cup Removing
  /\ at = "idle" => call = "none"
  /\ at = "variance" => call \in {"create", "add"} /\ (store.noisy => store.new # <<>>)
  /\ at = "count" => call \in Constructors \cup {"add"}
  /\ at \in Writing => call \in Constructors \cup {"persist", "close"}
  /\ at \in Patching => call \in Constructors
  /\ at \in Removing => store = NotOpen /\ kept = {}
  /\ at \notin {"idle"} \cup Removing => store # NotOpen
  /\ at \in {"remove_count", "remove_metadata"} => varFile = NoFile
  /\ call = "create" => kept = {}
  /\ at \in {"written", "patched"} => metadata = Torn
  /\ at \in {"count", "patch"} /\ call # "add" => IsWritten(metadata)
  /\ at = "idle" /\ store # NotOpen => store.new = <<>>
  /\ call \in {"reopen", "persist"} => store.new = <<>>

\* The first n rows are in the file, and were told since the last removal; the first n
\* variances are those of the same rows.
RowsIn(n) == \A i \in 1..n : i <= Len(rowFile) /\ rowFile[i].row \in since + 1..told
VarsIn(n) == \A i \in 1..n : i <= Len(varFile) /\ varFile[i] = rowFile[i].row
\* A removal has emptied the rows and got no further.
Cut == rowFile = <<>> /\ kept = {}
\* The rows of the model before those of the call.
Before == store.n - Len(store.new)

\* Where the rows of the last call are counted: between calls, and in a call that adds none.
Settled == at \in {"idle"} \cup Patching \/ call \in {"persist", "close"}

\* The count never runs ahead of the rows: it may only be behind those of an open model.
CountedThere ==
  /\ since <= told
  /\ store = NotOpen => Cut \/ RowsIn(Counted)
  /\ store # NotOpen =>
       /\ RowsIn(store.n) /\ Counted <= store.n
       /\ at = "variance" => Counted <= Before
       /\ Settled => counter = store.n

\* The rows of the call are the model's last.
CallThere ==
  store # NotOpen =>
    /\ Len(store.new) <= store.n
    /\ \A i \in 1..Len(store.new) :
         /\ rowFile[Before + i].row = store.new[i].row
         /\ rowFile[Before + i].z = Warped(store.new[i].y, store.bounds)

\* The rows whose call returned are counted in num_obs.bin, so a cut metadata.json does not
\* lose them, and they are in the file under the number and with the y they were told with.
KeptThere ==
  /\ \A k \in kept :
       /\ counter \in Nat /\ k.place <= counter /\ k.place <= Len(rowFile)
       /\ rowFile[k.place].row = k.row /\ rowFile[k.place].z.y = k.y
  /\ kept # {} => metadata # NoFile
  /\ store # NotOpen /\ call # "create" => metadata # NoFile

RowsThere == CountedThere /\ CallThere /\ KeptThere

\* train_yvar.bin is there just if the open model has variances.
FileMatches == store # NotOpen => (store.vars = NoFile <=> varFile = NoFile)

\* Unless the first rows were lost and their variances were not, the file of variances has
\* those of the rows that count; in a call, those of the rows before it.
Aligned ==
  /\ store = NotOpen /\ varFile # NoFile => Counted > 0 /\ (Cut \/ VarsIn(Counted))
  /\ store # NotOpen /\ at # "variance" /\ varFile # NoFile =>
       store.n > 0 /\ store.vars = store.n /\ VarsIn(store.n)
  /\ store # NotOpen /\ store.new # <<>> /\ at # "variance" =>
       (store.noisy <=> varFile # NoFile)
  /\ at = "variance" =>
       /\ ~store.noisy => varFile = NoFile
       /\ store.noisy /\ varFile = NoFile => Before = 0
       /\ store.noisy /\ varFile # NoFile => store.vars = Before /\ VarsIn(Before)
  /\ \A k \in kept : k.noisy <=> varFile # NoFile

VariancesThere == FileMatches /\ (~stray => Aligned)

\* The bounds the rows were warped under are those of the model, of metadata.json if it is
\* whole, and of what is to be written if it is not.
BoundsThere ==
  failures = 0 /\ ~foreign =>
    /\ store # NotOpen => \A k \in kept : rowFile[k.place].z.under = store.bounds
    /\ kept # {} /\ IsWritten(metadata) => \A k \in kept :
            metadata.bounds = rowFile[k.place].z.under
    /\ at = "written" => \A k \in kept : store.extras = rowFile[k.place].z.under
    /\ store # NotOpen /\ at \notin {"written", "patched"} /\ call # "create" => IsWritten(metadata)
    /\ store # NotOpen /\ call \notin Constructors =>
         IF at = "written" THEN store.extras = store.bounds ELSE metadata.bounds = store.bounds

\* The inductive invariant.
ObsInv == Typed /\ Places /\ RowsThere /\ VariancesThere /\ BoundsThere

----------------------------------------------------------------------------
\* What a file can hold is told apart from the marks for no file and for a cut one.
LEMMA WrittenFacts ==
  /\ \A n \in Nat : n # NoFile /\ n # Torn /\ IsWritten(n)
  /\ \A m \in [obs : Nat, bounds : Sides \cup {NoFile}] : m # NoFile /\ m # Torn /\ IsWritten(m)
  /\ \A s \in Seq(Nat) : s # NoFile
  /\ \A s \in Seq(StoredRows) : s # NoFile
  /\ \A b \in Sides : b # NoFile
  /\ \A s \in Stores : s # NotOpen
  /\ NoFile # Torn
BY ObservationsAssumption DEF IsWritten, Sides, StoredRows, Stores, Toldrows

\* The bounds a caller may ask for, and the open ones, are bounds.
LEMMA BoundsType ==
  /\ AllOpen \in Sides
  /\ \A b \in YBounds : b \in Sides
<1>1. AllOpen \in Sides
  BY DEF AllOpen, Sides
<1> QED
  BY <1>1, ObservationsAssumption DEF Sides

\* resolve_y_bounds (y_bounds.rs) gives bounds; where the metadata has some, those.
LEMMA ResolvedBounds ==
  ASSUME NEW asked \in YBounds \cup {NoFile}, NEW loaded \in Sides \cup {NoFile},
         NEW b \in Resolved(asked, loaded)
  PROVE  b \in Sides /\ (loaded # NoFile => b = loaded)
BY BoundsType DEF Resolved

\* mmap_append (mmap_store.rs) of rows: the first n stay, the new ones follow them.
LEMMA RowsAppended ==
  ASSUME NEW f \in Seq(StoredRows), NEW n \in Nat, NEW rows \in Seq(StoredRows), n <= Len(f)
  PROVE  /\ Appending(f, n, rows) \in Seq(StoredRows)
         /\ Len(Appending(f, n, rows)) = n + Len(rows)
         /\ \A i \in 1..n : i <= Len(f) => Appending(f, n, rows)[i] = f[i]
         /\ \A j \in 1..Len(rows) : Appending(f, n, rows)[n + j] = rows[j]
<1>1. Len(f) \in Nat /\ Len(rows) \in Nat /\ n + Len(rows) \in Nat
  BY LenProperties
<1>2. \A i \in 1..(n + Len(rows)) :
        (IF i > n THEN rows[i - n] ELSE IF i <= Len(f) THEN f[i] ELSE 0) \in StoredRows
  <2> TAKE i \in 1..(n + Len(rows))
  <2>1. CASE i > n
    <3>1. i - n \in 1..Len(rows)
      BY <1>1, <2>1
    <3> QED
      BY <2>1, <3>1, ElementOfSeq
  <2>2. CASE i <= n /\ i <= Len(f)
    <3>1. i \in 1..Len(f)
      BY <1>1, <2>2
    <3> QED
      BY <2>2, <3>1, ElementOfSeq
  <2>3. CASE i <= n /\ ~(i <= Len(f))
    BY <1>1, <2>3
  <2> QED
    BY <1>1, <2>1, <2>2, <2>3
<1> DEFINE g == [i \in 1..(n + Len(rows)) |->
                  IF i > n THEN rows[i - n] ELSE IF i <= Len(f) THEN f[i] ELSE 0]
<1>3. Appending(f, n, rows) = g
  BY DEF Appending
<1>4. g \in Seq(StoredRows)
  BY <1>1, <1>2, IsASeq
<1>5. Len(g) = n + Len(rows)
  BY <1>1, <1>4, LenProperties
<1>6. \A i \in 1..n : i <= Len(f) => g[i] = f[i]
  BY <1>1
<1>7. \A j \in 1..Len(rows) : g[n + j] = rows[j]
  BY <1>1
<1> QED
  BY <1>3, <1>4, <1>5, <1>6, <1>7

\* The same of variances, where the file may be shorter than the count.
LEMMA VariancesAppended ==
  ASSUME NEW f \in Seq(Nat), NEW n \in Nat, NEW rows \in Seq(Nat)
  PROVE  /\ Appending(f, n, rows) \in Seq(Nat)
         /\ Len(Appending(f, n, rows)) = n + Len(rows)
         /\ \A i \in 1..n : i <= Len(f) => Appending(f, n, rows)[i] = f[i]
         /\ \A j \in 1..Len(rows) : Appending(f, n, rows)[n + j] = rows[j]
<1>1. Len(f) \in Nat /\ Len(rows) \in Nat /\ n + Len(rows) \in Nat
  BY LenProperties
<1>2. \A i \in 1..(n + Len(rows)) :
        (IF i > n THEN rows[i - n] ELSE IF i <= Len(f) THEN f[i] ELSE 0) \in Nat
  <2> TAKE i \in 1..(n + Len(rows))
  <2>1. CASE i > n
    <3>1. i - n \in 1..Len(rows)
      BY <1>1, <2>1
    <3> QED
      BY <2>1, <3>1, ElementOfSeq
  <2>2. CASE i <= n /\ i <= Len(f)
    <3>1. i \in 1..Len(f)
      BY <1>1, <2>2
    <3> QED
      BY <2>2, <3>1, ElementOfSeq
  <2>3. CASE i <= n /\ ~(i <= Len(f))
    BY <1>1, <2>3
  <2> QED
    BY <1>1, <2>1, <2>2, <2>3
<1> DEFINE g == [i \in 1..(n + Len(rows)) |->
                  IF i > n THEN rows[i - n] ELSE IF i <= Len(f) THEN f[i] ELSE 0]
<1>3. Appending(f, n, rows) = g
  BY DEF Appending
<1>4. g \in Seq(Nat)
  BY <1>1, <1>2, IsASeq
<1>5. Len(g) = n + Len(rows)
  BY <1>1, <1>4, LenProperties
<1>6. \A i \in 1..n : i <= Len(f) => g[i] = f[i]
  BY <1>1
<1>7. \A j \in 1..Len(rows) : g[n + j] = rows[j]
  BY <1>1
<1> QED
  BY <1>3, <1>4, <1>5, <1>6, <1>7

\* bpann_load_num_obs is at least what each of the two files says, and one of them.
LEMMA CountedFacts ==
  ASSUME Typed
  PROVE  /\ Counted \in Nat
         /\ counter \in Nat => counter <= Counted
         /\ IsWritten(metadata) => metadata.obs <= Counted
         /\ Counted = 0 \/ Counted = counter \/ (IsWritten(metadata) /\ Counted = metadata.obs)
BY WrittenFacts DEF Typed, Counted, IsWritten

\* What add_rows leaves in the file: the rows before, then those told, numbered on.
LEMMA RowsOfCall ==
  ASSUME Typed, NEW ys \in Seq(Int), NEW b \in Sides, NEW n \in Nat, n <= Len(rowFile),
         TellRows(ys, b, n)
  PROVE  /\ rowFile' \in Seq(StoredRows) /\ Len(rowFile') = n + Len(ys)
         /\ \A i \in 1..n : rowFile'[i] = rowFile[i]
         /\ \A j \in 1..Len(ys) :
              /\ rowFile'[n + j].row = told + j
              /\ rowFile'[n + j].z = Warped(ys[j], b)
         /\ told' = told + Len(ys) /\ Len(ys) \in Nat
         /\ NewRows(ys) \in Seq(Toldrows) /\ Len(NewRows(ys)) = Len(ys)
         /\ \A j \in 1..Len(ys) : NewRows(ys)[j].row = told + j /\ NewRows(ys)[j].y = ys[j]
<1> DEFINE rows == [i \in DOMAIN ys |-> [row |-> told + i, z |-> Warped(ys[i], b)]]
<1>1. /\ DOMAIN ys = 1..Len(ys) /\ Len(ys) \in Nat /\ told \in Nat /\ rowFile \in Seq(StoredRows)
      /\ \A i \in 1..Len(ys) : ys[i] \in Int
  BY LenProperties, ElementOfSeq DEF Typed
<1>2. \A i \in 1..Len(ys) : [row |-> told + i, z |-> Warped(ys[i], b)] \in StoredRows
  BY <1>1 DEF StoredRows, Warped
<1>3. rows \in Seq(StoredRows)
  <2>1. rows = [i \in 1..Len(ys) |-> [row |-> told + i, z |-> Warped(ys[i], b)]]
    BY <1>1
  <2> QED
    BY <1>1, <1>2, <2>1, IsASeq
<1>4. Len(rows) = Len(ys) /\ \A j \in 1..Len(ys) :
        rows[j] = [row |-> told + j, z |-> Warped(ys[j], b)]
  BY <1>1, <1>3, LenProperties
<1>5. rowFile' = Appending(rowFile, n, rows) /\ told' = told + Len(ys)
  BY DEF TellRows
<1> HIDE DEF rows
<1>6. /\ rowFile' \in Seq(StoredRows) /\ Len(rowFile') = n + Len(ys)
      /\ \A i \in 1..n : i <= Len(rowFile) => rowFile'[i] = rowFile[i]
      /\ \A j \in 1..Len(ys) : rowFile'[n + j] = rows[j]
  <2>1. /\ Appending(rowFile, n, rows) \in Seq(StoredRows)
        /\ Len(Appending(rowFile, n, rows)) = n + Len(rows)
        /\ \A i \in 1..n : i <= Len(rowFile) => Appending(rowFile, n, rows)[i] = rowFile[i]
        /\ \A j \in 1..Len(rows) : Appending(rowFile, n, rows)[n + j] = rows[j]
    BY <1>1, <1>3, RowsAppended
  <2> QED
    BY <1>4, <1>5, <2>1
<1>7. \A i \in 1..n : rowFile'[i] = rowFile[i]
  BY <1>1, <1>6, LenProperties
<1>8. \A i \in 1..Len(ys) : [row |-> told + i, y |-> ys[i]] \in Toldrows
  BY <1>1 DEF Toldrows
<1>12. \A j \in 1..Len(ys) : rows[j].row = told + j /\ rows[j].z = Warped(ys[j], b)
  <2> TAKE j \in 1..Len(ys)
  <2>1. rows[j] = [row |-> told + j, z |-> Warped(ys[j], b)]
    BY <1>4
  <2> QED
    BY <2>1
<1>9. NewRows(ys) = [i \in 1..Len(ys) |-> [row |-> told + i, y |-> ys[i]]]
  BY <1>1 DEF NewRows
<1>10. NewRows(ys) \in Seq(Toldrows)
  BY <1>1, <1>8, <1>9, IsASeq
<1>11. Len(NewRows(ys)) = Len(ys)
  BY <1>1, <1>9, <1>10, LenProperties
<1>13. \A j \in 1..Len(ys) : NewRows(ys)[j].row = told + j /\ NewRows(ys)[j].y = ys[j]
  <2> TAKE j \in 1..Len(ys)
  <2>1. NewRows(ys)[j] = [row |-> told + j, y |-> ys[j]]
    BY <1>9
  <2> QED
    BY <2>1
<1> QED
  BY <1>1, <1>5, <1>6, <1>7, <1>10, <1>11, <1>12, <1>13

\* The fields of a model that is open.
LEMMA StoreFields ==
  ASSUME Typed, store # NotOpen
  PROVE  /\ store \in Stores
         /\ store.n \in Nat /\ store.vars \in Nat \cup {NoFile} /\ store.bounds \in Sides
         /\ store.dirty \in BOOLEAN /\ store.new \in Seq(Toldrows) /\ store.noisy \in BOOLEAN
         /\ store.extras \in Sides \cup {NoFile}
         /\ Len(store.new) \in Nat /\ DOMAIN store.new = 1..Len(store.new)
         /\ \A i \in 1..Len(store.new) : store.new[i] \in Toldrows
<1>1. store \in Stores
  BY DEF Typed
<1>2. store.new \in Seq(Toldrows)
  BY <1>1 DEF Stores
<1> QED
  BY <1>1, <1>2, LenProperties, ElementOfSeq DEF Stores

\* What a constructor opens is a model.
LEMMA OpenedIsStore ==
  ASSUME NEW n \in Nat, NEW vars \in Nat \cup {NoFile}, NEW b \in Sides, NEW dirty \in BOOLEAN
  PROVE  Opened(n, vars, b, dirty) \in Stores /\ Opened(n, vars, b, dirty) # NotOpen
<1>1. <<>> \in Seq(Toldrows)
  OBVIOUS
<1>2. Opened(n, vars, b, dirty) \in Stores
  BY <1>1 DEF Opened, Stores
<1> QED
  BY <1>2, WrittenFacts

\* The changes that the steps make to an open model leave it one.
LEMMA StoreWith ==
  ASSUME NEW s \in Stores
  PROVE  /\ \A v \in Nat : [s EXCEPT !.vars = v] \in Stores
         /\ \A e \in Sides \cup {NoFile} : [s EXCEPT !.extras = e] \in Stores
         /\ \A n \in Nat, new \in Seq(Toldrows), noisy \in BOOLEAN :
              [s EXCEPT !.n = n, !.new = new, !.noisy = noisy] \in Stores
         /\ \A new \in Seq(Toldrows), noisy \in BOOLEAN :
              [s EXCEPT !.new = new, !.noisy = noisy] \in Stores
         /\ \A d \in BOOLEAN : [s EXCEPT !.dirty = d, !.new = <<>>] \in Stores
         /\ \A d \in BOOLEAN, e \in Sides \cup {NoFile} :
              [s EXCEPT !.dirty = d, !.extras = e] \in Stores
         /\ \A e \in Sides \cup {NoFile} : [s EXCEPT !.new = <<>>, !.extras = e] \in Stores
<1>1. <<>> \in Seq(Toldrows)
  OBVIOUS
<1>2. \A v \in Nat : [s EXCEPT !.vars = v] \in Stores
  BY DEF Stores
<1>3. \A e \in Sides \cup {NoFile} : [s EXCEPT !.extras = e] \in Stores
  BY DEF Stores
<1>4. \A n \in Nat, new \in Seq(Toldrows), noisy \in BOOLEAN :
        [s EXCEPT !.n = n, !.new = new, !.noisy = noisy] \in Stores
  BY DEF Stores
<1>5. \A new \in Seq(Toldrows), noisy \in BOOLEAN :
        [s EXCEPT !.new = new, !.noisy = noisy] \in Stores
  BY DEF Stores
<1>6. \A d \in BOOLEAN : [s EXCEPT !.dirty = d, !.new = <<>>] \in Stores
  BY <1>1 DEF Stores
<1>7. \A d \in BOOLEAN, e \in Sides \cup {NoFile} : [s EXCEPT !.dirty = d, !.extras = e] \in Stores
  BY DEF Stores
<1>8. \A e \in Sides \cup {NoFile} : [s EXCEPT !.new = <<>>, !.extras = e] \in Stores
  BY <1>1 DEF Stores
<1> QED
  BY <1>2, <1>3, <1>4, <1>5, <1>6, <1>7, <1>8

\* A store that was never written satisfies the invariant.
THEOREM ObsStart == ObsInit => ObsInv
<1> SUFFICES ASSUME ObsInit PROVE ObsInv
  OBVIOUS
<1> USE DEF ObsInit
<1>1. Typed
  <2>1. <<>> \in Seq(StoredRows)
    OBVIOUS
  <2> QED
    BY <2>1 DEF Typed
<1>2. Places
  BY DEF Places, Writing, Patching, Removing, Constructors
<1>3. RowsThere
  BY DEF RowsThere, CountedThere, CallThere, KeptThere, Cut
<1>4. VariancesThere
  BY DEF VariancesThere, FileMatches, Aligned
<1>5. BoundsThere
  BY DEF BoundsThere
<1> QED
  BY <1>1, <1>2, <1>3, <1>4, <1>5 DEF ObsInv

\* The rows of the open model are in the file.
LEMMA RowsFit ==
  ASSUME ObsInv, store # NotOpen
  PROVE  store.n <= Len(rowFile)
<1>1. \A i \in 1..store.n : i <= Len(rowFile)
  BY DEF ObsInv, RowsThere, CountedThere, RowsIn
<1>2. store.n \in Nat /\ Len(rowFile) \in Nat
  BY StoreFields, LenProperties DEF ObsInv, Typed
<1>3. CASE store.n = 0
  BY <1>2, <1>3
<1>4. CASE store.n \in 1..store.n
  BY <1>1, <1>4
<1> QED
  BY <1>2, <1>3, <1>4

\* What a constructor with rows (new_with_storage, model.rs) does, in terms of its batch.
LEMMA CreateEffect ==
  ASSUME ObsInv, CreateModel
  PROVE  \E ys \in Seq(Int), noisy \in BOOLEAN, b \in Sides :
           /\ ys = <<>> => metadata = NoFile /\ ~noisy
           /\ store' \in Stores /\ store'.n = Len(ys) /\ store'.bounds = b
           /\ store'.vars = (IF varFile = NoFile THEN NoFile ELSE 0)
           /\ store'.new = NewRows(ys) /\ store'.noisy = noisy
           /\ told' = told + Len(ys) /\ Len(ys) \in Nat
           /\ rowFile' \in Seq(StoredRows) /\ Len(rowFile') = Len(ys)
           /\ \A j \in 1..Len(ys) : rowFile'[j].row = told + j /\ rowFile'[j].z = Warped(ys[j], b)
           /\ Len(NewRows(ys)) = Len(ys) /\ (NewRows(ys) = <<>> => ys = <<>>)
           /\ \A j \in 1..Len(ys) : NewRows(ys)[j].row = told + j /\ NewRows(ys)[j].y = ys[j]
<1>1. PICK ys \in YBatches \cup {<<>>}, noisy \in BOOLEAN, asked \in YBounds \cup {NoFile} :
        CreateModel!(ys, noisy, asked)
  BY DEF CreateModel
<1>2. PICK b \in Resolved(asked, NoFile) :
        /\ TellRows(ys, b, 0)
        /\ store' = [Opened(Len(ys), IF varFile = NoFile THEN NoFile ELSE 0, b, ys # <<>>)
                      EXCEPT !.new = NewRows(ys), !.noisy = noisy]
  BY <1>1
<1>3. ys \in Seq(Int)
  <2>1. <<>> \in Seq(Int) /\ YBatches \subseteq Seq(Int)
    BY ObservationsAssumption
  <2> QED
    BY <2>1
<1>4. b \in Sides
  <2>1. NoFile \in Sides \cup {NoFile}
    OBVIOUS
  <2> QED
    BY <1>2, <2>1, ResolvedBounds
<1>5. /\ rowFile' \in Seq(StoredRows) /\ Len(rowFile') = 0 + Len(ys)
      /\ \A j \in 1..Len(ys) :
           /\ rowFile'[0 + j].row = told + j
           /\ rowFile'[0 + j].z = Warped(ys[j], b)
      /\ told' = told + Len(ys) /\ Len(ys) \in Nat
      /\ NewRows(ys) \in Seq(Toldrows) /\ Len(NewRows(ys)) = Len(ys)
      /\ \A j \in 1..Len(ys) : NewRows(ys)[j].row = told + j /\ NewRows(ys)[j].y = ys[j]
  <2>1. Typed /\ 0 \in Nat /\ 0 <= Len(rowFile)
    BY LenProperties DEF ObsInv, Typed
  <2> QED
    BY <1>2, <1>3, <1>4, <2>1, RowsOfCall
<1>6. Len(rowFile') = Len(ys) /\ \A j \in 1..Len(ys) : rowFile'[j] = rowFile'[0 + j]
  BY <1>5
<1> DEFINE vars == IF varFile = NoFile THEN NoFile ELSE 0
           o == Opened(Len(ys), vars, b, ys # <<>>)
<1>7. o \in Stores /\ o.n = Len(ys) /\ o.vars = vars /\ o.bounds = b
  BY <1>4, <1>5, OpenedIsStore DEF Opened
<1>8. store' = [o EXCEPT !.new = NewRows(ys), !.noisy = noisy]
  BY <1>2
<1> HIDE DEF o
<1>9. store' \in Stores
  BY <1>5, <1>7, <1>8, StoreWith
<1>10. /\ store'.n = Len(ys) /\ store'.bounds = b /\ store'.vars = vars
       /\ store'.new = NewRows(ys) /\ store'.noisy = noisy
  BY <1>7, <1>8 DEF Stores
<1>11. NewRows(ys) = <<>> => ys = <<>>
  BY <1>3, <1>5, EmptySeq
<1> QED
  BY <1>1, <1>3, <1>4, <1>5, <1>6, <1>9, <1>10, <1>11

\* What a constructor of empty arrays does: the rows and bounds of the files.
LEMMA ReopenEffect ==
  ASSUME ObsInv, ReopenModel
  PROVE  /\ store' \in Stores /\ store'.n = Counted /\ store'.new = <<>>
         /\ store'.vars = (IF varFile = NoFile THEN NoFile ELSE Counted)
         /\ metadata.bounds # NoFile => store'.bounds = metadata.bounds
<1>1. PICK asked \in YBounds \cup {NoFile}, behind \in BOOLEAN : ReopenModel!(asked, behind)
  BY DEF ReopenModel
<1>2. PICK b \in Resolved(asked, metadata.bounds) :
        store' = Opened(Counted, IF varFile = NoFile THEN NoFile ELSE Counted, b,
                        behind /\ Counted > 0)
  BY <1>1
<1>3. metadata.bounds \in Sides \cup {NoFile}
  BY <1>1 DEF ObsInv, Typed, IsWritten
<1>4. b \in Sides /\ (metadata.bounds # NoFile => b = metadata.bounds)
  BY <1>3, ResolvedBounds
<1>5. Counted \in Nat
  BY CountedFacts DEF ObsInv
<1> QED
  BY <1>2, <1>4, <1>5, OpenedIsStore DEF Opened

\* What add (model.rs) does, in terms of its batch.
LEMMA AddEffect ==
  ASSUME ObsInv, AddRows
  PROVE  \E ys \in Seq(Int), noisy \in BOOLEAN :
           /\ SameVariance(noisy)
           /\ store' \in Stores /\ store'.n = store.n + Len(ys) /\ store'.bounds = store.bounds
           /\ store'.vars = store.vars /\ store'.new = NewRows(ys) /\ store'.noisy = noisy
           /\ told' = told + Len(ys) /\ Len(ys) \in Nat
           /\ rowFile' \in Seq(StoredRows) /\ Len(rowFile') = store.n + Len(ys)
           /\ \A i \in 1..store.n : rowFile'[i] = rowFile[i]
           /\ \A j \in 1..Len(ys) :
                /\ rowFile'[store.n + j].row = told + j
                /\ rowFile'[store.n + j].z = Warped(ys[j], store.bounds)
           /\ Len(NewRows(ys)) = Len(ys) /\ ys # <<>> /\ NewRows(ys) # <<>>
           /\ \A j \in 1..Len(ys) : NewRows(ys)[j].row = told + j /\ NewRows(ys)[j].y = ys[j]
<1>1. PICK ys \in YBatches \ {<<>>}, noisy \in BOOLEAN : AddRows!(ys, noisy)
  BY DEF AddRows
<1>2. Typed /\ store # NotOpen
  BY <1>1 DEF ObsInv
<1>3. ys \in Seq(Int) /\ store.bounds \in Sides /\ store.n \in Nat /\ store \in Stores
  BY <1>2, StoreFields, ObservationsAssumption
<1>4. store.n <= Len(rowFile)
  BY <1>2, RowsFit
<1>5. /\ rowFile' \in Seq(StoredRows) /\ Len(rowFile') = store.n + Len(ys)
      /\ \A i \in 1..store.n : rowFile'[i] = rowFile[i]
      /\ \A j \in 1..Len(ys) :
           /\ rowFile'[store.n + j].row = told + j
           /\ rowFile'[store.n + j].z = Warped(ys[j], store.bounds)
      /\ told' = told + Len(ys) /\ Len(ys) \in Nat
      /\ NewRows(ys) \in Seq(Toldrows) /\ Len(NewRows(ys)) = Len(ys)
      /\ \A j \in 1..Len(ys) : NewRows(ys)[j].row = told + j /\ NewRows(ys)[j].y = ys[j]
  BY <1>1, <1>2, <1>3, <1>4, RowsOfCall
<1>6. store' = [store EXCEPT !.n = store.n + Len(ys), !.new = NewRows(ys), !.noisy = noisy]
  BY <1>1
<1>7. store' \in Stores
  <2>1. store.n + Len(ys) \in Nat
    BY <1>3, <1>5
  <2> QED
    BY <1>3, <1>5, <1>6, <2>1, StoreWith
<1>8. /\ store'.n = store.n + Len(ys) /\ store'.bounds = store.bounds
      /\ store'.vars = store.vars /\ store'.new = NewRows(ys) /\ store'.noisy = noisy
  BY <1>3, <1>6 DEF Stores
<1>9. NewRows(ys) = <<>> => ys = <<>>
  BY <1>3, <1>5, EmptySeq
<1> QED
  BY <1>1, <1>3, <1>5, <1>7, <1>8, <1>9

\* The three ways of WriteVariance: no variances, an empty file, the variances of the call.
LEMMA VarianceEffect ==
  ASSUME ObsInv, WriteVariance
  PROVE  /\ store # NotOpen /\ store' \in Stores
         /\ store'.n = store.n /\ store'.bounds = store.bounds /\ store'.new = store.new
         /\ store'.noisy = store.noisy
         /\ \/ ~store.noisy /\ varFile' = varFile /\ store' = store
            \/ store.noisy /\ varFile = NoFile /\ varFile' = <<>> /\ store'.vars = 0 /\ at' = at
            \/ /\ store.noisy /\ varFile # NoFile /\ store.vars \in Nat
               /\ store'.vars = store.vars + Len(store.new)
               /\ varFile' \in Seq(Nat) /\ Len(varFile') = store.vars + Len(store.new)
               /\ \A i \in 1..store.vars : i <= Len(varFile) => varFile'[i] = varFile[i]
               /\ \A j \in 1..Len(store.new) : varFile'[store.vars + j] = store.new[j].row
<1> DEFINE ids == [i \in DOMAIN store.new |-> store.new[i].row]
<1>1. Typed /\ store # NotOpen /\ at = "variance"
  BY DEF WriteVariance, ObsInv, Places, Removing
<1>2. /\ store \in Stores /\ store.vars \in Nat \cup {NoFile}
      /\ DOMAIN store.new = 1..Len(store.new) /\ Len(store.new) \in Nat
      /\ \A i \in 1..Len(store.new) : store.new[i].row \in Nat
  BY <1>1, StoreFields DEF Toldrows
<1>3. /\ ids \in Seq(Nat) /\ Len(ids) = Len(store.new)
      /\ \A j \in 1..Len(store.new) : ids[j] = store.new[j].row
  BY <1>2, IsASeq, LenProperties
<1>4. varFile # NoFile => store.vars \in Nat
  BY <1>1, <1>2 DEF ObsInv, VariancesThere, FileMatches
<1>5. \/ ~store.noisy /\ varFile' = varFile /\ store' = store
      \/ /\ store.noisy /\ varFile = NoFile /\ varFile' = <<>> /\ at' = at
         /\ store' = [store EXCEPT !.vars = 0]
      \/ /\ store.noisy /\ varFile # NoFile /\ varFile' = Appending(varFile, store.vars, ids)
         /\ store' = [store EXCEPT !.vars = @ + Len(ids)]
  BY DEF WriteVariance
<1> HIDE DEF ids
<1>6. CASE ~store.noisy /\ varFile' = varFile /\ store' = store
  BY <1>1, <1>2, <1>6
<1>7. CASE /\ store.noisy /\ varFile = NoFile /\ varFile' = <<>> /\ at' = at
           /\ store' = [store EXCEPT !.vars = 0]
  <2>1. store' \in Stores
    BY <1>2, <1>7, StoreWith
  <2>2. /\ store'.n = store.n /\ store'.bounds = store.bounds /\ store'.new = store.new
        /\ store'.noisy = store.noisy /\ store'.vars = 0
    BY <1>2, <1>7 DEF Stores
  <2> QED
    BY <1>1, <1>7, <2>1, <2>2
<1>8. CASE /\ store.noisy /\ varFile # NoFile /\ varFile' = Appending(varFile, store.vars, ids)
           /\ store' = [store EXCEPT !.vars = @ + Len(ids)]
  <2>1. varFile \in Seq(Nat) /\ store.vars \in Nat /\ store.vars + Len(ids) \in Nat
    BY <1>1, <1>2, <1>3, <1>4, <1>8 DEF Typed
  <2>2. /\ varFile' \in Seq(Nat) /\ Len(varFile') = store.vars + Len(ids)
        /\ \A i \in 1..store.vars : i <= Len(varFile) => varFile'[i] = varFile[i]
        /\ \A j \in 1..Len(ids) : varFile'[store.vars + j] = ids[j]
    <3> DEFINE g == Appending(varFile, store.vars, ids)
    <3>1. /\ g \in Seq(Nat) /\ Len(g) = store.vars + Len(ids)
          /\ \A i \in 1..store.vars : i <= Len(varFile) => g[i] = varFile[i]
          /\ \A j \in 1..Len(ids) : g[store.vars + j] = ids[j]
      BY <1>3, <2>1, VariancesAppended
    <3>2. varFile' = g
      BY <1>8
    <3> HIDE DEF g
    <3> QED
      BY <3>1, <3>2
  <2>3. store' \in Stores
    BY <1>2, <1>8, <2>1, StoreWith
  <2>4. /\ store'.n = store.n /\ store'.bounds = store.bounds /\ store'.new = store.new
        /\ store'.noisy = store.noisy /\ store'.vars = store.vars + Len(ids)
    BY <1>2, <1>8 DEF Stores
  <2> QED
    BY <1>1, <1>3, <1>8, <2>1, <2>2, <2>3, <2>4
<1> QED
  BY <1>5, <1>6, <1>7, <1>8

\* Every step keeps the files and the model of their types.
LEMMA TypedStep ==
  ASSUME ObsInv, [ObsNext]_obsVars
  PROVE  Typed'
<1>a. /\ rowFile \in Seq(StoredRows) /\ varFile \in Seq(Nat) \cup {NoFile}
      /\ counter \in Nat \cup {NoFile}
      /\ metadata \in [obs : Nat, bounds : Sides \cup {NoFile}] \cup {NoFile, Torn}
      /\ store \in Stores \cup {NotOpen} /\ told \in Nat /\ since \in Nat
      /\ kept \subseteq [row : Nat, y : Int, noisy : BOOLEAN, place : Nat \ {0}]
      /\ stray \in BOOLEAN /\ foreign \in BOOLEAN /\ deaths \in Nat /\ failures \in Nat
  BY DEF ObsInv, Typed
<1>b. Typed /\ Counted \in Nat
  BY CountedFacts DEF ObsInv
<1>c. store # NotOpen => store.n \in Nat /\ store.extras \in Sides \cup {NoFile}
      /\ store.bounds \in Sides
  BY <1>b, StoreFields
<1>d. IsWritten(metadata) => metadata \in [obs : Nat, bounds : Sides \cup {NoFile}]
  BY <1>a DEF IsWritten
<1>k. ASSUME Keep, store # NotOpen PROVE
        kept' \subseteq [row : Nat, y : Int, noisy : BOOLEAN, place : Nat \ {0}]
  <2>1. Len(store.new) <= store.n /\ Len(store.new) \in Nat /\ store.n \in Nat
        /\ DOMAIN store.new = 1..Len(store.new) /\ store.noisy \in BOOLEAN
        /\ \A i \in 1..Len(store.new) : store.new[i] \in Toldrows
    BY <1>b, <1>k, StoreFields DEF ObsInv, RowsThere, CallThere
  <2>2. \A i \in 1..Len(store.new) : store.new[i].row \in Nat /\ store.new[i].y \in Int
    BY <2>1 DEF Toldrows
  <2>3. \A i \in 1..Len(store.new) : store.n - Len(store.new) + i \in Nat \ {0}
    BY <2>1
  <2> QED
    BY <1>k, <1>a, <2>1, <2>2, <2>3 DEF Keep
<1>1. CASE CreateModel
  <2>1. PICK ys \in Seq(Int) : /\ rowFile' \in Seq(StoredRows) /\ store' \in Stores
                               /\ told' = told + Len(ys) /\ Len(ys) \in Nat
    BY <1>1, CreateEffect
  <2> QED
    BY <1>1, <1>a, <2>1 DEF Typed, CreateModel
<1>2. CASE ReopenModel
  <2>1. store' \in Stores
    BY <1>2, ReopenEffect
  <2>2. counter' \in Nat \cup {NoFile} /\ UNCHANGED <<rowFile, varFile, metadata, obsGhosts>>
    BY <1>2, <1>a DEF ReopenModel
  <2> QED
    BY <1>a, <2>1, <2>2 DEF Typed, obsGhosts
<1>3. CASE AddRows
  <2>1. PICK ys \in Seq(Int) : /\ rowFile' \in Seq(StoredRows) /\ store' \in Stores
                               /\ told' = told + Len(ys) /\ Len(ys) \in Nat
    BY <1>3, AddEffect
  <2> QED
    BY <1>3, <1>a, <2>1 DEF Typed, AddRows
<1>4. CASE WriteVariance
  <2>1. <<>> \in Seq(Nat)
    OBVIOUS
  <2>2. varFile' \in Seq(Nat) \cup {NoFile} /\ store' \in Stores
    BY <1>4, <1>a, <2>1, VarianceEffect
  <2> QED
    BY <1>a, <1>4, <2>2 DEF Typed, WriteVariance, obsGhosts
<1>5. CASE SetCount
  <2>1. store # NotOpen /\ store \in Stores
    BY <1>5, <1>a DEF SetCount, ObsInv, Places, Removing
  <2>2. kept' \subseteq [row : Nat, y : Int, noisy : BOOLEAN, place : Nat \ {0}]
    BY <1>a, <1>k, <1>5, <2>1 DEF SetCount
  <2>3. store' \in Stores
    BY <1>5, <2>1, StoreWith DEF SetCount
  <2> QED
    BY <1>a, <1>c, <1>5, <2>1, <2>2, <2>3 DEF Typed, SetCount
<1>6. CASE PatchMetadata \/ WritePatched
  <2>1. store # NotOpen /\ store \in Stores
    BY <1>6, <1>a DEF PatchMetadata, WritePatched, ObsInv, Places, Removing
  <2>2. kept' \subseteq [row : Nat, y : Int, noisy : BOOLEAN, place : Nat \ {0}]
    BY <1>a, <1>k, <1>6, <2>1 DEF PatchMetadata, WritePatched, Finish
  <2>3. store' \in Stores
    BY <1>6, <2>1, StoreWith DEF PatchMetadata, WritePatched, Finish
  <2>4. metadata' \in [obs : Nat, bounds : Sides \cup {NoFile}] \cup {NoFile, Torn}
    BY <1>6, <1>a, <1>c, <2>1 DEF PatchMetadata, WritePatched
  <2> QED
    BY <1>a, <1>c, <1>6, <2>1, <2>2, <2>3, <2>4 DEF Typed, PatchMetadata, WritePatched
<1>7. CASE TruncateMetadata \/ WriteMetadata
  <2>1. store # NotOpen /\ store \in Stores
    BY <1>7, <1>a DEF TruncateMetadata, WriteMetadata, ObsInv, Places, Removing
  <2>2. Preserved \in Sides \cup {NoFile}
    BY <1>d DEF Preserved
  <2>3. store' \in Stores \cup {NotOpen}
    BY <1>7, <2>1, <2>2, StoreWith DEF TruncateMetadata, WriteMetadata
  <2>4. metadata' \in [obs : Nat, bounds : Sides \cup {NoFile}] \cup {NoFile, Torn}
    BY <1>7, <1>a, <1>c, <2>1 DEF TruncateMetadata, WriteMetadata
  <2> QED
    BY <1>a, <1>7, <2>3, <2>4 DEF Typed, TruncateMetadata, WriteMetadata, obsGhosts
<1>8. CASE MetadataFails
  <2>1. store # NotOpen /\ store \in Stores
    BY <1>8, <1>a DEF MetadataFails, ObsInv, Places, Removing
  <2>2. store' \in Stores \cup {NotOpen}
    BY <1>8, <2>1, StoreWith DEF MetadataFails
  <2> QED
    BY <1>a, <1>8, <2>2 DEF Typed, MetadataFails, obsFiles, StrayVariance
<1>9. CASE MemoryModel
  <2>1. PICK asked \in YBounds \cup {NoFile} : MemoryModel!(asked)
    BY <1>9 DEF MemoryModel
  <2>2. PICK b \in Resolved(asked, NoFile) :
          /\ metadata' = [metadata EXCEPT !.bounds = b]
          /\ foreign' = (foreign \/ b # metadata.bounds)
    BY <2>1
  <2>3. b \in Sides
    BY ResolvedBounds
  <2>4. metadata' \in [obs : Nat, bounds : Sides \cup {NoFile}]
    BY <1>d, <2>1, <2>2, <2>3
  <2> QED
    BY <1>a, <2>1, <2>2, <2>4 DEF Typed
<1>11. CASE RemoveRows
  <2>1. <<>> \in Seq(StoredRows)
    OBVIOUS
  <2> QED
    BY <1>a, <1>11, <2>1 DEF Typed, RemoveRows
<1>10. CASE PersistStore \/ CloseClean \/ RemoveVariance \/ RemoveCount \/ UNCHANGED obsVars
  BY <1>a, <1>10 DEF Typed, PersistStore, CloseClean, RemoveVariance, RemoveCount,
     obsVars, obsFiles, obsGhosts
<1>12. CASE RemoveMetadata
  BY <1>a, <1>12 DEF Typed, RemoveMetadata
<1>13. CASE ProcessDies
  BY <1>a, <1>13 DEF Typed, ProcessDies, obsFiles, StrayVariance
<1> QED
  BY <1>1, <1>2, <1>3, <1>4, <1>5, <1>6, <1>7, <1>8, <1>9, <1>10, <1>11, <1>12, <1>13 DEF ObsNext

\* The steps of a call after which the model is still open.
LEMMA StaysOpen ==
  ASSUME ObsInv
  PROVE  /\ CreateModel \/ ReopenModel \/ AddRows \/ WriteVariance => store' \in Stores
         /\ SetCount \/ TruncateMetadata \/ PatchMetadata \/ WritePatched =>
              /\ store \in Stores /\ store' \in Stores
              /\ store'.n = store.n /\ store'.vars = store.vars
              /\ store'.bounds = store.bounds
         /\ WriteMetadata \/ MetadataFails => store \in Stores
         /\ WriteMetadata /\ store' # NotOpen =>
              /\ store' \in Stores
              /\ store'.n = store.n /\ store'.vars = store.vars
              /\ store'.bounds = store.bounds /\ store'.new = store.new
              /\ store'.noisy = store.noisy
         /\ MetadataFails /\ store' # NotOpen =>
              /\ store' \in Stores
              /\ store'.n = store.n /\ store'.vars = store.vars
              /\ store'.bounds = store.bounds /\ store'.new = store.new
              /\ store'.noisy = store.noisy
         /\ TruncateMetadata => store'.new = store.new /\ store'.noisy = store.noisy
<1>a. Typed /\ (store # NotOpen => store \in Stores)
  BY DEF ObsInv, Typed
<1>1. CreateModel \/ ReopenModel \/ AddRows \/ WriteVariance => store' \in Stores
  BY CreateEffect, ReopenEffect, AddEffect, VarianceEffect
<1>2. SetCount \/ TruncateMetadata \/ PatchMetadata \/ WritePatched \/ WriteMetadata
        \/ MetadataFails => store \in Stores
  BY <1>a DEF SetCount, TruncateMetadata, PatchMetadata, WritePatched, WriteMetadata,
     MetadataFails, ObsInv, Places, Removing
<1>3. Preserved \in Sides \cup {NoFile}
  BY <1>a DEF Preserved, Typed, IsWritten
<1>4. ASSUME SetCount \/ PatchMetadata \/ WritePatched
      PROVE  /\ store' \in Stores /\ store'.n = store.n /\ store'.vars = store.vars
             /\ store'.bounds = store.bounds
  <2>1. \/ store' = store \/ store' = [store EXCEPT !.dirty = TRUE, !.new = <<>>]
        \/ store' = [store EXCEPT !.new = <<>>, !.extras = NoFile]
    BY <1>4 DEF SetCount, PatchMetadata, WritePatched, Finish
  <2>2. store' \in Stores
    BY <1>2, <1>4, <2>1, StoreWith
  <2> QED
    BY <1>2, <1>4, <2>1, <2>2 DEF Stores
<1>5. ASSUME TruncateMetadata
      PROVE  /\ store' \in Stores /\ store'.n = store.n /\ store'.vars = store.vars
             /\ store'.bounds = store.bounds /\ store'.new = store.new
             /\ store'.noisy = store.noisy
  <2>1. store' = [store EXCEPT !.extras = Preserved]
    BY <1>5 DEF TruncateMetadata
  <2>2. store' \in Stores
    BY <1>2, <1>3, <1>5, <2>1, StoreWith
  <2> QED
    BY <1>2, <1>5, <2>1, <2>2 DEF Stores
<1>6. ASSUME WriteMetadata \/ MetadataFails, store' # NotOpen
      PROVE  /\ store' \in Stores /\ store'.n = store.n /\ store'.vars = store.vars
             /\ store'.bounds = store.bounds /\ store'.new = store.new
             /\ store'.noisy = store.noisy
  <2>1. \/ store' = store \/ store' = [store EXCEPT !.dirty = FALSE, !.extras = NoFile]
        \/ store' = [store EXCEPT !.extras = NoFile]
    BY <1>6 DEF WriteMetadata, MetadataFails
  <2>2. store' \in Stores
    BY <1>2, <1>6, <2>1, StoreWith
  <2> QED
    BY <1>2, <1>6, <2>1, <2>2 DEF Stores
<1> QED
  BY <1>1, <1>2, <1>4, <1>5, <1>6

\* Every step keeps what is known of each place in a call.
LEMMA PlacesStep ==
  ASSUME ObsInv, [ObsNext]_obsVars
  PROVE  Places'
<1>a. Places /\ Typed
  BY DEF ObsInv
<1>b. \A s \in Stores : s # NotOpen
  BY WrittenFacts
<1>c. store \in Stores => store.n \in Nat
  BY DEF Stores
<1>d. NoFile # Torn /\ (metadata = Torn => ~IsWritten(metadata))
  BY WrittenFacts DEF IsWritten
<1> USE <1>a DEF Places, Writing, Patching, Removing, Constructors, At, Returned
<1>1. CASE CreateModel
  <2>1. store' \in Stores
    BY <1>1, StaysOpen
  <2>2. kept = {}
    <3>1. Counted = 0 /\ \A k \in kept :
            counter \in Nat /\ k.place <= counter /\ k.place \in Nat \ {0}
      BY <1>1 DEF CreateModel, ObsInv, RowsThere, KeptThere, Typed
    <3>2. counter \in Nat => counter <= Counted
      BY CountedFacts
    <3> QED
      BY <3>1, <3>2
  <2>3. store'.noisy => store'.new # <<>>
    BY <1>1, CreateEffect
  <2> QED
    BY <1>1, <1>b, <2>1, <2>2, <2>3 DEF CreateModel
<1>2. CASE ReopenModel
  <2>1. store' \in Stores /\ store'.new = <<>>
    BY <1>2, ReopenEffect
  <2> QED
    BY <1>2, <1>b, <2>1 DEF ReopenModel, obsGhosts
<1>3. CASE AddRows
  <2>1. store' \in Stores /\ store'.new # <<>>
    BY <1>3, AddEffect
  <2> QED
    BY <1>3, <1>b, <2>1 DEF AddRows
<1>4. CASE WriteVariance
  <2>1. store' \in Stores /\ store'.new = store.new
    BY <1>4, VarianceEffect
  <2> QED
    BY <1>4, <1>b, <2>1 DEF WriteVariance, obsGhosts
<1>5. CASE SetCount
  <2>1. store' \in Stores /\ store \in Stores
    BY <1>5, StaysOpen
  <2>2. call = "add" => store'.new = <<>>
    BY <1>5, <2>1 DEF SetCount, Stores
  <2> QED
    BY <1>5, <1>b, <2>1, <2>2 DEF SetCount
<1>6. CASE TruncateMetadata
  <2>1. store' \in Stores /\ store'.new = store.new
    BY <1>6, StaysOpen
  <2> QED
    BY <1>6, <1>b, <2>1 DEF TruncateMetadata, obsGhosts
<1>7. CASE WriteMetadata
  <2>1. store' # NotOpen => store'.new = store.new
    BY <1>7, StaysOpen
  <2>2. store \in Stores
    BY <1>7, StaysOpen
  <2>3. metadata' # NoFile /\ metadata' # Torn
    BY <1>7, <2>2, ObservationsAssumption DEF WriteMetadata, Stores, Sides
  <2>4. call # "close" => store' \in Stores
    <3>1. call # "close" =>
            \/ store' = store
            \/ store' = [store EXCEPT !.dirty = FALSE, !.extras = NoFile]
      BY <1>7 DEF WriteMetadata
    <3> QED
      BY <2>2, <3>1, StoreWith
  <2> QED
    BY <1>7, <1>b, <2>1, <2>2, <2>3, <2>4 DEF WriteMetadata, obsGhosts, IsWritten
<1>8. CASE PatchMetadata
  <2>1. store' \in Stores /\ store \in Stores
    BY <1>8, StaysOpen
  <2>2. at' = "idle" => store'.new = <<>>
    BY <1>8, <2>1 DEF PatchMetadata, Finish, Stores
  <2>3. at' = "patched" => store' = store /\ kept' = kept /\ call' = call /\ metadata' = Torn
    BY <1>8 DEF PatchMetadata, Finish
  <2>4. at' = "idle" => call' = "none"
    BY <1>8 DEF PatchMetadata, Finish
  <2>5. at' = "idle" \/ at' = "patched"
    BY <1>8 DEF PatchMetadata, Finish
  <2>6. at = "patch"
    BY <1>8 DEF PatchMetadata
  <2>7. CASE at' = "idle"
    BY <1>b, <2>1, <2>2, <2>4, <2>7
  <2>8. CASE at' = "patched"
    BY <1>8, <1>b, <2>1, <2>3, <2>6, <2>8 DEF PatchMetadata
  <2> QED
    BY <2>5, <2>7, <2>8
<1>9. CASE WritePatched
  <2>1. store' \in Stores /\ store \in Stores
    BY <1>9, StaysOpen
  <2>2. store'.new = <<>>
    BY <1>9, <2>1 DEF WritePatched, Finish, Stores
  <2> QED
    BY <1>9, <1>b, <2>1, <2>2 DEF WritePatched, Finish
<1>10. CASE MetadataFails
  <2>1. store' # NotOpen => store' \in Stores /\ store'.new = store.new
    BY <1>10, StaysOpen
  <2>2. store \in Stores
    BY <1>10, StaysOpen
  <2>3. UNCHANGED <<metadata, varFile, kept>>
    BY <1>10 DEF MetadataFails, obsFiles
  <2>4. CASE at' = "write" /\ call' = "close" /\ UNCHANGED store /\ at \in {"patch", "patched"}
    BY <1>b, <2>2, <2>3, <2>4
  <2>5. CASE at' = "idle" /\ call' = "none" /\ store' # NotOpen /\ call = "persist"
    BY <1>b, <2>1, <2>3, <2>5
  <2>6. CASE at' = "idle" /\ call' = "none" /\ store' = NotOpen
    BY <2>3, <2>6
  <2> QED
    BY <1>10, <2>4, <2>5, <2>6 DEF MetadataFails
<1>11. CASE PersistStore \/ CloseClean
  BY <1>11 DEF PersistStore, CloseClean, obsFiles, obsGhosts
<1>12. CASE MemoryModel
  <2>1. IsWritten(metadata) /\ at = "idle" /\ UNCHANGED <<at, call, store, kept, varFile>>
    BY <1>12 DEF MemoryModel
  <2> QED
    BY <2>1
<1>13. CASE RemoveRows \/ RemoveVariance \/ RemoveCount \/ RemoveMetadata
  BY <1>13 DEF RemoveRows, RemoveVariance, RemoveCount, RemoveMetadata, obsGhosts
<1>14. CASE ProcessDies \/ UNCHANGED obsVars
  BY <1>14 DEF ProcessDies, obsVars, obsFiles, obsGhosts
<1> QED
  BY <1>1, <1>2, <1>3, <1>4, <1>5, <1>6, <1>7, <1>8, <1>9, <1>10, <1>11, <1>12, <1>13, <1>14
  DEF ObsNext

\* What a step does to the count: metadata.json and num_obs.bin together give it.
LEMMA CountedStep ==
  ASSUME ObsInv, [ObsNext]_obsVars
  PROVE  /\ Counted' \in Nat
         /\ CreateModel \/ ReopenModel \/ AddRows \/ WriteVariance \/ MetadataFails
              \/ PersistStore \/ CloseClean \/ MemoryModel \/ RemoveRows \/ RemoveVariance
              \/ ProcessDies \/ UNCHANGED obsVars => Counted' = Counted
         /\ SetCount \/ WriteMetadata \/ WritePatched => Counted' = store.n
         /\ TruncateMetadata \/ PatchMetadata \/ RemoveCount \/ RemoveMetadata =>
              Counted' <= Counted
<1>a. Typed /\ Typed'
  BY TypedStep DEF ObsInv
<1>b. Counted \in Nat /\ Counted' \in Nat
  BY <1>a, CountedFacts, WrittenFacts DEF Typed, Counted, IsWritten
<1>c. /\ \A n \in Nat : n # NoFile /\ n # Torn
      /\ \A m \in [obs : Nat, bounds : Sides \cup {NoFile}] : m # NoFile /\ m # Torn
      /\ NoFile # Torn
  BY WrittenFacts
<1>d. /\ counter \in Nat \cup {NoFile}
      /\ metadata \in [obs : Nat, bounds : Sides \cup {NoFile}] \cup {NoFile, Torn}
  BY <1>a DEF Typed
<1>e. counter \in Nat => counter <= Counted
  BY <1>a, CountedFacts
<1>1. ASSUME counter' = (IF IsWritten(counter) THEN counter ELSE 0), metadata' = metadata
      PROVE  Counted' = Counted
  BY <1>1, <1>c, <1>d DEF Counted, IsWritten
<1>2. ASSUME counter' = counter, metadata' = metadata
      PROVE  Counted' = Counted
  BY <1>2 DEF Counted, IsWritten
<1>3. ASSUME counter' = counter, metadata' = Torn \/ metadata' = NoFile
      PROVE  Counted' <= Counted
  BY <1>3, <1>c, <1>d DEF Counted, IsWritten
<1>4. ASSUME CreateModel \/ ReopenModel PROVE Counted' = Counted
  <2>1. counter' = (IF IsWritten(counter) THEN counter ELSE 0) /\ metadata' = metadata
    BY <1>4 DEF CreateModel, ReopenModel
  <2> QED
    BY <1>1, <2>1
<1>5. ASSUME SetCount PROVE Counted' = store.n
  <2>1. counter' = store.n /\ metadata' = metadata
    BY <1>5 DEF SetCount
  <2>2. store.n \in Nat /\ Counted <= store.n
    BY <1>5, StaysOpen, WrittenFacts DEF ObsInv, RowsThere, CountedThere, Stores
  <2>3. IsWritten(metadata) => metadata.obs <= Counted /\ metadata.obs \in Nat
    BY <1>a, <1>d, CountedFacts DEF IsWritten
  <2> QED
    BY <1>b, <1>c, <1>d, <2>1, <2>2, <2>3 DEF Counted, IsWritten
<1>6. ASSUME WriteMetadata \/ WritePatched PROVE Counted' = store.n
  <2>1. counter' = counter /\ metadata'.obs = store.n
    BY <1>6 DEF WriteMetadata, WritePatched
  <2>2. store \in Stores /\ store.n \in Nat /\ Counted <= store.n
    BY <1>6, StaysOpen, WrittenFacts DEF ObsInv, RowsThere, CountedThere, Stores
  <2>3. IsWritten(metadata')
    <3>1. metadata' \in [obs : Nat, bounds : Sides \cup {NoFile}]
      BY <1>6, <2>2 DEF WriteMetadata, WritePatched, Stores
    <3> QED
      BY <3>1, WrittenFacts
  <2> QED
    BY <1>b, <1>c, <1>d, <1>e, <2>1, <2>2, <2>3 DEF Counted, IsWritten
<1>7. ASSUME TruncateMetadata \/ PatchMetadata PROVE Counted' <= Counted
  <2>1. counter' = counter /\ (metadata' = metadata \/ metadata' = Torn)
    BY <1>7 DEF TruncateMetadata, PatchMetadata
  <2> QED
    BY <1>b, <1>2, <1>3, <2>1
<1>8. ASSUME RemoveCount \/ RemoveMetadata PROVE Counted' <= Counted
  <2>1. \/ counter' = counter /\ metadata' = NoFile
        \/ counter' = NoFile /\ metadata' = metadata
    BY <1>8 DEF RemoveCount, RemoveMetadata
  <2>2. ASSUME counter' = NoFile, metadata' = metadata PROVE Counted' <= Counted
    BY <2>2, <1>c, <1>d DEF Counted, IsWritten
  <2> QED
    BY <1>3, <2>1, <2>2
<1>9. ASSUME MemoryModel PROVE Counted' = Counted
  <2>1. IsWritten(metadata) /\ metadata \in [obs : Nat, bounds : Sides \cup {NoFile}]
        /\ counter' = counter
    BY <1>9, <1>d DEF MemoryModel, IsWritten
  <2>2. PICK b \in Sides : metadata' = [metadata EXCEPT !.bounds = b]
    <3>1. NoFile \in Sides \cup {NoFile}
      OBVIOUS
    <3> QED
      BY <1>9, <3>1, ResolvedBounds DEF MemoryModel
  <2>3. metadata'.obs = metadata.obs /\ metadata' \in [obs : Nat, bounds : Sides \cup {NoFile}]
    BY <2>1, <2>2
  <2> QED
    BY <1>c, <2>1, <2>3 DEF Counted, IsWritten
<1>10. ASSUME AddRows \/ WriteVariance \/ MetadataFails \/ PersistStore \/ CloseClean
              \/ RemoveRows \/ RemoveVariance \/ ProcessDies \/ UNCHANGED obsVars
       PROVE  Counted' = Counted
  <2>1. counter' = counter /\ metadata' = metadata
    BY <1>10 DEF AddRows, WriteVariance, MetadataFails, PersistStore, CloseClean,
       RemoveRows, RemoveVariance, ProcessDies, obsVars, obsFiles
  <2> QED
    BY <1>2, <2>1
<1> QED
  BY <1>b, <1>4, <1>5, <1>6, <1>7, <1>8, <1>9, <1>10

\* Every step keeps the rows that are counted in the file, and the count behind the model's.
LEMMA CountedThereStep ==
  ASSUME ObsInv, [ObsNext]_obsVars
  PROVE  CountedThere'
<1>a. Typed /\ Places /\ CountedThere /\ told \in Nat /\ since \in Nat /\ Counted \in Nat
  BY CountedFacts DEF ObsInv, RowsThere, Typed
<1>b. Counted' \in Nat /\ (store \in Stores => store.n \in Nat) /\ \A s \in Stores : s # NotOpen
  BY CountedStep, WrittenFacts DEF Stores
<1>1. CASE CreateModel
  <2>1. PICK ys \in Seq(Int), noisy \in BOOLEAN, b \in Sides :
           /\ store' \in Stores /\ store'.n = Len(ys) /\ store'.new = NewRows(ys)
           /\ told' = told + Len(ys) /\ Len(ys) \in Nat /\ Len(rowFile') = Len(ys)
           /\ \A j \in 1..Len(ys) : rowFile'[j].row = told + j /\ rowFile'[j].z = Warped(ys[j], b)
           /\ Len(NewRows(ys)) = Len(ys)
    BY <1>1, CreateEffect
  <2>2. \A j \in 1..Len(ys) : rowFile'[j].row = told + j
    BY <2>1, Zenon
  <2>3. since' = since /\ Counted = 0 /\ Counted' = Counted /\ at' = "variance" /\ call' = "create"
    BY <1>1, CountedStep DEF CreateModel, At
  <2>4. since' <= told'
    BY <1>a, <2>1, <2>3 DEF CountedThere
  <2>5. RowsIn(store.n)'
    BY <1>a, <2>1, <2>2, <2>3 DEF RowsIn, CountedThere
  <2>6. Before' = 0
    BY <2>1 DEF Before
  <2> QED
    BY <1>b, <2>1, <2>3, <2>4, <2>5, <2>6 DEF CountedThere, Settled, Patching
<1>2. CASE ReopenModel
  <2>1. store' \in Stores /\ store'.n = Counted /\ Counted' = Counted
    BY <1>2, ReopenEffect, CountedStep
  <2>2. UNCHANGED <<rowFile, told, since>> /\ at' = "write" /\ call' = "reopen"
        /\ HasRoom(rowFile, Counted) /\ store = NotOpen
    BY <1>2 DEF ReopenModel, obsGhosts, At
  <2>3. Cut => Counted = 0
    BY <2>2 DEF Cut, HasRoom
  <2>4. RowsIn(Counted)
    BY <1>a, <2>2, <2>3 DEF CountedThere, RowsIn
  <2> QED
    BY <1>a, <1>b, <2>1, <2>2, <2>4 DEF CountedThere, RowsIn, Settled, Patching
<1>3. CASE AddRows
  <2>1. PICK ys \in Seq(Int), noisy \in BOOLEAN :
           /\ store' \in Stores /\ store'.n = store.n + Len(ys) /\ store'.new = NewRows(ys)
           /\ told' = told + Len(ys) /\ Len(ys) \in Nat /\ Len(rowFile') = store.n + Len(ys)
           /\ \A i \in 1..store.n : rowFile'[i] = rowFile[i]
           /\ \A j \in 1..Len(ys) :
                /\ rowFile'[store.n + j].row = told + j
                /\ rowFile'[store.n + j].z = Warped(ys[j], store.bounds)
           /\ Len(NewRows(ys)) = Len(ys)
    BY <1>3, AddEffect
  <2>2. \A j \in 1..Len(ys) : rowFile'[store.n + j].row = told + j
    BY <2>1
  <2>3. since' = since /\ Counted' = Counted /\ at' = "variance" /\ call' = "add"
        /\ store # NotOpen
    BY <1>3, CountedStep DEF AddRows, At
  <2>4. store.n \in Nat /\ RowsIn(store.n) /\ Counted <= store.n /\ since <= told
    BY <1>a, <2>3, StoreFields DEF CountedThere
  <2>5. RowsIn(store.n)'
    <3> SUFFICES ASSUME NEW i \in 1..store'.n
                 PROVE  i <= Len(rowFile') /\ rowFile'[i].row \in since' + 1..told'
      BY DEF RowsIn
    <3>a. i <= Len(rowFile') /\ told' = told + Len(ys) /\ i \in Nat
      BY <2>1, <2>4
    <3>b. told \in Nat /\ since \in Nat /\ since' = since /\ since <= told /\ Len(ys) \in Nat
          /\ store.n \in Nat
      BY <1>a, <2>1, <2>3, <2>4
    <3>1. CASE i \in 1..store.n
      <4>1. rowFile'[i] = rowFile[i] /\ rowFile[i].row \in since + 1..told
        BY <2>1, <2>4, <3>1 DEF RowsIn
      <4>2. rowFile'[i].row \in since + 1..told
        BY <4>1
      <4>3. since + 1..told \subseteq since' + 1..told'
        BY <1>a, <2>1, <2>3, <3>a
      <4> QED
        BY <3>a, <4>2, <4>3
    <3>2. CASE i - store.n \in 1..Len(ys)
      <4>1. rowFile'[store.n + (i - store.n)].row = told + (i - store.n)
        BY <2>2, <3>2
      <4>2. store.n + (i - store.n) = i
        BY <2>4, <3>a
      <4>3. rowFile'[i].row = told + (i - store.n)
        BY <4>1, <4>2
      <4>4. told + (i - store.n) \in since' + 1..told'
        BY <3>a, <3>b, <3>2
      <4> QED
        BY <3>a, <4>3, <4>4
    <3> QED
      BY <2>1, <2>4, <3>1, <3>2
  <2>6. Before' = store.n
    BY <2>1, <2>4 DEF Before
  <2> QED
    BY <1>a, <1>b, <2>1, <2>3, <2>4, <2>5, <2>6 DEF CountedThere, Settled, Patching
<1>4. CASE WriteVariance
  <2>1. store # NotOpen /\ store' \in Stores /\ store'.n = store.n /\ store'.new = store.new
    BY <1>4, VarianceEffect
  <2>2. UNCHANGED <<rowFile, told, since, call>> /\ Counted' = Counted
        /\ at = "variance" /\ at' \in {"variance", "count", "write"}
    BY <1>4, CountedStep DEF WriteVariance, obsGhosts, At
  <2>3. call \in {"create", "add"}
    BY <1>a, <2>2 DEF Places
  <2> QED
    BY <1>a, <1>b, <2>1, <2>2, <2>3 DEF CountedThere, RowsIn, Settled, Patching, Before
<1>5. CASE SetCount \/ PatchMetadata \/ WritePatched \/ TruncateMetadata
  <2>1. store \in Stores /\ store' \in Stores /\ store'.n = store.n
    BY <1>5, StaysOpen
  <2>2. Counted' = store.n \/ Counted' <= Counted
    BY <1>5, CountedStep
  <2>3. UNCHANGED <<rowFile, told, since>>
    BY <1>5 DEF SetCount, PatchMetadata, WritePatched, TruncateMetadata, obsGhosts
  <2>4. at' # "variance"
    BY <1>5 DEF SetCount, PatchMetadata, WritePatched, TruncateMetadata, At, Finish, Returned
  <2>5. Settled' => counter' = store.n
    <3>1. CASE SetCount
      BY <3>1 DEF SetCount
    <3>2. CASE TruncateMetadata
      BY <1>a, <1>b, <2>1, <3>2 DEF TruncateMetadata, CountedThere, Settled, At, Patching
    <3>3. CASE PatchMetadata \/ WritePatched
      <4>1. at \in Patching /\ counter' = counter
        BY <3>3 DEF PatchMetadata, WritePatched, Patching
      <4> QED
        BY <1>a, <1>b, <2>1, <4>1 DEF CountedThere, Settled
    <3> QED
      BY <1>5, <3>1, <3>2, <3>3
  <2> QED
    BY <1>a, <1>b, <2>1, <2>2, <2>3, <2>4, <2>5 DEF CountedThere, RowsIn
<1>6. CASE WriteMetadata \/ MetadataFails
  <2>1. /\ store \in Stores
        /\ store' # NotOpen => store' \in Stores /\ store'.n = store.n
    BY <1>6, StaysOpen
  <2>2. Counted' = store.n \/ Counted' = Counted
    BY <1>6, CountedStep
  <2>3. UNCHANGED <<rowFile, told, since, counter>> /\ at' # "variance"
    BY <1>6 DEF WriteMetadata, MetadataFails, obsGhosts, obsFiles, At, Returned
  <2>4. store' # NotOpen /\ Settled' => Settled
    BY <1>6, <1>a DEF WriteMetadata, MetadataFails, Settled, Patching, At, Returned, Places,
       Writing, Constructors
  <2> QED
    BY <1>a, <1>b, <2>1, <2>2, <2>3, <2>4 DEF CountedThere, RowsIn
<1>7. CASE PersistStore \/ MemoryModel \/ UNCHANGED obsVars
  <2>1. UNCHANGED <<rowFile, told, since, counter, store, kept>> /\ Counted' = Counted
    BY <1>7, CountedStep DEF PersistStore, MemoryModel, obsVars, obsFiles, obsGhosts
  <2>2. at' = "variance" => at = "variance"
    BY <1>7 DEF PersistStore, MemoryModel, obsVars, At
  <2>3. Settled' => Settled
    BY <1>7 DEF PersistStore, MemoryModel, obsVars, At, Settled, Patching
  <2> QED
    BY <1>a, <2>1, <2>2, <2>3 DEF CountedThere, RowsIn, Cut, Before
<1>8. CASE CloseClean \/ ProcessDies
  <2>1. UNCHANGED <<rowFile, told, since, kept>> /\ Counted' = Counted /\ store' = NotOpen
    BY <1>8, CountedStep DEF CloseClean, ProcessDies, obsFiles, obsGhosts
  <2>2. store # NotOpen => store.n \in Nat
    BY <1>a, <1>b DEF Typed
  <2> QED
    BY <1>a, <2>1, <2>2 DEF CountedThere, RowsIn, Cut
<1>9. CASE RemoveRows
  <2>1. Cut' /\ since' = told /\ told' = told /\ store' = NotOpen
    BY <1>9 DEF RemoveRows, Cut
  <2> QED
    BY <1>a, <2>1 DEF CountedThere
<1>10. CASE RemoveVariance \/ RemoveCount \/ RemoveMetadata
  <2>1. UNCHANGED <<rowFile, told, since, kept, store>> /\ store = NotOpen
    BY <1>10, <1>a DEF RemoveVariance, RemoveCount, RemoveMetadata, obsGhosts, Places, Removing
  <2>2. Counted' <= Counted
    BY <1>10, <1>a, CountedStep
  <2> QED
    BY <1>a, <1>b, <2>1, <2>2 DEF CountedThere, RowsIn, Cut
<1> QED
  BY <1>1, <1>2, <1>3, <1>4, <1>5, <1>6, <1>7, <1>8, <1>9, <1>10 DEF ObsNext

\* Every step keeps the rows of the call at the end of the model's.
LEMMA CallThereStep ==
  ASSUME ObsInv, [ObsNext]_obsVars
  PROVE  CallThere'
<1>a. Typed /\ Places /\ CallThere
  BY DEF ObsInv, RowsThere
<1>b. \A s \in Stores : s # NotOpen /\ s.n \in Nat
  BY WrittenFacts DEF Stores
<1>1. CASE CreateModel
  <2>1. PICK ys \in Seq(Int), noisy \in BOOLEAN, b \in Sides :
           /\ store'.n = Len(ys) /\ store'.bounds = b
           /\ store'.new = NewRows(ys) /\ Len(ys) \in Nat
           /\ \A j \in 1..Len(ys) : rowFile'[j].row = told + j /\ rowFile'[j].z = Warped(ys[j], b)
           /\ Len(NewRows(ys)) = Len(ys)
           /\ \A j \in 1..Len(ys) : NewRows(ys)[j].row = told + j /\ NewRows(ys)[j].y = ys[j]
    BY <1>1, CreateEffect
  <2>2. Before' = 0
    BY <2>1 DEF Before
  <2>3. \A j \in 1..Len(ys) : store'.new[j].row = told + j /\ store'.new[j].y = ys[j]
    BY <2>1
  <2> QED
    BY <2>1, <2>2, <2>3 DEF CallThere
<1>2. CASE ReopenModel
  <2>1. store' \in Stores /\ store'.new = <<>>
    BY <1>2, ReopenEffect
  <2> QED
    BY <1>b, <2>1 DEF CallThere
<1>3. CASE AddRows
  <2>1. PICK ys \in Seq(Int), noisy \in BOOLEAN :
           /\ store'.n = store.n + Len(ys) /\ store'.bounds = store.bounds
           /\ store'.new = NewRows(ys) /\ Len(ys) \in Nat
           /\ \A j \in 1..Len(ys) :
                /\ rowFile'[store.n + j].row = told + j
                /\ rowFile'[store.n + j].z = Warped(ys[j], store.bounds)
           /\ Len(NewRows(ys)) = Len(ys)
           /\ \A j \in 1..Len(ys) : NewRows(ys)[j].row = told + j /\ NewRows(ys)[j].y = ys[j]
    BY <1>3, AddEffect
  <2>2. store.n \in Nat
    BY <1>3, <1>a, StoreFields DEF AddRows
  <2>3. Before' = store.n
    BY <2>1, <2>2 DEF Before
  <2>4. \A j \in 1..Len(ys) : store'.new[j].row = told + j /\ store'.new[j].y = ys[j]
    BY <2>1
  <2> QED
    BY <2>1, <2>2, <2>3, <2>4 DEF CallThere
<1>4. CASE WriteVariance
  <2>1. /\ store # NotOpen /\ store'.n = store.n /\ store'.bounds = store.bounds
        /\ store'.new = store.new /\ rowFile' = rowFile
    BY <1>4, VarianceEffect DEF WriteVariance
  <2> QED
    BY <1>a, <2>1 DEF CallThere, Before
<1>5. CASE TruncateMetadata
  <2>1. /\ store \in Stores /\ store'.n = store.n /\ store'.bounds = store.bounds
        /\ store'.new = store.new /\ rowFile' = rowFile
    BY <1>5, StaysOpen DEF TruncateMetadata
  <2> QED
    BY <1>a, <1>b, <2>1 DEF CallThere, Before
<1>6. CASE WriteMetadata \/ MetadataFails
  <2>1. /\ store \in Stores /\ rowFile' = rowFile
        /\ store' # NotOpen => /\ store'.n = store.n /\ store'.bounds = store.bounds
                               /\ store'.new = store.new
    BY <1>6, StaysOpen DEF WriteMetadata, MetadataFails, obsFiles
  <2> QED
    BY <1>a, <1>b, <2>1 DEF CallThere, Before
<1>7. CASE SetCount \/ PatchMetadata \/ WritePatched
  <2>1. store' \in Stores /\ store \in Stores
    BY <1>7, StaysOpen
  <2>2. rowFile' = rowFile /\ (store' = store \/ store'.new = <<>>)
    BY <1>7, <2>1 DEF SetCount, PatchMetadata, WritePatched, Finish, Stores
  <2> QED
    BY <1>a, <1>b, <2>1, <2>2 DEF CallThere, Before
<1>8. CASE PersistStore \/ MemoryModel \/ UNCHANGED obsVars
  <2>1. UNCHANGED <<rowFile, store>>
    BY <1>8 DEF PersistStore, MemoryModel, obsVars, obsFiles
  <2> QED
    BY <1>a, <2>1 DEF CallThere, Before
<1>9. CASE CloseClean \/ ProcessDies \/ RemoveRows \/ RemoveVariance \/ RemoveCount
            \/ RemoveMetadata
  <2>1. store' = NotOpen
    BY <1>9, <1>a DEF CloseClean, ProcessDies, RemoveRows, RemoveVariance, RemoveCount,
       RemoveMetadata, Places, Removing
  <2> QED
    BY <2>1 DEF CallThere
<1> QED
  BY <1>1, <1>2, <1>3, <1>4, <1>5, <1>6, <1>7, <1>8, <1>9 DEF ObsNext

\* The rows that count now with those that did before: they are in the file as told.
LEMMA KeptByCall ==
  ASSUME ObsInv, Keep, store # NotOpen, NEW k \in kept' \ kept
  PROVE  /\ k.place \in 1..store.n /\ k.place <= Len(rowFile) /\ rowFile[k.place].row = k.row
         /\ rowFile[k.place].z.y = k.y /\ rowFile[k.place].z.under = store.bounds
         /\ k.noisy = store.noisy /\ store.new # <<>>
<1>1. /\ Len(store.new) \in Nat /\ DOMAIN store.new = 1..Len(store.new) /\ store.n \in Nat
      /\ store.new \in Seq(Toldrows) /\ Len(store.new) <= store.n
  BY StoreFields DEF ObsInv, RowsThere, CallThere
<1>2. PICK i \in 1..Len(store.new) :
        k = [row |-> store.new[i].row, y |-> store.new[i].y, noisy |-> store.noisy,
             place |-> store.n - Len(store.new) + i]
  BY <1>1 DEF Keep
<1>3. /\ k.row = store.new[i].row /\ k.y = store.new[i].y /\ k.noisy = store.noisy
      /\ k.place = Before + i
  BY <1>2 DEF Before
<1>4. Before + i \in 1..store.n
  BY <1>1 DEF Before
<1>5. /\ rowFile[Before + i].row = store.new[i].row
      /\ rowFile[Before + i].z = Warped(store.new[i].y, store.bounds)
  BY DEF ObsInv, RowsThere, CallThere
<1>6. rowFile[Before + i].z.y = store.new[i].y /\ rowFile[Before + i].z.under = store.bounds
  BY <1>5 DEF Warped
<1>7. Before + i <= Len(rowFile)
  BY <1>4 DEF ObsInv, RowsThere, CountedThere, RowsIn
<1>8. store.new # <<>>
  BY <1>1, EmptySeq
<1> QED
  BY <1>3, <1>4, <1>5, <1>6, <1>7, <1>8

\* A row that counts is one of those the count gives.
LEMMA KeptCounts ==
  ASSUME ObsInv, NEW k \in kept
  PROVE  /\ k.place \in 1..Counted /\ k.place \in 1..counter /\ counter \in Nat
         /\ k.place <= Len(rowFile)
         /\ rowFile[k.place].row = k.row /\ rowFile[k.place].z.y = k.y
         /\ store # NotOpen => k.place \in 1..store.n
<1>1. k.place \in Nat \ {0}
  BY DEF ObsInv, Typed
<1>2. /\ counter \in Nat /\ k.place <= counter /\ k.place <= Len(rowFile)
      /\ rowFile[k.place].row = k.row /\ rowFile[k.place].z.y = k.y
  BY DEF ObsInv, RowsThere, KeptThere
<1>3. counter <= Counted /\ Counted \in Nat
  BY <1>2, CountedFacts DEF ObsInv
<1>4. store # NotOpen => Counted <= store.n /\ store.n \in Nat
  BY StoreFields DEF ObsInv, RowsThere, CountedThere
<1> QED
  BY <1>1, <1>2, <1>3, <1>4

\* Every step keeps the rows whose call returned at their places, and counted.
LEMMA KeptThereStep ==
  ASSUME ObsInv, [ObsNext]_obsVars
  PROVE  KeptThere'
<1>a. Typed /\ Places /\ KeptThere /\ \A s \in Stores : s # NotOpen /\ s.n \in Nat
  BY WrittenFacts DEF ObsInv, RowsThere, Stores
<1>b. \A n \in Nat : n # NoFile /\ n # Torn /\ IsWritten(n)
  BY WrittenFacts
<1>c. \A m \in [obs : Nat, bounds : Sides \cup {NoFile}] : m # NoFile
  BY WrittenFacts
<1>d. Torn # NoFile
  BY WrittenFacts
<1>1. CASE CreateModel
  <2>1. kept' = {} /\ call' = "create"
    <3>1. kept' = kept /\ Counted = 0 /\ call' = "create"
      BY <1>1 DEF CreateModel
    <3> QED
      BY <3>1, KeptCounts
  <2> QED
    BY <2>1 DEF KeptThere
<1>2. CASE ReopenModel
  <2>1. /\ IsWritten(metadata) /\ UNCHANGED <<kept, metadata, rowFile>>
        /\ counter' = IF IsWritten(counter) THEN counter ELSE 0
    BY <1>2 DEF ReopenModel, obsGhosts
  <2>2. \A k \in kept : counter' = counter
    BY <1>a, <1>b, <2>1 DEF KeptThere
  <2>3. metadata' # NoFile
    BY <2>1 DEF IsWritten
  <2> QED
    BY <1>a, <2>1, <2>2, <2>3 DEF KeptThere
<1>3. CASE AddRows
  <2>1. PICK ys \in Seq(Int) :
           /\ Len(ys) \in Nat /\ Len(rowFile') = store.n + Len(ys)
           /\ \A i \in 1..store.n : rowFile'[i] = rowFile[i]
    BY <1>3, AddEffect
  <2>2. store # NotOpen /\ UNCHANGED <<kept, metadata, counter>> /\ at = "idle"
    BY <1>3 DEF AddRows
  <2>3. ASSUME NEW k \in kept
        PROVE  /\ counter \in Nat /\ k.place <= counter /\ k.place <= Len(rowFile')
               /\ rowFile'[k.place].row = k.row /\ rowFile'[k.place].z.y = k.y
    <3>1. /\ k.place \in 1..store.n /\ k.place \in 1..counter /\ counter \in Nat
          /\ rowFile[k.place].row = k.row /\ rowFile[k.place].z.y = k.y
      BY <2>2, KeptCounts
    <3>2. store.n \in Nat
      BY <1>a, <2>2, StoreFields
    <3>3. rowFile'[k.place] = rowFile[k.place]
      BY <2>1, <3>1
    <3>4. k.place <= counter /\ k.place <= Len(rowFile')
      BY <2>1, <3>1, <3>2
    <3> QED
      BY <3>1, <3>3, <3>4
  <2>4. metadata # NoFile
    BY <1>a, <2>2 DEF KeptThere, Places
  <2> QED
    BY <2>2, <2>3, <2>4 DEF KeptThere
<1>4. CASE SetCount \/ PatchMetadata \/ WritePatched
  <2>1. store \in Stores /\ store # NotOpen /\ store.n \in Nat
    BY <1>a, <1>4, StaysOpen
  <2>2. rowFile' = rowFile
    BY <1>4 DEF SetCount, PatchMetadata, WritePatched
  <2>3. counter' \in Nat /\ counter' = store.n
    <3>1. CASE SetCount
      BY <2>1, <3>1 DEF SetCount
    <3>2. CASE PatchMetadata \/ WritePatched
      BY <2>1, <3>2 DEF PatchMetadata, WritePatched, ObsInv, RowsThere, CountedThere, Settled,
         Patching
    <3> QED
      BY <1>4, <3>1, <3>2
  <2>4. kept' = kept \/ Keep
    BY <1>4 DEF SetCount, PatchMetadata, WritePatched, Finish
  <2>5. ASSUME NEW k \in kept'
        PROVE  /\ k.place <= store.n /\ k.place <= Len(rowFile)
               /\ rowFile[k.place].row = k.row /\ rowFile[k.place].z.y = k.y
    <3>1. CASE k \in kept
      BY <2>1, <3>1, KeptCounts
    <3>2. CASE k \notin kept
      BY <2>1, <2>4, <3>2, KeptByCall
    <3> QED
      BY <3>1, <3>2
  <2>6. metadata' # NoFile
    <3>1. CASE SetCount
      <4>1. call = "add" \/ call \in Constructors
        BY <1>a, <3>1 DEF SetCount, Places, Constructors
      <4>2. call # "add" => IsWritten(metadata)
        BY <1>a, <3>1, <4>1 DEF SetCount, Places, Constructors
      <4>3. call = "add" => metadata # NoFile
        BY <1>a, <2>1 DEF KeptThere
      <4> QED
        BY <3>1, <4>1, <4>2, <4>3 DEF SetCount, IsWritten
    <3>2. CASE PatchMetadata
      <4>1. IsWritten(metadata)
        BY <1>a, <3>2 DEF PatchMetadata, Places, Constructors, Patching
      <4> QED
        BY <1>d, <3>2, <4>1 DEF PatchMetadata, IsWritten
    <3>3. CASE WritePatched
      BY <1>c, <2>1, <3>3 DEF WritePatched, Stores
    <3> QED
      BY <1>4, <3>1, <3>2, <3>3
  <2> QED
    BY <2>2, <2>3, <2>5, <2>6 DEF KeptThere
<1>5. CASE TruncateMetadata
  BY <1>5, <1>a, <1>d DEF TruncateMetadata, KeptThere, obsGhosts
<1>6. CASE WriteMetadata
  <2>1. store \in Stores
    BY <1>6, StaysOpen
  <2>2. metadata' # NoFile
    BY <1>c, <1>6, <2>1 DEF WriteMetadata, Stores
  <2> QED
    BY <1>6, <1>a, <2>2 DEF WriteMetadata, KeptThere, obsGhosts
<1>7. CASE MetadataFails
  <2>1. at \in {"patch", "patched"} => metadata # NoFile
    BY <1>a, <1>d DEF Places, Patching, Constructors, IsWritten
  <2>2. at \in {"write", "written"} /\ store' # NotOpen => call = "persist"
    BY <1>7 DEF MetadataFails
  <2>3. UNCHANGED <<rowFile, counter, metadata, kept>>
    BY <1>7 DEF MetadataFails, obsFiles
  <2>4. store # NotOpen
    BY <1>a, <1>7, StaysOpen
  <2>5. store' # NotOpen => metadata # NoFile
    BY <1>7, <1>a, <2>1, <2>2, <2>4 DEF MetadataFails, KeptThere
  <2> QED
    BY <1>a, <2>3, <2>5 DEF KeptThere
<1>8. CASE MemoryModel
  <2>1. IsWritten(metadata) /\ metadata \in [obs : Nat, bounds : Sides \cup {NoFile}]
        /\ UNCHANGED <<counter, rowFile, kept, store, call>>
    BY <1>8, <1>a DEF MemoryModel, IsWritten, Typed
  <2>2. PICK b \in Sides : metadata' = [metadata EXCEPT !.bounds = b]
    <3>1. NoFile \in Sides \cup {NoFile}
      OBVIOUS
    <3> QED
      BY <1>8, <3>1, ResolvedBounds DEF MemoryModel
  <2>3. metadata' # NoFile
    BY <1>c, <2>1, <2>2
  <2> QED
    BY <1>a, <2>1, <2>3 DEF KeptThere
<1>9. CASE PersistStore \/ UNCHANGED obsVars
  <2>1. at = "idle" => call = "none"
    BY <1>a DEF Places
  <2> QED
    BY <1>a, <1>9, <2>1 DEF KeptThere, PersistStore, obsVars, obsFiles, obsGhosts
<1>10. CASE WriteVariance
  <2>1. store # NotOpen
    BY <1>10, VarianceEffect
  <2> QED
    BY <1>a, <1>10, <2>1 DEF KeptThere, WriteVariance, obsGhosts
<1>11. CASE CloseClean \/ ProcessDies
  BY <1>a, <1>11 DEF KeptThere, CloseClean, ProcessDies, obsFiles, obsGhosts
<1>12. CASE RemoveRows \/ RemoveVariance \/ RemoveCount \/ RemoveMetadata
  <2>1. kept' = {} /\ store' = NotOpen
    BY <1>a, <1>12 DEF RemoveRows, RemoveVariance, RemoveCount, RemoveMetadata, Places, Removing,
       obsGhosts
  <2> QED
    BY <2>1 DEF KeptThere
<1> QED
  BY <1>1, <1>2, <1>3, <1>4, <1>5, <1>6, <1>7, <1>8, <1>9, <1>10, <1>11, <1>12 DEF ObsNext

\* A model has variances where there is a file of them.
LEMMA FileMatchesStep ==
  ASSUME ObsInv, [ObsNext]_obsVars
  PROVE  FileMatches'
<1>a. Typed /\ FileMatches /\ Places
  BY DEF ObsInv, VariancesThere
<1>b. /\ \A n \in Nat : n # NoFile
      /\ \A s \in Seq(Nat) : s # NoFile
      /\ \A s \in Stores : s # NotOpen
  BY WrittenFacts
<1>1. CASE CreateModel
  <2>1. store'.vars = (IF varFile = NoFile THEN NoFile ELSE 0) /\ varFile' = varFile
    BY <1>1, CreateEffect DEF CreateModel
  <2> QED
    BY <1>b, <2>1 DEF FileMatches
<1>2. CASE ReopenModel
  <2>1. store'.vars = (IF varFile = NoFile THEN NoFile ELSE Counted) /\ varFile' = varFile
        /\ Counted \in Nat
    BY <1>a, <1>2, ReopenEffect, CountedFacts DEF ReopenModel
  <2> QED
    BY <1>b, <2>1 DEF FileMatches
<1>3. CASE AddRows
  <2>1. store'.vars = store.vars /\ varFile' = varFile /\ store # NotOpen
    BY <1>3, AddEffect DEF AddRows
  <2> QED
    BY <1>a, <2>1 DEF FileMatches
<1>4. CASE WriteVariance
  <2>1. <<>> # NoFile /\ 0 # NoFile
    <3>1. <<>> \in Seq(Nat)
      OBVIOUS
    <3> QED
      BY <1>b, <3>1
  <2>2. CASE varFile' = varFile /\ store' = store
    BY <1>a, <2>2 DEF FileMatches
  <2>3. CASE varFile' = <<>> /\ store'.vars = 0
    BY <2>1, <2>3, Zenon DEF FileMatches
  <2>4. CASE store'.vars = store.vars + Len(store.new) /\ varFile' \in Seq(Nat)
        /\ store.vars \in Nat
    <3>1. store # NotOpen
      BY <1>4, VarianceEffect
    <3>2. store.vars + Len(store.new) \in Nat
      BY <1>a, <2>4, <3>1, StoreFields
    <3> QED
      BY <1>b, <2>4, <3>2 DEF FileMatches
  <2> QED
    BY <1>4, <2>2, <2>3, <2>4, VarianceEffect
<1>5. CASE SetCount \/ PatchMetadata \/ WritePatched \/ TruncateMetadata
  <2>1. store # NotOpen /\ store'.vars = store.vars
    BY <1>5, <1>b, StaysOpen
  <2>2. varFile' = varFile
    BY <1>5 DEF SetCount, PatchMetadata, WritePatched, TruncateMetadata
  <2> QED
    BY <1>a, <2>1, <2>2 DEF FileMatches
<1>6. CASE WriteMetadata \/ MetadataFails
  <2>1. store # NotOpen /\ (store' # NotOpen => store'.vars = store.vars)
    BY <1>6, <1>b, StaysOpen
  <2>2. varFile' = varFile
    BY <1>6 DEF WriteMetadata, MetadataFails, obsFiles
  <2> QED
    BY <1>a, <2>1, <2>2 DEF FileMatches
<1>7. CASE PersistStore \/ MemoryModel \/ UNCHANGED obsVars
  BY <1>a, <1>7 DEF FileMatches, PersistStore, MemoryModel, obsVars, obsFiles
<1>8. CASE CloseClean \/ ProcessDies \/ RemoveRows \/ RemoveVariance \/ RemoveCount
            \/ RemoveMetadata
  <2>1. store' = NotOpen
    BY <1>8, <1>a DEF CloseClean, ProcessDies, RemoveRows, RemoveVariance, RemoveCount,
       RemoveMetadata, Places, Removing
  <2> QED
    BY <2>1 DEF FileMatches
<1> QED
  BY <1>1, <1>2, <1>3, <1>4, <1>5, <1>6, <1>7, <1>8 DEF ObsNext

\* Every step keeps the variances aligned with the rows, unless some were left stray.
LEMMA AlignedStep ==
  ASSUME ObsInv, [ObsNext]_obsVars, ~stray'
  PROVE  Aligned'
<1>a. Typed /\ Places /\ FileMatches /\ CountedThere /\ CallThere /\ (~stray => Aligned)
      /\ Counted \in Nat /\ Counted' \in Nat
  BY CountedFacts, CountedStep DEF ObsInv, RowsThere, VariancesThere
<1>b. /\ \A n \in Nat : n # NoFile
      /\ \A s \in Seq(Nat) : s # NoFile
      /\ \A s \in Stores : s # NotOpen /\ s.n \in Nat
  BY WrittenFacts DEF Stores
<1>c. store # NotOpen => store.n \in Nat /\ Counted <= store.n /\ Len(store.new) \in Nat
                         /\ Len(store.new) <= store.n
  BY <1>a, StoreFields DEF CountedThere, CallThere
<1>1. CASE CreateModel
  <2>1. PICK ys \in Seq(Int), noisy \in BOOLEAN, b \in Sides :
           /\ store' \in Stores /\ store'.n = Len(ys) /\ store'.new = NewRows(ys)
           /\ Len(ys) \in Nat /\ Len(NewRows(ys)) = Len(ys)
    BY <1>1, CreateEffect
  <2>2. UNCHANGED <<varFile, kept, stray>> /\ store = NotOpen /\ Counted = 0 /\ at' = "variance"
    BY <1>1 DEF CreateModel, At
  <2>3. varFile' = NoFile
    BY <1>a, <2>2 DEF Aligned
  <2>4. kept' = {}
    BY <2>2, KeptCounts
  <2>5. Before' = 0
    BY <2>1 DEF Before
  <2> QED
    BY <1>b, <2>1, <2>2, <2>3, <2>4, <2>5 DEF Aligned
<1>2. CASE ReopenModel
  <2>1. /\ store' \in Stores /\ store'.n = Counted /\ store'.new = <<>>
        /\ store'.vars = (IF varFile = NoFile THEN NoFile ELSE Counted)
    BY <1>2, ReopenEffect
  <2>2. UNCHANGED <<rowFile, varFile, kept, stray>> /\ store = NotOpen /\ at' = "write"
        /\ HasRoom(rowFile, Counted)
    BY <1>2 DEF ReopenModel, obsGhosts, At
  <2>3. varFile # NoFile => Counted > 0 /\ VarsIn(Counted)
    BY <1>a, <2>2 DEF Aligned, Cut, HasRoom
  <2> QED
    BY <1>a, <1>b, <2>1, <2>2, <2>3 DEF Aligned, VarsIn
<1>3. CASE AddRows
  <2>1. PICK ys \in Seq(Int), noisy \in BOOLEAN :
           /\ SameVariance(noisy)
           /\ store' \in Stores /\ store'.n = store.n + Len(ys)
           /\ store'.vars = store.vars /\ store'.new = NewRows(ys) /\ store'.noisy = noisy
           /\ Len(ys) \in Nat /\ Len(NewRows(ys)) = Len(ys)
           /\ \A i \in 1..store.n : rowFile'[i] = rowFile[i]
    BY <1>3, AddEffect
  <2>2. UNCHANGED <<varFile, kept, stray>> /\ store # NotOpen /\ at = "idle" /\ at' = "variance"
    BY <1>3 DEF AddRows, At
  <2>3. Before' = store.n
    BY <1>c, <2>1, <2>2 DEF Before
  <2>4. Aligned /\ store.n \in Nat /\ (store.vars = NoFile <=> varFile = NoFile)
    BY <1>a, <1>c, <2>2 DEF FileMatches
  <2>5. varFile # NoFile => store.n > 0 /\ store.vars = store.n /\ VarsIn(store.n)
    BY <2>2, <2>4 DEF Aligned
  <2>6. \A k \in kept : k.noisy <=> varFile # NoFile
    BY <2>4 DEF Aligned
  <2>7. store.n = 0 => varFile = NoFile
    BY <2>4, <2>5
  <2>8. store.n > 0 => (noisy <=> store.vars # NoFile /\ store.vars > 0)
    BY <2>1 DEF SameVariance
  <2>9. /\ ~noisy => varFile = NoFile
        /\ noisy /\ varFile = NoFile => store.n = 0
    BY <2>4, <2>5, <2>7, <2>8
  <2>10. varFile # NoFile => \A i \in 1..store.n :
          i <= Len(varFile') /\ varFile'[i] = rowFile'[i].row
    BY <2>1, <2>2, <2>5 DEF VarsIn
  <2>11. varFile # NoFile => VarsIn(Before)'
    BY <2>3, <2>10 DEF VarsIn
  <2> QED
    BY <1>b, <2>1, <2>2, <2>3, <2>5, <2>6, <2>9, <2>11 DEF Aligned
<1>4. CASE WriteVariance
  <2>1. /\ store # NotOpen /\ store' \in Stores
        /\ store'.n = store.n /\ store'.new = store.new /\ store'.noisy = store.noisy
        /\ \/ ~store.noisy /\ varFile' = varFile /\ store' = store
           \/ store.noisy /\ varFile = NoFile /\ varFile' = <<>> /\ store'.vars = 0 /\ at' = at
           \/ /\ store.noisy /\ varFile # NoFile /\ store.vars \in Nat
              /\ store'.vars = store.vars + Len(store.new)
              /\ varFile' \in Seq(Nat) /\ Len(varFile') = store.vars + Len(store.new)
              /\ \A i \in 1..store.vars : i <= Len(varFile) => varFile'[i] = varFile[i]
              /\ \A j \in 1..Len(store.new) : varFile'[store.vars + j] = store.new[j].row
    BY <1>4, VarianceEffect
  <2>2. UNCHANGED <<rowFile, kept, stray>> /\ at = "variance"
        /\ at' \in {"variance", "count", "write"}
    BY <1>4 DEF WriteVariance, obsGhosts, At
  <2>3. Aligned /\ Before' = Before
    BY <1>a, <2>1, <2>2 DEF Before
  <2>4. /\ ~store.noisy => varFile = NoFile
        /\ store.noisy /\ varFile = NoFile => Before = 0
        /\ store.noisy /\ varFile # NoFile => store.vars = Before /\ VarsIn(Before)
        /\ \A k \in kept : k.noisy <=> varFile # NoFile
    BY <2>2, <2>3 DEF Aligned
  <2>5. store.noisy => store.new # <<>>
    BY <1>a, <2>2 DEF Places
  <2>6. CASE ~store.noisy /\ varFile' = varFile /\ store' = store
    BY <1>b, <2>1, <2>2, <2>3, <2>4, <2>6 DEF Aligned
  <2>7. CASE store.noisy /\ varFile = NoFile /\ varFile' = <<>> /\ store'.vars = 0 /\ at' = at
    <3>1. kept = {}
      <4>1. Counted <= 0
        BY <1>a, <2>1, <2>2, <2>4, <2>7 DEF CountedThere
      <4> QED
        BY <1>a, <4>1, KeptCounts
    <3>2. VarsIn(Before)'
      BY <2>3, <2>4, <2>7 DEF VarsIn
    <3> QED
      BY <1>b, <2>1, <2>2, <2>3, <2>4, <2>7, <3>1, <3>2 DEF Aligned
  <2>8. CASE /\ store.noisy /\ varFile # NoFile /\ store.vars \in Nat
             /\ store'.vars = store.vars + Len(store.new)
             /\ varFile' \in Seq(Nat) /\ Len(varFile') = store.vars + Len(store.new)
             /\ \A i \in 1..store.vars : i <= Len(varFile) => varFile'[i] = varFile[i]
             /\ \A j \in 1..Len(store.new) : varFile'[store.vars + j] = store.new[j].row
    <3>1. store.vars = Before /\ VarsIn(Before) /\ Before + Len(store.new) = store.n
      BY <1>c, <2>1, <2>4, <2>8 DEF Before
    <3>2. store.n > 0
      <4>1. Len(store.new) # 0
        BY <1>a, <2>1, <2>5, <2>8, StoreFields, EmptySeq
      <4> QED
        BY <1>c, <2>1, <4>1
    <3>3. \A i \in 1..Before : i <= Len(varFile') /\ varFile'[i] = rowFile[i].row
      BY <1>c, <2>1, <2>8, <3>1 DEF VarsIn
    <3>4. \A j \in 1..Len(store.new) : Before + j <= Len(varFile')
                                       /\ varFile'[Before + j] = rowFile[Before + j].row
      BY <1>a, <1>c, <2>1, <2>8, <3>1 DEF CallThere
    <3>5. \A i \in 1..store.n : i <= Len(varFile') /\ varFile'[i] = rowFile[i].row
      <4> TAKE i \in 1..store.n
      <4>1. CASE i <= Before
        BY <1>c, <2>1, <3>1, <3>3, <4>1
      <4>2. CASE i > Before
        <5>1. i - Before \in 1..Len(store.new) /\ Before + (i - Before) = i
          BY <1>c, <2>1, <3>1, <2>8, <4>2
        <5> QED
          BY <3>4, <5>1
      <4> QED
        BY <1>c, <2>1, <2>8, <3>1, <4>1, <4>2
    <3>6. VarsIn(store.n)'
      BY <2>1, <2>2, <3>5 DEF VarsIn
    <3>7. varFile' # NoFile /\ store'.vars = store'.n /\ at' # "variance"
      <4>1. at' # "variance"
        BY <1>4, <2>8 DEF WriteVariance, At
      <4> QED
        BY <1>b, <2>1, <2>8, <3>1, <4>1
    <3> QED
      BY <1>b, <2>1, <2>2, <2>4, <2>8, <3>2, <3>6, <3>7 DEF Aligned
  <2> QED
    BY <2>1, <2>6, <2>7, <2>8
<1>5. CASE SetCount \/ PatchMetadata \/ WritePatched
  <2>1. /\ store # NotOpen /\ store' \in Stores /\ store \in Stores /\ store'.n = store.n
        /\ store'.vars = store.vars
    BY <1>5, <1>b, StaysOpen
  <2>2. /\ UNCHANGED <<rowFile, varFile, stray>> /\ at' # "variance" /\ at # "variance"
        /\ kept' = kept \/ Keep
    BY <1>5 DEF SetCount, PatchMetadata, WritePatched, Finish, At, Returned
  <2>3. store' = store \/ store'.new = <<>>
    BY <1>5, <2>1 DEF SetCount, PatchMetadata, WritePatched, Finish, Stores
  <2>4. Aligned
    BY <1>a, <2>2
  <2>5. \A k \in kept' : k.noisy <=> varFile # NoFile
    <3> TAKE k \in kept'
    <3>1. CASE k \in kept
      BY <2>4, <3>1 DEF Aligned
    <3>2. CASE k \notin kept
      <4>1. k.noisy = store.noisy /\ store.new # <<>>
        BY <2>1, <2>2, <3>2, KeptByCall
      <4> QED
        BY <2>1, <2>2, <2>4, <4>1 DEF Aligned
    <3> QED
      BY <3>1, <3>2
  <2>6. varFile # NoFile => store.n > 0 /\ store.vars = store.n /\ VarsIn(store.n)
    BY <2>1, <2>2, <2>4 DEF Aligned
  <2>7. varFile # NoFile => VarsIn(store.n)'
    BY <2>1, <2>2, <2>6 DEF VarsIn
  <2>8. store'.new # <<>> => (store'.noisy <=> varFile # NoFile)
    BY <2>1, <2>2, <2>3, <2>4 DEF Aligned
  <2> QED
    BY <1>b, <2>1, <2>2, <2>5, <2>6, <2>7, <2>8 DEF Aligned
<1>6. CASE TruncateMetadata \/ WriteMetadata \/ MetadataFails
  <2>1. /\ store \in Stores /\ store # NotOpen
        /\ store' # NotOpen =>
             /\ store' \in Stores /\ store'.n = store.n /\ store'.vars = store.vars
             /\ store'.new = store.new /\ store'.noisy = store.noisy
    BY <1>6, <1>b, StaysOpen
  <2>2. /\ UNCHANGED <<rowFile, varFile, kept>> /\ at' # "variance" /\ at # "variance"
        /\ stray' = stray \/ MetadataFails
    BY <1>6 DEF TruncateMetadata, WriteMetadata, MetadataFails, obsFiles, obsGhosts, At, Returned
  <2>8. MetadataFails => ~stray /\ ~StrayVariance
    BY Zenon DEF MetadataFails
  <2>9. ~stray
    BY <2>2, <2>8
  <2>3. Aligned
    BY <1>a, <2>9
  <2>4. /\ varFile # NoFile => store.n > 0 /\ store.vars = store.n /\ VarsIn(store.n)
        /\ store.new # <<>> => (store.noisy <=> varFile # NoFile)
        /\ \A k \in kept : k.noisy <=> varFile # NoFile
    BY <2>1, <2>2, <2>3 DEF Aligned
  <2>5. varFile # NoFile /\ store' = NotOpen => Counted' > 0 /\ Counted' <= store.n
    <3>1. CASE TruncateMetadata
      BY <1>b, <3>1, StaysOpen
    <3>2. CASE WriteMetadata
      BY <1>b, <2>1, <2>4, <3>2, CountedStep
    <3>3. CASE MetadataFails
      <4>1. ~StrayVariance /\ Counted' = Counted
        BY <2>8, <3>3, CountedStep
      <4> QED
        BY <1>a, <1>c, <2>1, <4>1 DEF StrayVariance
    <3> QED
      BY <1>6, <3>1, <3>2, <3>3
  <2>6. CASE store' # NotOpen
    <3>1. varFile # NoFile => VarsIn(store.n)'
      BY <2>1, <2>2, <2>4, <2>6 DEF VarsIn
    <3> QED
      BY <1>b, <2>1, <2>2, <2>4, <2>6, <3>1 DEF Aligned
  <2>7. CASE store' = NotOpen
    <3>1. varFile # NoFile => VarsIn(Counted)'
      BY <1>a, <1>b, <2>1, <2>2, <2>4, <2>5, <2>7 DEF VarsIn
    <3> QED
      BY <1>b, <2>1, <2>2, <2>4, <2>5, <2>7, <3>1 DEF Aligned
  <2> QED
    BY <2>6, <2>7
<1>7. CASE PersistStore \/ MemoryModel \/ UNCHANGED obsVars
  <2>1. UNCHANGED <<rowFile, varFile, kept, store, stray>> /\ Counted' = Counted
        /\ (at' = "variance" <=> at = "variance")
    BY <1>7, CountedStep DEF PersistStore, MemoryModel, obsVars, obsFiles, obsGhosts, At
  <2>2. Aligned
    BY <1>a, <2>1
  <2> QED
    BY <2>1, <2>2 DEF Aligned, VarsIn, Cut, Before
<1>8. CASE CloseClean
  <2>1. UNCHANGED <<rowFile, varFile, kept, stray, counter>> /\ Counted' = Counted
        /\ store' = NotOpen /\ at' = "idle" /\ at = "idle" /\ store # NotOpen
    BY <1>8, CountedStep DEF CloseClean, obsFiles, obsGhosts
  <2>2. Aligned
    BY <1>a, <2>1
  <2>3. varFile # NoFile => store.n > 0 /\ VarsIn(store.n)
    BY <2>1, <2>2 DEF Aligned
  <2>4. Counted = store.n
    <3>1. counter = store.n
      BY <1>a, <2>1 DEF CountedThere, Settled
    <3> QED
      BY <1>a, <1>c, <2>1, <3>1, CountedFacts
  <2>5. varFile # NoFile => VarsIn(Counted)'
    BY <2>1, <2>3, <2>4 DEF VarsIn
  <2>6. varFile # NoFile => Counted' > 0
    BY <2>1, <2>3, <2>4
  <2> QED
    BY <2>1, <2>2, <2>5, <2>6 DEF Aligned
<1>9. CASE ProcessDies
  <2>1. UNCHANGED <<rowFile, varFile, kept>> /\ Counted' = Counted
        /\ store' = NotOpen /\ at' = "idle"
    BY <1>9, CountedStep DEF ProcessDies, obsFiles, Returned
  <2>4. ~stray /\ ~StrayVariance
    BY <1>9, Zenon DEF ProcessDies
  <2>2. Aligned /\ (varFile # NoFile => Counted > 0)
    BY <1>a, <2>4 DEF StrayVariance
  <2>3. varFile # NoFile => Cut \/ VarsIn(Counted)
    <3>1. CASE store = NotOpen
      BY <2>2, <3>1 DEF Aligned
    <3>2. CASE store # NotOpen /\ at # "variance"
      BY <1>a, <1>c, <2>2, <3>2 DEF Aligned, VarsIn
    <3>3. CASE store # NotOpen /\ at = "variance"
      <4>1. Counted <= Before /\ Before \in Nat
        BY <1>a, <1>c, <3>3 DEF CountedThere, Before
      <4>2. varFile # NoFile => VarsIn(Before)
        BY <2>2, <3>3 DEF Aligned
      <4> QED
        BY <1>a, <4>1, <4>2 DEF VarsIn
    <3> QED
      BY <3>1, <3>2, <3>3
  <2> QED
    BY <2>1, <2>2, <2>3 DEF Aligned, VarsIn, Cut
<1>10. CASE RemoveRows
  <2>1. Cut' /\ UNCHANGED <<varFile, stray, store>> /\ Counted' = Counted /\ store = NotOpen
        /\ at' = "remove_yvar" /\ kept' = {}
    BY <1>10, CountedStep DEF RemoveRows, Cut, At
  <2>2. Aligned
    BY <1>a, <2>1
  <2> QED
    BY <2>1, <2>2 DEF Aligned
<1>11. CASE RemoveVariance \/ RemoveCount \/ RemoveMetadata
  <2>1. varFile' = NoFile /\ store' = NotOpen /\ kept' = {} /\ at' # "variance"
    BY <1>a, <1>11 DEF RemoveVariance, RemoveCount, RemoveMetadata, Places, Removing, At, Returned,
       obsGhosts
  <2> QED
    BY <2>1 DEF Aligned
<1> QED
  BY <1>1, <1>2, <1>3, <1>4, <1>5, <1>6, <1>7, <1>8, <1>9, <1>10, <1>11 DEF ObsNext

\* With no write of metadata.json failed and no model in memory on the store, the bounds of
\* the open model are those of the rows that count, and they are on their way to the file.
LEMMA BoundsThereStep ==
  ASSUME ObsInv, [ObsNext]_obsVars
  PROVE  BoundsThere'
<1> SUFFICES ASSUME failures' = 0, ~foreign'
             PROVE  /\ store' # NotOpen => \A k \in kept' :
                     rowFile'[k.place].z.under = store'.bounds
                    /\ kept' # {} /\ IsWritten(metadata') =>
                         \A k \in kept' : metadata'.bounds = rowFile'[k.place].z.under
                    /\ at' = "written" => \A k \in kept' : store'.extras = rowFile'[k.place].z.under
                    /\ store' # NotOpen /\ at' \notin {"written", "patched"} /\ call' # "create" =>
                         IsWritten(metadata')
                    /\ store' # NotOpen /\ call' \notin Constructors =>
                         IF at' = "written" THEN store'.extras = store'.bounds
                         ELSE metadata'.bounds = store'.bounds
  BY DEF BoundsThere
<1>a. Typed /\ Places /\ KeptThere /\ (failures = 0 /\ ~foreign => BoundsThere)
  BY DEF ObsInv, RowsThere
<1>b. /\ \A s \in Stores : s # NotOpen /\ s.n \in Nat /\ s.bounds \in Sides /\ s.bounds # NoFile
      /\ \A m \in [obs : Nat, bounds : Sides \cup {NoFile}] : IsWritten(m)
      /\ ~IsWritten(NoFile) /\ ~IsWritten(Torn)
  BY WrittenFacts DEF Stores, IsWritten
<1>c. \A k \in kept : rowFile[k.place].z.under \in Sides /\ rowFile[k.place].z.under # NoFile
  <2> TAKE k \in kept
  <2>1. k.place \in 1..Len(rowFile) /\ rowFile \in Seq(StoredRows)
    BY <1>a, KeptCounts, LenProperties DEF Typed
  <2>2. rowFile[k.place] \in StoredRows
    BY <2>1, ElementOfSeq
  <2> QED
    BY <2>2, WrittenFacts DEF StoredRows
<1>d. ~MetadataFails
  BY <1>a DEF MetadataFails, Typed
<1>f. ASSUME failures = 0, ~foreign
      PROVE  /\ store # NotOpen => \A k \in kept : rowFile[k.place].z.under = store.bounds
             /\ IsWritten(metadata) => \A k \in kept : metadata.bounds = rowFile[k.place].z.under
             /\ at = "written" => \A k \in kept : store.extras = rowFile[k.place].z.under
             /\ store # NotOpen /\ at \notin {"written", "patched"} /\ call # "create" =>
                  IsWritten(metadata)
             /\ store # NotOpen /\ call \notin Constructors =>
                  IF at = "written" THEN store.extras = store.bounds
                  ELSE metadata.bounds = store.bounds
  BY <1>f, <1>a DEF BoundsThere
<1>1. CASE CreateModel
  <2>1. kept' = {} /\ at' = "variance" /\ call' = "create"
    <3>1. kept' = kept /\ Counted = 0
      BY <1>1 DEF CreateModel
    <3> QED
      BY <1>1, <3>1, KeptCounts DEF CreateModel, At
  <2> QED
    BY <2>1 DEF Constructors
<1>2. CASE ReopenModel
  <2>1. /\ UNCHANGED <<rowFile, metadata, kept, failures, foreign>> /\ IsWritten(metadata)
        /\ at' = "write" /\ call' = "reopen"
    BY <1>2 DEF ReopenModel, obsGhosts, At
  <2>2. metadata.bounds # NoFile => store'.bounds = metadata.bounds
    BY <1>2, ReopenEffect
  <2> QED
    BY <1>c, <1>f, <2>1, <2>2 DEF Constructors
<1>3. CASE AddRows
  <2>1. PICK ys \in Seq(Int) :
           /\ store'.bounds = store.bounds
           /\ \A i \in 1..store.n : rowFile'[i] = rowFile[i]
    BY <1>3, AddEffect
  <2>2. /\ UNCHANGED <<metadata, kept, failures, foreign>> /\ store # NotOpen
        /\ at = "idle" /\ at' = "variance" /\ call' = "add"
    BY <1>3 DEF AddRows, At
  <2>3. \A k \in kept : rowFile'[k.place].z.under = rowFile[k.place].z.under
    BY <2>1, <2>2, KeptCounts
  <2>4. call = "none"
    BY <1>a, <2>2 DEF Places
  <2> QED
    BY <1>f, <2>1, <2>2, <2>3, <2>4 DEF Constructors
<1>4. CASE WriteVariance
  <2>1. store # NotOpen /\ store'.bounds = store.bounds
    BY <1>4, VarianceEffect
  <2>2. /\ UNCHANGED <<rowFile, metadata, call, kept, failures, foreign>>
        /\ at = "variance" /\ at' \in {"variance", "count", "write"}
    BY <1>4 DEF WriteVariance, obsGhosts, At
  <2> QED
    BY <1>f, <2>1, <2>2
<1>5. CASE SetCount
  <2>1. store # NotOpen /\ store'.bounds = store.bounds
    BY <1>5, <1>b, StaysOpen
  <2>2. UNCHANGED <<rowFile, metadata, failures, foreign>> /\ at = "count"
    BY <1>5 DEF SetCount
  <2>3. CASE call = "add"
    <3>1. Keep /\ at' = "idle" /\ call' = "none"
      BY <1>5, <2>3 DEF SetCount, Returned
    <3>2. \A k \in kept' : rowFile[k.place].z.under = store.bounds
      <4> TAKE k \in kept'
      <4>1. CASE k \in kept
        BY <1>f, <2>1, <2>2, <4>1
      <4>2. CASE k \notin kept
        BY <2>1, <3>1, <4>2, KeptByCall
      <4> QED
        BY <4>1, <4>2
    <3>3. IsWritten(metadata) /\ metadata.bounds = store.bounds
      BY <1>f, <2>1, <2>2, <2>3 DEF Constructors
    <3> QED
      BY <2>1, <2>2, <3>1, <3>2, <3>3
  <2>4. CASE call # "add"
    <3>1. UNCHANGED <<kept, call>> /\ at' = "patch"
      BY <1>5, <2>4 DEF SetCount, At
    <3> QED
      BY <1>f, <2>1, <2>2, <3>1
  <2> QED
    BY <2>3, <2>4
<1>6. CASE TruncateMetadata
  <2>1. store \in Stores /\ store # NotOpen /\ store'.bounds = store.bounds
    BY <1>6, <1>b, StaysOpen
  <2>2. /\ UNCHANGED <<rowFile, call, kept, failures, foreign>> /\ at = "write"
        /\ at' = "written" /\ metadata' = Torn
    BY <1>6 DEF TruncateMetadata, obsGhosts, At
  <2>3. store'.extras = Preserved
    BY <1>6, <2>1 DEF TruncateMetadata, Stores
  <2>4. call # "create" => IsWritten(metadata) /\ store'.extras = metadata.bounds
    BY <1>f, <2>1, <2>2, <2>3 DEF Preserved
  <2>5. \A k \in kept : call # "create"
    BY <1>a DEF Places
  <2>6. \A k \in kept : store'.extras = rowFile[k.place].z.under
    BY <1>f, <2>2, <2>4, <2>5
  <2>7. call \notin Constructors => store'.extras = store.bounds
    BY <1>f, <2>1, <2>2, <2>4 DEF Constructors
  <2> QED
    BY <1>b, <1>f, <2>1, <2>2, <2>6, <2>7
<1>7. CASE WriteMetadata
  <2>1. /\ store \in Stores /\ store # NotOpen
        /\ store' # NotOpen => store'.bounds = store.bounds
    BY <1>7, <1>b, StaysOpen
  <2>2. /\ UNCHANGED <<rowFile, kept, failures, foreign>> /\ at = "written"
        /\ metadata' = [obs |-> store.n, bounds |-> store.extras]
    BY <1>7 DEF WriteMetadata, obsGhosts
  <2>3. \/ at' = "count" /\ call' = call /\ call \in Constructors
        \/ at' = "idle" /\ call' = "none" /\ call \notin Constructors
    BY <1>7 DEF WriteMetadata, At, Returned, Constructors
  <2>4. metadata'.bounds = store.extras /\ IsWritten(metadata')
    <3>1. metadata' \in [obs : Nat, bounds : Sides \cup {NoFile}]
      BY <2>1, <2>2 DEF Stores
    <3> QED
      BY <1>b, <2>2, <3>1
  <2> QED
    BY <1>f, <2>1, <2>2, <2>3, <2>4
<1>8. CASE PatchMetadata \/ WritePatched
  <2>1. store # NotOpen /\ store \in Stores /\ store'.bounds = store.bounds
    BY <1>8, <1>b, StaysOpen
  <2>2. UNCHANGED <<rowFile, failures, foreign>> /\ at \in {"patch", "patched"}
    BY <1>8 DEF PatchMetadata, WritePatched
  <2>3. CASE at' = "patched"
    <3>1. UNCHANGED <<kept, call>> /\ metadata' = Torn /\ call \in Constructors
      BY <1>8, <1>a, <2>3 DEF PatchMetadata, WritePatched, Finish, Returned, Places, Patching
    <3> QED
      BY <1>b, <1>f, <2>1, <2>2, <2>3, <3>1
  <2>4. CASE at' # "patched"
    <3>1. Keep /\ at' = "idle" /\ call' = "none"
      BY <1>8, <2>4 DEF PatchMetadata, WritePatched, Finish, Returned, At
    <3>2. metadata'.bounds = store.bounds /\ IsWritten(metadata')
      <4>1. CASE PatchMetadata
        BY <1>a, <2>4, <4>1 DEF PatchMetadata, Places, Patching, Constructors, At
      <4>2. CASE WritePatched
        <5>1. metadata' = [obs |-> store.n, bounds |-> store.bounds]
          BY <4>2 DEF WritePatched
        <5>2. metadata' \in [obs : Nat, bounds : Sides \cup {NoFile}]
          BY <2>1, <5>1 DEF Stores
        <5> QED
          BY <1>b, <5>1, <5>2
      <4> QED
        BY <1>8, <4>1, <4>2
    <3>3. \A k \in kept' : rowFile[k.place].z.under = store.bounds
      <4> TAKE k \in kept'
      <4>1. CASE k \in kept
        BY <1>f, <2>1, <2>2, <4>1
      <4>2. CASE k \notin kept
        BY <2>1, <3>1, <4>2, KeptByCall
      <4> QED
        BY <4>1, <4>2
    <3> QED
      BY <2>1, <2>2, <3>1, <3>2, <3>3
  <2> QED
    BY <2>3, <2>4
<1>9. CASE MemoryModel
  <2>1. PICK b \in Sides : /\ metadata' = [metadata EXCEPT !.bounds = b]
                           /\ foreign' = (foreign \/ b # metadata.bounds)
    <3>1. NoFile \in Sides \cup {NoFile}
      OBVIOUS
    <3> QED
      BY <1>9, <3>1, ResolvedBounds DEF MemoryModel
  <2>2. /\ UNCHANGED <<rowFile, store, at, call, kept, failures>> /\ at = "idle"
        /\ IsWritten(metadata)
    BY <1>9 DEF MemoryModel
  <2>3. ~foreign /\ b = metadata.bounds
    BY <2>1, Zenon
  <2>4. metadata \in [obs : Nat, bounds : Sides \cup {NoFile}]
    BY <1>a, <2>2 DEF Typed, IsWritten
  <2>5. metadata' = metadata
    BY <2>1, <2>3, <2>4
  <2> QED
    BY <1>f, <2>2, <2>3, <2>5
<1>10. CASE PersistStore
  <2>1. /\ UNCHANGED <<rowFile, store, metadata, kept, failures, foreign>>
        /\ at = "idle" /\ at' = "write" /\ call' \in {"persist", "close"}
    BY <1>10 DEF PersistStore, obsFiles, obsGhosts, At
  <2>2. call = "none"
    BY <1>a, <2>1 DEF Places
  <2> QED
    BY <1>f, <2>1, <2>2 DEF Constructors
<1>11. CASE CloseClean \/ ProcessDies
  <2>1. /\ UNCHANGED <<rowFile, metadata, kept, failures, foreign>>
        /\ store' = NotOpen /\ at' = "idle"
    BY <1>11 DEF CloseClean, ProcessDies, obsFiles, obsGhosts, Returned
  <2> QED
    BY <1>f, <2>1
<1>12. CASE RemoveRows \/ RemoveVariance \/ RemoveCount \/ RemoveMetadata
  <2>1. kept' = {} /\ store' = NotOpen
    BY <1>a, <1>12 DEF RemoveRows, RemoveVariance, RemoveCount, RemoveMetadata, Places, Removing,
       obsGhosts
  <2> QED
    BY <2>1
<1>13. CASE UNCHANGED obsVars
  <2>1. UNCHANGED <<rowFile, metadata, kept, failures, foreign, store, at, call>>
    BY <1>13 DEF obsVars, obsFiles, obsGhosts
  <2> QED
    BY <1>f, <2>1
<1> QED
  BY <1>d, <1>1, <1>2, <1>3, <1>4, <1>5, <1>6, <1>7, <1>8, <1>9, <1>10, <1>11, <1>12, <1>13
  DEF ObsNext

---------------------------------------------------------------------------
\* Every row whose call returned is where the index says and as it was told, its variance
\* and its bounds with it; see the README for the argument.
THEOREM ObservationsHold == ObsSpec => []ObsInv
<1>1. ObsInit => ObsInv
  BY ObsStart
<1>2. ObsInv /\ [ObsNext]_obsVars => ObsInv'
  <2> SUFFICES ASSUME ObsInv, [ObsNext]_obsVars PROVE ObsInv'
    OBVIOUS
  <2>1. Typed' /\ Places' /\ CountedThere' /\ CallThere' /\ KeptThere'
    BY TypedStep, PlacesStep, CountedThereStep, CallThereStep, KeptThereStep
  <2>2. FileMatches' /\ (~stray' => Aligned')
    BY FileMatchesStep, AlignedStep
  <2>3. BoundsThere'
    BY BoundsThereStep
  <2> QED
    BY <2>1, <2>2, <2>3 DEF ObsInv, RowsThere, VariancesThere
<1> QED
  BY <1>1, <1>2, PTL DEF ObsSpec

\* What train_rows_at reads (model.rs) of a store that is open, or can be.
LEMMA InvReadsAsTold == ObsInv => RowsReadAsTold
<1> SUFFICES ASSUME ObsInv, at = "idle",
                    store # NotOpen \/ Opens \/ (kept # {} /\ ~stray /\ metadata # Torn)
             PROVE  /\ store # NotOpen \/ Opens
                    /\ \A i \in 1..RowCount :
                            i <= Len(rowFile) /\ rowFile[i].row \in since + 1..told
                    /\ \A k \in kept :
                         /\ k.place <= RowCount /\ rowFile[k.place].row = k.row
                         /\ ~stray => VarianceReadsBack(k)
                         /\ failures = 0 /\ ~foreign => ReadsBack(k)
  BY DEF RowsReadAsTold
<1>a. /\ Typed /\ Places /\ CountedThere /\ KeptThere /\ FileMatches /\ (~stray => Aligned)
      /\ BoundsThere /\ Counted \in Nat
  BY CountedFacts DEF ObsInv, RowsThere, VariancesThere
<1>b. kept # {} => Counted > 0 /\ ~Cut
  BY <1>a, KeptCounts DEF Cut
<1>c. ~stray /\ store = NotOpen /\ varFile # NoFile => Counted > 0 /\ (Cut \/ VarsIn(Counted))
  BY <1>a DEF Aligned
<1>1. store # NotOpen \/ Opens
  <2>1. SUFFICES ASSUME store = NotOpen, kept # {}, ~stray, metadata # Torn PROVE Opens
    OBVIOUS
  <2>2. IsWritten(metadata)
    BY <1>a, <2>1 DEF KeptThere, IsWritten
  <2>3. HasRoom(rowFile, Counted)
    <3>1. rowFile # <<>> /\ rowFile # NoFile
      BY <1>a, <1>b, <2>1, WrittenFacts DEF Cut, CountedThere, RowsIn, Typed
    <3> QED
      BY <3>1 DEF HasRoom
  <2>4. varFile # NoFile => HasRoom(varFile, Counted)
    BY <1>b, <1>c, <2>1, <1>a DEF HasRoom, VarsIn
  <2> QED
    BY <2>2, <2>3, <2>4 DEF Opens
<1>2. store = NotOpen => RowsIn(Counted)
  <2>1. store = NotOpen => Cut \/ RowsIn(Counted)
    BY <1>a DEF CountedThere
  <2>2. store = NotOpen /\ Cut => Counted = 0
    BY <1>1 DEF Opens, HasRoom, Cut
  <2> QED
    BY <1>a, <2>1, <2>2 DEF RowsIn
<1>3. RowsIn(RowCount)
  BY <1>a, <1>2 DEF RowCount, CountedThere
<1>4. ASSUME NEW k \in kept
      PROVE  /\ k.place <= RowCount /\ rowFile[k.place].row = k.row
             /\ ~stray => VarianceReadsBack(k)
             /\ failures = 0 /\ ~foreign => ReadsBack(k)
  <2>1. /\ k.place \in 1..Counted /\ rowFile[k.place].row = k.row
        /\ rowFile[k.place].z.y = k.y /\ (store # NotOpen => k.place \in 1..store.n)
        /\ k.place <= Len(rowFile)
    BY KeptCounts
  <2>2. k.place <= RowCount
    BY <1>a, <2>1, StoreFields DEF RowCount
  <2>3. ASSUME ~stray PROVE VarianceReadsBack(k)
    <3>1. k.noisy <=> varFile # NoFile
      BY <1>a, <2>3 DEF Aligned
    <3>2. CASE varFile = NoFile
      BY <1>a, <3>1, <3>2 DEF VarianceReadsBack, Variances, FileMatches
    <3>3. CASE varFile # NoFile /\ store = NotOpen
      <4>1. VarsIn(Counted)
        BY <1>b, <1>c, <2>3, <3>3
      <4>2. Variances = Counted /\ Counted # NoFile /\ Counted >= k.place
        <5>1. Variances = Counted
          BY <3>3 DEF Variances
        <5>2. Counted # NoFile
          BY <1>a, WrittenFacts
        <5> QED
          BY <1>a, <2>1, <5>1, <5>2
      <4> QED
        BY <2>1, <3>1, <3>3, <4>1, <4>2 DEF VarianceReadsBack, VarsIn
    <3>4. CASE varFile # NoFile /\ store # NotOpen
      <4>1. store.vars = store.n /\ VarsIn(store.n)
        BY <1>a, <2>3, <3>4 DEF Aligned
      <4>2. Variances = store.n /\ store.n # NoFile /\ store.n >= k.place
        BY <1>a, <2>1, <3>4, <4>1, StoreFields, WrittenFacts DEF Variances
      <4> QED
        BY <2>1, <3>1, <3>4, <4>1, <4>2 DEF VarianceReadsBack, VarsIn
    <3> QED
      BY <3>2, <3>3, <3>4
  <2>4. ASSUME failures = 0, ~foreign PROVE ReadsBack(k)
    <3>1. CASE store # NotOpen
      BY <1>a, <2>1, <2>4, <3>1 DEF BoundsThere, ReadsBack, Natural
    <3>2. CASE store = NotOpen
      <4>1. IsWritten(metadata)
        BY <1>1, <3>2 DEF Opens
      <4>2. metadata.bounds = rowFile[k.place].z.under
        BY <1>a, <2>4, <4>1 DEF BoundsThere
      <4>3. metadata.bounds # NoFile
        <5>1. k.place \in 1..Len(rowFile) /\ rowFile \in Seq(StoredRows)
          BY <1>a, <2>1, LenProperties DEF Typed
        <5>2. rowFile[k.place] \in StoredRows
          BY <5>1, ElementOfSeq
        <5> QED
          BY <4>2, <5>2, WrittenFacts DEF StoredRows
      <4>4. Loaded = metadata.bounds
        BY <4>3 DEF Loaded, Resolved
      <4> QED
        BY <2>1, <3>2, <4>2, <4>4 DEF ReadsBack, Natural
    <3> QED
      BY <3>1, <3>2
  <2> QED
    BY <2>1, <2>2, <2>3, <2>4
<1> QED
  BY <1>1, <1>3, <1>4 DEF RowsIn

\* Rows whose call returned read as they were told, whatever was interrupted before.
THEOREM RowsAlwaysReadAsTold == ObsSpec => []RowsReadAsTold
  BY ObservationsHold, InvReadsAsTold, PTL
=============================================================================
