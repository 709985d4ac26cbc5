---------------------------- MODULE IndexService ----------------------------
(***************************************************************************)
(* What the disk backend promises its callers about the index, with no     *)
(* threads, slots or joins: at every step the index holds a prefix of the  *)
(* rows, expressed in the metric that searches use, and it only ever moves *)
(* by an append, a metric change, a catch-up, a reset or a persist.        *)
(* FlushController is shown to implement this.                             *)
(***************************************************************************)
EXTENDS Naturals

CONSTANTS Metrics, FirstMetric

VARIABLES
  rows, metric, index, disk, open,
  unseen   \* rows of failed appends since the index was last known to be whole

vars == <<rows, metric, index, disk, open, unseen>>

\* The index of the first r rows under metric m.
IndexOf(r, m) == [rows |-> r, metric |-> m]

Init ==
  /\ rows = 0 /\ metric = FirstMetric /\ open = TRUE
  /\ index = IndexOf(0, FirstMetric) /\ disk = IndexOf(0, FirstMetric)
  /\ unseen = 0

\* The rows of a failed append count as unseen until a step that finds the
\* whole index, or resets it.
IndexUpTo(r) == /\ index' = IndexOf(r, metric)
                /\ unseen' \in {unseen} \cup (IF r = rows THEN {0} ELSE {})

\* New rows are searchable and indexed as soon as they are appended.
AppendRows ==
  /\ rows' \in Nat /\ rows' > rows
  /\ index' = IndexOf(rows', metric)
  /\ unseen' = 0
  /\ UNCHANGED <<metric, disk, open>>

\* An append that fails keeps the rows it stored and indexes some of them.
AppendFails ==
  /\ rows' \in Nat /\ rows' > rows
  /\ \E r \in index.rows..(rows' - 1) : index' = IndexOf(r, metric)
  /\ unseen' = unseen + (rows' - rows)
  /\ UNCHANGED <<metric, disk, open>>

\* A metric change re-expresses the index; it loses no row.
ChangeMetric ==
  /\ \E m \in Metrics : metric' = m /\ index' = IndexOf(index.rows, m)
  /\ UNCHANGED <<rows, disk, open, unseen>>

\* A catch-up never takes a row out of the index; it may stop short (failure).
CatchUp ==
  /\ \E r \in index.rows..rows : IndexUpTo(r)
  /\ UNCHANGED <<rows, metric, disk, open>>

Reset ==
  /\ index' = IndexOf(0, metric)
  /\ unseen' = 0
  /\ UNCHANGED <<rows, metric, disk, open>>

\* What is persisted is the whole index in the metric of the moment.
PersistAll ==
  /\ IndexUpTo(rows)
  /\ disk' = index'
  /\ UNCHANGED <<rows, metric, open>>

\* Dropping the backend persists the whole index, or gives up and keeps what
\* was persisted before.
Drop ==
  /\ open' = FALSE
  /\ \/ IndexUpTo(rows) /\ disk' = index'
     \/ (\E r \in index.rows..rows : IndexUpTo(r)) /\ UNCHANGED disk
  /\ UNCHANGED <<rows, metric>>

Next ==
  /\ open
  /\ \/ AppendRows \/ AppendFails \/ ChangeMetric
     \/ CatchUp \/ Reset \/ PersistAll \/ Drop

Spec == Init /\ [][Next]_vars
=============================================================================
