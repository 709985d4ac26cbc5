--------------------------- MODULE FlushController ---------------------------
(***************************************************************************)
(* The background soft-sync controller of a disk BPANN backend             *)
(* (ennbo/src/backend/flush_controller.rs) as the model drives it          *)
(* (ennbo/src/model.rs, ennbo/src/backend/mod.rs).                         *)
(*                                                                         *)
(* One backend is used by several client threads.  A call that takes       *)
(* `&self` (schedule, wait, ensure_index_sync, persist, search,            *)
(* mark_index_stale) may overlap other such calls; a call that takes       *)
(* `&mut self` (add, set_metric_scale, drop) excludes every other call,    *)
(* but NOT the flush workers, which own an Arc of the data lock.           *)
(*                                                                         *)
(* A worker builds a copy of the index under the shared data lock and      *)
(* publishes it under the exclusive one.  What it built is only right if   *)
(* no row was appended and the metric did not change in between: that is   *)
(* what the slot, the joins and the borrow rules have to guarantee.        *)
(*                                                                         *)
(* A section that holds the exclusive data lock is one action: no other    *)
(* thread sees its intermediate states, and it takes no second lock.       *)
(* What persisting does to the files one by one is BpannStore's subject;   *)
(* here it replaces the persisted index or leaves it alone.                *)
(*                                                                         *)
(* unseen and unflagged are no state of the program: they count the rows   *)
(* that an append stored before it failed, for as long as pending, or      *)
(* dirty, has not been told of them.                                       *)
(***************************************************************************)
EXTENDS Naturals

CONSTANTS
  Clients,   \* threads that call the backend
  Workers,   \* pool of flush threads: thread::spawn takes one, join returns it
  NoWorker,  \* an empty job slot
  Metrics,   \* metrics (x_scale vectors) the index can be expressed in
  FirstMetric,
  MaxRows,   \* bound on appended rows
  Soft,      \* pending_flush_threshold
  Hard,      \* pending_hard_flush_threshold
  Calls      \* bound on the calls each client makes

SharedOps    == {"wait", "schedule", "ensure", "persist", "search", "stale"}
ExclusiveOps == {"add", "metric", "close"}

ASSUME ConfigAssumption ==
  /\ NoWorker \notin Workers
  /\ FirstMetric \in Metrics
  /\ MaxRows \in Nat
  /\ Soft \in Nat \ {0}
  /\ Hard \in Nat
  /\ Soft <= Hard
  /\ Calls \in [Clients -> SUBSET (SharedOps \cup ExclusiveOps)]

VARIABLES
  rows,       \* train_x.nrows
  metric,     \* the metric searches use (BpannBackend.x_scale)
  index,      \* the published IncrementalIndex: rows held, metric expressed in
  pending,    \* pending_unindexed
  dirty,      \* index_dirty
  disk,       \* the index files last persisted
  unseen,     \* rows of failed appends that pending has not been told of
  unflagged,  \* rows of failed appends not in the files, nor told to dirty
  slot,       \* DiskBackendHandle.job
  lastError,  \* DiskBackendHandle.last_error is Some
  pc,         \* where each client is in its call
  op,         \* the call each client is in
  owned,      \* the JoinHandle a client holds on its stack
  wpc,        \* where each worker is
  built,      \* the index a worker has built and not yet published
  open        \* the backend has not been dropped

data  == <<rows, metric, index, pending, dirty, disk, unseen, unflagged>>
vars  == <<rows, metric, index, pending, dirty, disk, unseen, unflagged, slot,
           lastError, pc, op, owned, wpc, built, open>>

ClientPC == {"idle", "take", "join", "check", "write",
             "sched_err", "sched_read", "sched_slot", "store", "join_own",
             "read", "searching"}
WorkerPC == {"free", "start", "building", "publish", "done", "failed"}

IndexOf(r, m) == [rows |-> r, metric |-> m]
NoIndex       == IndexOf(0, FirstMetric)
Indexes       == [rows : Nat, metric : Metrics]

----------------------------------------------------------------------------
(* The data RwLock (std, futex-based): writers exclude readers, and a new   *)
(* reader waits behind a waiting writer.                                    *)

Reading == \/ \E c \in Clients : pc[c] = "searching"
           \/ \E w \in Workers : wpc[w] = "building"
WriterWaiting == \/ \E c \in Clients : pc[c] = "write"
                 \/ \E w \in Workers : wpc[w] = "publish"
CanRead  == ~WriterWaiting
CanWrite == ~Reading

----------------------------------------------------------------------------
(* What the backend computes while it holds the data lock.                  *)

\* IncrementalIndex after inserting every row: rows added to a nonempty tree
\* do not change the metric the tree is expressed in.
Synced(idx) == IndexOf(rows, IF idx.rows = 0 THEN metric ELSE idx.metric)

\* Stored coordinates are multiplied by metric/m, which expresses them in m
\* only if they were expressed in `metric`.
Rescaled(idx, m) == IF idx.metric = metric THEN [idx EXCEPT !.metric = m] ELSE idx

NeedsDiskRewrite ==
  \/ dirty
  \/ disk.rows # rows
  \/ IF index.rows > 0 THEN disk # index ELSE rows # 0

----------------------------------------------------------------------------
Init ==
  /\ rows = 0 /\ metric = FirstMetric
  /\ index = NoIndex /\ disk = NoIndex
  /\ pending = 0 /\ dirty = FALSE
  /\ unseen = 0 /\ unflagged = 0
  /\ slot = NoWorker /\ lastError = FALSE
  /\ pc = [c \in Clients |-> "idle"] /\ op = [c \in Clients |-> "none"]
  /\ owned = [c \in Clients |-> NoWorker]
  /\ wpc = [w \in Workers |-> "free"]
  /\ built = [w \in Workers |-> NoIndex]
  /\ open = TRUE

Goto(c, l) == pc' = [pc EXCEPT ![c] = l]

\* The call returns (Ok or Err); dropping the backend ends its life either way.
Return(c) ==
  /\ pc' = [pc EXCEPT ![c] = "idle"]
  /\ op' = [op EXCEPT ![c] = "none"]
  /\ open' = (op[c] # "close")

----------------------------------------------------------------------------
(* Calls.  Rust's borrow rules: no two overlapping calls if one is &mut.    *)

\* Faulty variants, for showing that the properties can fail: a call that does
\* not wait for the flush before it takes the data lock.
SkipWait(o, skip) == CASE o = "schedule" -> "sched_err"
                       [] o = "search"   -> "read"
                       [] o \in skip     -> "write"
                       [] OTHER          -> "take"
AddSkipsWait(o)    == SkipWait(o, {"stale", "add"})
MetricSkipsWait(o) == SkipWait(o, {"stale", "metric"})
CloseSkipsWait(o)  == SkipWait(o, {"stale", "close"})

FirstStep(o) == CASE o = "schedule" -> "sched_err"
                  [] o = "search"   -> "read"
                  [] o = "stale"    -> "write"
                  [] OTHER          -> "take"

Call(c, o) ==
  /\ open
  /\ o \in Calls[c]
  /\ pc[c] = "idle"
  /\ \A d \in Clients : /\ op[d] \notin ExclusiveOps
                        /\ o \in ExclusiveOps => pc[d] = "idle"
  /\ o = "add" => rows < MaxRows
  /\ op' = [op EXCEPT ![c] = o]
  /\ Goto(c, FirstStep(o))
  /\ UNCHANGED <<data, slot, lastError, owned, wpc, built, open>>

----------------------------------------------------------------------------
(* wait_for_flush, which also begins every call that must see the flush     *)
(* settled.                                                                 *)

TakeJob(c) ==
  /\ pc[c] = "take"
  /\ IF slot = NoWorker
       THEN Goto(c, "check") /\ UNCHANGED <<slot, owned>>
       ELSE /\ owned' = [owned EXCEPT ![c] = slot]
            /\ slot' = NoWorker
            /\ Goto(c, "join")
  /\ UNCHANGED <<data, lastError, op, wpc, built, open>>

\* Faulty variant: only a thread that ended well is joined.
JoinOnlySuccess(c) ==
  /\ pc[c] = "join"
  /\ wpc[owned[c]] = "done"
  /\ wpc' = [wpc EXCEPT ![owned[c]] = "free"]
  /\ owned' = [owned EXCEPT ![c] = NoWorker]
  /\ Goto(c, "check")
  /\ UNCHANGED <<data, slot, lastError, op, built, open>>

\* A worker's Err (or panic) is recorded AND returned to the caller.
JoinFlush(c) ==
  /\ pc[c] = "join"
  /\ wpc[owned[c]] \in {"done", "failed"}
  /\ wpc' = [wpc EXCEPT ![owned[c]] = "free"]
  /\ owned' = [owned EXCEPT ![c] = NoWorker]
  /\ IF wpc[owned[c]] = "failed"
       THEN lastError' = TRUE /\ Return(c)
       ELSE Goto(c, "check") /\ UNCHANGED <<lastError, op, open>>
  /\ UNCHANGED <<data, slot, built>>

\* Faulty variant: a recorded error is cleared and the call goes on.
ErrorSwallowed(c) ==
  /\ pc[c] = "check"
  /\ lastError' = FALSE
  /\ IF op[c] = "wait"
       THEN Return(c)
       ELSE Goto(c, "write") /\ UNCHANGED <<op, open>>
  /\ UNCHANGED <<data, slot, owned, wpc, built>>

TakeError(c) ==
  /\ pc[c] = "check"
  /\ lastError' = FALSE
  /\ IF lastError \/ op[c] = "wait"
       THEN Return(c)
       ELSE Goto(c, "write") /\ UNCHANGED <<op, open>>
  /\ UNCHANGED <<data, slot, owned, wpc, built>>

----------------------------------------------------------------------------
(* Sections under the exclusive data lock.                                  *)

Locked(c, o) == /\ pc[c] = "write"
                /\ op[c] = o
                /\ CanWrite
                /\ Return(c)
                /\ UNCHANGED <<slot, lastError, owned, wpc, built>>

\* ensure_sync_for_backend: rows are inserted up to and including the r-th.
InsertTo(r) ==
  index' = IndexOf(r, IF index.rows = 0 THEN metric ELSE index.metric)

Pending(n) == pending' = n /\ unseen' = 0
Dirtied    == dirty' = TRUE /\ unflagged' = 0

\* Faulty variants: the append forgets to mark the index files out of date, or
\* counts its rows as no longer pending.
AppendStaysClean(c) ==
  /\ Locked(c, "add")
  /\ \E k \in 1..(MaxRows - rows) : rows' = rows + k /\ InsertTo(rows + k)
  /\ Pending(0)
  /\ UNCHANGED <<metric, dirty, unflagged, disk>>
AppendUnderflows(c) ==
  /\ Locked(c, "add")
  /\ \E k \in 1..(MaxRows - rows) :
       rows' = rows + k /\ InsertTo(rows + k) /\ Pending(pending - k)
  /\ Dirtied
  /\ UNCHANGED <<metric, disk>>

\* append_rows inserts the new rows into the index at once.
Append(c) ==
  /\ Locked(c, "add")
  /\ \E k \in 1..(MaxRows - rows) : rows' = rows + k /\ InsertTo(rows + k)
  /\ Pending(0)
  /\ Dirtied
  /\ UNCHANGED <<metric, disk>>

\* append_rows has stored its rows of x and then fails: at a row of y or its
\* variance, before it sets index_dirty, or at the r-th row of the index, after.
\* Neither way it comes to setting pending_unindexed.
AppendFails(c) ==
  /\ Locked(c, "add")
  /\ \E k \in 1..(MaxRows - rows) :
       /\ rows' = rows + k
       /\ unseen' = unseen + k
       /\ \/ /\ unflagged' = IF dirty THEN 0 ELSE unflagged + k
             /\ UNCHANGED <<index, dirty>>
          \/ Dirtied /\ \E r \in index.rows..(rows + k - 1) : InsertTo(r)
  /\ UNCHANGED <<metric, pending, disk>>

SetMetric(c) ==
  /\ Locked(c, "metric")
  /\ \E m \in Metrics : metric' = m /\ index' = Rescaled(index, m)
  /\ UNCHANGED <<rows, pending, dirty, disk, unseen, unflagged>>

EnsureSync(c) ==
  /\ Locked(c, "ensure")
  /\ index' = IF index.rows < rows THEN Synced(index) ELSE index
  /\ Pending(0)
  /\ UNCHANGED <<rows, metric, dirty, disk, unflagged>>

\* mark_index_stale / reset_index.
MarkStale(c) ==
  /\ Locked(c, "stale")
  /\ index' = IndexOf(0, metric)
  /\ Pending(rows)
  /\ Dirtied
  /\ UNCHANGED <<rows, metric, disk>>

Persist(c) ==
  /\ Locked(c, "persist") \/ Locked(c, "close")
  /\ IF NeedsDiskRewrite
       THEN index' = Synced(index) /\ disk' = Synced(index)
       ELSE UNCHANGED <<index, disk>>
  /\ Pending(0)
  /\ dirty' = FALSE /\ unflagged' = 0
  /\ UNCHANGED <<rows, metric>>

\* An insert or a file operation fails: the rows inserted so far stay in the
\* index, and neither pending nor dirty is cleared.  A persist that fails after
\* the index files were replaced (metadata, indexed_rows.bin) leaves them so.
SyncFails(c) ==
  /\ \/ /\ Locked(c, "ensure")
        /\ \E r \in index.rows..(rows - 1) : InsertTo(r)
        /\ UNCHANGED <<disk, unflagged>>
     \/ /\ Locked(c, "persist") \/ Locked(c, "close")
        /\ NeedsDiskRewrite
        /\ \E r \in index.rows..rows : InsertTo(r)
        /\ UNCHANGED <<disk, unflagged>>
     \/ /\ Locked(c, "persist") \/ Locked(c, "close")
        /\ NeedsDiskRewrite
        /\ InsertTo(rows) /\ disk' = index' /\ unflagged' = 0
  /\ UNCHANGED <<rows, metric, pending, dirty, unseen>>

\* The hard path of schedule_background_flush, after it waited: build and
\* publish in one critical section, if another thread has not done so; the
\* build may fail.
HardFlush(c) ==
  /\ Locked(c, "schedule")
  /\ \/ /\ pending >= Hard /\ index.rows < rows
        /\ index' = Synced(index)
        /\ Pending(0)
     \/ UNCHANGED <<index, pending, unseen>>
  /\ UNCHANGED <<rows, metric, dirty, disk, unflagged>>

----------------------------------------------------------------------------
(* schedule_background_flush.                                               *)

ScheduleCheckError(c) ==
  /\ pc[c] = "sched_err"
  /\ IF lastError THEN Return(c)
                  ELSE Goto(c, "sched_read") /\ UNCHANGED <<op, open>>
  /\ UNCHANGED <<data, slot, lastError, owned, wpc, built>>

\* The pending count is read under the shared lock and used after it.
ScheduleReadPending(c) ==
  /\ pc[c] = "sched_read"
  /\ CanRead
  /\ IF pending < Soft
       THEN Return(c)
       ELSE /\ Goto(c, IF pending >= Hard THEN "take" ELSE "sched_slot")
            /\ UNCHANGED <<op, open>>
  /\ UNCHANGED <<data, slot, lastError, owned, wpc, built>>

ScheduleSpawn(c) ==
  /\ pc[c] = "sched_slot"
  /\ IF slot # NoWorker
       THEN Return(c) /\ UNCHANGED <<owned, wpc>>
       ELSE \E w \in Workers :
              /\ wpc[w] = "free"
              /\ wpc' = [wpc EXCEPT ![w] = "start"]
              /\ owned' = [owned EXCEPT ![c] = w]
              /\ Goto(c, "store")
              /\ UNCHANGED <<op, open>>
  /\ UNCHANGED <<data, slot, lastError, built>>

\* Faulty variant: the slot is not looked at again before it is filled.
StoreOverwrites(c) ==
  /\ pc[c] = "store"
  /\ slot' = owned[c]
  /\ owned' = [owned EXCEPT ![c] = NoWorker]
  /\ Return(c)
  /\ UNCHANGED <<data, lastError, wpc, built>>

\* Another thread may have filled the slot since: then join our own worker.
ScheduleStore(c) ==
  /\ pc[c] = "store"
  /\ IF slot = NoWorker
       THEN /\ slot' = owned[c]
            /\ owned' = [owned EXCEPT ![c] = NoWorker]
            /\ Return(c)
       ELSE Goto(c, "join_own") /\ UNCHANGED <<slot, owned, op, open>>
  /\ UNCHANGED <<data, lastError, wpc, built>>

\* `let _ = handle.join()`: the worker's own result is dropped.
ScheduleJoinOwn(c) ==
  /\ pc[c] = "join_own"
  /\ wpc[owned[c]] \in {"done", "failed"}
  /\ wpc' = [wpc EXCEPT ![owned[c]] = "free"]
  /\ owned' = [owned EXCEPT ![c] = NoWorker]
  /\ Return(c)
  /\ UNCHANGED <<data, slot, lastError, built>>

----------------------------------------------------------------------------
(* Searches hold the shared lock.                                           *)

SearchBegin(c) ==
  /\ pc[c] = "read"
  /\ CanRead
  /\ Goto(c, "searching")
  /\ UNCHANGED <<data, slot, lastError, op, owned, wpc, built, open>>

SearchEnd(c) ==
  /\ pc[c] = "searching"
  /\ Return(c)
  /\ UNCHANGED <<data, slot, lastError, owned, wpc, built>>

----------------------------------------------------------------------------
(* The flush worker.                                                        *)

WorkerGoto(w, l) == wpc' = [wpc EXCEPT ![w] = l]

BuildBegin(w) ==
  /\ wpc[w] = "start"
  /\ CanRead
  /\ WorkerGoto(w, "building")
  /\ UNCHANGED <<data, slot, lastError, pc, op, owned, built, open>>

\* soft_sync_build; an Err or a panic ends the thread.
BuildEnd(w) ==
  /\ wpc[w] = "building"
  /\ \/ /\ index.rows >= rows
        /\ WorkerGoto(w, "done") /\ UNCHANGED built
     \/ /\ index.rows < rows
        /\ built' = [built EXCEPT ![w] = Synced(index)]
        /\ WorkerGoto(w, "publish")
     \/ WorkerGoto(w, "failed") /\ UNCHANGED built
  /\ UNCHANGED <<data, slot, lastError, pc, op, owned, open>>

\* Faulty variant: the pending count is cleared, the index not replaced.
PublishForgetsIndex(w) ==
  /\ wpc[w] = "publish"
  /\ CanWrite
  /\ Pending(0)
  /\ WorkerGoto(w, "done")
  /\ UNCHANGED <<rows, metric, index, dirty, disk, unflagged, slot, lastError,
                 pc, op, owned, built, open>>

\* soft_sync_publish
Publish(w) ==
  /\ wpc[w] = "publish"
  /\ CanWrite
  /\ index' = built[w]
  /\ built' = [built EXCEPT ![w] = NoIndex]
  /\ Pending(0)
  /\ WorkerGoto(w, "done")
  /\ UNCHANGED <<rows, metric, dirty, disk, unflagged, slot, lastError, pc, op,
                 owned, open>>

----------------------------------------------------------------------------
WaitStep(c)     == TakeJob(c) \/ JoinFlush(c) \/ TakeError(c)
WriteStep(c)    == \/ Append(c) \/ AppendFails(c) \/ SetMetric(c) \/ EnsureSync(c)
                   \/ MarkStale(c) \/ Persist(c) \/ SyncFails(c) \/ HardFlush(c)
ScheduleStep(c) == \/ ScheduleCheckError(c) \/ ScheduleReadPending(c)
                   \/ ScheduleSpawn(c) \/ ScheduleStore(c) \/ ScheduleJoinOwn(c)
SearchStep(c)   == SearchBegin(c) \/ SearchEnd(c)
ClientStep(c)   == WaitStep(c) \/ WriteStep(c) \/ ScheduleStep(c) \/ SearchStep(c)
WorkerStep(w)   == BuildBegin(w) \/ BuildEnd(w) \/ Publish(w)

\* A dropped backend does nothing more.
Dropped == ~open /\ UNCHANGED vars

Next ==
  \/ \E c \in Clients, o \in SharedOps \cup ExclusiveOps : Call(c, o)
  \/ \E c \in Clients : ClientStep(c)
  \/ \E w \in Workers : WorkerStep(w)
  \/ Dropped

Spec == Init /\ [][Next]_vars

(***************************************************************************)
(* A running thread takes its next step, and one that keeps asking for the *)
(* data lock gets it (strong fairness: the lock may be taken by others     *)
(* in between, but not forever).  Calls and drop are up to the callers.    *)
(***************************************************************************)
Fairness ==
  /\ \A c \in Clients : SF_vars(ClientStep(c))
  /\ \A w \in Workers : SF_vars(WorkerStep(w))

FairSpec == Spec /\ Fairness

----------------------------------------------------------------------------
\* Every variable keeps its type.
TypeOK ==
  /\ rows \in Nat /\ metric \in Metrics
  /\ index \in Indexes /\ disk \in Indexes
  /\ pending \in Nat /\ dirty \in BOOLEAN
  /\ unseen \in Nat /\ unflagged \in Nat
  /\ slot \in Workers \cup {NoWorker} /\ lastError \in BOOLEAN
  /\ pc \in [Clients -> ClientPC]
  /\ op \in [Clients -> SharedOps \cup ExclusiveOps \cup {"none"}]
  /\ owned \in [Clients -> Workers \cup {NoWorker}]
  /\ wpc \in [Workers -> WorkerPC]
  /\ built \in [Workers -> Indexes]
  /\ open \in BOOLEAN

\* A flush thread that has not been joined.
Live(w) == wpc[w] # "free"

(***************************************************************************)
(* A call that excludes all others reaches its critical section only when  *)
(* no flush thread is left that could publish behind its back, and with    *)
(* every flush error already returned to some caller                       *)
(* (model.rs add, backend/mod.rs set_metric_scale, Drop).                  *)
(***************************************************************************)
ExclusiveSettled ==
  \A c \in Clients :
    op[c] \in ExclusiveOps /\ pc[c] = "write" =>
      slot = NoWorker /\ ~lastError /\ \A w \in Workers : ~Live(w)

(***************************************************************************)
(* The published index is expressed in the metric that searches scale      *)
(* queries by, and holds no row that the store does not have: a build that *)
(* a metric change overtook is never published.                            *)
(***************************************************************************)
IndexInMetric ==
  index.rows <= rows /\ (index.rows > 0 => index.metric = metric)

(***************************************************************************)
(* pending_unindexed under-reports the rows the index lacks by the rows of *)
(* appends that failed since it was last set, and by no others: whatever a *)
(* reset, an overtaken build or a flush that fails leaves unindexed, the   *)
(* thresholds of schedule_background_flush see it.                         *)
(***************************************************************************)
PendingCoversGap == rows <= pending + index.rows + unseen

(***************************************************************************)
(* While index_dirty is clear the index files lack exactly the rows of     *)
(* appends that failed before they set it (backend.rs:239-247); the next   *)
(* persist finds those by the row count in header.json (sync.rs:155).      *)
(***************************************************************************)
CleanMeansPersisted ==
  ~dirty => /\ rows = disk.rows + unflagged
            /\ unflagged > 0 => NeedsDiskRewrite

(***************************************************************************)
(* No flush thread outlives the backend it publishes to (Drop).            *)
(***************************************************************************)
DroppedQuiet == ~open => slot = NoWorker /\ \A w \in Workers : ~Live(w)

(***************************************************************************)
(* A failed flush is not lost: joining its thread records the error, and a *)
(* recorded error goes away only with a call that returns it.  The one     *)
(* exception is the thread that lost the race for the slot                 *)
(* (flush_controller.rs:189-193).                                          *)
(***************************************************************************)
FailureStep ==
  /\ \A w \in Workers :
       wpc[w] = "failed" /\ wpc'[w] # "failed" =>
         lastError' \/ \E c \in Clients : pc[c] = "join_own" /\ owned[c] = w
  /\ lastError /\ ~lastError' =>
       \E c \in Clients : pc[c] # "idle" /\ pc'[c] = "idle"
FailureReported == [][FailureStep]_vars

(***************************************************************************)
(* The controller implements the service without threads.                  *)
(***************************************************************************)
Service == INSTANCE IndexService
ImplementsService == Service!Spec

\* The callers leave gaps between the calls that take the exclusive data lock.
WritersPause == []<>(\A c \in Clients : pc[c] # "write")

(***************************************************************************)
(* No call blocks forever, not on the data lock and not on a join.  An     *)
(* exclusive call and mark_index_stale return whatever the others do.  The *)
(* calls that read under the data lock, or join a flush thread that does,  *)
(* return if the writers pause: two callers that reset the index in turn   *)
(* keep a writer waiting for ever, and readers stay behind it.             *)
(***************************************************************************)
CallsReturn ==
  /\ \A c \in Clients : op[c] \in ExclusiveOps \cup {"stale"} ~> pc[c] = "idle"
  /\ WritersPause => \A c \in Clients : pc[c] # "idle" ~> pc[c] = "idle"

(***************************************************************************)
(* Every flush that is started brings the index up to date or fails: it is *)
(* not starved by searches.  It may be by callers that reset the index     *)
(* without a pause: the lock lets a waiting writer go first.               *)
(***************************************************************************)
FlushCatchesUp ==
  WritersPause =>
    \A w \in Workers :
      wpc[w] = "start" ~> (index.rows = rows \/ wpc[w] = "failed")
=============================================================================
