------------------------ MODULE FlushControllerProofs ------------------------
(***************************************************************************)
(* What MCFlush checks on a small instance, for any number of threads,     *)
(* rows and metrics and any thresholds.                                    *)
(*                                                                         *)
(* None of the safety properties is inductive.  They rest on two things:   *)
(* who holds a flush thread (Holding: each thread that runs is in the slot *)
(* or on the stack of exactly one client) and who may call what (Borrows:  *)
(* a client in an exclusive call is alone).  From these, an exclusive call *)
(* past its join finds no thread left (Settled), so nothing a thread has   *)
(* built can be overtaken by an append or a metric change (Fresh).         *)
(***************************************************************************)
EXTENDS FlushController, TLAPS

Ops == SharedOps \cup ExclusiveOps \cup {"none"}

\* What each place in a call says about the call.
Places ==
  \A c \in Clients :
    /\ (pc[c] = "idle") <=> (op[c] = "none")
    /\ pc[c] \in {"sched_err", "sched_read", "sched_slot", "store", "join_own"}
         => op[c] = "schedule"
    /\ pc[c] \in {"read", "searching"} => op[c] = "search"
    /\ (owned[c] # NoWorker) <=> (pc[c] \in {"join", "store", "join_own"})

\* Two overlapping calls are both shared.
Borrows ==
  \A c, d \in Clients : c # d /\ op[c] \in ExclusiveOps => pc[d] = "idle"

\* Every running thread has exactly one holder: the slot or a client.
Holding ==
  /\ slot # NoWorker => Live(slot)
  /\ \A c \in Clients :
       owned[c] # NoWorker => Live(owned[c]) /\ owned[c] # slot
  /\ \A c, d \in Clients :
       c # d /\ owned[c] # NoWorker => owned[c] # owned[d]
  /\ \A w \in Workers :
       Live(w) => slot = w \/ \E c \in Clients : owned[c] = w

\* An exclusive call that has taken the slot's content finds it still empty.
Settled ==
  \A c \in Clients :
    op[c] \in ExclusiveOps =>
      /\ pc[c] \in {"join", "check", "write"} => slot = NoWorker
      /\ pc[c] = "write" => ~lastError

\* What a thread is about to publish is the whole index in today's metric.
Fresh ==
  \A w \in Workers : wpc[w] = "publish" => built[w] = IndexOf(rows, metric)

Data ==
  /\ index.rows <= rows
  /\ index.metric = metric
  /\ rows <= pending + index.rows + unseen
  /\ ~dirty => rows = disk.rows + unflagged

Closed == ~open => \A c \in Clients : pc[c] = "idle"

\* A dropped backend left nothing in the slot.
ClosedQuiet == ~open => slot = NoWorker

Control == /\ Places /\ Borrows /\ Holding /\ Settled
           /\ Closed /\ ClosedQuiet

IInv == TypeOK /\ Control /\ Fresh /\ Data

----------------------------------------------------------------------------
\* A controller that was just opened, with no flush thread and an empty index.
LEMMA InitInv == Init => IInv
<1> SUFFICES ASSUME Init PROVE IInv
  OBVIOUS
<1> USE ConfigAssumption DEF Init
<1>1. TypeOK
  BY DEF TypeOK, NoIndex, IndexOf, Indexes, ClientPC, WorkerPC
<1>2. Control
  BY DEF Control, Places, Borrows, Holding, Settled, Closed, ClosedQuiet, Live,
         ExclusiveOps
<1>3. Fresh /\ Data
  BY DEF Fresh, Data, NoIndex, IndexOf
<1> QED
  BY <1>1, <1>2, <1>3 DEF IInv

----------------------------------------------------------------------------
(* Types. *)

DataType ==
  /\ rows \in Nat /\ metric \in Metrics
  /\ index \in Indexes /\ disk \in Indexes
  /\ pending \in Nat /\ dirty \in BOOLEAN
  /\ unseen \in Nat /\ unflagged \in Nat

ControlType ==
  /\ slot \in Workers \cup {NoWorker} /\ lastError \in BOOLEAN
  /\ pc \in [Clients -> ClientPC]
  /\ op \in [Clients -> Ops]
  /\ owned \in [Clients -> Workers \cup {NoWorker}]
  /\ wpc \in [Workers -> WorkerPC]
  /\ open \in BOOLEAN

\* The type invariant in two halves: what handlers write and who stands where.
LEMMA TypeSplit == TypeOK <=> DataType /\ ControlType /\ built \in [Workers -> Indexes]
  BY DEF TypeOK, DataType, ControlType, Ops

\* Every index the handlers build is one of Indexes.
LEMMA IndexTypes ==
  ASSUME DataType
  PROVE  /\ \A r \in Nat, m \in Metrics : IndexOf(r, m) \in Indexes
         /\ NoIndex \in Indexes
         /\ Synced(index) \in Indexes
         /\ \A r \in Nat : InsertTo(r) => index' \in Indexes
  BY ConfigAssumption DEF DataType, IndexOf, Indexes, NoIndex, Synced, InsertTo

\* No handler sends a thread to a place, or the slot to a worker, that is not one.
LEMMA ControlTypeStep == ControlType /\ [Next]_vars => ControlType'
<1> SUFFICES ASSUME ControlType, [Next]_vars PROVE ControlType'
  OBVIOUS
<1> USE ConfigAssumption DEF ControlType, data, Ops, SharedOps, ExclusiveOps,
        ClientPC, WorkerPC, Goto, Return
<1>1. ASSUME NEW c \in Clients, NEW o \in SharedOps \cup ExclusiveOps, Call(c, o)
      PROVE  ControlType'
  BY <1>1 DEF Call, FirstStep
<1>2. ASSUME NEW c \in Clients, WaitStep(c) PROVE ControlType'
  <2>1. CASE TakeJob(c) BY <2>1 DEF TakeJob
  <2>2. CASE JoinFlush(c) BY <2>2 DEF JoinFlush
  <2>3. CASE TakeError(c) BY <2>3 DEF TakeError
  <2> QED BY <1>2, <2>1, <2>2, <2>3 DEF WaitStep
<1>3. ASSUME NEW c \in Clients, ScheduleStep(c) PROVE ControlType'
  <2>1. CASE ScheduleCheckError(c) BY <2>1 DEF ScheduleCheckError
  <2>2. CASE ScheduleReadPending(c) BY <2>2 DEF ScheduleReadPending
  <2>3. CASE ScheduleSpawn(c)
    <3>1. CASE slot # NoWorker BY <2>3, <3>1 DEF ScheduleSpawn
    <3>2. CASE slot = NoWorker
      <4> PICK w \in Workers : /\ wpc' = [wpc EXCEPT ![w] = "start"]
                               /\ owned' = [owned EXCEPT ![c] = w]
        BY <2>3, <3>2 DEF ScheduleSpawn
      <4> QED BY <2>3, <3>2 DEF ScheduleSpawn
    <3> QED BY <3>1, <3>2
  <2>4. CASE ScheduleStore(c) BY <2>4 DEF ScheduleStore
  <2>5. CASE ScheduleJoinOwn(c) BY <2>5 DEF ScheduleJoinOwn
  <2> QED BY <1>3, <2>1, <2>2, <2>3, <2>4, <2>5 DEF ScheduleStep
<1>4. ASSUME NEW c \in Clients, SearchStep(c) PROVE ControlType'
  BY <1>4 DEF SearchStep, SearchBegin, SearchEnd
<1>5. ASSUME NEW c \in Clients, WriteStep(c) PROVE ControlType'
  <2>1. PICK o : Locked(c, o)
    BY <1>5 DEF WriteStep, Append, AppendFails, SetMetric, EnsureSync, MarkStale,
                Persist, SyncFails, HardFlush
  <2> QED BY <2>1 DEF Locked
<1>6. ASSUME NEW w \in Workers, WorkerStep(w) PROVE ControlType'
  BY <1>6 DEF WorkerStep, WorkerGoto, BuildBegin, BuildEnd, Publish
<1>7. CASE UNCHANGED vars
  BY <1>7 DEF vars
<1> QED
  BY <1>1, <1>2, <1>3, <1>4, <1>5, <1>6, <1>7 DEF Next, ClientStep, Dropped

\* No step, of a caller or of a flush thread, breaks a type.
LEMMA TypeStep == TypeOK /\ [Next]_vars => TypeOK'
<1> SUFFICES ASSUME TypeOK, [Next]_vars PROVE TypeOK'
  OBVIOUS
<1> DEFINE BuiltType == built \in [Workers -> Indexes]
<1>1. DataType /\ ControlType /\ BuiltType
  BY TypeSplit
<1>2. ControlType'
  BY <1>1, ControlTypeStep
<1>3. /\ \A r \in Nat, m \in Metrics : IndexOf(r, m) \in Indexes
      /\ NoIndex \in Indexes /\ Synced(index) \in Indexes
      /\ \A r \in Nat : InsertTo(r) => index' \in Indexes
  BY <1>1, IndexTypes
<1>4. ASSUME NEW c \in Clients, WriteStep(c) PROVE DataType' /\ BuiltType'
  <2>1. UNCHANGED built
    BY <1>4 DEF WriteStep, Append, AppendFails, SetMetric, EnsureSync, MarkStale,
                Persist, SyncFails, HardFlush, Locked
  <2>2. DataType'
    <3> USE <1>1, <1>3 DEF DataType, Pending, Dirtied
    <3>0. index.rows \in Nat
      BY DEF Indexes
    <3>1. CASE Append(c) BY <3>1, ConfigAssumption DEF Append
    <3>8. CASE AppendFails(c)
      <4>1. PICK k \in 1..(MaxRows - rows) :
              /\ rows' = rows + k /\ unseen' = unseen + k
              /\ \/ /\ unflagged' = IF dirty THEN 0 ELSE unflagged + k
                    /\ UNCHANGED <<index, dirty>>
                 \/ Dirtied /\ \E r \in index.rows..(rows + k - 1) : InsertTo(r)
        BY <3>8 DEF AppendFails
      <4>2. k \in Nat /\ rows + k \in Nat
        BY <4>1, ConfigAssumption
      <4>3. CASE /\ unflagged' = IF dirty THEN 0 ELSE unflagged + k
                 /\ UNCHANGED <<index, dirty>>
        <5>1. unflagged' \in Nat
          BY <4>2, <4>3
        <5> QED BY <3>8, <4>1, <4>2, <4>3, <5>1 DEF AppendFails
      <4>4. CASE Dirtied /\ \E r \in index.rows..(rows + k - 1) : InsertTo(r)
        <5>1. PICK r \in index.rows..(rows + k - 1) : InsertTo(r)
          BY <4>4
        <5>2. r \in Nat
          BY <3>0, <4>2, <5>1
        <5> QED BY <3>8, <4>1, <4>2, <4>4, <5>1, <5>2 DEF AppendFails
      <4> QED BY <4>1, <4>2, <4>3, <4>4
    <3>2. CASE SetMetric(c) BY <3>2 DEF SetMetric, Rescaled, Indexes
    <3>3. CASE EnsureSync(c) BY <3>3 DEF EnsureSync
    <3>4. CASE MarkStale(c) BY <3>4 DEF MarkStale
    <3>5. CASE Persist(c) BY <3>5 DEF Persist
    <3>6. CASE SyncFails(c)
      <4>1. \A r \in index.rows..rows : r \in Nat
        BY <3>0
      <4>2. /\ \E r \in Nat : InsertTo(r)
            /\ disk' = disk \/ disk' = index'
            /\ unflagged' = 0 \/ unflagged' = unflagged
        BY <3>0, <3>6, <4>1 DEF SyncFails
      <4> QED BY <3>6, <4>2 DEF SyncFails
    <3>7. CASE HardFlush(c) BY <3>7 DEF HardFlush
    <3> QED BY <1>4, <3>1, <3>2, <3>3, <3>4, <3>5, <3>6, <3>7, <3>8 DEF WriteStep
  <2> QED BY <1>1, <2>1, <2>2
<1>5. ASSUME NEW w \in Workers, WorkerStep(w) PROVE DataType' /\ BuiltType'
  <2> USE <1>1, <1>3 DEF DataType, data, Pending
  <2>1. CASE BuildBegin(w) BY <2>1 DEF BuildBegin
  <2>2. CASE BuildEnd(w) BY <2>2 DEF BuildEnd
  <2>3. CASE Publish(w) BY <2>3 DEF Publish
  <2> QED BY <1>5, <2>1, <2>2, <2>3 DEF WorkerStep
<1>6. ASSUME UNCHANGED <<data, built>> PROVE DataType' /\ BuiltType'
  BY <1>1, <1>6 DEF DataType, data
<1>7. DataType' /\ BuiltType'
  <2>1. ASSUME NEW c \in Clients, WaitStep(c) \/ ScheduleStep(c) \/ SearchStep(c)
        PROVE  UNCHANGED <<data, built>>
    <3>1. WaitStep(c) => UNCHANGED <<data, built>>
      BY DEF WaitStep, TakeJob, JoinFlush, TakeError
    <3>2. ScheduleStep(c) => UNCHANGED <<data, built>>
      BY DEF ScheduleStep, ScheduleCheckError, ScheduleReadPending, ScheduleSpawn,
             ScheduleStore, ScheduleJoinOwn
    <3>3. SearchStep(c) => UNCHANGED <<data, built>>
      BY DEF SearchStep, SearchBegin, SearchEnd
    <3> QED BY <2>1, <3>1, <3>2, <3>3
  <2>2. ASSUME NEW c \in Clients, NEW o \in SharedOps \cup ExclusiveOps, Call(c, o)
        PROVE  UNCHANGED <<data, built>>
    BY <2>2 DEF Call
  <2>3. UNCHANGED vars => UNCHANGED <<data, built>>
    BY DEF vars, data
  <2> QED
    BY <1>4, <1>5, <1>6, <2>1, <2>2, <2>3 DEF Next, ClientStep, Dropped
<1> QED
  BY <1>2, <1>7 DEF DataType, ControlType, TypeOK, Ops

----------------------------------------------------------------------------
(* Control: who holds which thread, and who may be in which call. *)

\* A call that returns holding nothing, and changes nothing else.
LEMMA ReturnStep ==
  ASSUME TypeOK, Control, NEW c \in Clients, Return(c),
         op[c] \in Ops \ {"none"},
         owned[c] = NoWorker \/ pc[c] \notin {"join", "store", "join_own"},
         op[c] = "close" => slot = NoWorker,
         UNCHANGED <<slot, owned, wpc>>,
         lastError' => lastError
  PROVE  Control'
<1> USE ConfigAssumption DEF Control, Return, TypeOK
<1>1. Places'
  BY DEF Places, ClientPC
<1>2. Borrows'
  BY DEF Borrows, ExclusiveOps
<1>3. Holding'
  BY DEF Holding, Live
<1>4. Settled'
  BY DEF Settled, ExclusiveOps
<1>5. Closed' /\ ClosedQuiet'
  BY DEF Closed, ClosedQuiet, Places, Borrows, ExclusiveOps
<1> QED
  BY <1>1, <1>2, <1>3, <1>4, <1>5

\* A call that goes on from pc[c] to l holding nothing, and changes nothing else.
LEMMA GotoStep ==
  ASSUME TypeOK, Control, NEW c \in Clients, NEW l \in ClientPC \ {"idle"}, Goto(c, l),
         owned[c] = NoWorker, pc[c] # "idle",
         l \notin {"join", "store", "join_own"},
         l \in {"sched_err", "sched_read", "sched_slot"} => op[c] = "schedule",
         l = "searching" => op[c] = "search",
         l \notin {"read"},
         op[c] \in ExclusiveOps =>
           /\ l \in {"check", "write"} => slot = NoWorker
           /\ l = "write" => ~lastError',
         UNCHANGED <<slot, op, owned, wpc, open>>,
         lastError' => lastError
  PROVE  Control'
<1> USE ConfigAssumption DEF Control, Goto, TypeOK
<1>1. Places'
  BY DEF Places, ClientPC
<1>2. Borrows'
  BY DEF Borrows, ExclusiveOps
<1>3. Holding'
  BY DEF Holding, Live
<1>4. Settled'
  BY DEF Settled, ExclusiveOps
<1>5. Closed' /\ ClosedQuiet'
  BY DEF Closed, ClosedQuiet
<1> QED
  BY <1>1, <1>2, <1>3, <1>4, <1>5

\* The first step of a call: the borrow of &mut keeps the others out.
LEMMA CallControl ==
  ASSUME TypeOK, Control, NEW c \in Clients, NEW o \in SharedOps \cup ExclusiveOps,
         Call(c, o)
  PROVE  Control'
<1> USE ConfigAssumption DEF Control, Call, Goto, TypeOK
<1>1. FirstStep(o) \in {"take", "sched_err", "read", "write"}
  BY DEF FirstStep
<1>2. Places'
  BY <1>1 DEF Places, FirstStep, SharedOps, ExclusiveOps, ClientPC
<1>3. Borrows'
  BY DEF Borrows, SharedOps, ExclusiveOps
<1>4. Holding'
  BY DEF Holding, Live
<1>5. Settled'
  BY <1>1 DEF Settled, FirstStep, ExclusiveOps
<1>6. Closed' /\ ClosedQuiet'
  BY DEF Closed, ClosedQuiet
<1> QED
  BY <1>2, <1>3, <1>4, <1>5, <1>6

\* wait_for_flush: taking the slot, joining its thread, reporting its error.
LEMMA WaitControl ==
  ASSUME TypeOK, Control, NEW c \in Clients, WaitStep(c)
  PROVE  Control'
<1> USE ConfigAssumption
<1>1. CASE TakeJob(c)
  <2>1. CASE slot = NoWorker
    BY <1>1, <2>1, GotoStep DEF TakeJob, Control, Places, ClientPC, TypeOK
  <2>2. CASE slot # NoWorker
    <3> USE <1>1, <2>2 DEF TakeJob, Control, Goto, TypeOK
    <3>1. Places' BY DEF Places, ClientPC
    <3>2. Borrows' BY DEF Borrows, ExclusiveOps
    <3>3. Holding' BY DEF Holding, Live, Places
    <3>4. Settled' BY DEF Settled, ExclusiveOps
    <3>5. Closed' /\ ClosedQuiet' BY DEF Closed, ClosedQuiet
    <3> QED BY <3>1, <3>2, <3>3, <3>4, <3>5
  <2> QED BY <2>1, <2>2
<1>2. CASE JoinFlush(c)
  <2> USE <1>2 DEF JoinFlush, Control, Goto, Return, TypeOK
  <2>1. owned[c] \in Workers
    BY DEF Places
  <2>2. Places' BY DEF Places, ClientPC
  <2>3. Borrows' BY DEF Borrows, ExclusiveOps
  <2>4. Holding' BY <2>1 DEF Holding, Live
  <2>5. Settled' BY DEF Settled, Borrows, ExclusiveOps, Places
  <2>6. Closed' /\ ClosedQuiet'
    BY DEF Closed, ClosedQuiet, Borrows, Settled, ExclusiveOps
  <2> QED BY <2>2, <2>3, <2>4, <2>5, <2>6
<1>3. CASE TakeError(c)
  <2> USE <1>3 DEF TakeError, Control
  <2>1. owned[c] = NoWorker /\ op[c] \in Ops \ {"none"}
    BY DEF Places, TypeOK, Ops
  <2>2. op[c] \in ExclusiveOps => slot = NoWorker
    BY DEF Settled
  <2>3. CASE lastError \/ op[c] = "wait"
    BY <2>1, <2>2, <2>3, ReturnStep DEF ExclusiveOps, TypeOK
  <2>4. CASE ~(lastError \/ op[c] = "wait")
    BY <2>1, <2>2, <2>4, GotoStep DEF ClientPC
  <2> QED BY <2>3, <2>4
<1> QED BY <1>1, <1>2, <1>3 DEF WaitStep

\* A call under the write lock changes no thread's place but its own.
LEMMA WriteControl ==
  ASSUME TypeOK, Control, NEW c \in Clients, WriteStep(c)
  PROVE  Control'
<1>1. PICK o : Locked(c, o)
  BY DEF WriteStep, Append, AppendFails, SetMetric, EnsureSync, MarkStale, Persist,
         SyncFails, HardFlush
<1>2. /\ owned[c] = NoWorker
      /\ op[c] \in Ops \ {"none"}
      /\ op[c] \in ExclusiveOps => slot = NoWorker
  BY <1>1 DEF Locked, Control, Places, Settled, TypeOK, Ops
<1> QED
  BY <1>1, <1>2, ReturnStep DEF Locked, ExclusiveOps

\* schedule_flush: a thread spawned is held by the slot or by who spawned it.
LEMMA ScheduleControl ==
  ASSUME TypeOK, Control, NEW c \in Clients, ScheduleStep(c)
  PROVE  Control'
<1> USE ConfigAssumption
<1>1. op[c] = "schedule"
  BY DEF ScheduleStep, ScheduleCheckError, ScheduleReadPending, ScheduleSpawn,
         ScheduleStore, ScheduleJoinOwn, Control, Places
<1>2. op[c] \in Ops \ {"none"} /\ op[c] # "close" /\ op[c] \notin ExclusiveOps
  BY <1>1 DEF Ops, SharedOps, ExclusiveOps
<1>3. CASE ScheduleCheckError(c)
  <2>1. owned[c] = NoWorker
    BY <1>3 DEF ScheduleCheckError, Control, Places
  <2> QED
    BY <1>1, <1>2, <1>3, <2>1, ReturnStep, GotoStep DEF ScheduleCheckError, ClientPC
<1>4. CASE ScheduleReadPending(c)
  <2>1. owned[c] = NoWorker
    BY <1>4 DEF ScheduleReadPending, Control, Places
  <2>2. CASE pending < Soft
    BY <1>2, <1>4, <2>1, <2>2, ReturnStep DEF ScheduleReadPending
  <2>3. CASE ~(pending < Soft)
    <3>1. PICK l \in {"take", "sched_slot"} : Goto(c, l)
      BY <1>4, <2>3 DEF ScheduleReadPending
    <3> QED
      BY <1>1, <1>2, <1>4, <2>1, <2>3, <3>1, GotoStep DEF ScheduleReadPending, ClientPC
  <2> QED BY <2>2, <2>3
<1>5. CASE ScheduleSpawn(c)
  <2>1. owned[c] = NoWorker
    BY <1>5 DEF ScheduleSpawn, Control, Places
  <2>2. CASE slot # NoWorker
    BY <1>2, <1>5, <2>1, <2>2, ReturnStep DEF ScheduleSpawn
  <2>3. CASE slot = NoWorker
    <3>1. PICK w \in Workers : /\ wpc[w] = "free"
                               /\ wpc' = [wpc EXCEPT ![w] = "start"]
                               /\ owned' = [owned EXCEPT ![c] = w]
                               /\ Goto(c, "store")
                               /\ UNCHANGED <<op, open>>
      BY <1>5, <2>3 DEF ScheduleSpawn
    <3>2. pc[c] = "sched_slot" /\ UNCHANGED <<slot, lastError>>
      BY <1>5 DEF ScheduleSpawn
    <3> USE <1>1, <1>2, <2>1, <2>3, <3>1, <3>2 DEF Control, Goto, TypeOK
    <3>3. Places' BY DEF Places, ClientPC
    <3>4. Borrows' BY DEF Borrows, ExclusiveOps
    <3>5. Holding' BY DEF Holding, Live
    <3>6. Settled' BY DEF Settled, ExclusiveOps
    <3>7. Closed' /\ ClosedQuiet' BY DEF Closed, ClosedQuiet
    <3> QED BY <3>3, <3>4, <3>5, <3>6, <3>7
  <2> QED BY <2>2, <2>3
<1>6. CASE ScheduleStore(c)
  <2>1. CASE slot = NoWorker
    <3> USE <1>1, <1>2, <1>6, <2>1 DEF ScheduleStore, Control, Return, TypeOK
    <3>1. owned[c] \in Workers BY DEF Places
    <3>2. Places' BY DEF Places, ClientPC
    <3>3. Borrows' BY DEF Borrows, ExclusiveOps
    <3>4. Holding' BY <3>1 DEF Holding, Live
    <3>5. Settled' BY DEF Settled, Borrows, ExclusiveOps
    <3>6. Closed' /\ ClosedQuiet' BY DEF Closed, ClosedQuiet
    <3> QED BY <3>2, <3>3, <3>4, <3>5, <3>6
  <2>2. CASE slot # NoWorker
    <3> USE <1>1, <1>2, <1>6, <2>2 DEF ScheduleStore, Control, Goto, TypeOK
    <3>1. Places' BY DEF Places, ClientPC
    <3>2. Borrows' BY DEF Borrows, ExclusiveOps
    <3>3. Holding' BY DEF Holding, Live
    <3>4. Settled' BY DEF Settled, ExclusiveOps
    <3>5. Closed' /\ ClosedQuiet' BY DEF Closed, ClosedQuiet
    <3> QED BY <3>1, <3>2, <3>3, <3>4, <3>5
  <2> QED BY <2>1, <2>2
<1>7. CASE ScheduleJoinOwn(c)
  <2> USE <1>1, <1>2, <1>7 DEF ScheduleJoinOwn, Control, Return, TypeOK
  <2>1. owned[c] \in Workers BY DEF Places
  <2>2. Places' BY DEF Places, ClientPC
  <2>3. Borrows' BY DEF Borrows, ExclusiveOps
  <2>4. Holding' BY <2>1 DEF Holding, Live
  <2>5. Settled' BY DEF Settled, ExclusiveOps
  <2>6. Closed' /\ ClosedQuiet' BY DEF Closed, ClosedQuiet
  <2> QED BY <2>2, <2>3, <2>4, <2>5, <2>6
<1> QED
  BY <1>3, <1>4, <1>5, <1>6, <1>7 DEF ScheduleStep

\* A search borrows the model for reading only.
LEMMA SearchControl ==
  ASSUME TypeOK, Control, NEW c \in Clients, SearchStep(c)
  PROVE  Control'
<1>1. op[c] = "search" /\ owned[c] = NoWorker
  BY DEF SearchStep, SearchBegin, SearchEnd, Control, Places
<1>2. op[c] \in Ops \ {"none"} /\ op[c] \notin ExclusiveOps
  BY <1>1 DEF Ops, SharedOps, ExclusiveOps
<1>3. CASE SearchBegin(c)
  BY <1>1, <1>2, <1>3, GotoStep DEF SearchBegin, ClientPC
<1>4. CASE SearchEnd(c)
  BY <1>1, <1>2, <1>4, ReturnStep DEF SearchEnd
<1> QED
  BY <1>3, <1>4 DEF SearchStep

\* A flush thread stays with its holder until it is joined.
LEMMA WorkerControl ==
  ASSUME TypeOK, Control, NEW w \in Workers, WorkerStep(w)
  PROVE  Control'
<1>1. /\ wpc[w] # "free"
      /\ \E l \in WorkerPC \ {"free"} : wpc' = [wpc EXCEPT ![w] = l]
      /\ UNCHANGED <<slot, lastError, pc, op, owned, open>>
  BY DEF WorkerStep, BuildBegin, BuildEnd, Publish, WorkerGoto, WorkerPC
<1> QED
  BY <1>1 DEF Control, Places, Borrows, Holding, Settled, Closed, ClosedQuiet, Live,
              TypeOK

\* Who holds which thread is kept right by every step.
LEMMA ControlStep == TypeOK /\ Control /\ [Next]_vars => Control'
<1>1. Control /\ UNCHANGED vars => Control'
  BY DEF vars, Control, Places, Borrows, Holding, Settled, Closed, ClosedQuiet, Live
<1> QED
  BY <1>1, CallControl, WaitControl, WriteControl, ScheduleControl, SearchControl,
     WorkerControl
  DEF Next, ClientStep, Dropped

----------------------------------------------------------------------------
(* Data: what the exclusive calls and the flush threads do to the index. *)

\* No flush thread is left once an exclusive call is past its join.
LEMMA Alone ==
  ASSUME TypeOK, Control, NEW c \in Clients,
         op[c] \in ExclusiveOps, pc[c] \in {"check", "write"}
  PROVE  slot = NoWorker /\ \A w \in Workers : ~Live(w)
<1>1. slot = NoWorker
  BY DEF Control, Settled
<1>2. \A d \in Clients : owned[d] = NoWorker
  BY DEF Control, Borrows, Places, TypeOK
<1> QED
  BY <1>1, <1>2, ConfigAssumption DEF Control, Holding

\* In an index that is in today's metric every insertion keeps it there.
LEMMA InsertKeepsMetric ==
  ASSUME TypeOK, Data
  PROVE  /\ Synced(index) = IndexOf(rows, metric)
         /\ \A r : InsertTo(r) <=> index' = IndexOf(r, metric)
  BY DEF Data, Synced, InsertTo, IndexOf, TypeOK, Indexes

\* No step loses pending rows, a metric or the dirty flag.
LEMMA DataStep == TypeOK /\ Control /\ Fresh /\ Data /\ [Next]_vars => Fresh' /\ Data'
<1> SUFFICES ASSUME TypeOK, Control, Fresh, Data, [Next]_vars PROVE Fresh' /\ Data'
  OBVIOUS
<1> USE ConfigAssumption
<1>1. /\ index \in Indexes /\ disk \in Indexes /\ rows \in Nat /\ pending \in Nat
      /\ unseen \in Nat /\ unflagged \in Nat /\ dirty \in BOOLEAN
  BY DEF TypeOK
<1>2. index.rows \in Nat /\ disk.rows \in Nat /\ index = IndexOf(index.rows, metric)
  BY <1>1 DEF Data, Indexes, IndexOf
<1>3. \A r, m : IndexOf(r, m).rows = r /\ IndexOf(r, m).metric = m
  BY DEF IndexOf
<1>4. ASSUME NEW c \in Clients, WriteStep(c) PROVE Fresh' /\ Data'
  <2> USE DEF Pending, Dirtied
  <2>1. CASE Append(c)
    <3>1. \A w \in Workers : wpc[w] # "publish"
      BY <2>1, Alone DEF Append, Locked, ExclusiveOps, Live
    <3>2. PICK k \in 1..(MaxRows - rows) : rows' = rows + k /\ InsertTo(rows + k)
      BY <2>1 DEF Append
    <3>3. index' = IndexOf(rows', metric) /\ rows' \in Nat
      BY <1>1, <3>2, InsertKeepsMetric
    <3> QED
      BY <1>3, <2>1, <3>1, <3>3 DEF Append, Locked, Fresh, Data
  <2>8. CASE AppendFails(c)
    <3>1. \A w \in Workers : wpc[w] # "publish"
      BY <2>8, Alone DEF AppendFails, Locked, ExclusiveOps, Live
    <3>2. PICK k \in 1..(MaxRows - rows) :
            /\ rows' = rows + k /\ unseen' = unseen + k
            /\ \/ /\ unflagged' = IF dirty THEN 0 ELSE unflagged + k
                  /\ UNCHANGED <<index, dirty>>
               \/ Dirtied /\ \E r \in index.rows..(rows + k - 1) : InsertTo(r)
      BY <2>8 DEF AppendFails
    <3>3. k \in Nat /\ UNCHANGED <<wpc, metric, pending, disk>>
      BY <1>1, <2>8, <3>2 DEF AppendFails, Locked
    <3>4. CASE /\ unflagged' = IF dirty THEN 0 ELSE unflagged + k
               /\ UNCHANGED <<index, dirty>>
      BY <1>1, <1>2, <3>1, <3>2, <3>3, <3>4 DEF Fresh, Data
    <3>5. CASE Dirtied /\ \E r \in index.rows..(rows + k - 1) : InsertTo(r)
      <4>1. PICK r \in index.rows..(rows + k - 1) : index' = IndexOf(r, metric)
        BY <3>5, InsertKeepsMetric
      <4>2. r \in Nat /\ index.rows <= r /\ r <= rows + k
        BY <1>1, <1>2, <3>3, <4>1
      <4> QED
        BY <1>1, <1>2, <1>3, <3>1, <3>2, <3>3, <3>5, <4>1, <4>2 DEF Fresh, Data
    <3> QED BY <3>2, <3>4, <3>5
  <2>2. CASE SetMetric(c)
    <3>1. \A w \in Workers : wpc[w] # "publish"
      BY <2>2, Alone DEF SetMetric, Locked, ExclusiveOps, Live
    <3>2. index'.rows = index.rows /\ index'.metric = metric'
      BY <1>1, <2>2 DEF SetMetric, Rescaled, Data, Indexes
    <3> QED
      BY <2>2, <3>1, <3>2 DEF SetMetric, Locked, Fresh, Data
  <2>3. CASE EnsureSync(c)
    <3>1. index' = IndexOf(rows, metric)
      BY <1>1, <1>2, <2>3, InsertKeepsMetric DEF EnsureSync, Data
    <3> QED
      BY <1>1, <1>3, <2>3, <3>1 DEF EnsureSync, Locked, Fresh, Data
  <2>4. CASE MarkStale(c)
    BY <1>1, <1>3, <2>4 DEF MarkStale, Locked, Fresh, Data
  <2>5. CASE Persist(c)
    <3>1. UNCHANGED <<wpc, built, rows, metric>> /\ pending' = 0 /\ unseen' = 0
          /\ unflagged' = 0
      BY <2>5 DEF Persist, Locked
    <3>2. CASE NeedsDiskRewrite
      <4>1. index' = IndexOf(rows, metric) /\ disk' = IndexOf(rows, metric)
        BY <2>5, <3>2, InsertKeepsMetric DEF Persist
      <4> QED BY <1>1, <1>3, <3>1, <4>1 DEF Fresh, Data
    <3>3. CASE ~NeedsDiskRewrite
      <4>1. disk.rows = rows /\ (index.rows > 0 => disk = index)
            /\ (~(index.rows > 0) => rows = 0)
        BY <3>3 DEF NeedsDiskRewrite
      <4>2. index.rows = rows
        BY <1>1, <1>2, <4>1 DEF Data
      <4>3. UNCHANGED <<index, disk>>
        BY <2>5, <3>3 DEF Persist
      <4> QED BY <1>1, <3>1, <4>1, <4>2, <4>3 DEF Fresh, Data
    <3> QED BY <3>2, <3>3
  <2>6. CASE SyncFails(c)
    <3>1. UNCHANGED <<wpc, built, rows, metric, pending, dirty, unseen>>
      BY <2>6 DEF SyncFails, Locked
    <3>2. PICK r \in index.rows..rows :
            /\ InsertTo(r)
            /\ UNCHANGED <<disk, unflagged>> \/ (r = rows /\ disk' = index' /\ unflagged' = 0)
      BY <1>1, <1>2, <2>6 DEF SyncFails, Data
    <3>3. index' = IndexOf(r, metric) /\ r \in Nat /\ index.rows <= r /\ r <= rows
      BY <1>1, <1>2, <3>2, InsertKeepsMetric
    <3>4. UNCHANGED <<disk, unflagged>> \/ (disk'.rows = rows /\ unflagged' = 0)
      BY <1>3, <3>2, <3>3
    <3> QED
      BY <1>1, <1>2, <1>3, <3>1, <3>3, <3>4 DEF Fresh, Data
  <2>7. CASE HardFlush(c)
    <3>1. UNCHANGED <<wpc, built, rows, metric, dirty, disk, unflagged>>
      BY <2>7 DEF HardFlush, Locked
    <3>2. \/ index' = IndexOf(rows, metric) /\ pending' = 0 /\ unseen' = 0
          \/ UNCHANGED <<index, pending, unseen>>
      BY <1>1, <2>7, InsertKeepsMetric DEF HardFlush
    <3> QED BY <1>1, <1>3, <3>1, <3>2 DEF Fresh, Data
  <2> QED BY <1>4, <2>1, <2>2, <2>3, <2>4, <2>5, <2>6, <2>7, <2>8 DEF WriteStep
<1>5. ASSUME NEW w \in Workers, WorkerStep(w) PROVE Fresh' /\ Data'
  <2>1. CASE BuildBegin(w)
    BY <2>1 DEF BuildBegin, WorkerGoto, Fresh, Data, data, TypeOK
  <2>2. CASE BuildEnd(w)
    BY <2>2, InsertKeepsMetric DEF BuildEnd, WorkerGoto, Fresh, Data, data, TypeOK
  <2>3. CASE Publish(w)
    <3>1. index' = IndexOf(rows, metric)
      BY <2>3 DEF Publish, Fresh
    <3> QED
      BY <1>1, <1>3, <2>3, <3>1 DEF Publish, Pending, WorkerGoto, Fresh, Data, TypeOK
  <2> QED BY <1>5, <2>1, <2>2, <2>3 DEF WorkerStep
<1>6. ASSUME NEW c \in Clients, WaitStep(c) \/ ScheduleStep(c) \/ SearchStep(c)
      PROVE  Fresh' /\ Data'
  <2>1. UNCHANGED <<data, built>>
        /\ \A w \in Workers : wpc'[w] = "publish" => wpc[w] = "publish"
    <3> USE DEF TypeOK
    <3>1. CASE WaitStep(c)
      BY <3>1 DEF WaitStep, TakeJob, JoinFlush, TakeError
    <3>2. CASE ScheduleStep(c)
      BY <3>2 DEF ScheduleStep, ScheduleCheckError, ScheduleReadPending, ScheduleSpawn,
                  ScheduleStore, ScheduleJoinOwn
    <3>3. CASE SearchStep(c)
      BY <3>3 DEF SearchStep, SearchBegin, SearchEnd
    <3> QED BY <1>6, <3>1, <3>2, <3>3
  <2> QED BY <2>1 DEF data, Fresh, Data
<1>7. ASSUME NEW c \in Clients, NEW o \in SharedOps \cup ExclusiveOps, Call(c, o)
      PROVE  Fresh' /\ Data'
  BY <1>7 DEF Call, data, Fresh, Data
<1>8. CASE UNCHANGED vars
  BY <1>8 DEF vars, Fresh, Data
<1> QED
  BY <1>4, <1>5, <1>6, <1>7, <1>8 DEF Next, ClientStep, Dropped

----------------------------------------------------------------------------
\* All of it together is inductive.
THEOREM Invariance == Spec => []IInv
<1>1. Init => IInv
  BY InitInv
<1>2. IInv /\ [Next]_vars => IInv'
  BY TypeStep, ControlStep, DataStep DEF IInv
<1> QED
  BY <1>1, <1>2, PTL DEF Spec

\* Every variable keeps its type, whatever the threads do.
THEOREM TypeCorrect == Spec => []TypeOK
<1>1. IInv => TypeOK
  BY DEF IInv
<1> QED
  BY <1>1, Invariance, PTL

\* An add, a metric change or a drop reaches its critical section with no flush
\* thread left that could publish, and no flush error left unreported.
THEOREM ExclusiveCallsAreSettled == Spec => []ExclusiveSettled
<1>1. IInv => ExclusiveSettled
  <2> SUFFICES ASSUME IInv, NEW c \in Clients, op[c] \in ExclusiveOps, pc[c] = "write"
               PROVE  slot = NoWorker /\ ~lastError /\ \A w \in Workers : ~Live(w)
    BY DEF ExclusiveSettled
  <2> QED
    BY Alone DEF IInv, Control, Settled
<1> QED
  BY <1>1, Invariance, PTL

\* No stale build is published: the index is always in the searches' metric and
\* never ahead of the rows.
THEOREM IndexStaysInMetric == Spec => []IndexInMetric
<1>1. IInv => IndexInMetric
  BY DEF IInv, Data, IndexInMetric
<1> QED
  BY <1>1, Invariance, PTL

\* The pending count hides no unindexed row from the flush thresholds but those
\* of appends that failed since it was last set.
THEOREM PendingNeverUnderReports == Spec => []PendingCoversGap
<1>1. IInv => PendingCoversGap
  BY DEF IInv, Data, PendingCoversGap
<1> QED
  BY <1>1, Invariance, PTL

\* A backend that is not dirty lacks in its index files only the rows of appends
\* that failed before they set the flag, and then the next persist writes.
THEOREM CleanIsPersisted == Spec => []CleanMeansPersisted
<1>1. IInv => CleanMeansPersisted
  BY DEF IInv, TypeOK, Indexes, Data, CleanMeansPersisted, NeedsDiskRewrite
<1> QED
  BY <1>1, Invariance, PTL

\* Drop leaves no flush thread behind.
THEOREM DropIsQuiet == Spec => []DroppedQuiet
<1>1. IInv => DroppedQuiet
  BY ConfigAssumption
     DEF IInv, Control, Closed, ClosedQuiet, Holding, Places, TypeOK, DroppedQuiet
<1> QED
  BY <1>1, Invariance, PTL

\* No flush failure is lost, but for the one thread whose handle is dropped
\* when it loses the race for the slot.
THEOREM FailuresAreReported == Spec => FailureReported
<1>1. IInv /\ [Next]_vars => [FailureStep]_vars
  <2> SUFFICES ASSUME IInv, Next PROVE FailureStep
    BY DEF vars
  <2> USE DEF IInv, TypeOK, FailureStep
  <2>1. ASSUME NEW c \in Clients, NEW o \in SharedOps \cup ExclusiveOps, Call(c, o)
        PROVE  FailureStep
    BY <2>1 DEF Call
  <2>2. ASSUME NEW c \in Clients, WaitStep(c) PROVE FailureStep
    <3>1. CASE TakeJob(c) BY <3>1 DEF TakeJob
    <3>2. CASE JoinFlush(c) BY <3>2 DEF JoinFlush
    <3>3. CASE TakeError(c) BY <3>3 DEF TakeError, Return
    <3> QED BY <2>2, <3>1, <3>2, <3>3 DEF WaitStep
  <2>3. ASSUME NEW c \in Clients, WriteStep(c) PROVE FailureStep
    BY <2>3 DEF WriteStep, Append, AppendFails, SetMetric, EnsureSync, MarkStale,
                Persist, SyncFails, HardFlush, Locked
  <2>4. ASSUME NEW c \in Clients, ScheduleStep(c) PROVE FailureStep
    <3>1. CASE ScheduleCheckError(c) BY <3>1 DEF ScheduleCheckError
    <3>2. CASE ScheduleReadPending(c) BY <3>2 DEF ScheduleReadPending
    <3>3. CASE ScheduleSpawn(c) BY <3>3 DEF ScheduleSpawn
    <3>4. CASE ScheduleStore(c) BY <3>4 DEF ScheduleStore
    <3>5. CASE ScheduleJoinOwn(c) BY <3>5 DEF ScheduleJoinOwn
    <3> QED BY <2>4, <3>1, <3>2, <3>3, <3>4, <3>5 DEF ScheduleStep
  <2>5. ASSUME NEW c \in Clients, SearchStep(c) PROVE FailureStep
    BY <2>5 DEF SearchStep, SearchBegin, SearchEnd
  <2>6. ASSUME NEW w \in Workers, WorkerStep(w) PROVE FailureStep
    BY <2>6 DEF WorkerStep, BuildBegin, BuildEnd, Publish, WorkerGoto
  <2>7. Dropped => FailureStep
    BY DEF Dropped, vars
  <2> QED
    BY <2>1, <2>2, <2>3, <2>4, <2>5, <2>6, <2>7 DEF Next, ClientStep
<1> QED
  BY <1>1, Invariance, PTL DEF Spec, FailureReported

----------------------------------------------------------------------------
(* Refinement. *)

\* The controller starts where the service starts.
LEMMA ServiceInit == Init => Service!Init
  BY DEF Init, Service!Init, NoIndex, IndexOf, Service!IndexOf

\* A step of the controller is a step of the service, or changes nothing it sees.
LEMMA ServiceStep == IInv /\ [Next]_vars => [Service!Next]_(Service!vars)
<1> SUFFICES ASSUME IInv, [Next]_vars PROVE [Service!Next]_(Service!vars)
  OBVIOUS
<1> USE ConfigAssumption
<1>1. TypeOK /\ Control /\ Data /\ Fresh
  BY DEF IInv
<1>2. /\ rows \in Nat /\ index.rows \in Nat /\ index.rows <= rows
      /\ index = IndexOf(index.rows, metric)
  BY <1>1 DEF TypeOK, Data, Indexes, IndexOf
<1>3. \A r, m : IndexOf(r, m) = Service!IndexOf(r, m)
  BY DEF IndexOf, Service!IndexOf
<1>4. \A c \in Clients : pc[c] # "idle" => open
  BY <1>1 DEF Control, Closed
<1>5. \A w \in Workers : Live(w) => open
  BY <1>1 DEF Control, Closed, ClosedQuiet, Holding, Places, TypeOK
<1>6. ASSUME UNCHANGED <<rows, metric, index, disk, unseen>>,
             open' = open \/ open' = FALSE
      PROVE  [Service!Next]_(Service!vars)
  <2>1. CASE open' = open
    BY <1>6, <2>1 DEF Service!vars
  <2>2. CASE open' # open
    <3>1. open = TRUE /\ open' = FALSE
      BY <1>1, <1>6, <2>2 DEF TypeOK
    <3>2. index' = Service!IndexOf(index.rows, metric) /\ index.rows \in index.rows..rows
      BY <1>2, <1>3, <1>6
    <3> QED BY <1>6, <3>1, <3>2 DEF Service!Next, Service!Drop, Service!IndexUpTo
  <2> QED BY <2>1, <2>2
<1>7. ASSUME NEW c \in Clients, Return(c), pc[c] # "idle" PROVE open' = open \/ open' = FALSE
  BY <1>1, <1>4, <1>7 DEF Return, TypeOK
<1>8. ASSUME NEW c \in Clients, WriteStep(c) PROVE [Service!Next]_(Service!vars)
  <2>1. PICK o : Locked(c, o)
    BY <1>8 DEF WriteStep, Append, AppendFails, SetMetric, EnsureSync, MarkStale,
                Persist, SyncFails, HardFlush
  <2>2. open /\ open' = (op[c] # "close") /\ op[c] = o
    BY <1>4, <2>1 DEF Locked, Return
  <2> USE DEF Pending, Dirtied
  <2>3. CASE Append(c)
    <3>1. op[c] = "add"
      BY <2>3 DEF Append, Locked
    <3>2. PICK k \in 1..(MaxRows - rows) : rows' = rows + k /\ InsertTo(rows + k)
      BY <2>3 DEF Append
    <3>3. rows' \in Nat /\ rows' > rows /\ index' = Service!IndexOf(rows', metric)
      BY <1>1, <1>2, <1>3, <3>2, InsertKeepsMetric
    <3> QED
      BY <1>1, <2>2, <2>3, <3>1, <3>3 DEF Append, TypeOK, Service!Next, Service!AppendRows
  <2>11. CASE AppendFails(c)
    <3>1. op[c] = "add" /\ open' = open /\ UNCHANGED <<metric, disk>>
      BY <1>1, <2>2, <2>11 DEF AppendFails, Locked, TypeOK
    <3>2. PICK k \in 1..(MaxRows - rows) :
            /\ rows' = rows + k /\ unseen' = unseen + k
            /\ \/ UNCHANGED <<index, dirty>>
               \/ \E r \in index.rows..(rows + k - 1) : InsertTo(r)
      BY <2>11 DEF AppendFails
    <3>3. rows' \in Nat /\ rows' > rows /\ rows' - rows = k /\ index.rows <= rows
      BY <1>2, <3>2
    <3>4. \E r \in index.rows..(rows' - 1) : index' = Service!IndexOf(r, metric)
      <4>1. CASE UNCHANGED <<index, dirty>>
        <5>1. index.rows \in index.rows..(rows' - 1)
          BY <1>2, <3>2, <3>3
        <5> QED BY <1>2, <1>3, <4>1, <5>1
      <4>2. CASE \E r \in index.rows..(rows + k - 1) : InsertTo(r)
        <5>1. PICK r \in index.rows..(rows + k - 1) : InsertTo(r)
          BY <4>2
        <5>2. index' = IndexOf(r, metric)
          BY <1>1, <5>1, InsertKeepsMetric
        <5>3. r \in index.rows..(rows' - 1)
          BY <1>2, <3>2, <5>1
        <5>4. index' = Service!IndexOf(r, metric)
          BY <1>3, <5>2
        <5> QED BY <5>3, <5>4
      <4> QED BY <3>2, <4>1, <4>2
    <3> QED
      BY <2>2, <3>1, <3>2, <3>3, <3>4 DEF Service!Next, Service!AppendFails
  <2>4. CASE SetMetric(c)
    <3>1. op[c] = "metric"
      BY <2>4 DEF SetMetric, Locked
    <3>2. PICK m \in Metrics : metric' = m /\ index' = Rescaled(index, m)
      BY <2>4 DEF SetMetric
    <3>3. index' = Service!IndexOf(index.rows, m)
      BY <1>2, <1>3, <3>2 DEF Rescaled, IndexOf
    <3> QED
      BY <1>1, <2>2, <2>4, <3>1, <3>2, <3>3
      DEF SetMetric, TypeOK, Service!Next, Service!ChangeMetric
  <2>5. ASSUME UNCHANGED <<rows, metric, disk>>, op[c] # "close",
               NEW r \in index.rows..rows, index' = IndexOf(r, metric),
               unseen' = unseen \/ (r = rows /\ unseen' = 0)
        PROVE  [Service!Next]_(Service!vars)
    BY <1>1, <1>3, <2>2, <2>5 DEF TypeOK, Service!Next, Service!CatchUp, Service!IndexUpTo
  <2>6. CASE EnsureSync(c)
    <3>1. index' = IndexOf(rows, metric) /\ rows \in index.rows..rows
      BY <1>1, <1>2, <2>6, InsertKeepsMetric DEF EnsureSync
    <3> QED BY <2>5, <2>6, <3>1 DEF EnsureSync, Locked
  <2>7. CASE MarkStale(c)
    BY <1>1, <1>3, <2>2, <2>7 DEF MarkStale, Locked, TypeOK, Service!Next, Service!Reset
  <2>12. ASSUME UNCHANGED <<rows, metric>>, index' = IndexOf(rows, metric), disk' = index',
                unseen' = unseen \/ unseen' = 0
         PROVE  [Service!Next]_(Service!vars)
    <3>1. Service!IndexUpTo(rows)
      BY <1>3, <2>12 DEF Service!IndexUpTo
    <3>2. CASE op[c] = "close"
      BY <2>2, <2>12, <3>1, <3>2 DEF Service!Next, Service!Drop
    <3>3. CASE op[c] # "close"
      BY <1>1, <2>2, <2>12, <3>1, <3>3 DEF TypeOK, Service!Next, Service!PersistAll
    <3> QED BY <3>2, <3>3
  <2>13. ASSUME UNCHANGED <<rows, metric, disk>>, op[c] = "close",
                NEW r \in index.rows..rows, index' = IndexOf(r, metric),
                unseen' = unseen \/ (r = rows /\ unseen' = 0)
         PROVE  [Service!Next]_(Service!vars)
    <3>1. Service!IndexUpTo(r)
      BY <1>3, <2>13 DEF Service!IndexUpTo
    <3> QED
      BY <2>2, <2>13, <3>1 DEF Service!Next, Service!Drop
  <2>8. CASE Persist(c)
    <3>1. UNCHANGED <<rows, metric>> /\ unseen' = 0
      BY <2>8 DEF Persist
    <3>2. CASE NeedsDiskRewrite
      <4>1. index' = IndexOf(rows, metric) /\ disk' = index'
        BY <1>1, <2>8, <3>2, InsertKeepsMetric DEF Persist
      <4> QED BY <2>12, <3>1, <4>1
    <3>3. CASE ~NeedsDiskRewrite
      <4>1. UNCHANGED <<index, disk>>
        BY <2>8, <3>3 DEF Persist
      <4>2. index.rows = rows
        BY <1>2, <3>3 DEF NeedsDiskRewrite
      <4>3. index' = IndexOf(rows, metric) /\ rows \in index.rows..rows
        BY <1>2, <4>1, <4>2
      <4> QED BY <2>5, <2>13, <3>1, <4>1, <4>3
    <3> QED BY <3>2, <3>3
  <2>9. CASE SyncFails(c)
    <3>1. UNCHANGED <<rows, metric, unseen>>
      BY <2>9 DEF SyncFails
    <3>2. CASE UNCHANGED disk
      <4>1. PICK r \in index.rows..rows : InsertTo(r)
        BY <1>2, <2>9, <3>2 DEF SyncFails
      <4>2. index' = IndexOf(r, metric)
        BY <1>1, <4>1, InsertKeepsMetric
      <4> QED BY <2>5, <2>13, <3>1, <3>2, <4>2
    <3>3. CASE InsertTo(rows) /\ disk' = index'
      <4>1. index' = IndexOf(rows, metric)
        BY <1>1, <3>3, InsertKeepsMetric
      <4> QED BY <2>12, <3>1, <3>3, <4>1
    <3> QED BY <2>9, <3>2, <3>3 DEF SyncFails
  <2>10. CASE HardFlush(c)
    <3>1. op[c] = "schedule" /\ UNCHANGED <<rows, metric, disk>>
      BY <2>10 DEF HardFlush, Locked
    <3>2. \/ UNCHANGED <<index, unseen>>
          \/ index' = IndexOf(rows, metric) /\ unseen' = 0
      BY <1>1, <2>10, InsertKeepsMetric DEF HardFlush
    <3>3. rows \in index.rows..rows /\ index.rows \in index.rows..rows
      BY <1>2
    <3> QED BY <1>2, <2>5, <3>1, <3>2, <3>3
  <2> QED
    BY <1>8, <2>3, <2>4, <2>6, <2>7, <2>8, <2>9, <2>10, <2>11 DEF WriteStep
<1>9. ASSUME NEW w \in Workers, WorkerStep(w) PROVE [Service!Next]_(Service!vars)
  <2>1. CASE BuildBegin(w) \/ BuildEnd(w)
    BY <1>6, <2>1 DEF BuildBegin, BuildEnd, data
  <2>2. CASE Publish(w)
    <3>1. /\ open /\ UNCHANGED <<rows, metric, disk, open>> /\ unseen' = 0
          /\ index' = Service!IndexOf(rows, metric) /\ rows \in index.rows..rows
      BY <1>1, <1>2, <1>3, <1>5, <2>2 DEF Publish, Pending, Fresh, Live
    <3> QED BY <3>1 DEF Service!Next, Service!CatchUp, Service!IndexUpTo
  <2> QED BY <1>9, <2>1, <2>2 DEF WorkerStep
<1>10. ASSUME NEW c \in Clients, WaitStep(c) \/ ScheduleStep(c) \/ SearchStep(c)
       PROVE  [Service!Next]_(Service!vars)
  <2>1. UNCHANGED data /\ pc[c] # "idle" /\ (UNCHANGED open \/ Return(c))
    <3>1. CASE WaitStep(c)
      BY <3>1 DEF WaitStep, TakeJob, JoinFlush, TakeError
    <3>2. CASE ScheduleStep(c)
      BY <3>2 DEF ScheduleStep, ScheduleCheckError, ScheduleReadPending, ScheduleSpawn,
                  ScheduleStore, ScheduleJoinOwn
    <3>3. CASE SearchStep(c)
      BY <3>3 DEF SearchStep, SearchBegin, SearchEnd
    <3> QED BY <1>10, <3>1, <3>2, <3>3
  <2> QED BY <1>6, <1>7, <2>1 DEF data
<1>11. ASSUME NEW c \in Clients, NEW o \in SharedOps \cup ExclusiveOps, Call(c, o)
       PROVE  [Service!Next]_(Service!vars)
  BY <1>6, <1>11 DEF Call, data
<1>12. CASE UNCHANGED vars
  BY <1>6, <1>12 DEF vars
<1> QED
  BY <1>8, <1>9, <1>10, <1>11, <1>12 DEF Next, ClientStep, Dropped

\* With all its threads, slots and joins the controller does to the index only
\* what the service without threads may do.
THEOREM Refinement == Spec => ImplementsService
<1> QED
  BY ServiceInit, ServiceStep, Invariance, PTL DEF Spec, ImplementsService, Service!Spec

=============================================================================
