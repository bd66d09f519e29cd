--------------------------- MODULE TickProcessing ---------------------------
(***************************************************************************)
(* How CorpSim advances its world by one tick at a time: the database      *)
(* transaction of packages/sim tick-engine.ts, the worker iteration around *)
(* it (processor lease, maintenance check, batch, conflict retries, row    *)
(* cleanup), the BullMQ job handler around that (control flags, execution  *)
(* keys, invariant scan), and the operator's POST /v1/world/advance, which *)
(* calls the tick engine with none of those.                               *)
(*                                                                         *)
(* Every process runs one statement at a time.  The database is PostgreSQL *)
(* at READ COMMITTED: a read sees the last committed row, an INSERT of a   *)
(* key that an open transaction has inserted waits for that transaction,   *)
(* and an UPDATE's WHERE clause is evaluated on the committed row.         *)
(* The economy that a tick's pipeline rewrites is abstracted to one bit,   *)
(* `corrupt': would scanSimulationInvariants report a violation now?       *)
(***************************************************************************)
EXTENDS Integers, FiniteSets

CONSTANTS
    Workers,            \* worker processes (queue-runtime.ts), concurrency 1 each
    Callers,            \* operators calling POST /v1/world/advance
    Jobs,               \* ids of the tick jobs the scheduler adds to the queue
    BatchSize,          \* ticks per iteration: min(simulationSpeed, maxTicksPerRun)
    CallTicks,          \* ticks asked for by one advance call
    MaxConflictRetries, \* retries after an optimistic lock conflict
    RetentionTicks,     \* tickExecutionRetentionTicks; 0 never cleans up
    CleanupEvery,       \* tickExecutionCleanupEveryTicks
    CheckEvery,         \* invariantsCheckEveryTicks
    Policy,             \* onInvariantViolation
    NoJob, NoOwner,     \* absent job; owner of a lease whose process is gone
    MaxDeliveries,      \* deliveries of one job (BullMQ's maxStalledCount + 1)
    \* Bounds on what the environment does, for model checking only.
    MaxCrashes,         \* worker crashes
    MaxThrows,          \* ticks whose pipeline throws
    MaxToggles,         \* changes of the maintenance state
    MaxMisreads,        \* reads of the maintenance state that fail
    MaxResets,          \* resets of the control state
    MaxCalls,           \* advance calls
    MaxCorruptions      \* ticks that leave the economy corrupt

ASSUME SizesAssumption ==
    /\ BatchSize \in Nat \ {0}
    /\ CallTicks \in Nat \ {0}
    /\ MaxConflictRetries \in Nat
    /\ RetentionTicks \in Nat
    /\ CleanupEvery \in Nat \ {0}   \* parseIntegerEnv accepts positive integers only
    /\ CheckEvery \in Nat \ {0}

ASSUME PolicyAssumption == Policy \in {"log_only", "pause_bots", "stop"}

ASSUME NamesAssumption ==
    /\ Workers \cap Callers = {}    \* two kinds of process
    /\ NoJob \notin Jobs
    /\ NoOwner \notin Workers

ASSUME BoundsAssumption ==
    /\ MaxDeliveries \in Nat
    /\ MaxCrashes \in Nat
    /\ MaxThrows \in Nat
    /\ MaxToggles \in Nat
    /\ MaxMisreads \in Nat
    /\ MaxResets \in Nat
    /\ MaxCalls \in Nat
    /\ MaxCorruptions \in Nat

VARIABLES
    world,       \* WorldTickState row: currentTick, lockVersion
    executions,  \* SimulationTickExecution rows by execution key
    lease,       \* SimulationLease row "simulation.tick.processor"
    maintenance, \* MaintenanceState: enabled with scope "all"
    control,     \* SimulationControlState row
    corrupt,     \* would the invariant scan report a violation?
    queue,       \* BullMQ: where each job is
    deliveries,  \* BullMQ: how often each job was handed to a worker
    paused,      \* workers that paused their own fetching (worker.pause)
    proc,        \* where each process is in its program, and its locals
    commits,     \* history: the committed ticks, with the key each ran under
    grace,       \* history: ticks each worker committed after a halt was ordered,
                 \* and its reads of the maintenance state that failed since then
    overran,     \* history: workers whose lease expired during their iteration
    budget       \* what the environment may still do

vars == <<world, executions, lease, maintenance, control, corrupt, queue,
          deliveries, paused, proc, commits, grace, overran, budget>>

-----------------------------------------------------------------------------
Procs == Workers \cup Callers

\* `${prefix}:${queueName}:${job.id}:tick:${tickIndex}', one per tick of a batch.
Keys == Jobs \X (0 .. BatchSize - 1)
NoKey == <<NoJob, 0>>

Row == [tickBefore : Nat, tickAfter : Nat]
NoRow == [tickBefore |-> 0, tickAfter |-> 0]   \* no row: a real one has tickAfter > 0

NoLease == [owner |-> NoOwner, expired |-> TRUE]

Idle == [pc |-> "idle", job |-> NoJob, idx |-> 0, attempt |-> 0,
         version |-> 0, tick |-> 0, expected |-> -1, tickBefore |-> 0, failed |-> FALSE]

\* The execution key the process passes to advanceSimulationTick; the advance
\* call passes none.
KeyOf(p) == IF proc[p].job = NoJob THEN NoKey ELSE <<proc[p].job, proc[p].idx>>

\* Inside advanceSimulationTick's transaction, after its INSERT.
InPipeline(p) == proc[p].pc = "pipeline"

\* From acquiring the processor lease to releasing it.
InIteration(p) ==
    proc[p].pc \in {"before", "loop", "begin", "key", "insert", "pipeline",
                    "after", "cleanup", "release"}

Goto(p, label) == proc' = [proc EXCEPT ![p].pc = label]

dbVars == <<world, executions, lease, maintenance, control, corrupt>>
queueVars == <<queue, deliveries, paused>>
historyVars == <<commits, grace, overran>>

Init ==
    /\ world = [currentTick |-> 0, lockVersion |-> 0]
    /\ executions = [k \in Keys |-> NoRow]
    /\ lease = NoLease
    /\ maintenance = FALSE
    /\ control = [botsPaused |-> FALSE, processingStopped |-> FALSE]
    /\ corrupt = FALSE
    /\ queue = [j \in Jobs |-> "absent"]
    /\ deliveries = [j \in Jobs |-> 0]
    /\ paused = {}
    /\ proc = [p \in Procs |-> Idle]
    /\ commits = {}
    /\ grace = [w \in Workers |-> [maintenance |-> 0, unread |-> 0, stopped |-> 0]]
    /\ overran = {}
    /\ budget = [crashes |-> MaxCrashes, throws |-> MaxThrows, toggles |-> MaxToggles,
                 misreads |-> MaxMisreads, resets |-> MaxResets, calls |-> MaxCalls, corruptions |-> MaxCorruptions]

-----------------------------------------------------------------------------
(* The queue.  BullMQ hands a job to one idle worker, and hands it out     *)
(* again when the worker's job lock lapses, whether the worker is gone or  *)
(* merely slow; with the configured single attempt a failed job is not     *)
(* retried.                                                                *)

\* ensureTickScheduler: the repeatable scheduler adds the next tick job.
Enqueue(j) ==
    /\ queue[j] = "absent"
    /\ queue' = [queue EXCEPT ![j] = "waiting"]
    /\ UNCHANGED <<dbVars, deliveries, paused, proc, historyVars, budget>>

\* A job lock lapsed: the job returns to the queue, or fails when it has been
\* delivered as often as the queue allows.
Stall(j) ==
    /\ queue[j] = "active"
    /\ queue' = [queue EXCEPT ![j] = IF deliveries[j] < MaxDeliveries
                                     THEN "waiting" ELSE "closed"]
    /\ UNCHANGED <<dbVars, deliveries, paused, proc, historyVars, budget>>

\* A worker that is done with its job leaves it closed, completed or failed,
\* unless the queue has meanwhile taken the job back.
Close(j) == queue' = [queue EXCEPT ![j] = IF @ = "active" THEN "closed" ELSE @]

-----------------------------------------------------------------------------
(* The worker's job handler and runWorkerIteration.                        *)

\* Mutant: the handler does not look.
ControlStateIgnored == FALSE

\* What the control state says when the handler reads it.
HandlerReturnsAtOnce == control.processingStopped

\* The handler starts: it reads the control state and returns at once when
\* processing is stopped.
TakeJob(w, j) ==
    /\ proc[w].pc = "idle"
    /\ w \notin paused
    /\ queue[j] = "waiting"
    /\ deliveries' = [deliveries EXCEPT ![j] = @ + 1]
    /\ IF HandlerReturnsAtOnce
       THEN /\ queue' = [queue EXCEPT ![j] = "closed"]
            /\ UNCHANGED proc
       ELSE /\ queue' = [queue EXCEPT ![j] = "active"]
            /\ proc' = [proc EXCEPT ![w] = [Idle EXCEPT !.pc = "acquire", !.job = j]]
    /\ UNCHANGED <<dbVars, paused, historyVars, budget>>

\* acquireSimulationLease without re-entry: take an expired or missing row.
LeaseIsFree == lease.expired

AcquireLease(w) ==
    /\ proc[w].pc = "acquire"
    /\ LeaseIsFree
    /\ lease' = [owner |-> w, expired |-> FALSE]
    /\ overran' = overran \ {w}
    /\ Goto(w, "before")
    /\ UNCHANGED <<world, executions, maintenance, control, corrupt, queueVars,
                   commits, grace, budget>>

\* The lease is held: runWorkerIteration throws and the job fails.
LeaseHeld(w) ==
    /\ proc[w].pc = "acquire"
    /\ ~LeaseIsFree
    /\ Close(proc[w].job)
    /\ proc' = [proc EXCEPT ![w] = Idle]
    /\ UNCHANGED <<dbVars, deliveries, paused, historyVars, budget>>

\* isSimulationPausedByMaintenance: a read that fails finds no maintenance.  It
\* makes a difference only under maintenance, and only then is it counted.
ReadMaintenance(w, fails) ==
    /\ fails => maintenance /\ budget.misreads > 0
    /\ budget' = [budget EXCEPT !.misreads = @ - IF fails THEN 1 ELSE 0]
    /\ grace' = [grace EXCEPT ![w].unread = @ + IF fails THEN 1 ELSE 0]

\* Read the tick before the batch; under maintenance return without a tick
\* and without the cleanup.
ReadBefore(w) ==
    /\ proc[w].pc = "before"
    /\ \E fails \in BOOLEAN :
          /\ ReadMaintenance(w, fails)
          /\ proc' = [proc EXCEPT ![w].tickBefore = world.currentTick,
                                  ![w].tick = world.currentTick,
                                  ![w].pc = IF maintenance /\ ~fails THEN "release" ELSE "loop"]
    /\ UNCHANGED <<dbVars, queueVars, commits, overran>>

\* Mutant: maintenance is only looked at before the batch.
BatchOverOnlyWhenFull(w, fails) == proc[w].idx >= BatchSize

\* Top of the batch loop: stop at the batch size or under maintenance.
BatchOver(w, fails) == proc[w].idx >= BatchSize \/ (maintenance /\ ~fails)

LoopTop(w) ==
    /\ proc[w].pc = "loop"
    /\ \E fails \in BOOLEAN :
          /\ fails => proc[w].idx < BatchSize   \* a full batch reads nothing
          /\ ReadMaintenance(w, fails)
          /\ proc' = [proc EXCEPT ![w].attempt = 0,
                                  ![w].pc = IF BatchOver(w, fails) THEN "after" ELSE "begin"]
    /\ UNCHANGED <<dbVars, queueVars, commits, overran>>

-----------------------------------------------------------------------------
(* advanceSimulationTick, for a worker (with a key, with retries) and for  *)
(* an advance call (no key, one try, a version expected on the first tick).*)

\* The call fails: a worker goes on to release its lease and fail the job, an
\* advance call reports the error.
Fail(p) ==
    proc' = [proc EXCEPT ![p] = IF p \in Workers
                                THEN [@ EXCEPT !.pc = "release", !.failed = TRUE]
                                ELSE Idle]

\* The call returns, with the tick advanced or not: on to the next of the batch.
Return(p) ==
    IF p \in Workers
    THEN proc' = [proc EXCEPT ![p].pc = "loop", ![p].idx = @ + 1,
                              ![p].version = 0, ![p].tick = 0]
    ELSE IF proc[p].idx + 1 < CallTicks
    THEN proc' = [proc EXCEPT ![p].pc = "begin", ![p].idx = @ + 1, ![p].expected = -1]
    ELSE proc' = [proc EXCEPT ![p] = Idle]

\* POST /v1/world/advance, optionally expecting a lock version read earlier.
StartCall(c) ==
    /\ proc[c].pc = "idle"
    /\ budget.calls > 0
    /\ budget' = [budget EXCEPT !.calls = @ - 1]
    /\ \E v \in {-1} \cup 0 .. world.lockVersion :
          proc' = [proc EXCEPT ![c] = [Idle EXCEPT !.pc = "begin", !.expected = v]]
    /\ UNCHANGED <<dbVars, queueVars, historyVars>>

\* Mutant: the expected version is not compared.
ExpectedVersionIgnored(p) == TRUE

\* The transaction opens and reads the world row.
ExpectedVersionHolds(p) == proc[p].expected \in {-1, world.lockVersion}

BeginTick(p) ==
    /\ proc[p].pc = "begin"
    /\ IF ExpectedVersionHolds(p)
       THEN proc' = [proc EXCEPT ![p].version = world.lockVersion,
                                 ![p].tick = world.currentTick,
                                 ![p].pc = IF KeyOf(p) = NoKey THEN "pipeline" ELSE "key"]
       ELSE Fail(p)
    /\ UNCHANGED <<dbVars, queueVars, historyVars, budget>>

\* findUnique on the execution key: a committed row means the tick has run.
CheckKey(p) ==
    /\ proc[p].pc = "key"
    /\ IF executions[KeyOf(p)] # NoRow THEN Return(p) ELSE Goto(p, "insert")
    /\ UNCHANGED <<dbVars, queueVars, historyVars, budget>>

\* Mutant: two transactions about to insert the same key wait for each other.
KeyIsWanted(p) ==
    \E q \in Procs \ {p} : proc[q].pc \in {"insert", "pipeline"} /\ KeyOf(q) = KeyOf(p)

\* The row of the key is in the hands of another open transaction.
KeyIsPending(p) == \E q \in Procs \ {p} : InPipeline(q) /\ KeyOf(q) = KeyOf(p)

\* The INSERT: waits for a pending insert of the same key, then either meets a
\* committed row (P2002, which isTickExecutionConflict turns into a return) or
\* keeps the key to itself until this transaction ends.
InsertKey(p) ==
    /\ proc[p].pc = "insert"
    /\ ~KeyIsPending(p)
    /\ IF executions[KeyOf(p)] # NoRow THEN Return(p) ELSE Goto(p, "pipeline")
    /\ UNCHANGED <<dbVars, queueVars, historyVars, budget>>

\* A stage of the pipeline throws: the transaction rolls back.  The error is no
\* lock conflict, so nothing retries.
PipelineThrows(p) ==
    /\ InPipeline(p)
    /\ budget.throws > 0
    /\ budget' = [budget EXCEPT !.throws = @ - 1]
    /\ Fail(p)
    /\ UNCHANGED <<dbVars, queueVars, historyVars>>

\* Mutant: the world update is unconditional.
VersionIgnored(p) == TRUE

\* The WHERE clause of the world update.
VersionUnchanged(p) == world.lockVersion = proc[p].version

\* Mutant: one retry too many.
RetriesLeftOffByOne(p) == p \in Workers /\ proc[p].attempt <= MaxConflictRetries

\* runSingleTickWithRetries: only a worker retries, and only so often.
RetriesLeft(p) == p \in Workers /\ proc[p].attempt < MaxConflictRetries

\* The update matches no row: roll back, and retry unless retries are used up.
CommitConflicts(p) ==
    /\ InPipeline(p)
    /\ ~VersionUnchanged(p)
    /\ IF RetriesLeft(p)
       THEN proc' = [proc EXCEPT ![p].pc = "begin", ![p].attempt = @ + 1]
       ELSE Fail(p)
    /\ UNCHANGED <<dbVars, queueVars, historyVars, budget>>

\* The tick a transaction commits follows the one it read.
NextTick(p) == proc[p].tick + 1

\* Mutant: the execution row does not survive the commit.
ExecutionNotRecorded(p) == UNCHANGED executions

RecordExecution(p) ==
    executions' = IF KeyOf(p) = NoKey THEN executions
                  ELSE [executions EXCEPT ![KeyOf(p)] =
                            [tickBefore |-> proc[p].tick, tickAfter |-> NextTick(p)]]

CommitTick(p) ==
    /\ InPipeline(p)
    /\ VersionUnchanged(p)
    /\ world' = [currentTick |-> NextTick(p), lockVersion |-> world.lockVersion + 1]
    /\ RecordExecution(p)
    /\ \/ UNCHANGED <<corrupt, budget>>
       \/ /\ ~corrupt /\ budget.corruptions > 0
          /\ corrupt' = TRUE
          /\ budget' = [budget EXCEPT !.corruptions = @ - 1]
    /\ commits' = commits \cup {[tick |-> NextTick(p), key |-> KeyOf(p)]}
    /\ grace' = [w \in Workers |->
                    IF w # p THEN grace[w]
                    ELSE [maintenance |-> grace[w].maintenance + IF maintenance THEN 1 ELSE 0,
                          unread |-> grace[w].unread,
                          stopped |-> grace[w].stopped
                                        + IF control.processingStopped THEN 1 ELSE 0]]
    /\ Return(p)
    /\ UNCHANGED <<lease, maintenance, control, queueVars, overran>>

-----------------------------------------------------------------------------
(* After the batch.                                                        *)

CleanupDue(tickAfter) == RetentionTicks > 0 /\ tickAfter % CleanupEvery = 0

ReadAfter(w) ==
    /\ proc[w].pc = "after"
    /\ proc' = [proc EXCEPT ![w].tick = world.currentTick,
                            ![w].pc = IF CleanupDue(world.currentTick)
                                      THEN "cleanup" ELSE "release"]
    /\ UNCHANGED <<dbVars, queueVars, historyVars, budget>>

\* Mutant: lte in place of lt.
RowIsOldOffByOne(row, tickAfter) == row.tickAfter <= tickAfter - RetentionTicks + 1

\* deleteMany where tickAfter < minTickToKeep; a negative bound deletes nothing.
RowIsOld(row, tickAfter) == row.tickAfter < tickAfter - RetentionTicks + 1

CleanUpRows(w) ==
    /\ proc[w].pc = "cleanup"
    /\ executions' = [k \in Keys |-> IF RowIsOld(executions[k], proc[w].tick)
                                     THEN NoRow ELSE executions[k]]
    /\ Goto(w, "release")
    /\ UNCHANGED <<world, lease, maintenance, control, corrupt, queueVars, historyVars, budget>>

\* Mutant: the lease is deleted by name alone.
LeaseDeletedByName(w) == NoLease

\* The finally block: delete the lease row if it is still this worker's.
LeaseAfterRelease(w) == IF lease.owner = w THEN NoLease ELSE lease

ReleaseLease(w) ==
    /\ proc[w].pc = "release"
    /\ lease' = LeaseAfterRelease(w)
    /\ IF proc[w].failed
       THEN Close(proc[w].job) /\ proc' = [proc EXCEPT ![w] = Idle]
       ELSE UNCHANGED queue /\ Goto(w, "scan")
    /\ overran' = overran \ {w}
    /\ UNCHANGED <<world, executions, maintenance, control, corrupt, deliveries, paused,
                   commits, grace, budget>>

\* shouldRunInvariantCheck: the batch reached or passed a multiple of CheckEvery.
ScanDue(tickBefore, tickAfter) ==
    /\ tickAfter > tickBefore
    /\ \/ tickBefore \div CheckEvery < tickAfter \div CheckEvery
       \/ tickAfter % CheckEvery = 0

ScanInvariants(w) ==
    /\ proc[w].pc = "scan"
    /\ IF ScanDue(proc[w].tickBefore, proc[w].tick) /\ corrupt /\ Policy # "log_only"
       THEN Goto(w, "enforce") /\ UNCHANGED queue
       ELSE Close(proc[w].job) /\ proc' = [proc EXCEPT ![w] = Idle]
    /\ UNCHANGED <<dbVars, deliveries, paused, historyVars, budget>>

\* pauseBotsAfterInvariantViolation, or stopSimulationAfterInvariantViolation
\* followed by worker.pause(true), which stops this worker's fetching: nothing
\* ever resumes it.
EnforcePolicy(w) ==
    /\ proc[w].pc = "enforce"
    /\ control' = [botsPaused |-> TRUE,
                   processingStopped |-> control.processingStopped \/ Policy = "stop"]
    /\ paused' = IF Policy = "stop" THEN paused \cup {w} ELSE paused
    /\ Close(proc[w].job)
    /\ proc' = [proc EXCEPT ![w] = Idle]
    /\ UNCHANGED <<world, executions, lease, maintenance, corrupt, deliveries,
                   historyVars, budget>>
-----------------------------------------------------------------------------
(* The environment.                                                        *)

\* The lease's time to live runs out; nothing renews it during an iteration.
ExpireLease ==
    /\ ~lease.expired
    /\ lease' = [lease EXCEPT !.expired = TRUE]
    /\ overran' = overran \cup ({lease.owner} \cap Workers)
    /\ UNCHANGED <<world, executions, maintenance, control, corrupt, queueVars, proc,
                   commits, grace, budget>>

\* The process dies and is started again under a new instance id: its open
\* transaction rolls back, its lease row stays behind, its job stays active.
Crash(w) ==
    /\ proc[w].pc # "idle" \/ w \in paused
    /\ budget.crashes > 0
    /\ budget' = [budget EXCEPT !.crashes = @ - 1]
    /\ proc' = [proc EXCEPT ![w] = Idle]
    /\ paused' = paused \ {w}
    /\ lease' = IF lease.owner = w THEN [lease EXCEPT !.owner = NoOwner] ELSE lease
    /\ overran' = overran \ {w}
    /\ UNCHANGED <<world, executions, maintenance, control, corrupt, queue, deliveries,
                   commits, grace>>

\* An operator turns maintenance with scope "all" on or off.
SetMaintenance ==
    /\ budget.toggles > 0
    /\ budget' = [budget EXCEPT !.toggles = @ - 1]
    /\ maintenance' = ~maintenance
    /\ grace' = [w \in Workers |-> [grace[w] EXCEPT !.maintenance = 0, !.unread = 0]]
    /\ UNCHANGED <<world, executions, lease, control, corrupt, queueVars, proc,
                   commits, overran>>

\* An operator repairs the data and resets the control state.
ResetControl ==
    /\ budget.resets > 0
    /\ control.botsPaused \/ control.processingStopped
    /\ budget' = [budget EXCEPT !.resets = @ - 1]
    /\ control' = [botsPaused |-> FALSE, processingStopped |-> FALSE]
    /\ corrupt' = FALSE
    /\ grace' = [w \in Workers |-> [grace[w] EXCEPT !.stopped = 0]]
    /\ UNCHANGED <<world, executions, lease, maintenance, queueVars, proc, commits, overran>>

-----------------------------------------------------------------------------
TickStep(p) ==
    \/ BeginTick(p) \/ CheckKey(p) \/ InsertKey(p)
    \/ PipelineThrows(p) \/ CommitConflicts(p) \/ CommitTick(p)

IterationStep(w) ==
    \/ AcquireLease(w) \/ LeaseHeld(w) \/ ReadBefore(w) \/ LoopTop(w)
    \/ ReadAfter(w) \/ CleanUpRows(w) \/ ReleaseLease(w)
    \/ ScanInvariants(w) \/ EnforcePolicy(w)

WorkerStep(w) == IterationStep(w) \/ TickStep(w)

Next ==
    \/ \E j \in Jobs : Enqueue(j) \/ Stall(j)
    \/ \E w \in Workers : (\E j \in Jobs : TakeJob(w, j)) \/ Crash(w)
    \/ \E w \in Workers : IterationStep(w)
    \/ \E c \in Callers : StartCall(c)
    \/ \E p \in Procs : TickStep(p)
    \/ ExpireLease \/ SetMaintenance \/ ResetControl

Spec == Init /\ [][Next]_vars

-----------------------------------------------------------------------------
(* Properties.                                                             *)

\* Every variable has its type; in particular no tick is attempted more often
\* than maxConflictRetries allows.
PCs == {"idle", "acquire", "before", "loop", "begin", "key", "insert", "pipeline",
        "after", "cleanup", "release", "scan", "enforce"}

Proc == [pc : PCs, job : Jobs \cup {NoJob}, idx : Nat, attempt : 0 .. MaxConflictRetries,
         version : Nat, tick : Nat, expected : Nat \cup {-1}, tickBefore : Nat,
         failed : BOOLEAN]

TypeOK ==
    /\ world \in [currentTick : Nat, lockVersion : Nat]
    /\ executions \in [Keys -> Row]
    /\ lease \in [owner : Workers \cup {NoOwner}, expired : BOOLEAN]
    /\ maintenance \in BOOLEAN
    /\ control \in [botsPaused : BOOLEAN, processingStopped : BOOLEAN]
    /\ corrupt \in BOOLEAN
    /\ queue \in [Jobs -> {"absent", "waiting", "active", "closed"}]
    /\ deliveries \in [Jobs -> Nat]
    /\ paused \subseteq Workers
    /\ proc \in [Procs -> Proc]
    /\ commits \subseteq [tick : Nat, key : Keys \cup {NoKey}]
    /\ grace \in [Workers -> [maintenance : Nat, unread : Nat, stopped : Nat]]
    /\ overran \subseteq Workers
    /\ budget \in [crashes : Nat, throws : Nat, toggles : Nat, misreads : Nat,
                   resets : Nat, calls : Nat, corruptions : Nat]

\* Whatever workers, stalled duplicates and advance calls do at the same time,
\* each tick number up to the current one is committed exactly once: the
\* lockVersion in the WHERE clause of tick-engine.ts serialises them.
TicksCommittedOnce ==
    /\ \A c \in commits : c.tick \in 1 .. world.currentTick
    /\ \A t \in 1 .. world.currentTick : \E c \in commits : c.tick = t
    /\ \A c, d \in commits : c.tick = d.tick => c = d

\* A tick inside the retention window: its execution row must still be there.
Remembered(tick) == RetentionTicks = 0 \/ tick > world.currentTick - RetentionTicks

\* The execution rows tell the truth about the committed ticks: every row
\* belongs to a committed tick, and every keyed tick inside the retention window
\* still has its row, even while another worker cleans up with an older bound.
RowsMatchCommits ==
    /\ \A k \in Keys : executions[k] # NoRow =>
          /\ executions[k].tickAfter = executions[k].tickBefore + 1
          /\ [tick |-> executions[k].tickAfter, key |-> k] \in commits
    /\ \A c \in commits : c.key # NoKey /\ Remembered(c.tick) =>
          executions[c.key].tickAfter = c.tick

\* A worker inside an iteration owns the processor lease, unless its own lease
\* ran out in the meantime: no other worker's acquire or release takes it away.
HoldsLeaseUnlessOverran ==
    \A w \in Workers : InIteration(w) => lease.owner = w \/ w \in overran

\* So as long as no lease runs out, no two workers are inside an iteration.
OneIterationUnlessOverran ==
    \A v, w \in Workers \ overran : InIteration(v) /\ InIteration(w) => v = w

\* Once maintenance is on, a worker commits at most the tick it had begun, and
\* every further one costs it a read of the maintenance state that failed: the
\* catch in isSimulationPausedByMaintenance lets the batch go on.
MaintenanceStopsBatch ==
    \A w \in Workers : grace[w].maintenance <= 1 + grace[w].unread

\* Once processing is stopped, a worker commits at most the rest of one batch.
StopEndsAfterBatch == \A w \in Workers : grace[w].stopped <= BatchSize

\* The committed ticks are those of the abstract clock.
Clock == INSTANCE TickClock WITH
    ExecutionKeys <- Keys, Retention <- RetentionTicks,
    tick <- world.currentTick, log <- commits

ImplementsTickClock == Clock!Spec

\* The first tick of an advance call that expects version v is the one that
\* follows version v, however long the call took to get there.
CallCommitsAtExpectedVersion ==
    [][\A c \in Callers :
          /\ InPipeline(c) /\ proc[c].expected # -1
          /\ world' # world /\ proc'[c] # proc[c]
          => world.lockVersion = proc[c].expected]_vars

-----------------------------------------------------------------------------
(* Liveness.  Processes keep running their statements, the scheduler keeps  *)
(* adding jobs, BullMQ hands waiting jobs to idle workers and takes back   *)
(* the job of a worker that is gone, and time passes.                      *)

Abandoned(j) == queue[j] = "active" /\ \A w \in Workers : proc[w].job # j

Fairness ==
    /\ \A w \in Workers : WF_vars(WorkerStep(w))
    /\ \A c \in Callers : WF_vars(TickStep(c))
    /\ \A j \in Jobs : WF_vars(Enqueue(j))
    /\ \A j \in Jobs : WF_vars(Abandoned(j) /\ Stall(j))
    /\ WF_vars(\E w \in Workers, j \in Jobs : TakeJob(w, j))
    /\ WF_vars(ExpireLease)

FairSpec == Spec /\ Fairness

\* Every tick job is eventually closed: no crash, conflict or wait on another
\* transaction's key leaves a job or a worker hanging.
EveryJobCloses == \A j \in Jobs : <>(queue[j] = "closed")
=============================================================================
