------------------------ MODULE TickProcessingProofs ------------------------
(***************************************************************************)
(* The safety of tick processing for any number of workers, callers, jobs, *)
(* retries and retained ticks: the type invariant, the tick clock and the  *)
(* execution rows, and the refinement of the abstract clock.               *)
(***************************************************************************)
EXTENDS TickProcessing, TLAPS

\* What a process's locals look like: a worker that is not idle has a job and
\* builds a key only inside its batch; an advance call has no job and no key.
LocalOK(p, r) ==
    /\ p \in Workers => /\ r.pc # "idle" => r.job \in Jobs
                        /\ r.pc \in {"acquire", "before", "loop"} => r.idx <= BatchSize
                        /\ r.pc \in {"begin", "key", "insert", "pipeline"} => r.idx < BatchSize
    /\ p \notin Workers => r.job = NoJob /\ r.pc \in {"idle", "begin", "pipeline"}

ControlFlow == \A p \in Procs : LocalOK(p, proc[p])

\* The typing invariant that is inductive.
Typed == TypeOK /\ ControlFlow

LEMMA IdleTyped == Idle \in Proc /\ \A p : LocalOK(p, Idle)
  BY SizesAssumption DEF Idle, Proc, PCs, LocalOK

LEMMA InitType == Init => Typed
<1> SUFFICES ASSUME Init PROVE Typed
  OBVIOUS
<1>1. NoRow \in Row
  BY DEF NoRow, Row
<1>2. proc \in [Procs -> Proc] /\ ControlFlow
  BY IdleTyped DEF Init, ControlFlow
<1>3. executions \in [Keys -> Row]
  BY <1>1 DEF Init
<1>4. QED
  BY <1>2, <1>3, BoundsAssumption DEF Init, Typed, TypeOK, NoLease

\* A step that gives one process new locals of the right shape keeps proc typed.
LEMMA LocalStep ==
  ASSUME Typed, NEW p \in Procs, NEW r \in Proc, LocalOK(p, r),
         proc' = [proc EXCEPT ![p] = r]
  PROVE  proc' \in [Procs -> Proc] /\ ControlFlow'
  BY DEF Typed, TypeOK, ControlFlow

LEMMA ProcTyped ==
  ASSUME Typed, NEW p \in Procs PROVE proc[p] \in Proc /\ LocalOK(p, proc[p])
  BY DEF Typed, TypeOK, ControlFlow

\* The two ways out of advanceSimulationTick leave the locals in shape.
LEMMA FailStep ==
  ASSUME Typed, NEW p \in Procs, proc[p].pc \in {"begin", "key", "insert", "pipeline"}, Fail(p)
  PROVE  proc' \in [Procs -> Proc] /\ ControlFlow'
<1>1. CASE p \in Workers
  <2> DEFINE r == [proc[p] EXCEPT !.pc = "release", !.failed = TRUE]
  <2>1. r \in Proc /\ LocalOK(p, r)
    BY <1>1, ProcTyped DEF Proc, PCs, LocalOK
  <2>2. proc' = [proc EXCEPT ![p] = r]
    BY <1>1 DEF Fail
  <2>3. QED
    BY <2>1, <2>2, LocalStep
<1>2. CASE p \notin Workers
  BY <1>2, IdleTyped, LocalStep DEF Fail
<1>3. QED
  BY <1>1, <1>2

LEMMA ReturnStep ==
  ASSUME Typed, NEW p \in Procs, proc[p].pc \in {"key", "insert", "pipeline"}, Return(p)
  PROVE  proc' \in [Procs -> Proc] /\ ControlFlow'
<1>1. CASE p \in Workers
  <2> DEFINE r == [proc[p] EXCEPT !.pc = "loop", !.idx = @ + 1, !.version = 0, !.tick = 0]
  <2>1. proc[p].idx + 1 \in Nat /\ proc[p].idx + 1 <= BatchSize
    BY <1>1, ProcTyped, SizesAssumption DEF Proc, LocalOK
  <2>2. r \in Proc
    BY <2>1, ProcTyped DEF Proc, PCs
  <2>3. LocalOK(p, r)
    BY <1>1, <2>1, ProcTyped DEF Proc, LocalOK
  <2>4. proc' = [proc EXCEPT ![p] = r]
    BY <1>1, ProcTyped DEF Return, Typed, TypeOK
  <2>5. QED
    BY <2>2, <2>3, <2>4, LocalStep
<1>2. CASE p \notin Workers /\ proc[p].idx + 1 < CallTicks
  <2> DEFINE r == [proc[p] EXCEPT !.pc = "begin", !.idx = @ + 1, !.expected = -1]
  <2>1. proc[p].idx + 1 \in Nat
    BY ProcTyped DEF Proc
  <2>2. r \in Proc
    BY <2>1, ProcTyped DEF Proc, PCs
  <2>3. LocalOK(p, r)
    BY <1>2, ProcTyped DEF Proc, LocalOK
  <2>4. proc' = [proc EXCEPT ![p] = r]
    BY <1>2, ProcTyped DEF Return, Typed, TypeOK
  <2>5. QED
    BY <2>2, <2>3, <2>4, LocalStep
<1>3. CASE p \notin Workers /\ ~(proc[p].idx + 1 < CallTicks)
  <2>1. proc' = [proc EXCEPT ![p] = Idle]
    BY <1>3 DEF Return
  <2>2. QED
    BY <2>1, IdleTyped, LocalStep
<1>4. QED
  BY <1>1, <1>2, <1>3

\* The locals are all that a step of the key check or of a failed try changes.
LEMMA OnlyLocals ==
  ASSUME Typed, proc' \in [Procs -> Proc] /\ ControlFlow',
         UNCHANGED <<dbVars, queueVars, historyVars, budget>>
  PROVE  Typed'
  BY DEF Typed, TypeOK, dbVars, queueVars, historyVars

LEMMA EnqueueType == ASSUME Typed, NEW j \in Jobs, Enqueue(j) PROVE Typed'
  BY DEF Typed, TypeOK, ControlFlow, Enqueue, dbVars, historyVars

LEMMA StallType == ASSUME Typed, NEW j \in Jobs, Stall(j) PROVE Typed'
  BY DEF Typed, TypeOK, ControlFlow, Stall, dbVars, historyVars

LEMMA AcquireLeaseType == ASSUME Typed, NEW w \in Workers, AcquireLease(w) PROVE Typed'
<1> DEFINE r == [proc[w] EXCEPT !.pc = "before"]
<1>1. w \in Procs /\ proc[w] \in Proc /\ LocalOK(w, proc[w])
  BY DEF Typed, TypeOK, ControlFlow, Procs
<1>2. r \in Proc
  BY <1>1, SizesAssumption DEF Typed, TypeOK, Proc, PCs, LocalOK, AcquireLease, Goto
<1>3. LocalOK(w, r)
  BY <1>1, SizesAssumption, NamesAssumption DEF Proc, LocalOK, AcquireLease, Goto
<1>4. proc' = [proc EXCEPT ![w] = r]
  BY <1>1 DEF Typed, TypeOK, AcquireLease, Goto
<1>5. proc' \in [Procs -> Proc] /\ ControlFlow'
  BY <1>1, <1>2, <1>3, <1>4, LocalStep
<1>6. QED
  BY <1>5 DEF Typed, TypeOK, AcquireLease, dbVars, queueVars, historyVars, Goto

LEMMA LeaseHeldType == ASSUME Typed, NEW w \in Workers, LeaseHeld(w) PROVE Typed'
<1> DEFINE r == Idle
<1>1. w \in Procs /\ proc[w] \in Proc /\ LocalOK(w, proc[w])
  BY DEF Typed, TypeOK, ControlFlow, Procs
<1>2. r \in Proc
  BY IdleTyped, <1>1, SizesAssumption DEF Typed, TypeOK, Proc, PCs, LocalOK, LeaseHeld, Close
<1>3. LocalOK(w, r)
  BY IdleTyped, <1>1, SizesAssumption, NamesAssumption DEF Proc, LocalOK, LeaseHeld, Close
<1>4. proc' = [proc EXCEPT ![w] = r]
  BY <1>1 DEF Typed, TypeOK, LeaseHeld, Close
<1>5. proc' \in [Procs -> Proc] /\ ControlFlow'
  BY <1>1, <1>2, <1>3, <1>4, LocalStep
<1>6. QED
  BY <1>5 DEF Typed, TypeOK, LeaseHeld, dbVars, queueVars, historyVars, Close

\* A read of the maintenance state, whether it fails or not, counts itself.
LEMMA ReadMaintenanceType ==
  ASSUME Typed, NEW w \in Workers, NEW fails \in BOOLEAN, ReadMaintenance(w, fails)
  PROVE  /\ grace' \in [Workers -> [maintenance : Nat, unread : Nat, stopped : Nat]]
         /\ budget' \in [crashes : Nat, throws : Nat, toggles : Nat, misreads : Nat,
                          resets : Nat, calls : Nat, corruptions : Nat]
<1> DEFINE n == IF fails THEN 1 ELSE 0
<1>1. n \in {0, 1} /\ (n = 1 => budget.misreads > 0)
  BY DEF ReadMaintenance
<1>2. grace[w].unread + n \in Nat /\ budget.misreads - n \in Nat
  BY <1>1 DEF Typed, TypeOK
<1>3. /\ grace' = [grace EXCEPT ![w].unread = @ + n]
      /\ budget' = [budget EXCEPT !.misreads = @ - n]
  BY DEF ReadMaintenance
<1> HIDE DEF n
<1>4. QED
  BY <1>2, <1>3 DEF Typed, TypeOK

LEMMA ReadBeforeType == ASSUME Typed, NEW w \in Workers, ReadBefore(w) PROVE Typed'
<1> PICK fails \in BOOLEAN :
        /\ ReadMaintenance(w, fails)
        /\ proc' = [proc EXCEPT ![w].tickBefore = world.currentTick,
                                ![w].tick = world.currentTick,
                                ![w].pc = IF maintenance /\ ~fails THEN "release" ELSE "loop"]
  BY DEF ReadBefore
<1> DEFINE r == [proc[w] EXCEPT !.tickBefore = world.currentTick, !.tick = world.currentTick,
                                !.pc = IF maintenance /\ ~fails THEN "release" ELSE "loop"]
<1>1. w \in Procs /\ proc[w] \in Proc /\ LocalOK(w, proc[w])
  BY DEF Typed, TypeOK, ControlFlow, Procs
<1>2. r \in Proc
  BY <1>1, SizesAssumption DEF Typed, TypeOK, Proc, PCs, LocalOK, ReadBefore
<1>3. LocalOK(w, r)
  BY <1>1, SizesAssumption, NamesAssumption DEF Proc, LocalOK, ReadBefore
<1>4. proc' = [proc EXCEPT ![w] = r]
  BY <1>1 DEF Typed, TypeOK
<1>5. proc' \in [Procs -> Proc] /\ ControlFlow'
  BY <1>1, <1>2, <1>3, <1>4, LocalStep
<1>6. QED
  BY <1>5, ReadMaintenanceType DEF Typed, TypeOK, ReadBefore, dbVars, queueVars

LEMMA LoopTopType == ASSUME Typed, NEW w \in Workers, LoopTop(w) PROVE Typed'
<1> PICK fails \in BOOLEAN, label \in {"after", "begin"} :
        /\ ReadMaintenance(w, fails)
        /\ label = "begin" => ~BatchOver(w, fails)
        /\ proc' = [proc EXCEPT ![w].attempt = 0, ![w].pc = label]
  BY DEF LoopTop
<1> DEFINE r == [proc[w] EXCEPT !.attempt = 0, !.pc = label]
<1>1. w \in Procs /\ proc[w] \in Proc /\ LocalOK(w, proc[w])
  BY DEF Typed, TypeOK, ControlFlow, Procs
<1>2. r \in Proc
  <2>1. 0 \in 0 .. MaxConflictRetries /\ label \in PCs
    BY SizesAssumption DEF PCs
  <2>2. QED
    BY <1>1, <2>1 DEF Proc
<1>3. LocalOK(w, r)
  BY <1>1, SizesAssumption, NamesAssumption DEF Proc, LocalOK, LoopTop, BatchOver
<1>4. proc' = [proc EXCEPT ![w] = r]
  BY <1>1 DEF Typed, TypeOK
<1>5. proc' \in [Procs -> Proc] /\ ControlFlow'
  BY <1>1, <1>2, <1>3, <1>4, LocalStep
<1>6. QED
  BY <1>5, ReadMaintenanceType DEF Typed, TypeOK, LoopTop, dbVars, queueVars

LEMMA BeginTickType == ASSUME Typed, NEW p \in Procs, BeginTick(p) PROVE Typed'
<1> DEFINE r == [proc[p] EXCEPT !.version = world.lockVersion, !.tick = world.currentTick,
                                !.pc = IF KeyOf(p) = NoKey THEN "pipeline" ELSE "key"]
<1>1. proc[p] \in Proc /\ LocalOK(p, proc[p]) /\ proc[p].pc = "begin"
  BY ProcTyped DEF BeginTick
<1>2. p \in Procs /\ p \notin Workers => KeyOf(p) = NoKey
  BY <1>1 DEF LocalOK, KeyOf
<1>3. CASE proc' = [proc EXCEPT ![p] = r]
  <2>1. world.lockVersion \in Nat /\ world.currentTick \in Nat
    BY DEF Typed, TypeOK
  <2>2. r \in Proc
    BY <1>1, <2>1 DEF Proc, PCs
  <2>3. LocalOK(p, r)
    BY <1>1, <1>2 DEF Proc, LocalOK
  <2>4. QED
    BY <1>3, <2>2, <2>3, LocalStep, OnlyLocals DEF BeginTick
<1>4. CASE Fail(p)
  BY <1>1, <1>4, FailStep, OnlyLocals DEF BeginTick
<1>5. QED
  BY <1>3, <1>4 DEF BeginTick

LEMMA CheckKeyType == ASSUME Typed, NEW p \in Procs, CheckKey(p) PROVE Typed'
<1>1. proc[p] \in Proc /\ LocalOK(p, proc[p]) /\ proc[p].pc = "key"
  BY ProcTyped DEF CheckKey
<1>2. CASE Return(p)
  BY <1>1, <1>2, ReturnStep, OnlyLocals DEF CheckKey
<1>3. CASE Goto(p, "insert")
  <2> DEFINE r == [proc[p] EXCEPT !.pc = "insert"]
  <2>1. r \in Proc /\ LocalOK(p, r)
    BY <1>1 DEF Proc, PCs, LocalOK
  <2>2. proc' = [proc EXCEPT ![p] = r]
    BY <1>3 DEF Goto
  <2>3. QED
    BY <2>1, <2>2, LocalStep, OnlyLocals DEF CheckKey
<1>4. QED
  BY <1>2, <1>3 DEF CheckKey

LEMMA InsertKeyType == ASSUME Typed, NEW p \in Procs, InsertKey(p) PROVE Typed'
<1>1. proc[p] \in Proc /\ LocalOK(p, proc[p]) /\ proc[p].pc = "insert"
  BY ProcTyped DEF InsertKey
<1>2. CASE Return(p)
  BY <1>1, <1>2, ReturnStep, OnlyLocals DEF InsertKey
<1>3. CASE Goto(p, "pipeline")
  <2> DEFINE r == [proc[p] EXCEPT !.pc = "pipeline"]
  <2>1. r \in Proc /\ LocalOK(p, r)
    BY <1>1 DEF Proc, PCs, LocalOK
  <2>2. proc' = [proc EXCEPT ![p] = r]
    BY <1>3 DEF Goto
  <2>3. QED
    BY <2>1, <2>2, LocalStep, OnlyLocals DEF InsertKey
<1>4. QED
  BY <1>2, <1>3 DEF InsertKey

LEMMA PipelineThrowsType == ASSUME Typed, NEW p \in Procs, PipelineThrows(p) PROVE Typed'
<1>1. proc' \in [Procs -> Proc] /\ ControlFlow'
  BY FailStep DEF PipelineThrows, InPipeline
<1>2. QED
  BY <1>1 DEF Typed, TypeOK, PipelineThrows, dbVars, queueVars, historyVars

LEMMA CommitConflictsType == ASSUME Typed, NEW p \in Procs, CommitConflicts(p) PROVE Typed'
<1>1. proc[p] \in Proc /\ LocalOK(p, proc[p]) /\ proc[p].pc = "pipeline"
  BY ProcTyped DEF CommitConflicts, InPipeline
<1>2. CASE RetriesLeft(p)
  <2> DEFINE r == [proc[p] EXCEPT !.pc = "begin", !.attempt = @ + 1]
  <2>1. proc[p].attempt + 1 \in 0 .. MaxConflictRetries
    BY <1>1, <1>2, SizesAssumption DEF Proc, RetriesLeft
  <2>2. r \in Proc
    BY <1>1, <2>1 DEF Proc, PCs
  <2>3. LocalOK(p, r)
    BY <1>1 DEF Proc, LocalOK
  <2>4. proc' = [proc EXCEPT ![p] = r]
    BY <1>1, <1>2 DEF CommitConflicts, Typed, TypeOK
  <2>5. QED
    BY <2>2, <2>3, <2>4, LocalStep, OnlyLocals DEF CommitConflicts
<1>3. CASE Fail(p)
  BY <1>1, <1>3, FailStep, OnlyLocals DEF CommitConflicts
<1>4. QED
  BY <1>2, <1>3 DEF CommitConflicts

LEMMA ReadAfterType == ASSUME Typed, NEW w \in Workers, ReadAfter(w) PROVE Typed'
<1> DEFINE r == [proc[w] EXCEPT !.tick = world.currentTick,
                      !.pc = IF CleanupDue(world.currentTick) THEN "cleanup" ELSE "release"]
<1>1. w \in Procs /\ proc[w] \in Proc /\ LocalOK(w, proc[w])
  BY DEF Typed, TypeOK, ControlFlow, Procs
<1>2. r \in Proc
  BY <1>1, SizesAssumption DEF Typed, TypeOK, Proc, PCs, LocalOK, ReadAfter
<1>3. LocalOK(w, r)
  BY <1>1, SizesAssumption, NamesAssumption DEF Proc, LocalOK, ReadAfter
<1>4. proc' = [proc EXCEPT ![w] = r]
  BY <1>1 DEF Typed, TypeOK, ReadAfter
<1>5. proc' \in [Procs -> Proc] /\ ControlFlow'
  BY <1>1, <1>2, <1>3, <1>4, LocalStep
<1>6. QED
  BY <1>5 DEF Typed, TypeOK, ReadAfter, dbVars, queueVars, historyVars

LEMMA ReleaseLeaseType == ASSUME Typed, NEW w \in Workers, ReleaseLease(w) PROVE Typed'
<1> DEFINE r == IF proc[w].failed THEN Idle ELSE [proc[w] EXCEPT !.pc = "scan"]
<1>1. w \in Procs /\ proc[w] \in Proc /\ LocalOK(w, proc[w])
  BY DEF Typed, TypeOK, ControlFlow, Procs
<1>2. r \in Proc
  BY IdleTyped, <1>1, SizesAssumption DEF Typed, TypeOK, Proc, PCs, LocalOK, ReleaseLease, Close, Goto
<1>3. LocalOK(w, r)
  BY IdleTyped, <1>1, SizesAssumption, NamesAssumption DEF Proc, LocalOK, ReleaseLease, Close, Goto
<1>4. proc' = [proc EXCEPT ![w] = r]
  BY <1>1 DEF Typed, TypeOK, ReleaseLease, Close, Goto
<1>5. proc' \in [Procs -> Proc] /\ ControlFlow'
  BY <1>1, <1>2, <1>3, <1>4, LocalStep
<1>6. QED
  BY <1>5 DEF Typed, TypeOK, ReleaseLease, dbVars, queueVars, historyVars, Close, Goto, LeaseAfterRelease, NoLease

LEMMA EnforcePolicyType == ASSUME Typed, NEW w \in Workers, EnforcePolicy(w) PROVE Typed'
<1> DEFINE r == Idle
<1>1. w \in Procs /\ proc[w] \in Proc /\ LocalOK(w, proc[w])
  BY DEF Typed, TypeOK, ControlFlow, Procs
<1>2. r \in Proc
  BY IdleTyped, <1>1, SizesAssumption DEF Typed, TypeOK, Proc, PCs, LocalOK, EnforcePolicy, Close
<1>3. LocalOK(w, r)
  BY IdleTyped, <1>1, SizesAssumption, NamesAssumption DEF Proc, LocalOK, EnforcePolicy, Close
<1>4. proc' = [proc EXCEPT ![w] = r]
  BY <1>1 DEF Typed, TypeOK, EnforcePolicy, Close
<1>5. proc' \in [Procs -> Proc] /\ ControlFlow'
  BY <1>1, <1>2, <1>3, <1>4, LocalStep
<1>6. QED
  BY <1>5 DEF Typed, TypeOK, EnforcePolicy, dbVars, queueVars, historyVars, Close

LEMMA CrashType == ASSUME Typed, NEW w \in Workers, Crash(w) PROVE Typed'
<1> DEFINE r == Idle
<1>1. w \in Procs /\ proc[w] \in Proc /\ LocalOK(w, proc[w])
  BY DEF Typed, TypeOK, ControlFlow, Procs
<1>2. r \in Proc
  BY IdleTyped, <1>1, SizesAssumption DEF Typed, TypeOK, Proc, PCs, LocalOK, Crash
<1>3. LocalOK(w, r)
  BY IdleTyped, <1>1, SizesAssumption, NamesAssumption DEF Proc, LocalOK, Crash
<1>4. proc' = [proc EXCEPT ![w] = r]
  BY <1>1 DEF Typed, TypeOK, Crash
<1>5. proc' \in [Procs -> Proc] /\ ControlFlow'
  BY <1>1, <1>2, <1>3, <1>4, LocalStep
<1>6. QED
  BY <1>5 DEF Typed, TypeOK, Crash, dbVars, queueVars, historyVars

LEMMA CleanUpRowsType == ASSUME Typed, NEW w \in Workers, CleanUpRows(w) PROVE Typed'
<1> DEFINE r == [proc[w] EXCEPT !.pc = "release"]
<1>1. w \in Procs /\ proc[w] \in Proc /\ LocalOK(w, proc[w])
  BY DEF Typed, TypeOK, ControlFlow, Procs
<1>2. r \in Proc
  BY <1>1, SizesAssumption DEF Typed, TypeOK, Proc, PCs, LocalOK, CleanUpRows, Goto
<1>3. LocalOK(w, r)
  BY <1>1, SizesAssumption, NamesAssumption DEF Proc, LocalOK, CleanUpRows, Goto
<1>4. proc' = [proc EXCEPT ![w] = r]
  BY <1>1 DEF Typed, TypeOK, CleanUpRows, Goto
<1>5. proc' \in [Procs -> Proc] /\ ControlFlow'
  BY <1>1, <1>2, <1>3, <1>4, LocalStep
<1>6. QED
  BY <1>5 DEF Typed, TypeOK, CleanUpRows, dbVars, queueVars, historyVars, Goto, Row, NoRow

LEMMA TakeJobType == ASSUME Typed, NEW w \in Workers, NEW j \in Jobs, TakeJob(w, j) PROVE Typed'
<1> DEFINE r == [Idle EXCEPT !.pc = "acquire", !.job = j]
<1>1. w \in Procs
  BY DEF Procs
<1>2. r \in Proc
  BY IdleTyped DEF Proc, PCs
<1>3. LocalOK(w, r)
  BY SizesAssumption DEF Idle, LocalOK
<1>4. UNCHANGED proc \/ proc' = [proc EXCEPT ![w] = r]
  BY DEF TakeJob
<1>5. proc' \in [Procs -> Proc] /\ ControlFlow'
  <2>1. CASE UNCHANGED proc
    BY <2>1 DEF Typed, TypeOK, ControlFlow
  <2>2. QED
    BY <1>1, <1>2, <1>3, <1>4, <2>1, LocalStep
<1>6. QED
  BY <1>5 DEF Typed, TypeOK, TakeJob, dbVars, historyVars

LEMMA StartCallType == ASSUME Typed, NEW c \in Callers, StartCall(c) PROVE Typed'
<1> PICK v \in {-1} \cup 0 .. world.lockVersion :
        proc' = [proc EXCEPT ![c] = [Idle EXCEPT !.pc = "begin", !.expected = v]]
  BY DEF StartCall
<1> DEFINE r == [Idle EXCEPT !.pc = "begin", !.expected = v]
<1>1. c \in Procs /\ c \notin Workers
  BY NamesAssumption DEF Procs
<1>2. r \in Proc
  <2>1. v \in Nat \cup {-1}
    BY DEF Typed, TypeOK
  <2>2. QED
    BY <2>1, IdleTyped DEF Proc, PCs
<1>3. LocalOK(c, r)
  BY <1>1 DEF Idle, LocalOK
<1>4. proc' \in [Procs -> Proc] /\ ControlFlow'
  BY <1>1, <1>2, <1>3, LocalStep
<1>5. QED
  BY <1>4 DEF Typed, TypeOK, StartCall, dbVars, queueVars, historyVars

LEMMA ScanInvariantsType == ASSUME Typed, NEW w \in Workers, ScanInvariants(w) PROVE Typed'
<1>1. CASE /\ proc' = [proc EXCEPT ![w].pc = "enforce"] /\ UNCHANGED queue
  <2>1. w \in Procs /\ proc[w] \in Proc /\ LocalOK(w, proc[w])
    BY DEF Typed, TypeOK, ControlFlow, Procs
  <2>2. [proc[w] EXCEPT !.pc = "enforce"] \in Proc /\ LocalOK(w, [proc[w] EXCEPT !.pc = "enforce"])
    BY <2>1 DEF Proc, PCs, LocalOK, ScanInvariants
  <2>3. proc' \in [Procs -> Proc] /\ ControlFlow'
    BY <1>1, <2>1, <2>2, LocalStep
  <2>4. QED
    BY <1>1, <2>3 DEF Typed, TypeOK, ScanInvariants, dbVars, historyVars
<1>2. CASE /\ proc' = [proc EXCEPT ![w] = Idle] /\ Close(proc[w].job)
  <2>1. proc' \in [Procs -> Proc] /\ ControlFlow'
    BY <1>2, IdleTyped, LocalStep DEF Procs
  <2>2. QED
    BY <1>2, <2>1 DEF Typed, TypeOK, ScanInvariants, Close, dbVars, historyVars
<1>3. QED
  BY <1>1, <1>2 DEF ScanInvariants, Goto

\* Spending from the environment's budget leaves a budget.
LEMMA Spending ==
  ASSUME Typed, NEW f \in {"toggles", "resets", "corruptions"}, budget[f] > 0
  PROVE  [budget EXCEPT ![f] = @ - 1] \in [crashes : Nat, throws : Nat, toggles : Nat,
                    misreads : Nat, resets : Nat, calls : Nat, corruptions : Nat]
<1>1. budget \in [crashes : Nat, throws : Nat, toggles : Nat, misreads : Nat, resets : Nat,
                  calls : Nat, corruptions : Nat]
  BY DEF Typed, TypeOK
<1>2. budget[f] - 1 \in Nat
  BY <1>1
<1> DEFINE n == budget[f] - 1
<1> HIDE DEF n
<1>3. [budget EXCEPT ![f] = n] \in [crashes : Nat, throws : Nat, toggles : Nat,
                    misreads : Nat, resets : Nat, calls : Nat, corruptions : Nat]
  BY <1>1, <1>2 DEF n
<1>4. QED
  BY <1>3 DEF n

LEMMA EnvironmentType ==
  ASSUME Typed, ExpireLease \/ SetMaintenance \/ ResetControl PROVE Typed'
<1>1. CASE ExpireLease
  BY <1>1 DEF Typed, TypeOK, ControlFlow, ExpireLease, queueVars
<1>2. CASE SetMaintenance
  <2>1. /\ grace' \in [Workers -> [maintenance : Nat, unread : Nat, stopped : Nat]]
        /\ budget' \in [crashes : Nat, throws : Nat, toggles : Nat, misreads : Nat,
                          resets : Nat, calls : Nat, corruptions : Nat]
    <3>1. grace' \in [Workers -> [maintenance : Nat, unread : Nat, stopped : Nat]]
      BY <1>2 DEF SetMaintenance, Typed, TypeOK
    <3>2. QED
      BY <1>2, <3>1, Spending DEF SetMaintenance
  <2>2. QED
    BY <1>2, <2>1 DEF Typed, TypeOK, ControlFlow, SetMaintenance, queueVars
<1>3. CASE ResetControl
  <2>1. /\ control' \in [botsPaused : BOOLEAN, processingStopped : BOOLEAN]
        /\ corrupt' \in BOOLEAN
    BY <1>3 DEF ResetControl
  <2>2. /\ grace' \in [Workers -> [maintenance : Nat, unread : Nat, stopped : Nat]]
        /\ budget' \in [crashes : Nat, throws : Nat, toggles : Nat, misreads : Nat,
                          resets : Nat, calls : Nat, corruptions : Nat]
    <3>1. grace' \in [Workers -> [maintenance : Nat, unread : Nat, stopped : Nat]]
      BY <1>3 DEF ResetControl, Typed, TypeOK
    <3>2. QED
      BY <1>3, <3>1, Spending DEF ResetControl
  <2>3. QED
    BY <1>3, <2>1, <2>2 DEF Typed, TypeOK, ControlFlow, ResetControl, queueVars
<1>4. QED
  BY <1>1, <1>2, <1>3

LEMMA KeyOfTyped == ASSUME Typed, NEW p \in Procs, InPipeline(p)
                    PROVE  KeyOf(p) \in Keys \cup {NoKey}
  BY NamesAssumption, SizesAssumption
     DEF Typed, TypeOK, ControlFlow, LocalOK, Proc, PCs, Procs, InPipeline, KeyOf, Keys, NoKey

LEMMA CommitTickType == ASSUME Typed, NEW p \in Procs, CommitTick(p) PROVE Typed'
<1>1. proc[p] \in Proc /\ LocalOK(p, proc[p]) /\ proc[p].pc = "pipeline"
  BY ProcTyped DEF CommitTick, InPipeline
<1>5. proc' \in [Procs -> Proc] /\ ControlFlow'
  BY <1>1, ReturnStep DEF CommitTick
<1>6. KeyOf(p) \in Keys \cup {NoKey} /\ NextTick(p) \in Nat /\ proc[p].tick \in Nat
  BY <1>1, KeyOfTyped DEF CommitTick, Proc, NextTick
<1>7. executions' \in [Keys -> Row]
  BY <1>6 DEF Typed, TypeOK, CommitTick, RecordExecution, Row
<1>8. commits' \subseteq [tick : Nat, key : Keys \cup {NoKey}]
  BY <1>6 DEF Typed, TypeOK, CommitTick
<1>9. grace' \in [Workers -> [maintenance : Nat, unread : Nat, stopped : Nat]]
  BY DEF Typed, TypeOK, CommitTick
<1>10. world' \in [currentTick : Nat, lockVersion : Nat]
  BY <1>6 DEF Typed, TypeOK, CommitTick
<1>11. corrupt' \in BOOLEAN
  <2>1. corrupt' = corrupt \/ corrupt' = TRUE
    BY DEF CommitTick
  <2>2. QED
    BY <2>1 DEF Typed, TypeOK
<1>13. budget' \in [crashes : Nat, throws : Nat, toggles : Nat, misreads : Nat,
                    resets : Nat, calls : Nat, corruptions : Nat]
  <2>1. CASE UNCHANGED budget
    BY <2>1 DEF Typed, TypeOK
  <2>2. CASE budget.corruptions > 0 /\ budget' = [budget EXCEPT !.corruptions = @ - 1]
    BY <2>2, Spending
  <2>3. QED
    BY <2>1, <2>2 DEF CommitTick
<1>12. QED
  BY <1>5, <1>7, <1>8, <1>9, <1>10, <1>11, <1>13 DEF Typed, TypeOK, CommitTick, queueVars

LEMMA NextType == Typed /\ [Next]_vars => Typed'
<1> SUFFICES ASSUME Typed, [Next]_vars PROVE Typed'
  OBVIOUS
<1>1. ASSUME NEW j \in Jobs, Enqueue(j) \/ Stall(j) PROVE Typed'
  BY <1>1, EnqueueType, StallType
<1>2. ASSUME NEW w \in Workers, (\E j \in Jobs : TakeJob(w, j)) \/ Crash(w) PROVE Typed'
  BY <1>2, TakeJobType, CrashType
<1>3. ASSUME NEW w \in Workers, IterationStep(w) PROVE Typed'
  BY <1>3, AcquireLeaseType, LeaseHeldType, ReadBeforeType, LoopTopType, ReadAfterType,
     CleanUpRowsType, ReleaseLeaseType, ScanInvariantsType, EnforcePolicyType DEF IterationStep
<1>4. ASSUME NEW c \in Callers, StartCall(c) PROVE Typed'
  BY <1>4, StartCallType
<1>5. ASSUME NEW p \in Procs, TickStep(p) PROVE Typed'
  BY <1>5, BeginTickType, CheckKeyType, InsertKeyType, PipelineThrowsType,
     CommitConflictsType, CommitTickType DEF TickStep
<1>6. CASE UNCHANGED vars
  BY <1>6 DEF Typed, TypeOK, ControlFlow, vars, dbVars, queueVars, historyVars
<1>7. QED
  BY <1>1, <1>2, <1>3, <1>4, <1>5, <1>6, EnvironmentType DEF Next

\* Every variable keeps its type whatever the processes and the environment do;
\* in particular no tick is retried more often than maxConflictRetries.
THEOREM TypeCorrect == Spec => []TypeOK
<1>1. Typed => TypeOK
  BY DEF Typed
<1>2. QED
  BY <1>1, InitType, NextType, PTL DEF Spec

-----------------------------------------------------------------------------
(* What the transactions of concurrent ticks guarantee together: no tick   *)
(* is lost or committed twice, the execution rows tell the truth, and the  *)
(* whole implements the abstract clock; who may be inside an iteration as  *)
(* long as no lease runs out; what an advance call may expect; and how     *)
(* soon maintenance and a stop take effect.                                *)

\* What a transaction has read is no newer than the world row, and its version
\* belongs to its tick; a cleanup has a bound no newer than the world.
ReadsPast(r) ==
    /\ r.pc \in {"key", "insert", "pipeline"} =>
          r.version = r.tick /\ r.tick <= world.currentTick
    /\ r.pc = "cleanup" => RetentionTicks > 0 /\ r.tick <= world.currentTick

\* Only commits move the world row, and move both counters together.
Synced ==
    /\ world.lockVersion = world.currentTick
    /\ \A p \in Procs : ReadsPast(proc[p])

\* A key in the hands of an open transaction has no committed row and no other
\* transaction behind it.
KeyHeld ==
    \A p \in Procs : InPipeline(p) /\ KeyOf(p) # NoKey =>
        /\ executions[KeyOf(p)] = NoRow
        /\ \A q \in Procs : InPipeline(q) /\ KeyOf(q) = KeyOf(p) => q = p

\* The inductive invariant.
TickInv == Typed /\ Synced /\ TicksCommittedOnce /\ KeyHeld /\ RowsMatchCommits

\* A worker inside an iteration holds a live lease, unless it overran.
LeaseInv ==
    \A w \in Workers : InIteration(w) /\ w \notin overran =>
        lease.owner = w /\ ~lease.expired

-----------------------------------------------------------------------------
\* Most steps neither write the world, the rows or the log nor read the world.
Quiet ==
    /\ UNCHANGED <<world, executions, commits>>
    /\ \A p \in Procs :
          proc'[p] = proc[p] \/ proc'[p].pc \notin {"key", "insert", "pipeline", "cleanup"}

\* The steps that do.
Reading(p) ==
    \/ BeginTick(p) /\ ExpectedVersionHolds(p)
    \/ CheckKey(p) /\ Goto(p, "insert")
    \/ InsertKey(p) /\ executions[KeyOf(p)] = NoRow /\ Goto(p, "pipeline")

LEMMA QuietExit ==
  ASSUME Typed, NEW p \in Procs, UNCHANGED <<world, executions, commits>>,
         Fail(p) \/ Return(p) \/ proc' = [proc EXCEPT ![p] = Idle]
  PROVE  Quiet
<1>1. proc \in [Procs -> Proc]
  BY DEF Typed, TypeOK
<1>2. CASE proc' = [proc EXCEPT ![p] = Idle]
  BY <1>1, <1>2 DEF Quiet, Idle
<1>3. CASE Fail(p)
  BY <1>1, <1>2, <1>3 DEF Quiet, Fail, Proc
<1>4. CASE Return(p)
  BY <1>1, <1>2, <1>4 DEF Quiet, Return, Proc
<1>5. QED
  BY <1>2, <1>3, <1>4

LEMMA QuietGoto ==
  ASSUME Typed, NEW p \in Procs, UNCHANGED <<world, executions, commits>>,
         NEW label \in PCs \ {"key", "insert", "pipeline", "cleanup"}, Goto(p, label)
  PROVE  Quiet
  BY DEF Typed, TypeOK, Goto, Quiet, Proc

LEMMA QuietTake ==
  ASSUME Typed, NEW w \in Workers, NEW j \in Jobs, TakeJob(w, j)
  PROVE  Quiet
<1>1. w \in Procs
  BY DEF Procs
<1>2. UNCHANGED <<world, executions, commits>>
  BY DEF TakeJob, dbVars, historyVars
<1>3. CASE UNCHANGED proc
  BY <1>2, <1>3 DEF Quiet
<1>4. CASE proc' = [proc EXCEPT ![w] = [Idle EXCEPT !.pc = "acquire", !.job = j]]
  BY <1>1, <1>2, <1>4 DEF Quiet, Idle, Typed, TypeOK
<1>5. QED
  BY <1>3, <1>4 DEF TakeJob

LEMMA QuietIteration ==
  ASSUME Typed, NEW w \in Workers, IterationStep(w)
  PROVE  Quiet \/ ReadAfter(w) \/ CleanUpRows(w)
<1>1. w \in Procs /\ proc[w] \in Proc
  BY ProcTyped DEF Procs
<1>2. CASE AcquireLease(w)
  BY <1>1, <1>2, QuietGoto DEF AcquireLease, PCs
<1>3. CASE LeaseHeld(w)
  BY <1>1, <1>3, QuietExit DEF LeaseHeld, dbVars, historyVars
<1>4. CASE ReadBefore(w)
  BY <1>1, <1>4 DEF ReadBefore, Quiet, dbVars, historyVars, Typed, TypeOK, Proc
<1>5. CASE LoopTop(w)
  BY <1>1, <1>5 DEF LoopTop, Quiet, dbVars, historyVars, Typed, TypeOK, Proc
<1>6. CASE ReleaseLease(w)
  <2>1. UNCHANGED <<world, executions, commits>>
    BY <1>6 DEF ReleaseLease
  <2>2. QED
    BY <1>1, <1>6, <2>1, QuietExit, QuietGoto DEF ReleaseLease, PCs
<1>7. CASE ScanInvariants(w)
  <2>1. UNCHANGED <<world, executions, commits>>
    BY <1>7 DEF ScanInvariants, dbVars, historyVars
  <2>2. QED
    BY <1>1, <1>7, <2>1, QuietExit, QuietGoto DEF ScanInvariants, PCs
<1>8. CASE EnforcePolicy(w)
  BY <1>1, <1>8, QuietExit DEF EnforcePolicy, historyVars
<1>9. QED
  BY <1>2, <1>3, <1>4, <1>5, <1>6, <1>7, <1>8 DEF IterationStep

LEMMA QuietTick ==
  ASSUME Typed, NEW p \in Procs, TickStep(p)
  PROVE  Quiet \/ Reading(p) \/ CommitTick(p)
<1>1. proc[p] \in Proc
  BY ProcTyped
<1>2. CASE BeginTick(p)
  BY <1>2, QuietExit DEF BeginTick, Reading, dbVars, historyVars
<1>3. CASE CheckKey(p)
  BY <1>3, QuietExit DEF CheckKey, Reading, dbVars, historyVars
<1>4. CASE InsertKey(p)
  BY <1>4, QuietExit DEF InsertKey, Reading, dbVars, historyVars
<1>5. CASE PipelineThrows(p)
  BY <1>5, QuietExit DEF PipelineThrows, dbVars, historyVars
<1>6. CASE CommitConflicts(p)
  <2>1. UNCHANGED <<world, executions, commits>>
    BY <1>6 DEF CommitConflicts, dbVars, historyVars
  <2>2. CASE proc' = [proc EXCEPT ![p].pc = "begin", ![p].attempt = @ + 1]
    BY <2>1, <2>2, <1>1 DEF Quiet, Typed, TypeOK, Proc
  <2>3. QED
    BY <1>6, <2>1, <2>2, QuietExit DEF CommitConflicts
<1>7. QED
  BY <1>2, <1>3, <1>4, <1>5, <1>6 DEF TickStep

LEMMA QuietElse ==
  ASSUME Typed, [Next]_vars
  PROVE  \/ Quiet
         \/ \E w \in Workers : ReadAfter(w) \/ CleanUpRows(w)
         \/ \E p \in Procs : Reading(p) \/ CommitTick(p)
<1>1. ASSUME NEW j \in Jobs, Enqueue(j) \/ Stall(j) PROVE Quiet
  BY <1>1 DEF Enqueue, Stall, Quiet, dbVars, historyVars
<1>2. ASSUME NEW w \in Workers, (\E j \in Jobs : TakeJob(w, j)) \/ Crash(w) PROVE Quiet
  <2>1. CASE Crash(w)
    BY <2>1, QuietExit DEF Crash, Procs
  <2>2. QED
    BY <1>2, <2>1, QuietTake
<1>3. ASSUME NEW c \in Callers, StartCall(c) PROVE Quiet
  <2>1. c \in Procs
    BY DEF Procs
  <2>2. QED
    BY <1>3, <2>1 DEF StartCall, Quiet, Idle, dbVars, historyVars, Typed, TypeOK
<1>4. CASE ExpireLease \/ SetMaintenance \/ ResetControl
  BY <1>4 DEF ExpireLease, SetMaintenance, ResetControl, Quiet
<1>5. CASE UNCHANGED vars
  BY <1>5 DEF vars, Quiet
<1>6. QED
  BY <1>1, <1>2, <1>3, <1>4, <1>5, QuietIteration, QuietTick DEF Next

-----------------------------------------------------------------------------
\* What each of the other steps does to its own process.
LEMMA ReadingStep ==
  ASSUME Typed, NEW p \in Procs, Reading(p)
  PROVE  /\ UNCHANGED <<world, executions, commits>>
         /\ \A q \in Procs \ {p} : proc'[q] = proc[q]
         /\ \/ /\ BeginTick(p)
               /\ proc'[p].version = world.lockVersion /\ proc'[p].tick = world.currentTick
               /\ proc'[p].job = proc[p].job /\ proc'[p].idx = proc[p].idx
               /\ proc'[p].pc = IF KeyOf(p) = NoKey THEN "pipeline" ELSE "key"
            \/ CheckKey(p) /\ proc'[p] = [proc[p] EXCEPT !.pc = "insert"]
            \/ /\ InsertKey(p) /\ executions[KeyOf(p)] = NoRow
               /\ proc'[p] = [proc[p] EXCEPT !.pc = "pipeline"]
<1>1. proc \in [Procs -> Proc] /\ proc[p] \in Proc
  BY DEF Typed, TypeOK
<1>2. UNCHANGED <<world, executions, commits>>
  BY DEF Reading, BeginTick, CheckKey, InsertKey, dbVars, historyVars
<1>3. CASE BeginTick(p) /\ ExpectedVersionHolds(p)
  BY <1>1, <1>2, <1>3 DEF BeginTick, Proc
<1>4. CASE CheckKey(p) /\ Goto(p, "insert")
  BY <1>1, <1>2, <1>4 DEF Goto
<1>5. CASE InsertKey(p) /\ executions[KeyOf(p)] = NoRow /\ Goto(p, "pipeline")
  BY <1>1, <1>2, <1>5 DEF Goto
<1>6. QED
  BY <1>3, <1>4, <1>5 DEF Reading

LEMMA CommitStep ==
  ASSUME Typed, Synced, NEW p \in Procs, CommitTick(p)
  PROVE  /\ proc[p].tick = world.currentTick
         /\ world' = [currentTick |-> world.currentTick + 1,
                      lockVersion |-> world.lockVersion + 1]
         /\ commits' = commits \cup {[tick |-> world.currentTick + 1, key |-> KeyOf(p)]}
         /\ proc'[p].pc \notin {"key", "insert", "pipeline", "cleanup"}
         /\ \A q \in Procs \ {p} : proc'[q] = proc[q]
<1>1. proc \in [Procs -> Proc] /\ proc[p] \in Proc
  BY DEF Typed, TypeOK
<1>2. proc[p].tick = world.currentTick
  BY DEF CommitTick, InPipeline, VersionUnchanged, Synced, ReadsPast
<1>3. Return(p) => /\ proc'[p].pc \notin {"key", "insert", "pipeline", "cleanup"}
                   /\ \A q \in Procs \ {p} : proc'[q] = proc[q]
  BY <1>1 DEF Return, Idle, Proc
<1>4. QED
  BY <1>2, <1>3 DEF CommitTick, NextTick

LEMMA SyncedInit == Init => Synced
  BY DEF Init, Synced, ReadsPast, Idle

LEMMA SyncedStep == ASSUME Typed, Synced, [Next]_vars PROVE Synced'
<1>1. CASE Quiet
  BY <1>1 DEF Quiet, Synced, ReadsPast
<1>2. ASSUME NEW w \in Workers, ReadAfter(w) PROVE Synced'
  <2>1. w \in Procs /\ proc \in [Procs -> Proc]
    BY DEF Procs, Typed, TypeOK
  <2>2. world' = world /\ world.currentTick \in Nat
    BY <1>2 DEF ReadAfter, dbVars, Typed, TypeOK
  <2>3. ReadsPast(proc[w])'
    BY <1>2, <2>1, <2>2 DEF ReadAfter, ReadsPast, CleanupDue, Proc
  <2>4. \A q \in Procs \ {w} : proc'[q] = proc[q]
    BY <1>2, <2>1 DEF ReadAfter
  <2>5. QED
    BY <2>2, <2>3, <2>4 DEF Synced, ReadsPast
<1>3. ASSUME NEW w \in Workers, CleanUpRows(w) PROVE Synced'
  BY <1>3 DEF CleanUpRows, Goto, Synced, ReadsPast, Procs, Typed, TypeOK
<1>4. ASSUME NEW p \in Procs, Reading(p) PROVE Synced'
  <2>1. world' = world /\ world.currentTick \in Nat /\ proc[p] \in Proc
    BY <1>4, ReadingStep, ProcTyped DEF Typed, TypeOK
  <2>2. ReadsPast(proc[p])'
    <3>1. CASE BeginTick(p) /\ proc'[p].version = world.lockVersion
                            /\ proc'[p].tick = world.currentTick
                            /\ proc'[p].pc \in {"pipeline", "key"}
      BY <2>1, <3>1 DEF Synced, ReadsPast
    <3>2. CASE CheckKey(p) /\ proc'[p] = [proc[p] EXCEPT !.pc = "insert"]
      BY <2>1, <3>2 DEF Synced, ReadsPast, Proc, CheckKey
    <3>3. CASE InsertKey(p) /\ proc'[p] = [proc[p] EXCEPT !.pc = "pipeline"]
      BY <2>1, <3>3 DEF Synced, ReadsPast, Proc, InsertKey
    <3>4. QED
      BY <1>4, <3>1, <3>2, <3>3, ReadingStep
  <2>3. QED
    BY <1>4, <2>1, <2>2, ReadingStep, ZenonT(60) DEF Synced, ReadsPast
<1>5. ASSUME NEW p \in Procs, CommitTick(p) PROVE Synced'
  <2>1. \A q \in Procs : proc[q].tick \in Nat /\ world.currentTick \in Nat
    BY ProcTyped DEF Proc, Typed, TypeOK
  <2>2. \A q \in Procs : ReadsPast(proc[q])'
    BY <1>5, <2>1, CommitStep DEF Synced, ReadsPast
  <2>3. QED
    BY <1>5, <2>2, CommitStep DEF Synced
<1>6. QED
  BY <1>1, <1>2, <1>3, <1>4, <1>5, QuietElse

-----------------------------------------------------------------------------
LEMMA OnceInit == Init => TicksCommittedOnce
  BY DEF Init, TicksCommittedOnce

LEMMA OnceStep ==
  ASSUME Typed, Synced, TicksCommittedOnce, [Next]_vars PROVE TicksCommittedOnce'
<1>1. CASE UNCHANGED <<world, commits>>
  BY <1>1 DEF TicksCommittedOnce
<1>2. ASSUME NEW p \in Procs, CommitTick(p) PROVE TicksCommittedOnce'
  <2> DEFINE n == world.currentTick
  <2>1. n \in Nat /\ world'.currentTick = n + 1
    BY <1>2, CommitStep DEF Typed, TypeOK
  <2>2. commits' = commits \cup {[tick |-> n + 1, key |-> KeyOf(p)]}
    BY <1>2, CommitStep
  <2>3. \A c \in commits : c.tick \in 1 .. n /\ c.tick # n + 1
    BY <2>1 DEF TicksCommittedOnce
  <2>4. \A c \in commits' : c.tick \in 1 .. n + 1
    BY <2>1, <2>2, <2>3
  <2>5. \A t \in 1 .. n + 1 : \E c \in commits' : c.tick = t
    <3> SUFFICES ASSUME NEW t \in 1 .. n + 1 PROVE \E c \in commits' : c.tick = t
      OBVIOUS
    <3>1. CASE t = n + 1
      <4>1. [tick |-> n + 1, key |-> KeyOf(p)] \in commits'
        BY <2>2
      <4>2. QED
        BY <3>1, <4>1
    <3>2. CASE t \in 1 .. n
      BY <2>2, <3>2 DEF TicksCommittedOnce
    <3>3. QED
      BY <2>1, <3>1, <3>2
  <2>6. \A c, d \in commits' : c.tick = d.tick => c = d
    BY <2>2, <2>3 DEF TicksCommittedOnce
  <2>7. QED
    BY <2>1, <2>4, <2>5, <2>6 DEF TicksCommittedOnce
<1>3. ASSUME NEW w \in Workers, ReadAfter(w) \/ CleanUpRows(w)
      PROVE  UNCHANGED <<world, commits>>
  BY <1>3 DEF ReadAfter, CleanUpRows, dbVars, historyVars
<1>4. ASSUME NEW p \in Procs, Reading(p) PROVE UNCHANGED <<world, commits>>
  BY <1>4, ReadingStep
<1>5. QED
  BY <1>1, <1>2, <1>3, <1>4, QuietElse DEF Quiet

\* Each tick up to the current one is committed exactly once, for any number of
\* workers, callers and duplicate deliveries.
THEOREM CommittedOnce == Spec => []TicksCommittedOnce
<1> DEFINE Inv == Typed /\ Synced /\ TicksCommittedOnce
<1>1. Init => Inv
  BY InitType, SyncedInit, OnceInit
<1>2. Inv /\ [Next]_vars => Inv'
  BY NextType, SyncedStep, OnceStep
<1>3. Inv => TicksCommittedOnce
  OBVIOUS
<1>4. QED
  BY <1>1, <1>2, <1>3, PTL DEF Spec

-----------------------------------------------------------------------------
LEMMA KeyHeldInit == Init => KeyHeld
  BY DEF Init, KeyHeld, InPipeline, Idle

LEMMA KeyHeldStep ==
  ASSUME Typed, Synced, KeyHeld, [Next]_vars PROVE KeyHeld'
<1>1. CASE Quiet
  BY <1>1 DEF Quiet, KeyHeld, InPipeline, KeyOf, NoKey
<1>2. ASSUME NEW w \in Workers, ReadAfter(w) PROVE KeyHeld'
  <2>1. w \in Procs /\ proc \in [Procs -> Proc]
    BY DEF Procs, Typed, TypeOK
  <2>2. /\ \A q \in Procs \ {w} : proc'[q] = proc[q]
        /\ proc'[w].pc # "pipeline" /\ executions' = executions
    BY <1>2, <2>1 DEF ReadAfter, Proc, dbVars
  <2>3. QED
    BY <2>2 DEF KeyHeld, InPipeline, KeyOf, NoKey
<1>3. ASSUME NEW w \in Workers, CleanUpRows(w) PROVE KeyHeld'
  <2>1. w \in Procs /\ proc \in [Procs -> Proc]
    BY DEF Procs, Typed, TypeOK
  <2>2. /\ \A q \in Procs \ {w} : proc'[q] = proc[q]
        /\ proc'[w].pc # "pipeline"
    BY <1>3, <2>1 DEF CleanUpRows, Goto, Proc
  <2>3. \A k \in Keys : executions[k] = NoRow => executions'[k] = NoRow
    BY <1>3 DEF CleanUpRows
  <2>4. \A q \in Procs : InPipeline(q) /\ KeyOf(q) # NoKey => KeyOf(q) \in Keys
    BY KeyOfTyped
  <2>5. QED
    BY <2>2, <2>3, <2>4 DEF KeyHeld, InPipeline, KeyOf, NoKey
<1>4. ASSUME NEW p \in Procs, Reading(p) PROVE KeyHeld'
  <2>1. /\ executions' = executions
        /\ \A q \in Procs \ {p} : proc'[q] = proc[q]
        /\ \A q \in Procs \ {p} : InPipeline(q)' <=> InPipeline(q)
        /\ \A q \in Procs \ {p} : KeyOf(q)' = KeyOf(q)
    BY <1>4, ReadingStep DEF InPipeline, KeyOf, NoKey
  <2>2. KeyOf(p)' = KeyOf(p)
    BY <1>4, ReadingStep, ProcTyped DEF KeyOf, NoKey, Proc
  <2>3. CASE ~InPipeline(p)'
    BY <2>1, <2>2, <2>3 DEF KeyHeld
  <2>4. CASE KeyOf(p) = NoKey
    BY <2>1, <2>2, <2>4 DEF KeyHeld
  <2>5. CASE InsertKey(p) /\ executions[KeyOf(p)] = NoRow
    <3>1. \A q \in Procs \ {p} : InPipeline(q) => KeyOf(q) # KeyOf(p)
      BY <2>5 DEF InsertKey, KeyIsPending
    <3>2. QED
      BY <2>1, <2>2, <2>5, <3>1 DEF KeyHeld
  <2>6. CASE CheckKey(p) /\ proc'[p] = [proc[p] EXCEPT !.pc = "insert"]
    <3>1. ~InPipeline(p)'
      BY <2>6, ProcTyped DEF InPipeline, Proc
    <3>2. QED
      BY <2>3, <3>1
  <2>7. CASE proc'[p].pc = IF KeyOf(p) = NoKey THEN "pipeline" ELSE "key"
    BY <2>3, <2>4, <2>7 DEF InPipeline
  <2>8. QED
    BY <1>4, <2>5, <2>6, <2>7, ReadingStep
<1>5. ASSUME NEW p \in Procs, CommitTick(p) PROVE KeyHeld'
  <2>1. /\ ~InPipeline(p)'
        /\ \A q \in Procs \ {p} : (InPipeline(q)' <=> InPipeline(q)) /\ KeyOf(q)' = KeyOf(q)
    BY <1>5, CommitStep DEF InPipeline, KeyOf, NoKey
  <2>2. \A q \in Procs : InPipeline(q) /\ KeyOf(q) # NoKey => KeyOf(q) \in Keys
    BY KeyOfTyped
  <2>3. InPipeline(p) /\ executions \in [Keys -> Row]
    BY <1>5 DEF CommitTick, Typed, TypeOK
  <2>4. \A k \in Keys \ {KeyOf(p)} : executions'[k] = executions[k]
    BY <1>5, <2>3 DEF CommitTick, RecordExecution
  <2>5. QED
    BY <2>1, <2>2, <2>3, <2>4 DEF KeyHeld
<1>6. QED
  BY <1>1, <1>2, <1>3, <1>4, <1>5, QuietElse

-----------------------------------------------------------------------------
LEMMA RowsInit == Init => RowsMatchCommits
  BY DEF Init, RowsMatchCommits

LEMMA RowsCommit ==
  ASSUME Typed, Synced, TicksCommittedOnce, KeyHeld, RowsMatchCommits,
         NEW p \in Procs, CommitTick(p)
  PROVE  RowsMatchCommits'
<1> DEFINE n == world.currentTick
           k == KeyOf(p)
           new == [tickBefore |-> n, tickAfter |-> n + 1]
           entry == [tick |-> n + 1, key |-> k]
<1>1. n \in Nat /\ world'.currentTick = n + 1 /\ commits' = commits \cup {entry}
  BY CommitStep DEF Typed, TypeOK
<1>2. k \in Keys \cup {NoKey} /\ NoKey \notin Keys
  BY KeyOfTyped, NamesAssumption DEF CommitTick, Keys, NoKey
<1>3. executions' = IF k = NoKey THEN executions ELSE [executions EXCEPT ![k] = new]
  BY CommitStep DEF CommitTick, RecordExecution, NextTick
<1>4. executions \in [Keys -> Row] /\ RetentionTicks \in Nat
  BY SizesAssumption DEF Typed, TypeOK
<1>5. \A h \in Keys : executions'[h] # NoRow =>
          /\ executions'[h].tickAfter = executions'[h].tickBefore + 1
          /\ [tick |-> executions'[h].tickAfter, key |-> h] \in commits'
  <2> SUFFICES ASSUME NEW h \in Keys, executions'[h] # NoRow
               PROVE  /\ executions'[h].tickAfter = executions'[h].tickBefore + 1
                      /\ [tick |-> executions'[h].tickAfter, key |-> h] \in commits'
    OBVIOUS
  <2>1. CASE h = k
    <3>1. executions'[h] = new
      BY <1>2, <1>3, <1>4, <2>1
    <3>2. QED
      BY <1>1, <2>1, <3>1
  <2>2. CASE h # k
    BY <1>1, <1>3, <1>4, <2>2 DEF RowsMatchCommits
  <2>3. QED
    BY <2>1, <2>2
<1>6. \A c \in commits' : c.key # NoKey /\ Remembered(c.tick)' =>
          executions'[c.key].tickAfter = c.tick
  <2> SUFFICES ASSUME NEW c \in commits', c.key # NoKey, Remembered(c.tick)'
               PROVE  executions'[c.key].tickAfter = c.tick
    OBVIOUS
  <2>1. CASE c = entry
    BY <1>2, <1>3, <1>4, <2>1
  <2>2. CASE c \in commits
    <3>1. c.key \in Keys /\ c.tick \in 1 .. n
      BY <2>2 DEF Typed, TypeOK, TicksCommittedOnce
    <3>2. Remembered(c.tick)
      BY <1>1, <1>4, <3>1 DEF Remembered
    <3>3. executions[c.key].tickAfter = c.tick
      BY <2>2, <3>2 DEF RowsMatchCommits
    <3>4. c.key # k
      <4>1. executions[c.key] # NoRow
        BY <3>1, <3>3 DEF NoRow
      <4>2. QED
        BY <4>1 DEF KeyHeld, CommitTick
    <3>5. QED
      BY <1>3, <1>4, <3>1, <3>3, <3>4
  <2>3. QED
    BY <1>1, <2>1, <2>2
<1>7. QED
  BY <1>5, <1>6 DEF RowsMatchCommits

LEMMA RowsCleanUp ==
  ASSUME Typed, Synced, TicksCommittedOnce, RowsMatchCommits,
         NEW w \in Workers, CleanUpRows(w)
  PROVE  RowsMatchCommits'
<1>1. w \in Procs /\ world' = world /\ commits' = commits
  BY DEF CleanUpRows, historyVars, Procs
<1>2. /\ proc[w].tick \in Nat /\ RetentionTicks \in Nat \ {0}
      /\ proc[w].tick <= world.currentTick /\ world.currentTick \in Nat
  BY <1>1, ProcTyped, SizesAssumption DEF CleanUpRows, Synced, ReadsPast, Proc, Typed, TypeOK
<1>3. \A k \in Keys : executions'[k] = IF RowIsOld(executions[k], proc[w].tick)
                                       THEN NoRow ELSE executions[k]
  BY DEF CleanUpRows
<1>4. \A c \in commits : c.key # NoKey /\ Remembered(c.tick) =>
          executions'[c.key].tickAfter = c.tick
  <2> SUFFICES ASSUME NEW c \in commits, c.key # NoKey, Remembered(c.tick)
               PROVE  executions'[c.key].tickAfter = c.tick
    OBVIOUS
  <2>1. c.key \in Keys /\ c.tick \in Nat
    BY DEF Typed, TypeOK
  <2>2. executions[c.key].tickAfter = c.tick
    BY DEF RowsMatchCommits
  <2>3. ~RowIsOld(executions[c.key], proc[w].tick)
    BY <1>2, <2>1, <2>2 DEF RowIsOld, Remembered
  <2>4. QED
    BY <1>3, <2>1, <2>2, <2>3
<1>5. \A k \in Keys : executions'[k] # NoRow =>
          /\ executions'[k].tickAfter = executions'[k].tickBefore + 1
          /\ [tick |-> executions'[k].tickAfter, key |-> k] \in commits
  BY <1>3 DEF RowsMatchCommits
<1>6. QED
  BY <1>1, <1>4, <1>5 DEF RowsMatchCommits, Remembered

LEMMA RowsStep ==
  ASSUME Typed, Synced, TicksCommittedOnce, KeyHeld, RowsMatchCommits, [Next]_vars
  PROVE  RowsMatchCommits'
<1>1. CASE UNCHANGED <<world, executions, commits>>
  BY <1>1 DEF RowsMatchCommits, Remembered
<1>2. ASSUME NEW w \in Workers, ReadAfter(w) PROVE UNCHANGED <<world, executions, commits>>
  BY <1>2 DEF ReadAfter, dbVars, historyVars
<1>3. ASSUME NEW p \in Procs, Reading(p) PROVE UNCHANGED <<world, executions, commits>>
  BY <1>3, ReadingStep
<1>4. QED
  BY <1>1, <1>2, <1>3, RowsCommit, RowsCleanUp, QuietElse DEF Quiet

LEMMA InitInv == Init => TickInv
  BY InitType, SyncedInit, OnceInit, KeyHeldInit, RowsInit DEF TickInv

LEMMA NextInv == TickInv /\ [Next]_vars => TickInv'
  BY NextType, SyncedStep, OnceStep, KeyHeldStep, RowsStep DEF TickInv

\* The execution rows always agree with the committed ticks, for every retention
\* and cleanup interval and with any number of workers cleaning up at once.
THEOREM RowsTruthful == Spec => []RowsMatchCommits
<1>1. TickInv => RowsMatchCommits
  BY DEF TickInv
<1>2. QED
  BY <1>1, InitInv, NextInv, PTL DEF Spec

-----------------------------------------------------------------------------
LEMMA CommitAdvancesClock ==
  ASSUME TickInv, NEW p \in Procs, CommitTick(p)
  PROVE  Clock!Next
<1> DEFINE n == world.currentTick
           k == KeyOf(p)
<1>1. /\ Typed /\ Synced /\ TicksCommittedOnce /\ KeyHeld /\ RowsMatchCommits
  BY DEF TickInv
<1>2. /\ world'.currentTick = n + 1 /\ n \in Nat /\ RetentionTicks \in Nat
      /\ commits' = commits \cup {[tick |-> n + 1, key |-> k]}
  BY <1>1, CommitStep, SizesAssumption DEF Typed, TypeOK
<1>3. k \in Keys \cup {NoKey}
  BY <1>1, KeyOfTyped DEF CommitTick
<1>4. k = NoKey \/ \A e \in commits : e.key = k =>
          RetentionTicks > 0 /\ e.tick <= n - RetentionTicks
  <2> SUFFICES ASSUME k # NoKey, NEW e \in commits, e.key = k
               PROVE  RetentionTicks > 0 /\ e.tick <= n - RetentionTicks
    OBVIOUS
  <2>1. executions[k].tickAfter = 0
    BY <1>1 DEF KeyHeld, CommitTick, NoRow
  <2>2. e.tick \in 1 .. n
    BY <1>1 DEF TicksCommittedOnce
  <2>3. ~Remembered(e.tick)
    BY <1>1, <2>1, <2>2 DEF RowsMatchCommits
  <2>4. QED
    BY <1>2, <2>2, <2>3 DEF Remembered
<1>5. Clock!Advance(k)
  BY <1>2, <1>4 DEF Clock!Advance, Clock!Unused
<1>6. QED
  BY <1>3, <1>5 DEF Clock!Next

LEMMA NextRefines ==
  ASSUME TickInv, [Next]_vars
  PROVE  [Clock!Next]_<<world.currentTick, commits>>
<1>1. ASSUME NEW w \in Workers, ReadAfter(w) \/ CleanUpRows(w)
      PROVE  UNCHANGED <<world, commits>>
  BY <1>1 DEF ReadAfter, CleanUpRows, dbVars, historyVars
<1>2. ASSUME NEW p \in Procs, Reading(p) PROVE UNCHANGED <<world, commits>>
  BY <1>2, ReadingStep DEF TickInv
<1>3. QED
  BY <1>1, <1>2, CommitAdvancesClock, QuietElse DEF TickInv, Quiet

\* Tick processing implements the abstract clock: ticks follow each other, and a
\* key that is remembered runs at most one of them.
THEOREM Refinement == Spec => ImplementsTickClock
<1>1. Init => Clock!Init
  BY DEF Init, Clock!Init
<1>2. QED
  BY <1>1, InitInv, NextInv, NextRefines, PTL DEF Spec, ImplementsTickClock, Clock!Spec

-----------------------------------------------------------------------------
\* Steps of a tick leave the lease alone and take nobody into an iteration.
LEMMA LeaseAside ==
  ASSUME LeaseInv, UNCHANGED <<lease, overran>>,
         \A w \in Workers : InIteration(w)' => InIteration(w)
  PROVE  LeaseInv'
  BY DEF LeaseInv

LEMMA LeaseTick ==
  ASSUME Typed, LeaseInv, NEW p \in Procs, TickStep(p) PROVE LeaseInv'
<1>1. proc \in [Procs -> Proc] /\ proc[p] \in Proc
  BY DEF Typed, TypeOK
<1>2. UNCHANGED <<lease, overran>>
  BY DEF TickStep, BeginTick, CheckKey, InsertKey, PipelineThrows, CommitConflicts,
         CommitTick, dbVars, historyVars
<1>3. p \in Workers => InIteration(p)
  BY DEF TickStep, BeginTick, CheckKey, InsertKey, PipelineThrows, CommitConflicts,
         CommitTick, InPipeline, InIteration
<1>4. \A w \in Workers \ {p} : w \in Procs /\ proc'[w] = proc[w]
  <2>1. Fail(p) \/ Return(p) => \A q \in Procs \ {p} : proc'[q] = proc[q]
    BY <1>1 DEF Fail, Return
  <2>2. CASE BeginTick(p)
    BY <1>1, <2>1, <2>2 DEF BeginTick, Procs
  <2>3. CASE CheckKey(p)
    BY <1>1, <2>1, <2>3 DEF CheckKey, Goto, Procs
  <2>4. CASE InsertKey(p)
    BY <1>1, <2>1, <2>4 DEF InsertKey, Goto, Procs
  <2>5. CASE PipelineThrows(p)
    BY <1>1, <2>1, <2>5 DEF PipelineThrows, Procs
  <2>6. CASE CommitConflicts(p)
    BY <1>1, <2>1, <2>6 DEF CommitConflicts, Procs
  <2>7. CASE CommitTick(p)
    BY <1>1, <2>1, <2>7 DEF CommitTick, Procs
  <2>8. QED
    BY <2>2, <2>3, <2>4, <2>5, <2>6, <2>7 DEF TickStep
<1>5. QED
  BY <1>2, <1>3, <1>4, LeaseAside DEF InIteration

LEMMA LeaseIteration ==
  ASSUME Typed, LeaseInv, NEW w \in Workers, IterationStep(w) PROVE LeaseInv'
<1>1. proc \in [Procs -> Proc] /\ w \in Procs /\ Workers \subseteq Procs /\ proc[w] \in Proc
  BY DEF Typed, TypeOK, Procs
<1>2. CASE AcquireLease(w)
  <2>1. \A v \in Workers \ {w} : proc'[v] = proc[v]
    BY <1>1, <1>2 DEF AcquireLease, Goto
  <2>2. \A v \in Workers \ {w} : ~InIteration(v) \/ v \in overran
    BY <1>2 DEF AcquireLease, LeaseIsFree, LeaseInv
  <2>3. \A v \in Workers \ {w} : ~InIteration(v)' \/ v \in overran'
    BY <1>2, <2>1, <2>2 DEF InIteration, AcquireLease
  <2>4. lease'.owner = w /\ ~lease'.expired
    BY <1>2 DEF AcquireLease
  <2>5. QED
    BY <2>3, <2>4 DEF LeaseInv
<1>3. CASE ReleaseLease(w)
  <2>1. /\ \A v \in Workers \ {w} : proc'[v] = proc[v]
        /\ ~InIteration(w)'
    BY <1>1, <1>3 DEF ReleaseLease, Goto, InIteration, Idle, Proc
  <2>2. \A v \in Workers \ {w} : InIteration(v)' => InIteration(v)
    BY <2>1 DEF InIteration
  <2>3. /\ lease' = lease \/ lease.owner = w
        /\ \A v \in Workers \ {w} : v \in overran' <=> v \in overran
    BY <1>3 DEF ReleaseLease, LeaseAfterRelease
  <2>4. QED
    BY <2>1, <2>2, <2>3 DEF LeaseInv
<1>4. CASE /\ UNCHANGED <<lease, overran>>
           /\ \A v \in Workers \ {w} : proc'[v] = proc[v]
           /\ InIteration(w)' => InIteration(w)
  BY <1>4, LeaseAside DEF InIteration
<1>5. CASE ReadBefore(w) \/ LoopTop(w) \/ ReadAfter(w) \/ CleanUpRows(w)
  <2>1. UNCHANGED <<lease, overran>> /\ InIteration(w)
    BY <1>5 DEF ReadBefore, LoopTop, ReadAfter, CleanUpRows, dbVars, historyVars, InIteration
  <2>2. \A v \in Workers \ {w} : proc'[v] = proc[v]
    BY <1>1, <1>5 DEF ReadBefore, LoopTop, ReadAfter, CleanUpRows, Goto
  <2>3. QED
    BY <1>4, <2>1, <2>2
<1>6. CASE LeaseHeld(w) \/ ScanInvariants(w) \/ EnforcePolicy(w)
  <2>1. UNCHANGED <<lease, overran>>
    BY <1>6 DEF LeaseHeld, ScanInvariants, EnforcePolicy, dbVars, historyVars
  <2>2. \A v \in Workers \ {w} : proc'[v] = proc[v]
    BY <1>1, <1>6 DEF LeaseHeld, ScanInvariants, EnforcePolicy, Goto
  <2>3. ~InIteration(w)'
    BY <1>1, <1>6 DEF LeaseHeld, ScanInvariants, EnforcePolicy, Goto, InIteration, Idle, Proc
  <2>4. QED
    BY <1>4, <2>1, <2>2, <2>3
<1>7. QED
  BY <1>2, <1>3, <1>5, <1>6 DEF IterationStep

LEMMA LeaseNext ==
  ASSUME Typed, LeaseInv, [Next]_vars PROVE LeaseInv'
<1>1. proc \in [Procs -> Proc] /\ Workers \subseteq Procs
  BY DEF Typed, TypeOK, Procs
<1>2. ASSUME NEW j \in Jobs, Enqueue(j) \/ Stall(j) PROVE LeaseInv'
  BY <1>2, LeaseAside DEF Enqueue, Stall, InIteration, dbVars, historyVars
<1>3. ASSUME NEW w \in Workers, NEW j \in Jobs, TakeJob(w, j) PROVE LeaseInv'
  <2>1. UNCHANGED <<lease, overran>>
    BY <1>3 DEF TakeJob, dbVars, historyVars
  <2>2. \A v \in Workers : InIteration(v)' => InIteration(v)
    BY <1>1, <1>3, ZenonT(60) DEF TakeJob, InIteration, Idle
  <2>3. QED
    BY <2>1, <2>2, LeaseAside
<1>4. ASSUME NEW w \in Workers, Crash(w) PROVE LeaseInv'
  <2>1. ~InIteration(w)' /\ \A v \in Workers \ {w} : proc'[v] = proc[v]
    BY <1>1, <1>4 DEF Crash, InIteration, Idle
  <2>2. /\ lease' = lease \/ lease.owner = w
        /\ overran' = overran \ {w}
    BY <1>4 DEF Crash
  <2>3. QED
    BY <2>1, <2>2 DEF LeaseInv, InIteration
<1>5. ASSUME NEW c \in Callers, StartCall(c) PROVE LeaseInv'
  <2>1. c \in Procs /\ c \notin Workers
    BY NamesAssumption DEF Procs
  <2>2. \A v \in Workers : proc'[v] = proc[v]
    BY <1>1, <1>5, <2>1 DEF StartCall
  <2>3. QED
    BY <1>5, <2>2, LeaseAside DEF StartCall, dbVars, historyVars, InIteration
<1>6. CASE ExpireLease
  BY <1>6 DEF ExpireLease, LeaseInv, InIteration
<1>7. CASE SetMaintenance \/ ResetControl \/ UNCHANGED vars
  BY <1>7, LeaseAside DEF SetMaintenance, ResetControl, vars, InIteration
<1>8. QED
  BY <1>2, <1>3, <1>4, <1>5, <1>6, <1>7, LeaseTick, LeaseIteration DEF Next

\* As long as no lease runs out the processor lease is exclusive, for any number
\* of workers, crashes and restarts.
THEOREM LeaseExclusive == Spec => [](HoldsLeaseUnlessOverran /\ OneIterationUnlessOverran)
<1>1. Init => LeaseInv
  BY DEF Init, LeaseInv, InIteration, Idle, Procs
<1>2. LeaseInv => HoldsLeaseUnlessOverran /\ OneIterationUnlessOverran
  BY DEF LeaseInv, HoldsLeaseUnlessOverran, OneIterationUnlessOverran
<1>3. QED
  BY <1>1, <1>2, InitType, NextType, LeaseNext, PTL DEF Spec

-----------------------------------------------------------------------------
(* Advance calls that expect a version.                                    *)

\* A call that is still on its first tick has read the version it expects.
Expecting == \A c \in Callers : InPipeline(c) /\ proc[c].expected # -1 =>
                                   proc[c].version = proc[c].expected

LEMMA ExpectingStep == ASSUME Typed, Expecting, [Next]_vars PROVE Expecting'
<1> SUFFICES ASSUME NEW c \in Callers, InPipeline(c)', proc'[c].expected # -1
             PROVE  proc'[c].version = proc'[c].expected
  BY DEF Expecting
<1>1. c \in Procs /\ c \notin Workers /\ proc \in [Procs -> Proc]
  BY NamesAssumption DEF Procs, Typed, TypeOK
<1>2. CASE proc'[c] = proc[c]
  BY <1>2 DEF Expecting, InPipeline
<1>3. CASE Quiet
  BY <1>1, <1>2, <1>3 DEF Quiet, InPipeline
<1>4. ASSUME NEW w \in Workers, ReadAfter(w) \/ CleanUpRows(w)
      PROVE  proc'[c].version = proc'[c].expected
  BY <1>1, <1>2, <1>4 DEF ReadAfter, CleanUpRows, Goto
<1>5. ASSUME NEW p \in Procs, Reading(p) PROVE proc'[c].version = proc'[c].expected
  <2>1. CASE p # c
    BY <1>1, <1>2, <1>5, <2>1, ReadingStep
  <2>2. CASE p = c
    <3>1. proc[c].pc \notin {"key", "insert"}
      BY <1>1 DEF Typed, ControlFlow, LocalOK
    <3>2. BeginTick(c) /\ ExpectedVersionHolds(c) /\ proc'[c].version = world.lockVersion
      BY <1>5, <2>2, <3>1, ReadingStep DEF Reading, CheckKey, InsertKey
    <3>3. proc'[c].expected = proc[c].expected
      BY <1>1, <3>2 DEF BeginTick, Proc
    <3>4. QED
      BY <3>2, <3>3 DEF ExpectedVersionHolds
  <2>3. QED
    BY <2>1, <2>2
<1>6. ASSUME NEW p \in Procs, CommitTick(p) PROVE proc'[c].version = proc'[c].expected
  <2>1. p # c => proc'[c] = proc[c]
    BY <1>1, <1>6 DEF CommitTick, Return
  <2>2. p = c => proc'[c].pc # "pipeline"
    BY <1>1, <1>6 DEF CommitTick, Return, Idle, Proc
  <2>3. QED
    BY <1>2, <2>1, <2>2 DEF InPipeline
<1>7. QED
  BY <1>3, <1>4, <1>5, <1>6, QuietElse

LEMMA OnlyCommitsMoveTheWorld ==
  ASSUME Typed, [Next]_vars, world' # world
  PROVE  \E p \in Procs : CommitTick(p) /\ \A q \in Procs \ {p} : proc'[q] = proc[q]
<1>1. PICK p \in Procs : CommitTick(p)
  BY QuietElse, ReadingStep DEF Quiet, ReadAfter, CleanUpRows, dbVars
<1>2. \A q \in Procs \ {p} : proc'[q] = proc[q]
  BY <1>1 DEF CommitTick, Return, Typed, TypeOK
<1>3. QED
  BY <1>1, <1>2

\* The tick that an advance call commits with an expected version is committed on
\* a world row of that version, for any number of concurrent calls and workers.
THEOREM CallsCommitAsExpected == Spec => CallCommitsAtExpectedVersion
<1> DEFINE AsExpected == \A c \in Callers :
                           /\ InPipeline(c) /\ proc[c].expected # -1
                           /\ world' # world /\ proc'[c] # proc[c]
                           => world.lockVersion = proc[c].expected
<1>1. Init => Expecting
  BY DEF Init, Expecting, InPipeline, Idle, Procs
<1>2. ASSUME Typed, Expecting, [Next]_vars PROVE [AsExpected]_vars
  <2> SUFFICES ASSUME NEW c \in Callers, InPipeline(c), proc[c].expected # -1,
                      world' # world, proc'[c] # proc[c]
               PROVE  world.lockVersion = proc[c].expected
    OBVIOUS
  <2>1. CommitTick(c)
    BY <1>2, OnlyCommitsMoveTheWorld DEF Procs
  <2>2. QED
    BY <1>2, <2>1 DEF CommitTick, VersionUnchanged, Expecting
<1>3. QED
  BY <1>1, <1>2, InitType, NextType, ExpectingStep, PTL DEF Spec, CallCommitsAtExpectedVersion

-----------------------------------------------------------------------------
(* How soon tick processing halts once it is told to: by an operator who   *)
(* turns maintenance on, or by the invariant policy that stops processing. *)

\* Where a worker has begun a tick, and where it counts the ticks of its batch.
InTick == {"begin", "key", "insert", "pipeline"}
InBatch == {"acquire", "before", "loop"} \cup InTick

\* Since maintenance was turned on, a worker that has begun a tick has committed no
\* more than it misread the maintenance state, and any other one tick more at most.
MaintenanceCounted(w) ==
    /\ grace[w].maintenance <= 1 + grace[w].unread
    /\ ~maintenance => grace[w].maintenance = 0
    /\ proc[w].pc \in InTick => grace[w].maintenance <= grace[w].unread

\* Of the ticks a worker has committed since processing was stopped, all are of
\* the batch it is in: with processing stopped no worker takes another job.
StopCounted(w) ==
    /\ grace[w].stopped <= BatchSize
    /\ ~control.processingStopped => grace[w].stopped = 0
    /\ proc[w].pc \in InBatch => grace[w].stopped <= proc[w].idx

\* The inductive invariant, together with Typed.
HaltInv == \A w \in Workers : MaintenanceCounted(w) /\ StopCounted(w)

-----------------------------------------------------------------------------
\* What a step that commits nothing may do to a worker: nothing; take it out of
\* its batch; take it a job when processing runs; or take it on in its batch,
\* into a new tick only when maintenance is off.
Orderly(w) ==
    \/ proc'[w] = proc[w]
    \/ proc'[w].pc \notin InBatch
    \/ ~control.processingStopped /\ proc'[w].pc \notin InTick /\ proc'[w].idx \in Nat
    \/ /\ proc[w].pc \in InBatch
       /\ proc'[w].idx \in {proc[w].idx, proc[w].idx + 1}
       /\ proc'[w].pc \in InTick => proc[w].pc \in InTick \/ ~maintenance

LEMMA GraceTyped ==
  ASSUME Typed, NEW w \in Workers
  PROVE  /\ grace[w].maintenance \in Nat /\ grace[w].unread \in Nat /\ grace[w].stopped \in Nat
         /\ w \in Procs /\ proc[w] \in Proc /\ proc[w].idx \in Nat
         /\ proc[w].pc \in InTick => proc[w].idx + 1 <= BatchSize
<1>1. w \in Procs
  BY DEF Procs
<1>2. grace[w].maintenance \in Nat /\ grace[w].unread \in Nat /\ grace[w].stopped \in Nat
  BY DEF Typed, TypeOK
<1>3. QED
  BY <1>1, <1>2, ProcTyped, SizesAssumption DEF Proc, LocalOK, InTick

LEMMA OrderlyStep ==
  ASSUME Typed, HaltInv, UNCHANGED <<maintenance, control, grace>>,
         \A w \in Workers : Orderly(w)
  PROVE  HaltInv'
<1> SUFFICES ASSUME NEW w \in Workers
             PROVE  MaintenanceCounted(w)' /\ StopCounted(w)'
  BY DEF HaltInv
<1>1. MaintenanceCounted(w) /\ StopCounted(w) /\ Orderly(w)
  BY DEF HaltInv
<1>2. MaintenanceCounted(w)'
  BY <1>1, GraceTyped DEF MaintenanceCounted, Orderly, InTick, InBatch
<1>3. StopCounted(w)'
  BY <1>1, GraceTyped DEF StopCounted, Orderly, InTick, InBatch
<1>4. QED
  BY <1>2, <1>3

\* The ways out of advanceSimulationTick are orderly, for the process that takes
\* one and for every other.
LEMMA OrderlyExit ==
  ASSUME Typed, NEW p \in Procs,
         Fail(p) \/ (Return(p) /\ proc[p].pc \in InTick) \/ proc' = [proc EXCEPT ![p] = Idle]
  PROVE  \A w \in Workers : Orderly(w)
<1> SUFFICES ASSUME NEW w \in Workers PROVE Orderly(w)
  OBVIOUS
<1>1. w \in Procs /\ proc \in [Procs -> Proc] /\ proc[w] \in Proc
  BY DEF Typed, TypeOK, Procs
<1>2. CASE proc' = [proc EXCEPT ![p] = Idle]
  BY <1>1, <1>2 DEF Orderly, Idle, InBatch, InTick
<1>3. CASE Fail(p)
  BY <1>1, <1>3 DEF Fail, Orderly, InBatch, InTick, Proc
<1>4. CASE Return(p) /\ proc[p].pc \in InTick
  BY <1>1, <1>4 DEF Return, Orderly, InBatch, InTick, Proc
<1>5. QED
  BY <1>2, <1>3, <1>4

\* So are the steps from one statement of the worker's program to the next.
LEMMA OrderlyGoto ==
  ASSUME Typed, NEW p \in Procs, NEW label,
         Goto(p, label),
         \/ label \notin InBatch
         \/ /\ proc[p].pc \in InBatch
            /\ label \in InTick => proc[p].pc \in InTick \/ ~maintenance
  PROVE  \A w \in Workers : Orderly(w)
<1> SUFFICES ASSUME NEW w \in Workers PROVE Orderly(w)
  OBVIOUS
<1>1. w \in Procs /\ proc \in [Procs -> Proc] /\ proc[w] \in Proc
  BY DEF Typed, TypeOK, Procs
<1>2. w = p => proc'[w].pc = label /\ proc'[w].idx = proc[w].idx
  BY <1>1 DEF Goto, Proc
<1>3. w # p => proc'[w] = proc[w]
  BY <1>1 DEF Goto
<1>4. QED
  BY <1>2, <1>3 DEF Orderly

\* Steps of the worker's program around the tick.
LEMMA HaltTake ==
  ASSUME Typed, HaltInv, NEW w \in Workers, NEW j \in Jobs, TakeJob(w, j)
  PROVE  HaltInv'
<1>1. UNCHANGED <<maintenance, control, grace>>
  BY DEF TakeJob, dbVars, historyVars
<1>2. w \in Procs /\ proc \in [Procs -> Proc] /\ \A v \in Workers : v \in Procs
  BY DEF Typed, TypeOK, Procs
<1>3. CASE UNCHANGED proc
  BY <1>1, <1>3, OrderlyStep DEF Orderly
<1>4. CASE /\ ~control.processingStopped
           /\ proc' = [proc EXCEPT ![w] = [Idle EXCEPT !.pc = "acquire", !.job = j]]
  <2>1. proc'[w].pc = "acquire" /\ proc'[w].idx = 0
    BY <1>2, <1>4 DEF Idle
  <2>2. \A v \in Workers : v # w => proc'[v] = proc[v]
    BY <1>2, <1>4
  <2>3. \A v \in Workers : Orderly(v)
    BY <1>4, <2>1, <2>2 DEF Orderly, InTick
  <2>4. QED
    BY <1>1, <2>3, OrderlyStep
<1>5. QED
  BY <1>3, <1>4 DEF TakeJob, HandlerReturnsAtOnce

\* A read of the maintenance state: under maintenance it takes the worker into a
\* tick only when it fails, and then it counts.
LEMMA HaltRead ==
  ASSUME Typed, HaltInv, NEW w \in Workers, ReadBefore(w) \/ LoopTop(w)
  PROVE  HaltInv'
<1> SUFFICES ASSUME NEW v \in Workers
             PROVE  MaintenanceCounted(v)' /\ StopCounted(v)'
  BY DEF HaltInv
<1>1. UNCHANGED <<maintenance, control>>
  BY DEF ReadBefore, LoopTop, dbVars
<1>2. PICK fails \in BOOLEAN :
         /\ ReadMaintenance(w, fails)
         /\ proc'[w].pc = "begin" => ~maintenance \/ fails
  BY GraceTyped DEF ReadBefore, LoopTop, BatchOver, Typed, TypeOK, Proc
<1>3. /\ v # w => proc'[v] = proc[v]
      /\ proc'[w].idx = proc[w].idx /\ proc[w].pc \in InBatch
      /\ proc'[w].pc \in {"release", "loop", "after", "begin"}
  BY GraceTyped DEF ReadBefore, LoopTop, Typed, TypeOK, Proc, InBatch
<1>4. MaintenanceCounted(v) /\ StopCounted(v)
  BY DEF HaltInv
<1>5. grace[v] \in [maintenance : Nat, unread : Nat, stopped : Nat]
  BY DEF Typed, TypeOK
<1>6. /\ grace'[v].maintenance = grace[v].maintenance /\ grace'[v].stopped = grace[v].stopped
      /\ grace'[v].unread = grace[v].unread + IF v = w /\ fails THEN 1 ELSE 0
  BY <1>2, <1>5 DEF ReadMaintenance, Typed, TypeOK
<1>7. MaintenanceCounted(v)'
  BY <1>1, <1>2, <1>3, <1>4, <1>5, <1>6 DEF MaintenanceCounted, InTick
<1>8. StopCounted(v)'
  BY <1>1, <1>3, <1>4, <1>5, <1>6 DEF StopCounted, InBatch, InTick
<1>9. QED
  BY <1>7, <1>8

LEMMA HaltIteration ==
  ASSUME Typed, HaltInv, NEW w \in Workers, IterationStep(w), ~EnforcePolicy(w)
  PROVE  HaltInv'
<1> SUFFICES ASSUME ~ReadBefore(w), ~LoopTop(w) PROVE HaltInv'
  BY HaltRead
<1>1. UNCHANGED <<maintenance, control, grace>>
  BY DEF IterationStep, AcquireLease, LeaseHeld, ReadAfter, CleanUpRows, ReleaseLease, ScanInvariants, dbVars, historyVars
<1>2. /\ w \in Procs /\ proc \in [Procs -> Proc] /\ proc[w] \in Proc
      /\ \A v \in Workers : v \in Procs
  BY DEF Typed, TypeOK, Procs
<1> SUFFICES \A v \in Workers : Orderly(v)
  BY <1>1, OrderlyStep
<1>3. CASE AcquireLease(w)
  BY <1>2, <1>3, OrderlyGoto DEF AcquireLease, InBatch, InTick
<1>4. CASE LeaseHeld(w)
  BY <1>2, <1>4, OrderlyExit DEF LeaseHeld
<1>6. CASE ReadAfter(w)
  <2>1. \A v \in Workers : v # w => proc'[v] = proc[v]
    BY <1>2, <1>6 DEF ReadAfter
  <2>2. proc'[w].pc \notin InBatch
    BY <1>2, <1>6 DEF ReadAfter, Proc, InBatch, InTick
  <2>3. QED
    BY <2>1, <2>2 DEF Orderly
<1>7. CASE CleanUpRows(w)
  BY <1>2, <1>7, OrderlyGoto DEF CleanUpRows, InBatch, InTick
<1>8. CASE ReleaseLease(w)
  BY <1>2, <1>8, OrderlyGoto, OrderlyExit DEF ReleaseLease, InBatch, InTick
<1>9. CASE ScanInvariants(w)
  BY <1>2, <1>9, OrderlyGoto, OrderlyExit DEF ScanInvariants, InBatch, InTick
<1>10. QED
  BY <1>3, <1>4, <1>6, <1>7, <1>8, <1>9 DEF IterationStep

\* The policy may stop processing: the worker that enforces it is out of its
\* batch, and the others have committed nothing since.
LEMMA HaltEnforce ==
  ASSUME Typed, HaltInv, NEW w \in Workers, EnforcePolicy(w)
  PROVE  HaltInv'
<1> SUFFICES ASSUME NEW v \in Workers
             PROVE  MaintenanceCounted(v)' /\ StopCounted(v)'
  BY DEF HaltInv
<1>1. /\ UNCHANGED <<maintenance, grace>>
      /\ control.processingStopped => control'.processingStopped
      /\ proc' = [proc EXCEPT ![w] = Idle]
  BY DEF EnforcePolicy, historyVars
<1>2. v \in Procs /\ w \in Procs /\ proc \in [Procs -> Proc]
  BY DEF Typed, TypeOK, Procs
<1>3. v # w => proc'[v] = proc[v]
  BY <1>1, <1>2
<1>4. v = w => proc'[v].pc \notin InBatch
  BY <1>1, <1>2 DEF Idle, InBatch, InTick
<1>5. MaintenanceCounted(v) /\ StopCounted(v)
  BY DEF HaltInv
<1>6. MaintenanceCounted(v)'
  BY <1>1, <1>3, <1>4, <1>5 DEF MaintenanceCounted, InBatch
<1>7. ~control'.processingStopped => grace[v].stopped = 0
  BY <1>1, <1>5 DEF StopCounted
<1>8. StopCounted(v)'
  BY <1>1, <1>3, <1>4, <1>5, <1>7 DEF StopCounted
<1>9. QED
  BY <1>6, <1>8

\* Steps of advanceSimulationTick that commit nothing.
LEMMA HaltTick ==
  ASSUME Typed, HaltInv, NEW p \in Procs, TickStep(p), ~CommitTick(p)
  PROVE  HaltInv'
<1>1. UNCHANGED <<maintenance, control, grace>>
  BY DEF TickStep, BeginTick, CheckKey, InsertKey, PipelineThrows, CommitConflicts,
         dbVars, historyVars
<1>2. /\ proc \in [Procs -> Proc] /\ proc[p] \in Proc
      /\ \A v \in Workers : v \in Procs
  BY DEF Typed, TypeOK, Procs
<1> SUFFICES \A v \in Workers : Orderly(v)
  BY <1>1, OrderlyStep
<1>3. CASE BeginTick(p)
  <2>1. CASE Fail(p)
    BY <2>1, OrderlyExit
  <2>2. CASE proc' = [proc EXCEPT ![p].version = world.lockVersion,
                                  ![p].tick = world.currentTick,
                                  ![p].pc = IF KeyOf(p) = NoKey THEN "pipeline" ELSE "key"]
    <3>1. \A v \in Workers : v # p => proc'[v] = proc[v]
      BY <1>2, <2>2
    <3>2. proc[p].pc \in InTick /\ proc'[p].idx = proc[p].idx
      BY <1>2, <1>3, <2>2 DEF Proc, InTick, BeginTick
    <3>3. QED
      BY <3>1, <3>2 DEF Orderly, InBatch
  <2>3. QED
    BY <1>3, <2>1, <2>2 DEF BeginTick
<1>4. CASE CheckKey(p)
  BY <1>4, OrderlyExit, OrderlyGoto DEF CheckKey, InBatch, InTick
<1>5. CASE InsertKey(p)
  BY <1>5, OrderlyExit, OrderlyGoto DEF InsertKey, InBatch, InTick
<1>6. CASE PipelineThrows(p)
  BY <1>6, OrderlyExit DEF PipelineThrows
<1>7. CASE CommitConflicts(p)
  <2>1. CASE Fail(p)
    BY <2>1, OrderlyExit
  <2>2. CASE proc' = [proc EXCEPT ![p].pc = "begin", ![p].attempt = @ + 1]
    <3>1. \A v \in Workers : v # p => proc'[v] = proc[v]
      BY <1>2, <2>2
    <3>2. proc[p].pc \in InTick /\ proc'[p].idx = proc[p].idx
      BY <1>2, <1>7, <2>2 DEF Proc, InTick, CommitConflicts, InPipeline
    <3>3. QED
      BY <3>1, <3>2 DEF Orderly, InBatch
  <2>3. QED
    BY <1>7, <2>1, <2>2 DEF CommitConflicts
<1>8. QED
  BY <1>3, <1>4, <1>5, <1>6, <1>7 DEF TickStep

\* The commit counts, for the worker that made it: the first since maintenance
\* was turned on, and one more of its batch.
LEMMA HaltCommit ==
  ASSUME Typed, HaltInv, NEW p \in Procs, CommitTick(p)
  PROVE  HaltInv'
<1> SUFFICES ASSUME NEW w \in Workers
             PROVE  MaintenanceCounted(w)' /\ StopCounted(w)'
  BY DEF HaltInv
<1>1. /\ w \in Procs /\ proc \in [Procs -> Proc] /\ proc[w] \in Proc
      /\ grace[w].maintenance \in Nat /\ grace[w].unread \in Nat /\ grace[w].stopped \in Nat
      /\ proc[w].idx \in Nat /\ UNCHANGED <<maintenance, control>>
  BY GraceTyped DEF Typed, TypeOK, CommitTick
<1>2. MaintenanceCounted(w) /\ StopCounted(w)
  BY DEF HaltInv
<1>3. CASE w # p
  <2>1. grace'[w] = grace[w]
    BY <1>3 DEF CommitTick
  <2>2. proc'[w] = proc[w]
    BY <1>1, <1>3 DEF CommitTick, Return
  <2>3. QED
    BY <1>1, <1>2, <2>1, <2>2 DEF MaintenanceCounted, StopCounted
<1>4. CASE w = p
  <2>1. /\ grace'[w].maintenance = grace[w].maintenance + IF maintenance THEN 1 ELSE 0
        /\ grace'[w].unread = grace[w].unread
        /\ grace'[w].stopped = grace[w].stopped + IF control.processingStopped THEN 1 ELSE 0
    BY <1>4 DEF CommitTick
  <2>2. proc[w].pc \in InTick /\ proc[w].idx + 1 <= BatchSize
    BY <1>4, GraceTyped DEF CommitTick, InPipeline, InTick
  <2>3. proc'[w].pc = "loop" /\ proc'[w].idx = proc[w].idx + 1
    BY <1>1, <1>4 DEF CommitTick, Return, Proc
  <2>4. MaintenanceCounted(w)'
    BY <1>1, <1>2, <2>1, <2>2, <2>3 DEF MaintenanceCounted, InTick
  <2>5. StopCounted(w)'
    BY <1>1, <1>2, <2>1, <2>2, <2>3, SizesAssumption DEF StopCounted, InBatch
  <2>6. QED
    BY <2>4, <2>5
<1>5. QED
  BY <1>3, <1>4

\* Turning maintenance on or off, and resetting the control state, start a count.
LEMMA HaltEnvironment ==
  ASSUME Typed, HaltInv, SetMaintenance \/ ResetControl
  PROVE  HaltInv'
<1> SUFFICES ASSUME NEW w \in Workers
             PROVE  MaintenanceCounted(w)' /\ StopCounted(w)'
  BY DEF HaltInv
<1>1. MaintenanceCounted(w) /\ StopCounted(w) /\ UNCHANGED proc
  BY DEF HaltInv, SetMaintenance, ResetControl
<1>2. w \in Procs /\ proc[w] \in Proc /\ proc[w].idx \in Nat
      /\ grace[w] \in [maintenance : Nat, unread : Nat, stopped : Nat]
  BY GraceTyped DEF Typed, TypeOK
<1>3. CASE SetMaintenance
  <2>1. /\ grace'[w].maintenance = 0 /\ grace'[w].unread = 0
        /\ grace'[w].stopped = grace[w].stopped
    BY <1>2, <1>3 DEF SetMaintenance
  <2>2. QED
    <3>1. MaintenanceCounted(w)'
      BY <2>1 DEF MaintenanceCounted
    <3>2. StopCounted(w)'
      BY <1>1, <1>3, <2>1 DEF StopCounted, SetMaintenance
    <3>3. QED
      BY <3>1, <3>2
<1>4. CASE ResetControl
  <2>1. /\ grace'[w].stopped = 0 /\ grace'[w].maintenance = grace[w].maintenance
        /\ grace'[w].unread = grace[w].unread
    BY <1>2, <1>4 DEF ResetControl
  <2>2. QED
    BY <1>1, <1>2, <1>4, <2>1, SizesAssumption DEF MaintenanceCounted, StopCounted, ResetControl
<1>5. QED
  BY <1>3, <1>4

LEMMA HaltNext == Typed /\ HaltInv /\ [Next]_vars => HaltInv'
<1> SUFFICES ASSUME Typed, HaltInv, [Next]_vars PROVE HaltInv'
  OBVIOUS
<1>1. ASSUME UNCHANGED <<maintenance, control, grace, proc>> PROVE HaltInv'
  BY <1>1, OrderlyStep DEF Orderly
<1>2. ASSUME NEW j \in Jobs, Enqueue(j) \/ Stall(j) PROVE HaltInv'
  BY <1>1, <1>2 DEF Enqueue, Stall, dbVars, historyVars
<1>3. ASSUME NEW w \in Workers, Crash(w) PROVE HaltInv'
  BY <1>3, OrderlyExit, OrderlyStep DEF Crash, Procs
<1>4. ASSUME NEW c \in Callers, StartCall(c) PROVE HaltInv'
  <2>1. \A w \in Workers : proc'[w] = proc[w]
    BY <1>4, NamesAssumption DEF StartCall, Typed, TypeOK, Procs
  <2>2. QED
    BY <1>4, <2>1, OrderlyStep DEF Orderly, StartCall, dbVars, historyVars
<1>5. CASE ExpireLease \/ UNCHANGED vars
  BY <1>1, <1>5 DEF ExpireLease, vars
<1>6. QED
  BY <1>2, <1>3, <1>4, <1>5, HaltTake, HaltIteration, HaltEnforce, HaltTick, HaltCommit,
     HaltEnvironment DEF Next, IterationStep

LEMMA HaltInit == Init => HaltInv
<1> SUFFICES ASSUME Init, NEW w \in Workers
             PROVE  MaintenanceCounted(w) /\ StopCounted(w)
  BY DEF HaltInv
<1>1. w \in Procs
  BY DEF Procs
<1>2. /\ proc[w] = Idle
      /\ grace[w].maintenance = 0 /\ grace[w].unread = 0 /\ grace[w].stopped = 0
  BY <1>1 DEF Init
<1>3. QED
  BY <1>2, SizesAssumption DEF MaintenanceCounted, StopCounted, Idle, InBatch, InTick

\* Once maintenance is on, every worker commits at most the tick it had begun and
\* one for each of its reads of the maintenance state that failed, whatever its
\* batch size: the loop of runWorkerIteration looks before each tick.
THEOREM MaintenanceHalts == Spec => []MaintenanceStopsBatch
<1>1. HaltInv => MaintenanceStopsBatch
  BY DEF HaltInv, MaintenanceCounted, MaintenanceStopsBatch
<1>2. QED
  BY <1>1, HaltInit, HaltNext, InitType, NextType, PTL DEF Spec

\* Once the invariant policy has stopped processing, every worker commits at most
\* the rest of the batch it is in: the job handler reads the control state first.
THEOREM StopHalts == Spec => []StopEndsAfterBatch
<1>1. HaltInv => StopEndsAfterBatch
  BY DEF HaltInv, StopCounted, StopEndsAfterBatch
<1>2. QED
  BY <1>1, HaltInit, HaltNext, InitType, NextType, PTL DEF Spec
=============================================================================
