---------------------------- MODULE SchedulerLease ----------------------------
(***************************************************************************)
(* Which process of the worker fleet schedules ticks: startQueueRuntime    *)
(* and its stop (queue-runtime.ts) over the row of the scheduler lease     *)
(* (simulation-lease.ts).  A process asks for the lease once, when it      *)
(* starts.  The one that gets it writes the repeating job to Redis, where  *)
(* it stays whatever becomes of the process, and renews the lease from a   *)
(* timer that looks at no answer.  Acquiring is two statements, and what   *)
(* a timer has begun goes on while the process stops.                      *)
(***************************************************************************)
EXTENDS FiniteSets, Integers

CONSTANTS
    Instances,   \* processes with the scheduler enabled; a restart is a new one
    Processors,  \* those of them that process jobs as well
    Nobody,      \* the absence of an instance
    MaxFailures  \* bound on statements that fail

ASSUME InstanceAssumption ==
    Processors \subseteq Instances /\ Nobody \notin Instances /\ MaxFailures \in Nat

VARIABLES
    pc,        \* where each instance is
    held,      \* instances with schedulerLeaseHeld
    beat,      \* the renewal an instance has under way
    lease,     \* SimulationLease row "simulation.tick.scheduler"
    schedule,  \* the instance that has last written the repeating job
    overran,   \* history: instances whose lease expired while they led, until renewed
    failures

vars == <<pc, held, beat, lease, schedule, overran, failures>>

NoLease == [owner |-> Nobody, fresh |-> FALSE]

TypeOK ==
    /\ pc \in [Instances -> {"down", "ask", "create", "register", "up", "aborted", "closing",
                             "stopped", "dead"}]
    /\ held \subseteq Instances /\ overran \subseteq Instances
    /\ beat \in [Instances -> {"none", "update", "create"}]
    /\ lease \in [owner : Instances \cup {Nobody}, fresh : BOOLEAN]
    /\ schedule \in Instances \cup {Nobody}
    /\ failures \in 0 .. MaxFailures

Init ==
    /\ pc = [i \in Instances |-> "down"]
    /\ held = {} /\ beat = [i \in Instances |-> "none"]
    /\ lease = NoLease /\ schedule = Nobody
    /\ overran = {} /\ failures = 0

\* Has been given the lease and is neither stopping nor gone.
Leads(i) == i \in held /\ pc[i] \in {"register", "up", "aborted"}

Goto(i, place) == pc' = [pc EXCEPT ![i] = place]

-----------------------------------------------------------------------------
(* acquireSimulationLease with re-entry: an update of the row, and an      *)
(* insert when none was updated.                                           *)

Takeable(i) == lease.owner # Nobody /\ (~lease.fresh \/ lease.owner = i)
Missing == lease.owner = Nobody

TakenBy(i) ==
    /\ lease' = [owner |-> i, fresh |-> TRUE]
    /\ overran' = overran \ {i}

NotTaken == UNCHANGED <<lease, overran>>

-----------------------------------------------------------------------------
(* Starting.                                                               *)

StartUp(i) ==
    /\ pc[i] = "down"
    /\ Goto(i, "ask")
    /\ UNCHANGED <<held, beat, lease, schedule, overran, failures>>

Acquired(i) == TakenBy(i) /\ held' = held \cup {i} /\ Goto(i, "register")

Ask(i) ==
    /\ pc[i] = "ask"
    /\ IF Takeable(i) THEN Acquired(i) ELSE Goto(i, "create") /\ NotTaken /\ UNCHANGED held
    /\ UNCHANGED <<beat, schedule, failures>>

\* Refused: the instance only processes jobs from now on, or gives up.
Create(i) ==
    /\ pc[i] = "create"
    /\ IF Missing THEN Acquired(i)
       ELSE /\ Goto(i, IF i \in Processors THEN "up" ELSE "stopped")
            /\ NotTaken /\ UNCHANGED held
    /\ UNCHANGED <<beat, schedule, failures>>

\* ensureTickScheduler; the timer is running by now.
Register(i) ==
    /\ pc[i] = "register"
    /\ schedule' = i /\ Goto(i, "up")
    /\ UNCHANGED <<held, beat, lease, overran, failures>>

\* When it throws, main gives up without ending the process: the timer keeps it
\* alive and goes on renewing the lease.
RegisterThrows(i) ==
    /\ pc[i] = "register" /\ failures < MaxFailures
    /\ failures' = failures + 1
    /\ Goto(i, "aborted")
    /\ UNCHANGED <<held, beat, lease, schedule, overran>>

-----------------------------------------------------------------------------
(* The timer.                                                              *)

Beat(i) ==
    /\ Leads(i) /\ beat[i] = "none"
    /\ beat' = [beat EXCEPT ![i] = "update"]
    /\ UNCHANGED <<pc, held, lease, schedule, overran, failures>>

Renew(i) ==
    /\ beat[i] = "update"
    /\ IF Takeable(i) THEN TakenBy(i) ELSE NotTaken
    /\ beat' = [beat EXCEPT ![i] = IF Takeable(i) THEN "none" ELSE "create"]
    /\ UNCHANGED <<pc, held, schedule, failures>>

\* Mutant: a refused renewal ends the timer.
GiveUp(i) == "over"

\* A refused renewal changes nothing; the next one may succeed.
AfterRefusal(i) == "none"

RenewMissing(i) ==
    /\ beat[i] = "create"
    /\ IF Missing THEN TakenBy(i) ELSE NotTaken
    /\ beat' = [beat EXCEPT ![i] = IF Missing THEN "none" ELSE AfterRefusal(i)]
    /\ UNCHANGED <<pc, held, schedule, failures>>

RenewalFails(i) ==
    /\ beat[i] \in {"update", "create"} /\ failures < MaxFailures
    /\ failures' = failures + 1
    /\ beat' = [beat EXCEPT ![i] = "none"]
    /\ UNCHANGED <<pc, held, lease, schedule, overran>>

-----------------------------------------------------------------------------
(* Stopping: the timer is cleared, jobs are waited for, the lease is       *)
(* released.  A renewal that has begun is not waited for.                  *)

Stop(i) ==
    /\ pc[i] = "up"
    /\ Goto(i, "closing")
    /\ UNCHANGED <<held, beat, lease, schedule, overran, failures>>

\* Mutant: the lease is deleted by its name alone.
ByName(i) == TRUE

Own(i) == lease.owner = i

Release(i) ==
    /\ pc[i] = "closing"
    /\ Goto(i, "stopped")
    /\ lease' = IF i \in held /\ Own(i) THEN NoLease ELSE lease
    /\ UNCHANGED <<held, beat, schedule, overran, failures>>

-----------------------------------------------------------------------------
(* Crashes and time.                                                       *)

Crash(i) ==
    /\ pc[i] \notin {"down", "stopped", "dead"}
    /\ Goto(i, "dead")
    /\ beat' = [beat EXCEPT ![i] = "none"]
    /\ UNCHANGED <<held, lease, schedule, overran, failures>>

\* The lease expires, under an instance whose renewals come too late as well.
Expire ==
    /\ lease.fresh
    /\ lease' = [lease EXCEPT !.fresh = FALSE]
    /\ overran' = IF Leads(lease.owner) THEN overran \cup {lease.owner} ELSE overran
    /\ UNCHANGED <<pc, held, beat, schedule, failures>>

Starting(i) == StartUp(i) \/ Ask(i) \/ Create(i) \/ Register(i) \/ RegisterThrows(i)
Renewing(i) == Beat(i) \/ Renew(i) \/ RenewMissing(i)

Next ==
    \/ Expire
    \/ \E i \in Instances : \/ Starting(i) \/ Renewing(i) \/ RenewalFails(i)
                            \/ Stop(i) \/ Release(i) \/ Crash(i)

Spec == Init /\ [][Next]_vars

\* The lease of an instance that renews it no longer.
Lapse == ~Leads(lease.owner) /\ Expire

\* Timers fire, statements are carried out, and time passes.
FairSpec ==
    /\ Spec
    /\ WF_vars(Lapse)
    /\ \A i \in Instances : WF_vars(Renewing(i))

-----------------------------------------------------------------------------
(* Properties.                                                             *)

\* At most one instance schedules, unless one of them was late with its
\* renewals: neither an instance that stops after it lost the lease, nor a
\* renewal that outlives its instance, takes it from the one that leads.
OneScheduler ==
    \A i, j \in Instances : Leads(i) /\ Leads(j) => i = j \/ {i, j} \cap overran # {}

Alone(i) == Leads(i) /\ \A j \in Instances \ {i} : ~Leads(j)

\* An instance that has lost the lease to another one gets it back when the other
\* is gone: at last the lease is in the name of the only one left that schedules.
AuthorityReturns == \A i \in Instances : <>[]Alone(i) => <>[](lease.owner = i)
=============================================================================
