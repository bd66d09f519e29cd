------------------------- MODULE SchedulerLeaseProofs -------------------------
(* At most one process schedules ticks, for any number of processes.       *)
EXTENDS SchedulerLease, TLAPS

\* Whoever leads and is not late owns a lease that has not expired.
LeaderOwns == \A i \in Instances : Leads(i) /\ i \notin overran => lease.owner = i /\ lease.fresh

\* The flag is set when the request for the lease succeeds, not before.
HeldSinceAsked == \A i \in held : pc[i] \notin {"down", "ask", "create"}

LeaseInv == TypeOK /\ HeldSinceAsked /\ LeaderOwns

-----------------------------------------------------------------------------
(* Types.                                                                  *)

LEMMA InitType == Init => TypeOK
  BY InstanceAssumption DEF Init, TypeOK, NoLease

RowType == lease \in [owner : Instances \cup {Nobody}, fresh : BOOLEAN] /\ overran \subseteq Instances

LEMMA TakenType == ASSUME TypeOK, NEW i \in Instances, TakenBy(i) PROVE RowType'
  BY DEF TypeOK, TakenBy, RowType

LEMMA NotTakenType == ASSUME TypeOK, NotTaken PROVE RowType'
  BY DEF TypeOK, NotTaken, RowType

LEMMA StepType == TypeOK /\ [Next]_vars => TypeOK'
<1> SUFFICES ASSUME TypeOK, [Next]_vars PROVE TypeOK'
  OBVIOUS
<1> USE InstanceAssumption DEF TypeOK
<1>1. CASE Expire
  <2>1. lease' \in [owner : Instances \cup {Nobody}, fresh : BOOLEAN]
    BY <1>1 DEF Expire
  <2>2. overran' \subseteq Instances
    <3>1. CASE Leads(lease.owner)
      <4>1. lease.owner \in Instances
        BY <3>1 DEF Leads
      <4>2. overran' = overran \cup {lease.owner}
        BY <1>1, <3>1 DEF Expire
      <4>3. QED
        BY <4>1, <4>2
    <3>2. CASE ~Leads(lease.owner)
      BY <1>1, <3>2 DEF Expire
    <3>3. QED
      BY <3>1, <3>2
  <2>3. QED
    BY <1>1, <2>1, <2>2 DEF Expire
<1>2. ASSUME NEW i \in Instances, Starting(i) PROVE TypeOK'
  <2>1. CASE StartUp(i)
    BY <2>1 DEF StartUp, Goto
  <2>2. CASE Ask(i)
    <3>1. RowType'
      BY <2>2, TakenType, NotTakenType DEF Ask, Acquired
    <3>2. CASE Takeable(i)
      BY <2>2, <3>1, <3>2 DEF Ask, Acquired, Goto, RowType
    <3>3. CASE ~Takeable(i)
      BY <2>2, <3>1, <3>3 DEF Ask, Goto, RowType
    <3>4. QED
      BY <3>2, <3>3
  <2>3. CASE Create(i)
    <3>1. RowType'
      BY <2>3, TakenType, NotTakenType DEF Create, Acquired
    <3>2. CASE Missing
      BY <2>3, <3>1, <3>2 DEF Create, Acquired, Goto, RowType
    <3>3. CASE ~Missing
      BY <2>3, <3>1, <3>3 DEF Create, Goto, RowType
    <3>4. QED
      BY <3>2, <3>3
  <2>4. CASE Register(i)
    BY <2>4 DEF Register, Goto
  <2>5. CASE RegisterThrows(i)
    BY <2>5 DEF RegisterThrows, Goto
  <2>6. QED
    BY <1>2, <2>1, <2>2, <2>3, <2>4, <2>5 DEF Starting
<1>3. ASSUME NEW i \in Instances, Renewing(i) PROVE TypeOK'
  <2>1. CASE Beat(i)
    BY <2>1 DEF Beat
  <2>2. CASE Renew(i)
    <3>1. RowType'
      BY <2>2, TakenType, NotTakenType DEF Renew
    <3>2. QED
      BY <2>2, <3>1 DEF Renew, RowType
  <2>3. CASE RenewMissing(i)
    <3>1. RowType'
      BY <2>3, TakenType, NotTakenType DEF RenewMissing
    <3>2. QED
      BY <2>3, <3>1 DEF RenewMissing, AfterRefusal, RowType
  <2>4. QED
    BY <1>3, <2>1, <2>2, <2>3 DEF Renewing
<1>4. ASSUME NEW i \in Instances, RenewalFails(i) PROVE TypeOK'
  BY <1>4 DEF RenewalFails
<1>5. ASSUME NEW i \in Instances, Stop(i) PROVE TypeOK'
  BY <1>5 DEF Stop, Goto
<1>6. ASSUME NEW i \in Instances, Release(i) PROVE TypeOK'
  BY <1>6 DEF Release, NoLease, Goto
<1>7. ASSUME NEW i \in Instances, Crash(i) PROVE TypeOK'
  BY <1>7 DEF Crash, Goto
<1>8. CASE UNCHANGED vars
  BY <1>8 DEF vars
<1>9. QED
  BY <1>1, <1>2, <1>3, <1>4, <1>5, <1>6, <1>7, <1>8 DEF Next

-----------------------------------------------------------------------------
(* Who leads owns the lease.                                               *)

\* Taking the lease through an update, which needs it expired or one's own,
\* takes it from no leader that is in time.
LEMMA TakenFromNobody ==
    ASSUME TypeOK, LeaderOwns,
           NEW i \in Instances, Takeable(i) \/ Missing, TakenBy(i),
           NEW j \in Instances, Leads(j), j \notin overran'
    PROVE  j = i
  BY InstanceAssumption DEF TypeOK, LeaderOwns, Takeable, Missing, TakenBy

LEMMA StepLeader == LeaseInv /\ [Next]_vars => LeaderOwns'
<1> SUFFICES ASSUME TypeOK, HeldSinceAsked, LeaderOwns, [Next]_vars,
                    NEW j \in Instances, Leads(j)', j \notin overran'
             PROVE  (lease.owner = j /\ lease.fresh)'
  BY DEF LeaseInv, LeaderOwns
<1>1. CASE Expire
  BY <1>1, InstanceAssumption DEF Expire, Leads, LeaderOwns, TypeOK
<1>2. ASSUME NEW i \in Instances, Starting(i) PROVE (lease.owner = j /\ lease.fresh)'
  <2>1. CASE StartUp(i)
    BY <2>1 DEF StartUp, Goto, Leads, LeaderOwns, TypeOK
  <2>2. ASSUME Acquired(i), Takeable(i) \/ Missing PROVE (lease.owner = j /\ lease.fresh)'
    <3>1. CASE j = i
      BY <2>2, <3>1 DEF Acquired, TakenBy
    <3>2. CASE j # i
      <4>1. Leads(j)
        BY <2>2, <3>2 DEF Acquired, Goto, Leads, TypeOK
      <4>2. QED
        BY <2>2, <3>2, <4>1, TakenFromNobody DEF Acquired
    <3>3. QED
      BY <3>1, <3>2
  <2>3. CASE Ask(i)
    <3>1. CASE Takeable(i)
      BY <2>2, <2>3, <3>1 DEF Ask
    <3>2. CASE ~Takeable(i)
      BY <2>3, <3>2 DEF Ask, Goto, NotTaken, Leads, LeaderOwns, TypeOK
    <3>3. QED
      BY <3>1, <3>2
  <2>4. CASE Create(i)
    <3>1. CASE Missing
      BY <2>2, <2>4, <3>1 DEF Create
    <3>2. CASE ~Missing
      <4>1. i \notin held'
        BY <2>4, <3>2 DEF Create, HeldSinceAsked
      <4>2. Leads(j)
        BY <2>4, <3>2, <4>1 DEF Create, Goto, Leads, TypeOK
      <4>3. QED
        BY <2>4, <3>2, <4>2 DEF Create, NotTaken, LeaderOwns
    <3>3. QED
      BY <3>1, <3>2
  <2>5. CASE Register(i)
    BY <2>5 DEF Register, Goto, Leads, LeaderOwns, TypeOK
  <2>6. CASE RegisterThrows(i)
    BY <2>6 DEF RegisterThrows, Goto, Leads, LeaderOwns, TypeOK
  <2>7. QED
    BY <1>2, <2>1, <2>3, <2>4, <2>5, <2>6 DEF Starting
<1>3. ASSUME NEW i \in Instances, Renewing(i) PROVE (lease.owner = j /\ lease.fresh)'
  <2>1. Leads(j)
    BY <1>3 DEF Renewing, Beat, Renew, RenewMissing, Leads
  <2>2. ASSUME TakenBy(i), Takeable(i) \/ Missing PROVE (lease.owner = j /\ lease.fresh)'
    BY <2>1, <2>2, TakenFromNobody DEF TakenBy
  <2>3. CASE UNCHANGED <<lease, overran>>
    BY <2>1, <2>3 DEF LeaderOwns
  <2>4. QED
    BY <1>3, <2>2, <2>3 DEF Renewing, Beat, Renew, RenewMissing, NotTaken
<1>4. ASSUME NEW i \in Instances, RenewalFails(i) PROVE (lease.owner = j /\ lease.fresh)'
  BY <1>4 DEF RenewalFails, Leads, LeaderOwns
<1>5. ASSUME NEW i \in Instances, Stop(i) PROVE (lease.owner = j /\ lease.fresh)'
  BY <1>5 DEF Stop, Goto, Leads, LeaderOwns, TypeOK
<1>6. ASSUME NEW i \in Instances, Release(i) PROVE (lease.owner = j /\ lease.fresh)'
  <2>1. j # i /\ Leads(j)
    BY <1>6 DEF Release, Goto, Leads, TypeOK
  <2>2. lease.owner = j /\ lease.fresh
    BY <1>6, <2>1 DEF Release, LeaderOwns
  <2>3. QED
    BY <1>6, <2>1, <2>2 DEF Release, Own
<1>7. ASSUME NEW i \in Instances, Crash(i) PROVE (lease.owner = j /\ lease.fresh)'
  BY <1>7 DEF Crash, Goto, Leads, LeaderOwns, TypeOK
<1>8. CASE UNCHANGED vars
  BY <1>8 DEF vars, Leads, LeaderOwns
<1>9. QED
  BY <1>1, <1>2, <1>3, <1>4, <1>5, <1>6, <1>7, <1>8 DEF Next

LEMMA StepHeld == TypeOK /\ HeldSinceAsked /\ [Next]_vars => HeldSinceAsked'
<1> SUFFICES ASSUME TypeOK, HeldSinceAsked, [Next]_vars, NEW j \in held'
             PROVE  pc'[j] \notin {"down", "ask", "create"}
  BY DEF HeldSinceAsked
<1> USE DEF HeldSinceAsked, TypeOK, Goto
<1>1. ASSUME NEW i \in Instances, Starting(i) PROVE pc'[j] \notin {"down", "ask", "create"}
  <2>1. CASE StartUp(i) \/ Register(i) \/ RegisterThrows(i)
    BY <2>1 DEF StartUp, Register, RegisterThrows
  <2>2. CASE Ask(i)
    BY <2>2 DEF Ask, Acquired
  <2>3. CASE Create(i)
    BY <2>3 DEF Create, Acquired
  <2>4. QED
    BY <1>1, <2>1, <2>2, <2>3 DEF Starting
<1>2. ASSUME NEW i \in Instances, Stop(i) \/ Release(i) \/ Crash(i)
      PROVE  pc'[j] \notin {"down", "ask", "create"}
  BY <1>2 DEF Stop, Release, Crash
<1>3. CASE UNCHANGED <<pc, held>>
  BY <1>3
<1>4. QED
  BY <1>1, <1>2, <1>3
     DEF Next, Expire, Renewing, Beat, Renew, RenewMissing, RenewalFails, vars

-----------------------------------------------------------------------------
(* Theorems.                                                               *)

\* The variables of the start, the timer and the stop keep their types, and every
\* leader that is not late with its renewals owns a lease that is in force.
THEOREM LeaseInvariant == Spec => []LeaseInv
<1>1. Init => LeaseInv
  BY InitType DEF LeaseInv, HeldSinceAsked, LeaderOwns, Init, Leads
<1>2. LeaseInv /\ [Next]_vars => LeaseInv'
  BY StepType, StepHeld, StepLeader DEF LeaseInv
<1>3. QED
  BY <1>1, <1>2, PTL DEF Spec

\* acquireSimulationLease and releaseSimulationLease, called at the start, from
\* the timer and at the stop in any order, give the schedule to one process at
\* a time, except while a process is late.
THEOREM SchedulerExclusive == Spec => []OneScheduler
<1>1. LeaseInv => OneScheduler
  BY DEF LeaseInv, LeaderOwns, OneScheduler
<1>2. QED
  BY <1>1, LeaseInvariant, PTL
=============================================================================
