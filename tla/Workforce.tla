------------------------------ MODULE Workforce ------------------------------
(***************************************************************************)
(* The workforce (workforce.ts): how it is allocated, hired and dismissed, *)
(* what the salary stage of a tick pays and does to the efficiency of the  *)
(* organisation, and how many ticks efficiency saves.                      *)
(***************************************************************************)
EXTENDS CompanyRows

CONSTANTS
    Config,         \* WorkforceRuntimeConfig, with the fields' names shortened
    MaxBps,         \* MAX_BPS; the instances count in larger steps
    MaxPercent,     \* MAX_PERCENT
    Allocations,    \* allocations players may choose
    Deltas,         \* capacity changes players may ask for
    StartStaff      \* capacity, efficiency and allocation at tick 0

Allocation == [operations : Nat, research : Nat, logistics : Nat, corporate : Nat]
StaffRow == [capacity : Nat, efficiency : 0 .. MaxBps, allocation : Allocation]

\* What resolveWorkforceRuntimeConfig lets pass.
ASSUME WorkforceAssumption ==
    /\ MaxBps \in Nat \ {0} /\ MaxPercent \in Nat \ {0}
    /\ Config \in [productionBonus : 0 .. MaxBps, researchBonus : 0 .. MaxBps,
                    logisticsBonus : 0 .. MaxBps, maxDelta : Nat, maxDeltaPercent : Nat,
                    layoffPenalty : Nat, recruitmentCost : Nat, hiringDelay : Nat \ {0},
                    shockTicks : Nat \ {0}, shockPerCapacity : Nat, salary : Nat,
                    lowCorporate : Nat, lowCorporatePenalty : Nat, shortfallPenalty : Nat,
                    recovery : Nat]
    /\ Allocations \subseteq Allocation
    /\ Deltas \subseteq Nat \ {0}
    /\ StartStaff \in [Companies -> StaffRow]

VARIABLES
    staff,   \* Company rows: capacity, efficiency (orgEfficiencyBps), allocation
    hires    \* WorkforceCapacityDelta rows; applied = 0 stands for null

Clamp(n, low, high) == IF n < low THEN low ELSE IF n > high THEN high ELSE n

\* Mutant: an efficiency may fall below zero.
CappedEfficiency(n) == IF n > MaxBps THEN MaxBps ELSE n

\* clampEfficiencyBps
ClampEfficiency(n) == Clamp(n, 0, MaxBps)

\* resolveFunctionBonusBps
Bonus(c, percent, max) ==
    IF staff[c].capacity = 0 THEN 0
    ELSE Clamp((percent * staff[c].efficiency * max) \div (MaxPercent * MaxBps), 0, max)

\* applyDurationMultiplierTicks: rounded up, and no shorter than one tick
\* unless it takes none.
Shortened(ticks, bonus) ==
    IF ticks = 0 THEN 0
    ELSE Clamp((ticks * (MaxBps - bonus) + (MaxBps - 1)) \div MaxBps, 1, ticks)

\* resolveWorkforceRuntimeModifiers, applied to a duration.
ProductionTicks(c, ticks) ==
    Shortened(ticks, Bonus(c, staff[c].allocation.operations, Config.productionBonus))
ResearchTicks(c, ticks) ==
    Shortened(ticks, Bonus(c, staff[c].allocation.research, Config.researchBonus))
TravelTicks(c, ticks) ==
    Shortened(ticks, Bonus(c, staff[c].allocation.logistics, Config.logisticsBonus))

-----------------------------------------------------------------------------
(* Requests.                                                               *)

\* setCompanyWorkforceAllocation
SetAllocation(c, a) ==
    /\ a # staff[c].allocation
    /\ staff' = [staff EXCEPT ![c].allocation = a]
    /\ UNCHANGED <<hires, Tables>>

\* The limits of requestCompanyWorkforceCapacityChange.
WithinLimits(c, n) ==
    /\ n <= Config.maxDelta
    /\ staff[c].capacity > 0 =>
          n <= Clamp((staff[c].capacity * Config.maxDeltaPercent) \div MaxPercent, 1, n + 1)

\* Dismissals take effect at once and cost efficiency.
LayOff(c, n) ==
    /\ WithinLimits(c, n) /\ n <= staff[c].capacity
    /\ staff' = [staff EXCEPT ![c].capacity = @ - n,
                              ![c].efficiency = ClampEfficiency(@ - Config.layoffPenalty)]
    /\ UNCHANGED <<hires, Tables>>

\* Recruitment is paid now from available cash and arrives later.
Hire(c, n) ==
    /\ WithinLimits(c, n)
    /\ AvailableCash(c) >= n * Config.recruitmentCost
    /\ Pay(c, n * Config.recruitmentCost)
    /\ hires' = Append(hires, [company |-> c, delta |-> n, applied |-> 0,
                               arrives |-> clock + Config.hiringDelay])
    /\ UNCHANGED <<staff, stock, depot, consumed>>

-----------------------------------------------------------------------------
(* The workforce stage of a tick.                                          *)

ArrivalsDue == InOrderOf(hires, LAMBDA h : h.applied = 0 /\ h.arrives <= ThisTick,
                         LAMBDA h : h.arrives)

\* Mutant: the arrival is not marked, so that it arrives again.
Unclaimed(h) == hires' = hires

Claimed(h) == hires' = [hires EXCEPT ![h].applied = ThisTick]

\* One round of applyDueWorkforceCapacityDeltas.
Arrive(h) ==
    /\ Claimed(h)
    /\ staff' = [staff EXCEPT ![hires[h].company].capacity = @ + hires[h].delta]
    /\ UNCHANGED Tables

\* People who arrived in the last hiringShockDurationTicks ticks.
RecentHires(c) ==
    SumFunctionOnSet([h \in DOMAIN hires |-> hires[h].delta],
        {h \in DOMAIN hires : /\ hires[h].company = c /\ hires[h].applied > 0
                              /\ hires[h].applied >= ThisTick - Config.shockTicks + 1})

\* resolveWeeklyWorkforceSalaryBurnCents in a region without a modifier.
SalaryDue(c) == staff[c].capacity * Config.salary

\* Mutant: reserved cash pays salaries as well.
SpendableWithReserves(c) == cash[c].cash

\* Only available cash pays salaries; there may be less than none.
Spendable(c) == Clamp(AvailableCash(c), 0, cash[c].cash)

\* One round of the salary loop of runWorkforceForTick.
PaySalary(c) ==
    LET paid == Smaller(SalaryDue(c), Spendable(c))
        corporate == staff[c].allocation.corporate
        shock == RecentHires(c) * Config.shockPerCapacity
        neglect == IF corporate < Config.lowCorporate THEN Config.lowCorporatePenalty ELSE 0
        shortfall == IF paid < SalaryDue(c) THEN Config.shortfallPenalty ELSE 0
        recovery == (corporate * Config.recovery) \div MaxPercent
    IN
    /\ Pay(c, paid)
    /\ staff' = [staff EXCEPT ![c].efficiency =
                     ClampEfficiency(@ - shock - neglect - shortfall + recovery)]
    /\ UNCHANGED <<hires, stock, depot, consumed>>

WorkforceInit == staff = StartStaff /\ hires = <<>>
=============================================================================
