# CorpSim in TLA+

CorpSim is a company simulation: a world that advances by ticks, companies
that trade, produce, ship and hire in it, an HTTP API through which players act
between ticks, and a background worker that advances the clock.  Everything that
matters is a row in one PostgreSQL database, and every operation is a Prisma
`$transaction` at PostgreSQL's default isolation, READ COMMITTED, without
`SELECT ... FOR UPDATE`.  What makes the system hard is therefore what happens
between the statements of one transaction and those of another: workers that
process the same job twice, requests that run beside a tick, a tick that fails
half way, a worker that dies with a lease in its name.

Paths below are relative to `src/`.

## 1. The system

### Parts, their state and their operations

| Part | State (rows) | Operations |
|---|---|---|
| Tick engine, `packages/sim/src/services/tick-engine.ts` | `WorldTickState` (currentTick, lockVersion), `SimulationTickExecution` (execution key, tickBefore, tickAfter) | `advanceSimulationTick`, `advanceSimulationTicks` |
| Worker loop, `apps/worker/src/worker-loop.ts` | none of its own | `runWorkerIteration`: lease, maintenance, batch, retries, clean-up |
| Queue runtime, `apps/worker/src/queue-runtime.ts` | BullMQ queue and scheduler, `worker.pause` | job handler, invariant scan and policy, scheduler lease with heartbeat, stop |
| Lease, `apps/worker/src/simulation-lease.ts` | `SimulationLease` (owner, expiresAt) | acquire (with or without re-entry), release |
| Control, `apps/worker/src/simulation-control.ts` | `SimulationControlState` (botsPaused, processingStopped) | ensure, pause bots, stop, reset by the API |
| World API, `apps/api/src/world` | none of its own | advance, reset, reset of the control state |
| Maintenance, `apps/api/src/maintenance` | `MaintenanceState`, with a file as fallback | set |
| Reservations, `packages/sim/src/domain/reservations.ts` | none: functions on (total, reserved) | available, reserve cash, reserve stock |
| Market orders, `market-orders.ts` | `Company` (cash, reserved), `Inventory` (quantity, reserved), `MarketOrder`, `LedgerEntry` | place, cancel |
| Market matching, `market-matching.ts` | the same, `Trade` | plan per item, settle each match |
| Buildings, `buildings.ts` | `Building`, `Company`, `LedgerEntry` | acquire, operating costs, reactivate, storage capacity |
| Production, `production.ts` | `ProductionJob`, `Inventory` | create, cancel, complete due jobs |
| Shipments, `shipments.ts` | `Shipment`, `Inventory`, `Company` | create, cancel, deliver due shipments |
| Contracts, `contracts.ts` | `Contract`, `ContractFulfillment`, `Inventory`, `Company` | accept, fulfil, expire, generate |
| Research, `research.ts` | `ResearchJob`, `CompanyResearch`, `CompanyRecipe`, `Company` | start, cancel, complete |
| Workforce, `workforce.ts` | `Company`, `WorkforceCapacityDelta` | allocate, recruit, lay off, arrivals, salary stage |
| Bots, `packages/sim/src/bots` | orders and jobs of companies without an owner | withdraw, plan, place, produce |
| Demand sink, candles, invariant scan | stock, `ItemTickCandle`, nothing | stages of the tick; a read-only scan |
| Onboarding and moderation, `apps/api/src/onboarding`, `moderation` | `Player`, `Company` and its starting rows, `LedgerEntry` | status, found a company, complete the tutorial; refund |
| Account navigation, `apps/web`: route gate, device gate, sign-in, onboarding and tutorial pages, tour, profile panel, active company | React state of a tab, the cookie of the browser, one entry of local storage | redirect, ask for session and status, submit, sign in and out |
| Reset, `reset-simulation.ts` | everything | delete all and start at tick 0, version 0 |
| Rest of the API and of the web client, database package, shared package, scripts | | transport, forms that send the requests above, user interface, schema, types, tooling |

### How they interact

* The scheduler adds a job to the BullMQ queue every interval.  A worker takes
  it, reads the control state, acquires the processor lease, runs a batch of
  ticks, releases the lease, scans the invariants and enforces the policy.
* One tick is one transaction: read the world row, insert the execution key, run
  the ten calls of the pipeline, update the world row where `lockVersion` is
  still what was read, update the execution row.  A stage that throws rolls
  everything back.
* `POST /v1/world/advance` calls the tick engine directly: no lease, no key, no
  control flags, no retries.
* Requests of players run between and beside ticks, on the same company, stock
  and order rows as the stages of the tick.

### What makes each part correct

* Tick engine: every tick is committed once; a key runs once while it is
  remembered; an expected version is the version at commit.
* Worker loop and lease: no two iterations overlap while leases last; a lease is
  released by its owner only; halts take effect within a bounded number of ticks;
  nothing hangs.
* Orders and matching: no company commits what it does not have; reserves are
  exactly what open orders need; trades conserve cash and goods; the ledger
  explains balances; matching follows price-time priority; a tick is all or
  nothing.
* Production, shipments, contracts, research, workforce, buildings: goods are
  accounted for across all of them; what is reserved belongs to something open;
  ledger and cash agree; nothing due is left over after a tick; stores are not
  overfilled; what is closed stays closed, also when requests and ticks overlap.
* Bots: what they plan together they can afford together, since a bot order that
  throws stops the world.
* Account navigation: no page of the game shows before the account is ready; what
  is shown, and the company a player acts for, is that of the tab's session, as
  long as no one else has been signed in behind its back; redirects come to an end,
  which the code keeps but for one case (section 3).

The hazards of the code, each at its line with the property that watches it, are
listed in `PROJECT.json`.

## 2. Modules

```
TickClock ............ what the tick engine promises
TickProcessing ....... tick engine + worker loop + lease + queue + control + advance call
  MCTickProcessing ..... symmetry for TLC
  TickProcessingProofs . types, clock, rows, lease, advance calls and halting, proved
Matching ............. priority and planning of matches, with a loop-free definition beside it
  Exchange ............. orders, reserves, settlement, ledger, storage; serial transactions
    MCExchange
    ExchangeProofs ..... the planning loop, types, reserves, conservation, ledger,
                         settlement, proved (with DataLemmas)
    ExchangeReadCommitted  the same operations statement by statement
      MCExchangeReadCommitted
      ReadCommittedProofs  types, conservation and freedom from deadlock, proved
    CompanyRows ........ the rows the other parts share: cash, stock in two regions, trades, ledger
      Buildings ........ acquisition, operating costs, storage
      Workforce ........ allocation, recruitment, arrivals, salaries
        Research ....... nodes, jobs, unlocked recipes
          Production ... jobs over reserved stock (with Buildings)
            Bots ....... planning and placing orders, production (with LiquidityBot)
        Shipments ...... between two regions (with Buildings)
      Contracts ........ offered by the world, kept by players
      Candles .......... summaries of trades
      Economy .......... all of them: requests of players, and ticks in the code's order
        MCEconomy
        EconomyRowsProofs  what every operation does to the rows, proved
          EconomyProofs  what therefore holds of the economy, proved
Consignments ......... what shipments and a contract promise, whichever of them end together
OpenClose ............ ending jobs, shipments and a contract, and the stages of a tick that
                       write the same rows back, statement by statement
  MCOpenClose
AccountSetup ......... the two gates and the pages below them against the API
  MCAccountSetup
  AccountSetupProofs ... who gets into the game and with which company, proved
DataLemmas ........... induction over numbers and finite sets, sums over sets; proved
SchedulerLease ....... who schedules the ticks: start, timer and stop of the worker processes
  SchedulerLeaseProofs . one at a time, proved
```

### TickProcessing

Every process (a worker, or an operator's advance call) is at one statement,
`proc[p].pc`, with the locals it needs later.  The statements are those of the
code in their order:

| pc | Action | Code |
|---|---|---|
| idle | `TakeJob`: reads the control state; closes the job if stopped | `queue-runtime.ts` 266-292 |
| acquire | `AcquireLease`, or `LeaseHeld`: throw, the job fails | `worker-loop.ts` 206-213, `simulation-lease.ts` 25-67 |
| before | `ReadBefore`: tick before the batch, maintenance (`ReadMaintenance`) | `worker-loop.ts` 215-226, 142-160 |
| loop | `LoopTop`: batch size, maintenance (`ReadMaintenance`) | `worker-loop.ts` 231-234, 142-160 |
| begin | `BeginTick`: open the transaction, read the world, compare the expected version | `tick-engine.ts` 357-367 |
| key | `CheckKey`: a committed row returns | `tick-engine.ts` 369-380 |
| insert | `InsertKey`: waits for another open insert of the key; a duplicate returns | `tick-engine.ts` 382-388, 428-440 |
| pipeline | `PipelineThrows`, `CommitConflicts`, `CommitTick` | `tick-engine.ts` 391-427, `worker-loop.ts` 166-187 |
| after | `ReadAfter`: is clean-up due? | `worker-loop.ts` 252-260 |
| cleanup | `CleanUpRows` | `worker-loop.ts` 261-268 |
| release | `ReleaseLease`, in `finally` | `worker-loop.ts` 277-282 |
| scan | `ScanInvariants` | `queue-runtime.ts` 298-319 |
| enforce | `EnforcePolicy` | `queue-runtime.ts` 321-329 |

The environment: the scheduler adds jobs (`Enqueue`); BullMQ takes a job back
whose lock lapsed, from a dead worker or a slow one (`Stall`); a lease expires at
any time, since nothing renews the processor lease (`ExpireLease`); a worker dies
and is started again under a new instance id (`Crash`), so that its lease row
stays behind with an owner that is gone; operators switch maintenance and reset
the control state; a read of the maintenance state fails, which the worker takes
for no maintenance (`isSimulationPausedByMaintenance` catches every error).

Data left out: bot and demand configuration, log lines, back-off times, and what
the pipeline does to the economy, of which one bit remains (would the scan report
a violation?).  The history variables `commits`, `grace` and `overran` record what
has happened; no action reads them.  Each worker has concurrency 1: `config.ts`
155 rejects anything else.

### Exchange and Matching

`Matching` is the comparison functions and the planning loop, written as a
recursive function over rounds, and next to it `FairMatches`, which says without
a loop what price-time priority gives every pair of orders: lay bids and asks out
by priority and trade where they overlap and cross.

`Exchange` has the rows of companies, stock, orders and ledger.  Requests are
single steps.  A tick plans once (`StartMatching`) and settles match by match, so
that the checks of a later match meet the effects of the earlier ones;
`SettlementThrows` restores what `saved` holds.  Both parties of a trade may be
the same company.

### ExchangeReadCommitted

The operators of `Exchange` (what is checked, how rows change) with their
statements pulled apart.  The committed rows are the variables of `Exchange`;
`draft` is what the tick has written and not committed, and every row in it is
locked.  A request keeps what it has read in its own record.  An update writes
the absolute value that was computed from the read, waits for the row's lock and
does not look again; that is what READ COMMITTED does with `UPDATE ... SET x = 7`.
Reads of the two orders of a match, of its parties, and the writes to two rows of
one table are one step each: within such a pair nothing is decided.

### Economy and its parts

Each part is a module with the operations of one service over the rows it
changes; `Economy` conjoins them with what they leave alone, lets players request
them between ticks, and runs a tick as the code does: `Pipeline` is the order of
the stages, `Loop` what the loop of each stage goes over, read when the stage
begins, and `Round` one turn of it.  Three stages of the model, `withdraw`,
`arrivals` and `expire`, are the first loops of the calls that run the stage
behind them.  A round whose code throws is disabled, and `TickThrows` restores
the rows that `saved` holds; since nothing else has changed, the next tick meets
the same rows.

* `Buildings`: `ChargeBuilding` is one turn of the operating costs, with its own
  read of the company; `Sound` is `assertCashInvariant`, which throws.
* `Workforce`: numbers in basis points are scaled down (`MaxBps`); clamping and
  rounding are those of the code.
* `Production`, `Shipments`: two regions, `home` and `away`; all companies have
  the same home.  Stock at home is in `stock`, stock away in `depot`, which is
  never reserved.
* `Contracts`: the price comes from the average of all trades of the item, as long
  as there are at most 200, which is what the code reads.
* `LiquidityBot` plans for one trading company from a snapshot; `Bots` builds the
  snapshot, plans for all and places the orders one after the other.
* The demand sink and the scan for violated invariants are operators of `Economy`.

Requests do not overlap ticks here; what happens when they do is the subject of
`ExchangeReadCommitted` and `OpenClose`.

### OpenClose and Consignments

A tick completes jobs, delivers a shipment and expires a contract while requests
cancel the same rows and hand over goods on the contract.  Every statement is a
step: `View` is what a transaction sees, `draft` what it has written, `Write` waits
until no other transaction holds the row.  Requests change stock and balances by
increments, which add to the newest value; states by updates of which some name the
state they expect (`StillInTransit`, `ContractAsRead`) and some do not (`CloseJob`,
`CompleteJob`).  `BreakDeadlock` is PostgreSQL ending one of the transactions of a
circle.

The other stages of the tick that touch these rows are there as well
(`WriteBackStages`): operating costs, a match of the seller's order, and salaries
read a row and write it back as an absolute value (`buildings.ts` 339-363,
`market-matching.ts` 326-355, `workforce.ts` 795-830).  What others commit in between
is lost, in the code as in the model; the history rows `meant` and `lost` say how
much each stage meant to add and how much it wrote over.  The company belongs to a
player, so that the stages of bots and of the demand sink pass it by.

`TakeStock` is the update of `contracts.ts` 574-580, whose WHERE clause names no
region: it matches every row of the seller's stock of the item that is as the one at
home was read (`AsRead`).  The hand-over fails if these are two, and takes the goods
from the other region if the one at home has changed and the other one has not.

The committed rows, without what the stages have written over, are mapped to
`Consignments`, in which a shipment is put down once and a contract is handed over,
from one region or the other, and paid in the same step.

Jobs make no more than they use, so that completing one needs no room; whether a
delivery finds room, a building is due or the order meets a buyer is open, since it
depends on rows that are not here.

### AccountSetup

One tab: the session as it was last told, the location and where the tab has been
sent, the state of the route gate, the page mounted below it, the width of the
window, the stored company.  The API has the cookie (`account`), which signing in
and out change and another tab may change too; the tab asks for its session when a
page is loaded and some time after its own sign-in or sign-out (`Refetch`,
`SessionHears`), and goes on with the old one until it is told.  `apart` is a
history variable: another account was signed in since the tab heard of its session.

Effects of React run when what they depend on has changed, before anything else
happens to the tab; requests are carried out in any order, for the account whose
cookie they were sent with, and an answer is dropped when the effect that asked has
been cleaned up.  The handlers of sign-in, sign-out, founding and finishing send a
request, and go on when it is answered, wherever the tab is by then; signing in may
end with an address to load (`LoadHears`), and loading a page forgets the tab's state
and every request in flight.  `overtaken` is a history variable: a handler that ends
late has sent the tab elsewhere than the gate was sending it.

`DeviceSupportGate` sits between the route gate and the page: `PageHidden` and
`FitGoing` send a window that is too narrow to `/unsupported-device`, and a wide one
away from it.

The user clicks what is on the page, opens pages anew, makes the window wider or
narrower; another tab of the same browser signs in someone else or founds the
company first.  These and failing requests are the events that `MaxEvents` bounds.

### SchedulerLease

A process of the fleet asks for the scheduler lease once, when it starts
(`queue-runtime.ts` 228-257): `Ask` is the update of the row, `Create` the insert
when nothing was updated.  The one that gets it writes the repeating job to Redis
(`Register`) and renews the lease from a timer, in the same two statements (`Renew`,
`RenewMissing`), whose answer nobody looks at.  `Stop` clears the timer and waits
for the jobs, `Release` deletes the row if it is the process's own; a renewal that
has begun goes on.  An instance that dies or stops never returns: a restart is a
new instance, since the instance id is made anew.  A timer whose renewals overlap
is left out (its period is half the time to live, 150 seconds at least), and the
clocks of the processes agree.

`overran` is a history variable, as in `TickProcessing`: the instances whose lease
expired while they led and that have not renewed it since.  `schedule` is what
Redis keeps; it outlives whoever wrote it, and BullMQ goes on adding jobs by it.

## 3. Runs

All bounds are constants of the modules or of the `.cfg` files.  `Deadlock` is
switched off in the runs of `TickProcessing` and `ExchangeReadCommitted`, which
stop when the jobs or requests of the instance are used up; the exchange itself
never stops, and its runs check deadlock.  In the others a last action stands for
having reached the bounds, so that deadlock is checked before that.

| Run | What it asks |
|---|---|
| `TickTwoWorkers` | Two workers, two jobs that may each be delivered twice, an advance call that may expect a version, one crash, one pipeline that throws, leases that expire at any time, retention of one tick with clean-up after every tick: types, `TicksCommittedOnce`, `RowsMatchCommits`, `OneIterationUnlessOverran`, `CallCommitsAtExpectedVersion`, and refinement of `TickClock`. |
| `TickHalts` | Three jobs, two workers, a corrupt economy under the policy `stop`, maintenance, a read of it that fails, a reset, a pipeline that throws in the middle of a batch: a worker commits at most one more tick under maintenance (the one it had begun) and one for every read that failed, and at most the rest of one batch once processing is stopped. |
| `TickDrains` | Liveness with a crash, duplicate deliveries, conflicts and the policy `pause_bots`: every job closes.  A job is closed when it has been run or has failed for good, as one does that is delivered again while its dead worker's lease is valid. |
| `ExchangeTrades` | Two companies, one item, four orders of up to two units at two prices, any cancellations, ticks at any time, storage for one unit more than a company starts with: the six properties of the serial exchange. |
| `RacingConserve` | Four requests and any number of ticks interleaved by statement: conservation, non-negative reserves, no deadlock. |
| `EconomyGoods` | A player, a trading bot and a producing bot; ore, ingots and two recipes; up to four requests about production, shipments, contracts and buildings, and three ticks in which the bots trade: goods, reserves of stock, due work, plans of the bots, contracts, storage, closed rows. |
| `EconomyCash` | A player and a trading bot; up to four requests about orders, buildings, staff, research and refunds, and four ticks: types, ledger, reserves of cash, due work, research rows, solvency inside ticks, candles. |
| `OpenClose` | Two ticks beside three requests: a cancelled job, a cancelled shipment and a delivery, or the shipment and two deliveries, on a contract that expires: refinement of `Consignments` but for what the tick writes over, payments lost at most once, and every transaction ends. |
| `AccountSetup` | Two players and an administrator, a tab and another beside it, a window of either width, two events: no game before the account is ready, the active company is the session's, and the tab comes to rest, but for `TornBetweenGates`. |
| `SchedulerLease` | Three instances, one of which does nothing but schedule, start, stop and die at any time, with renewals under way and one statement that fails: one scheduler, and the lease comes back. |

Four orders are what a partial fill followed by another fill of the same order
needs next to a competing order; two prices give a better price, a tie and a
trade below the bid.  Two workers are enough for every pairwise race of the
lease and the key, the third process being the advance call; two deliveries of
two jobs give a duplicate of each against a duplicate of the other.  There the
batch and the call are one tick long; `TickHalts` has batches of two, so that
halts meet the middle of an iteration.  What the instance of `TickTwoWorkers`
cannot show about larger numbers, the proofs of its properties do.  In
`SchedulerLease` three instances are one that leads, one that takes over and one
that stops or dies with a renewal under way.  In the economy
durations and intervals are one or two ticks, so that something started in the
first tick of an instance falls due in it, and four requests suffice to start
something, reserve against it, cancel it and meet a tick that fails.  In
`OpenClose` the two meetings of three requests give each statement a competitor of
every kind, and two ticks the retry of one that failed; stock in the other region
equals the stock at home at the start, so that the update without a region finds two
rows, or, once the one at home has changed, the wrong one.  In `AccountSetup` two events are signing in
and leaving the page that this leads to, two users in turn, or a change of user in
another tab and a failing request, while the first user's requests are under way.
It starts on the players' home, since the gates lead from there to the pages of
sign-in, onboarding, tutorial and administration; one player may have got anywhere,
the other is ready and has played in this browser before.

Two runs show a disagreement between the code and what the repository says of it;
TLC's counterexample is the evidence.

| Run | What TLC finds | What the repository says |
|---|---|---|
| `EconomySolvent` | A player reserves cash for a buy order and starts research, which is paid from cash whether reserved or not (`research.ts` 367): reserves exceed cash. | `docs/architecture/ECONOMIC_INVARIANTS.md` 22-23 and `invariants.ts` 19: reserved cash never exceeds cash. |
| `OpenCloseTwice` | Two cancellations of one job both read it in progress, and the update at `production.ts` 730 names no state: its inputs are released twice, out of the reserve of another job. | `production.ts` 27: only jobs in progress can be cancelled or completed, which prevents double processing. |

What follows from them, as the model has it: `availableCash` asserts that reserves
do not exceed cash, so after the first a due building of that company makes every
later tick throw (`buildings.ts` 349); a contract paid from the reserved cash of a
bot does the same to the snapshot of the bots (`bot-runner.ts` 585).  After the
second, completing the other job throws in every later tick.

Further facts about the code that the models contain and no run is devoted to:

* After the policy `stop` a worker has called `worker.pause(true)`, and resetting
  the flags does not resume it (`queue-runtime.ts` 328, against
  `docs/architecture/FAILURE_MODES.md` 317-319).
* A read of the maintenance state that fails counts as no maintenance
  (`worker-loop.ts` 157-159), so that a batch goes on.
* Salaries are paid from free cash alone (`workforce.ts` 795-798), against
  `docs/architecture/ECONOMIC_INVARIANTS.md` 288-294, by which a company with too
  little pays all its cash, `actualPayment = cashCents`.  Paid so, reserves would
  exceed cash after a tick: what the document says is the mutant
  `SpendableWithReserves`, which breaks `TicksKeepSolvency`.
* A payment of a contract or the load of a cancelled shipment that is committed
  while a tick is under way can be lost: `contracts.ts` 634 and `shipments.ts` 635
  add to rows that `buildings.ts` 356, `market-matching.ts` 326-355 and `workforce.ts`
  821 write back as they have read them.
* A contract can be served from the stock of another region than was looked at
  (`contracts.ts` 574-580).
* A job delivered again while its dead worker's lease is valid fails on the lease
  and, with one attempt, is over (`worker-loop.ts` 211).
* Storage for a market buy and for a production job is validated inside the tick,
  which fails as a whole, and again next time (`market-matching.ts` 309,
  `production.ts` 870, against `docs/overflow-policy-and-economics.md` 7-12).
* Two concurrent buy orders of one company can reserve the same cash
  (`market-orders.ts` 251), a tick can write an old reserve back
  (`market-matching.ts` 327), and a cancellation can overwrite FILLED
  (`market-orders.ts` 448).  `RacingConserve` shows that cash and goods survive
  all three.
* A tick and a cancellation of a shipment take stock and shipment in opposite
  orders and can deadlock; one of them is rolled back.
* A process that is refused the scheduler lease at its start never asks again, so
  that a lease whose owner has died passes to the next process that *starts*, not
  to one that runs (`queue-runtime.ts` 229-241, against line 81 of the same file and
  `docs/architecture/FAILURE_MODES.md` 96-118).  Ticks go on all the same, because
  the repeating job is in Redis, unless the first leader died before `Register`, or
  `Register` threw: `main.ts` 126-135 leaves the process alive with its timer, which
  keeps the lease.
* A renewal under way when its process stops can write the lease again after
  `Release` has deleted it; the next start is then refused until it expires.
* A player whose account is not set up and whose window is narrow is sent back and
  forth for ever: the route gate leaves `/unsupported-device` for `/onboarding` or
  `/tutorial` (`auth-route-gate.tsx` 143-157, although `auth-routes.ts` 2 names the
  page as always public), and the device gate sends the tab back
  (`device-support-gate.tsx` 35-48).  `NavigationSettles` excepts it by name.
* A tab goes on showing the pages of one user, with the companies of another, when
  another tab has signed in someone else and this one has not heard of it.
* The bots share one transaction with the tick, and no error of one of them is
  caught, against line 46 of `bot-runner.ts`.
* A handler that ends late can overtake a redirect of the gate, which then shows
  "Redirecting" without redirecting again; `NavigationSettles` says so.

### Fairness

`FairSpec` assumes that a worker and an advance call go on running their
statements (weak fairness of each process: Node.js runs them, and an insert that
waits for another transaction is not enabled until that ends); that the scheduler
adds jobs and that some idle worker takes some waiting job (BullMQ); that BullMQ
takes back a job whose worker is gone, but not necessarily one whose worker is
slow (`Abandoned(j) /\ Stall(j)`); and that time passes, so that leases expire.
Crashes, throws, toggles, resets and calls have no fairness.  No process is given
strong fairness, and none of a worker's steps is preferred to another.

`OpenClose` assumes that the tick goes on and is tried again, that PostgreSQL ends a
transaction of every deadlock, and strong fairness for each request: PostgreSQL
queues those who wait for a row, so that a tick that fails again and again does
not take it from them for ever.  `AccountSetup` assumes that effects run, that the
router arrives and that the API answers; nothing is assumed of the user.
`SchedulerLease` assumes that timers fire and renewals are carried out, and that a
lease which nobody renews any more expires; nothing is assumed of starts.

## 4. Proofs

The modules named `...Proofs`, and `DataLemmas`, are checked by TLAPS for every
value of the constants, under the assumptions the specifications name:

* `TickProcessing`: any sets of workers, callers and jobs, any batch size, retry
  limit, retention, clean-up period, scan period and policy.  The sizes are natural
  numbers, positive where the configuration demands it; the two kinds of process
  are different; the absent job and the absent owner are no job and no worker.
* `SchedulerLease`: any set of instances, any of which process jobs as well.
* `Exchange` and `ExchangeReadCommitted`: any finite sets of companies and items (they are rows of a database),
  any positive prices and quantities, any starting amounts and storage, and any
  number of orders: `MaxOrders` is an arbitrary natural number; any requests beside a
  tick, even infinitely many.
* `Economy` and its parts: any finite sets of companies, items and recipes, any
  research nodes with any prerequisites, costs and unlocks, any buildings and stock
  at the start, any number of requests and ticks.  Costs and fees are natural
  numbers, durations and intervals positive (the code checks recipes for durations
  that are not negative, `production.ts` 491); the limits of workforce, contracts,
  shipments and bots are those the code's `resolve...Config` functions let pass.
* `AccountSetup`: any users with any roles, any pages of the game and any tour of
  them, any number of events.  The pages of the game are those that neither
  `auth-routes.ts` nor the gates name, the players' home `/overview` is one, the tour
  has at least one step and stays on such pages; pages opened by their address are
  pages; an absent user is no user.

| Theorem | Module | Statement |
|---|---|---|
| `TypeCorrect` | `TickProcessingProofs` | `Spec => []TypeOK` |
| `CommittedOnce` | | `Spec => []TicksCommittedOnce` |
| `RowsTruthful` | | `Spec => []RowsMatchCommits` |
| `Refinement` | | `Spec => ImplementsTickClock` |
| `LeaseExclusive` | | `Spec => [](HoldsLeaseUnlessOverran /\ OneIterationUnlessOverran)` |
| `CallsCommitAsExpected` | | `Spec => CallCommitsAtExpectedVersion` |
| `MaintenanceHalts` | | `Spec => []MaintenanceStopsBatch` |
| `StopHalts` | | `Spec => []StopEndsAfterBatch` |
| `SchedulerExclusive` | `SchedulerLeaseProofs` | `Spec => []OneScheduler` |
| `PlanIsScheduled` | `ExchangeProofs` | what a tick's plan can rely on, for any book |
| `RowsAreTyped` | | `Spec => []TypeOK` |
| `ReservesMatchOrders` | | `Spec => []ReservesAreOpenOrders` |
| `TradingConserves` | | `Spec => []CashAndGoodsConserved` |
| `LedgerExplains` | | `Spec => []LedgerExplainsCash` |
| `PlannedMatchesHold` | | `Spec => []MatchesHold` |
| `BookIsUncrossed` | | `Spec => []MatchedBookDoesNotCross` |
| `RacingRowsAreTyped` | `ReadCommittedProofs` | `Spec => []TypeOK` |
| `RacingConserves` | | `Spec => []CashAndGoodsConserved` |
| `CancellationsNeverDeadlock` | | `Spec => []NoDeadlock` |
| `EconomySound` | `EconomyProofs` | `EconomySpec => []SoundInv`, the invariant most of the others rest on |
| `EconomyTyped` | | `EconomySpec => []EconomyTypeOK` |
| `EconomyLedgerExplains` | | `EconomySpec => []LedgerExplainsCash` |
| `CashReserved` | | `EconomySpec => []CashIsReservedFor` |
| `StockReserved` | | `EconomySpec => []StockIsReservedFor` |
| `GoodsAreAccounted` | | `EconomySpec => []GoodsAccounted` |
| `ContractsKept` | | `EconomySpec => []ContractsAreKept` |
| `DueWorkIsDone` | | `EconomySpec => []NothingOverdue` |
| `ResearchTells` | | `EconomySpec => []ResearchTellsTheTruth` |
| `CandlesShow` | | `EconomySpec => []CandlesShowFills` |
| `TicksSolvent` | | `EconomySpec => TicksKeepSolvency` |
| `StoresRespected` | | `EconomySpec => StorageRespected` |
| `ClosedStays` | | `EconomySpec => ClosedStaysClosed` |
| `BotsAreCovered` | | `EconomySpec => []BotOrdersAreCovered` |
| `PlayersAreReady` | `AccountSetupProofs` | `Spec => []OnlyReadyPlayersPlay` |
| `CompanyIsOwn` | | `Spec => []ActiveCompanyIsOwn` |

*Types.*  `TypeOK` alone is not inductive: a worker's job and batch index name an
execution key only because of where the worker is in its program.  `Typed` adds
`ControlFlow`, which says so for every process.

*Clock and rows.*  The inductive invariant is

    TickInv == Typed /\ Synced /\ TicksCommittedOnce /\ KeyHeld /\ RowsMatchCommits

`Synced` says that the two counters of the world row move together and that what
an open transaction has read is no newer than the row: with it, a commit whose
version is unchanged commits exactly the next tick.  `KeyHeld` says that a key in
the hands of an open transaction has no committed row and no second holder: with
it, a commit records a key that no row remembers.  `RowsMatchCommits` then
survives a clean-up by a stale worker because its bound is no newer than the world
(`Synced` again).  Most of the actions neither read nor write the world; the
proofs treat them together as `Quiet` steps, and the others one by one.
`Refinement` maps `tick` to `world.currentTick` and `log` to `commits`: a commit is
a step of the clock, because the key it runs under is unused in the abstract log
(by `KeyHeld` no row, and by `RowsMatchCommits` every remembered tick has its
row); everything else stutters.

*Lease.*  `HoldsLeaseUnlessOverran` is not inductive: a second worker could take a
lease that is expired but still in the name of a worker inside its iteration.
`LeaseInv` adds that such a lease is not expired unless the worker overran.

*Advance calls.*  `Expecting` says that a call on its first tick has read the version
it expects; since only a commit moves the world row, and a commit needs the version
it has read, the tick is committed on that version.

*Scheduler lease.*  `LeaseInv` of `SchedulerLeaseProofs` is the analogue for a lease
with re-entry: a leader that is not late owns a lease in force, so that no update
or insert of another instance takes it (`TakenFromNobody`), wherever that one is in
its start, its timer or its stop.  It needs `HeldSinceAsked`: an instance that is
still asking does not have the flag, so that a refusal makes nobody lead.

*Halting.*  `HaltInv` says of each worker what its counters `grace` may show at each
place of its program: a worker that has begun a tick has committed no more since
maintenance was turned on than reads of it have failed, and the ticks it has committed since processing was
stopped are all of the batch it is in.  A step that commits nothing is `Orderly`:
it takes no worker into a tick under maintenance without a read that failed, and gives none a job while
processing is stopped.

*Account set-up.*  `OnlyReadyPlayersPlay` speaks of what a page shows, and holds
because of calls made long before, for whoever was signed in then.  `AccountInv`
adds what carries it from there: an answer under way is true of the account it was
given for and stays true (`AnswersTrue`); the tab's session is the account that is
signed in, or nobody is, unless they are `apart` (`SessionTrue`); the answer the gate
still waits for is about the page its effect ran for, and was asked for its user
unless they are apart (`GateAsks`), so that what the gate knows is true of the
account that was asked for (`GateTrue`); a company is chosen only where the
provider asks for one (`ChosenInGame`), and there it is the company of an owner, the
session's unless they are apart (`ChosenForUser`).

*Induction over data.*  The library states induction over numbers and sets with an
operator as a parameter, which the provers cannot instantiate.  `DataLemmas` starts
instead from the fact that `<` is well-founded on the numbers, applied to the *set*
of the numbers that violate a claim: every non-empty set of numbers has a least
one.  From it follow induction for a set of numbers and for the finite subsets of a
set, and with these what the exchange needs of sums over finite sets: the sum of
nothing, of one element more, of one value changed, of an amount moved from one
element to another.

*Planning.*  `PlanOrderMatches` is the value of a recursive function, whose rounds
`ExchangeProofs` follows by induction.  A `Schedule` of a plan is what is left of
each order before every match and after the last one; every match fits what is left
before it.  `PlanIsScheduled` says that the plan of a tick has a schedule, for any
book of orders, and that no bid meets an ask in what is left at its end, since every
round uses up a bid or an ask.

*Exchange.*  The inductive invariant is `ExchangeInv`:

* the rows are *sound* (`SoundRows`): typed, with orders that reserve what remains
  of them (`HonestOrders`), reserves of cash and stock that are the sums over the
  orders and never more than the balance (`CashBacked`, `StockBacked`), total cash
  and goods unchanged (`Conserved`), and balances the ledger explains (`Explained`);
* the rows a rollback would restore are sound as well, or a tick that throws could
  bring anything back;
* the matches that are left have a schedule that starts at the orders as they are
  (`PlanGoesThrough`).

A settled match takes its quantity off both orders, so the rest of the schedule
starts at the new orders (`PlanAdvances`).  A planned match fits its orders; an
order's reserve is part of the sum its holder's reserve is (`OrderWithinReserve`);
and a match trades at no more than the bid's price (`Products`): so every check of
`settleMatch` passes.  When nothing is left of the plan, the end of the schedule is
the book, and it does not cross.

*Economy.*  `EconomyRowsProofs` says once, for every operation of every service,
which tables it writes, that the rows it writes have their type, and by how much
balances, reserves, stocks and sums over orders and jobs change.  `EconomyProofs`
argues from these facts alone.  Every step of the economy does one of three things
to the rows: it leaves them as they are, it makes one `Move` (an operation of one
service, whether a player asked for it or a tick makes it), or it puts back the rows
that were saved when the tick began.  A claim about rows therefore needs to hold at
the start and survive every move; then it holds of the rows and of the saved ones.
The claims are kept as sets of rows, so that the same claim can be made of both:

* `SoundRows`: typed rows, whose contracts and orders agree with their own fields
  (`ContractSound`, `OrderSound`), in which reserved cash is the sum over orders and
  the ledger explains cash.  `SoundInv` says so of both, and of where the tick is:
  `Staged` types what is left of the loop of each stage (it names rows that exist,
  each once, still open and still due), and `NothingLeft` says what earlier stages
  have worked off.  Types need it: a round that completed a job twice would take its
  inputs twice.
* `BackedRows`: reserved stock is what sell orders and running jobs hold, and is
  there.  A sum over two tables moves by the one row that an operation writes.
* `AccountedRows`: goods here, away and in transit, less what jobs made, plus what
  was consumed, are what there was at the start.
* `ResearchedRows`: `NodeSound` for every company and node.

The others add what they need.  `TimelyInv` says that the rows of the last commit
are ahead of the clock: what is committed is not overdue, so that at the next tick
only what `NothingLeft` has counted can be due.  `ClosedInv` compares the rows of a
tick with the saved ones, since others see the tick's rows only when it commits.
`CandleInv` says that between ticks the candles show what buy orders received, and
inside a tick that they lag behind by exactly the trades of this tick, none of which
is entered after they are drawn.  `TicksKeepSolvency` and `StorageRespected` follow
from what single moves do: each takes what is free, or what was reserved for it,
and each fills a store with no more than its check found room for.

`BotOrdersAreCovered` speaks of orders that are planned together and placed one by
one.  A `Need` is what an order takes of the cash of its bot or of its stock of an
item, and an amount `Lasts` for a sequence of needs when every one of them finds
enough left.  `LiquidityOrdersLast` follows the loop of `planLiquidityOrders`: the
cash it still counts with lasts for the buy orders so far, and it comes to each item
once, whose sell orders keep within what is free of it.  `FlattenedLasts` puts the
plans of all bots together, of which only its own takes anything of a bot.
`BotsCovered` says that what each trader has lasts for what is left of the plan; the
stage begins so, since reserves are backed when bots are looked at, and each action
takes just what it needs.

*Interleaved statements.*  `ReadCommittedInv` relates what a request or a tick has
read to the rows as they are by now.  A balance that the tick has read is still the
balance it sees until it writes it (`BalancesSeen`), although the reserve beside it
may have changed: requests write their reserve alone.  So a payment computed from
old reads still moves an amount from one balance to another, and the rows the tick
will commit have the same total as the committed ones (`Balanced`).  An order that
was read or planned with may since have been closed, but it is still of the same
company, item and side (`OrdersKeep`, `OrdersSeen`).  `Locks` says that the tick has
written the holder of every order it has written, and never holds a row that a
cancellation holds.  A cancellation that holds a company's row therefore never meets
the tick's lock on its order, which is `NoDeadlock`.  Ledger and reserves are left
out on purpose: interleaved requests do lose updates of a reserve.  The plan of the
tick is typed by `PlanIsScheduled`, instantiated for this specification.

`HaltInv`, `AccountInv`, `ReadCommittedInv` and the other strengthenings were checked
as invariants of TLC runs, on the instances of the runs above or smaller ones, except
`ExchangeInv` and `BotsCovered`: they say that a schedule exists, which TLC cannot search for, and
TLC checks their consequences instead.

*Model-checked only.*  Liveness everywhere, for want of a prover for fairness and
ENABLED.  `PlansAreFair`, that the planning loop yields the matches that price-time
priority asks for: its proof would follow the loop beside the intervals of
`FairMatches`.  Everything about `OpenClose`, whose refinement of `Consignments` has
not been attempted.
`HoldsLeaseUnlessOverran` is proved and checked by no run.

## 5. Not modelled, and why

* The reset of the whole simulation, planned; the job handler of a worker that is
  stopping, which closes a job without running it.
* Recipe restrictions by item tier and specialization, item locks, validation of
  the shape of inputs, authentication, CSRF: they reject a request before it
  changes anything.
* More than two regions, companies with different homes, the choice of some bots and
  items by configuration, a bot that runs several jobs, the demand sink in other
  regions than the home of a bot.
* Requests of buildings, research, workforce and moderation that overlap a tick or
  one another.  They write cash as an absolute value; market orders write only the
  reserve so.  Absolute writes of cash are modelled on the side of the tick
  (`OpenClose`), and by no module on the side of requests.
* In onboarding: that the company of a player is looked up outside the transaction
  that creates one, so that two tabs can found two.
* Support: export, import and transfer of accounts by administrators.
* Read models and controllers; the rest of the web client, whose forms send the
  requests of players that are modelled where they are carried out, and its other
  ways of signing in; schema migrations, seed data, scripts.

## 6. Plan

Done: `TickClock`, `TickProcessing`, `Matching`, `Exchange`, `ExchangeReadCommitted`,
`AccountSetup`, `SchedulerLease` and `Economy` with their proofs; `OpenClose` with
`Consignments`.

Next, in this order:

1. `OpenClose` implements `Consignments`, step by step.
2. `PlansAreFair`.
3. The reset of the simulation as an action of `TickProcessing`.
4. Requests of buildings, research and workforce beside a tick, statement by
   statement.
