----------------------------- MODULE Production -----------------------------
(***************************************************************************)
(* Production (production.ts): a job reserves its inputs, and a tick turns *)
(* them into its output.                                                   *)
(***************************************************************************)
EXTENDS Buildings, Research

CONSTANTS
    Inputs,       \* of each recipe: how many of each item
    Output,       \* of each recipe: the item and how many
    RecipeTicks,  \* durationTicks
    Runs          \* runs players may ask for

ASSUME ProductionAssumption ==
    /\ Inputs \in [Recipes -> [Items -> Nat]]
    /\ Output \in [Recipes -> [item : Items, quantity : Nat \ {0}]]
    /\ RecipeTicks \in [Recipes -> Nat \ {0}]
    /\ Runs \subseteq Nat \ {0}

VARIABLE jobs  \* ProductionJob rows

\* calculateRecipeInputRequirements
Required(r, runs, i) == Inputs[r][i] * runs

\* isLegacyCompanyRecipeState: a company that lacks rows may use any recipe.
Legacy(c) == \E r \in Recipes : known[c][r] = "none"

\* createProductionJobWithTx, for a job that begins at the given tick.  Only
\* players need a building.
CanProduce(c, r, runs) ==
    /\ known[c][r] = "unlocked" \/ Legacy(c)
    /\ c \in Players => HasProductionBuilding(c)
    /\ \A i \in Items : Required(r, runs, i) > 0 => AvailableStock(c, i) >= Required(r, runs, i)

\* A row of stock with n more of it reserved.
Held(row, n) == [row EXCEPT !.reserved = @ + n]

StartJob(c, r, runs, tick) ==
    /\ CanProduce(c, r, runs)
    /\ stock' = [stock EXCEPT ![c] =
                     [i \in Items |-> Held(@[i], Required(r, runs, i))]]
    /\ jobs' = Append(jobs, [company |-> c, recipe |-> r, runs |-> runs,
                             status |-> "IN_PROGRESS",
                             due |-> tick + ProductionTicks(c, RecipeTicks[r])])
    /\ UNCHANGED <<cash, depot, ledger, consumed>>

\* Mutant: the inputs stay reserved.
NotReleased(row, n) == row

Released(row, n) == [row EXCEPT !.reserved = @ - n]

\* The rows still hold what the job reserved.
InputsHeld(job) ==
    \A i \in Items :
        LET n == Required(job.recipe, job.runs, i) IN
        n > 0 => stock[job.company][i].reserved >= n /\ stock[job.company][i].quantity >= n

\* cancelProductionJobWithTx; for a job that is closed it does nothing.  Only
\* what is reserved is looked at.
CancelJob(j) ==
    LET job == jobs[j] IN
    /\ job.status = "IN_PROGRESS"
    /\ \A i \in Items : stock[job.company][i].reserved >= Required(job.recipe, job.runs, i)
    /\ stock' = [stock EXCEPT ![job.company] =
                     [i \in Items |-> Released(@[i], Required(job.recipe, job.runs, i))]]
    /\ jobs' = [jobs EXCEPT ![j].status = "CANCELLED"]
    /\ UNCHANGED <<cash, depot, ledger, consumed>>

JobsDue == InOrderOf(jobs, LAMBDA j : j.status = "IN_PROGRESS" /\ j.due <= ThisTick,
                     LAMBDA j : j.due)

\* What a job adds to the store once its inputs are used up.
NetGrowth(job) ==
    Output[job.recipe].quantity * job.runs
        - SumFunction([i \in Items |-> Required(job.recipe, job.runs, i)])

OutputFits(job) == NetGrowth(job) > 0 => HasRoom(job.company, "home", NetGrowth(job))

\* Mutant: the inputs are released, not used up.
InputsKept(row, n) == [row EXCEPT !.reserved = @ - n]

UsedUp(row, n) == [row EXCEPT !.quantity = @ - n, !.reserved = @ - n]

\* One round of completeDueProductionJobs; it throws when the inputs are gone or
\* the output does not fit.
CompleteJob(j) ==
    LET job == jobs[j]
        used == [i \in Items |-> UsedUp(stock[job.company][i], Required(job.recipe, job.runs, i))]
    IN
    /\ InputsHeld(job) /\ OutputFits(job)
    /\ stock' = [stock EXCEPT ![job.company] =
                     [used EXCEPT ![Output[job.recipe].item].quantity =
                                        @ + Output[job.recipe].quantity * job.runs]]
    /\ jobs' = [jobs EXCEPT ![j].status = "COMPLETED"]
    /\ UNCHANGED <<cash, depot, ledger, consumed>>
=============================================================================
