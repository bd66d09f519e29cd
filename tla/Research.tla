------------------------------ MODULE Research ------------------------------
(***************************************************************************)
(* Research (research.ts): nodes with prerequisites, started against cash, *)
(* cancelled without a refund, completed by a tick, which unlocks recipes. *)
(* What the icon tier and the specialization of a company forbid on top of *)
(* that is left out.                                                       *)
(***************************************************************************)
EXTENDS Workforce

CONSTANTS
    Nodes, Recipes,
    Prerequisites,     \* of each node, a set of nodes
    ResearchCost,      \* of each node, in cents
    ResearchDuration,  \* of each node, in ticks
    Unlocks,           \* recipes a node unlocks
    StartKnown         \* CompanyRecipe rows at tick 0

\* Research takes time: the one node that takes none is completed from the start.
ASSUME ResearchAssumption ==
    /\ IsFiniteSet(Recipes)
    /\ Prerequisites \in [Nodes -> SUBSET Nodes]
    /\ ResearchCost \in [Nodes -> Nat]
    /\ ResearchDuration \in [Nodes -> Nat \ {0}]
    /\ Unlocks \in [Nodes -> SUBSET Recipes]
    /\ StartKnown \in [Companies -> [Recipes -> {"none", "locked", "unlocked"}]]

VARIABLES
    research,  \* CompanyResearch rows: their status
    labs,      \* ResearchJob rows
    known      \* CompanyRecipe rows: "none" for no row, "locked", "unlocked"

\* getCompletedPrerequisiteSet, and the test for a node's prerequisites.
PrerequisitesMet(c, n) == \A p \in Prerequisites[n] : research[c][p] = "COMPLETED"

Running(c, n) == {j \in DOMAIN labs : labs[j].company = c /\ labs[j].node = n
                                                         /\ labs[j].status = "RUNNING"}

\* startResearch: paid from all cash there is, reserved or not.
StartResearch(c, n) ==
    LET completes == clock + ResearchTicks(c, ResearchDuration[n]) IN
    /\ c \in Players
    /\ research[c][n] \notin {"COMPLETED", "RESEARCHING"}
    /\ Running(c, n) = {}
    /\ PrerequisitesMet(c, n)
    /\ cash[c].cash >= ResearchCost[n]
    /\ Pay(c, ResearchCost[n])
    /\ labs' = Append(labs, [company |-> c, node |-> n, status |-> "RUNNING",
                             completes |-> completes])
    /\ research' = [research EXCEPT ![c][n] = "RESEARCHING"]
    /\ UNCHANGED <<known, stock, depot, consumed>>

\* Mutant: the node's row is left as it was.
StillResearching(c, n) == research[c][n]

\* The status of a node whose job was cancelled.
Shelved(c, n) == IF PrerequisitesMet(c, n) THEN "AVAILABLE" ELSE "LOCKED"

\* cancelResearch
CancelResearch(c, n) ==
    /\ c \in Players
    /\ \E j \in Running(c, n) :
          /\ labs' = [labs EXCEPT ![j].status = "CANCELLED"]
          /\ research' = [research EXCEPT ![c][n] = Shelved(c, n)]
    /\ UNCHANGED <<known, Tables>>

LabsDue == InOrderOf(labs, LAMBDA j : j.status = "RUNNING" /\ j.completes <= ThisTick,
                     LAMBDA j : j.completes)

\* One round of completeDueResearchJobs.
CompleteResearch(j) ==
    LET c == labs[j].company
        n == labs[j].node
    IN
    /\ labs' = [labs EXCEPT ![j].status = "COMPLETED"]
    /\ research' = [research EXCEPT ![c][n] = "COMPLETED"]
    /\ known' = [known EXCEPT ![c] =
                     [r \in Recipes |-> IF r \in Unlocks[n] THEN "unlocked" ELSE @[r]]]
    /\ UNCHANGED Tables

ResearchInit ==
    /\ research = [c \in Companies |-> [n \in Nodes |-> "NONE"]]
    /\ labs = <<>>
    /\ known = StartKnown
=============================================================================
