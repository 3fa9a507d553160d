--------------------------- MODULE MCPlanningBudget ---------------------------
(* Small instances of PlayerBotPlanningBudget for TLC *)
EXTENDS PlayerBotPlanningBudget, TLC

CONSTANTS prompt1, prompt2, away, slow

\* Two hunt planners that poll at once and one whose turns may go elsewhere.
PromptFloor == [c \in Clients |-> 1]

\* One hunt planner, and one caller that retries after blockedRouteRetryInterval,
\* twice the lease.
SlowFloor == [c \in Clients |-> IF c = slow THEN 2 * HeadLease ELSE 1]

Symmetry == Permutations({prompt1, prompt2})
=============================================================================
