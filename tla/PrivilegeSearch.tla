--------------------------- MODULE PrivilegeSearch ---------------------------
(***************************************************************************)
(* The two searches over a permission-selection problem: Solve walks the   *)
(* grant subsets depth first, absent before present; Verify checks a       *)
(* claimed solution and enumerates the masks upwards.  Both stop at a      *)
(* budget of evaluated subsets.  What Solve returns is handed to Verify    *)
(* with the same budget, as Authorize does with a solver's candidate.      *)
(*                                                                         *)
(* A candidate's grants are a sequence, since Verify must see duplicates;  *)
(* a grant the problem does not have is 0.                                 *)
(***************************************************************************)
EXTENDS PrivilegeModel

CONSTANTS
    Problems,          \* the problems posed
    Candidates(_),     \* the solutions of a problem that somebody may claim
    Budgets            \* the evaluation limits

VARIABLES
    problem, budget,
    phase,             \* SOLVE, VERIFY or how the search ended
    origin,            \* who made the candidate: SOLVER or CLAIMED
    candidate,         \* the solution returned or claimed
    stack,             \* the calls of visit that are still to run
    mask,              \* the mask Verify is at
    evaluations, best  \* the subsets evaluated and the best so far

vars == <<problem, budget, phase, origin, candidate, stack, mask, evaluations, best>>

Ended == {"ACCEPTED", "INVALID", "NOT_OPTIMAL", "LIMIT", "INFEASIBLE", "CANCELED"}

NoSolution == [grants |-> <<>>, effective |-> {}, cost |-> 0]
NotFound == [found |-> FALSE, selection |-> {}, cost |-> 0, effective |-> {}]

GrantCount == Len(problem.grants)

\* The grants of a mask: bit i - 1 is grant i.
SelectionOf(m) == {i \in 1..GrantCount : (m \div 2^(i - 1)) % 2 = 1}

TypeOK ==
    /\ problem \in Problems /\ budget \in Budgets
    /\ phase \in Ended \cup {"SOLVE", "VERIFY"}
    /\ origin \in {"SOLVER", "CLAIMED"}
    /\ candidate.cost \in 0..MaxUint64
    /\ \A i \in DOMAIN stack : stack[i].index \in 0..GrantCount /\ stack[i].selection \subseteq 1..stack[i].index
    /\ mask \in 0..2^GrantCount
    /\ evaluations \in 0..budget
    /\ best.found => best.selection \in Selection(problem)

End(how) == phase' = how /\ UNCHANGED <<problem, budget, origin, candidate, stack, mask, evaluations, best>>

\* The context is checked in every loop; a canceled search returns no solution.
Cancel == phase \in {"SOLVE", "VERIFY"} /\ End("CANCELED")
-----------------------------------------------------------------------------
(* Solve *)

Push(calls) == stack' = calls \o Tail(stack)

\* visit at an inner node: the subtree without the grant, then the one with it.
Branch ==
    /\ phase = "SOLVE" /\ stack # <<>>
    /\ LET call == Head(stack)
       IN  /\ call.index < GrantCount
           /\ Push(<<[call EXCEPT !.index = @ + 1],
                     [index |-> call.index + 1, selection |-> call.selection \cup {call.index + 1}]>>)
    /\ UNCHANGED <<problem, budget, phase, origin, candidate, mask, evaluations, best>>

WithinBudget == evaluations < budget

Improves(e) == e.feasible /\ (~best.found \/ e.cost < best.cost)

\* visit at a leaf
Evaluate ==
    /\ phase = "SOLVE" /\ stack # <<>>
    /\ Head(stack).index = GrantCount
    /\ \/ ~WithinBudget /\ End("LIMIT")
       \/ /\ WithinBudget
          /\ LET selection == Head(stack).selection
                 e         == evaluate(problem, selection)
             IN  best' = IF Improves(e)
                         THEN [found |-> TRUE, selection |-> selection, cost |-> e.cost, effective |-> e.effective]
                         ELSE best
          /\ evaluations' = evaluations + 1
          /\ Push(<<>>)
          /\ UNCHANGED <<problem, budget, phase, origin, candidate, mask>>

\* Verify starts over: the proposed selection is its first evaluation.
Solved ==
    /\ phase = "SOLVE" /\ stack = <<>>
    /\ \/ ~best.found /\ End("INFEASIBLE")
       \/ /\ best.found
          /\ candidate' = [grants |-> SetToSortSeq(best.selection, <), effective |-> best.effective, cost |-> best.cost]
          /\ phase' = "VERIFY" /\ evaluations' = 1
          /\ UNCHANGED <<problem, budget, origin, stack, mask, best>>
-----------------------------------------------------------------------------
(* Verify *)

Known(c) == IsInjective(c.grants) /\ Range(c.grants) \subseteq DOMAIN problem.grants

Claimed(c) == Range(c.grants)

\* The claimed selection, evaluated, must be what the candidate says it is.
SolutionHolds(c) ==
    LET e == evaluate(problem, Claimed(c))
    IN  e.feasible /\ e.cost = c.cost /\ e.effective = c.effective

CheckCandidate ==
    /\ phase = "VERIFY" /\ mask = 0
    /\ ~(Known(candidate) /\ SolutionHolds(candidate))
    /\ End("INVALID")

\* The claimed selection was evaluated before the enumeration.
Skipped(m) == SelectionOf(m) = Claimed(candidate)

LastMask == 2^GrantCount

Enumerate ==
    /\ phase = "VERIFY" /\ Known(candidate) /\ SolutionHolds(candidate)
    /\ mask < LastMask
    /\ \/ Skipped(mask) /\ mask' = mask + 1 /\ UNCHANGED <<problem, budget, phase, origin, candidate, stack, evaluations, best>>
       \/ ~Skipped(mask) /\ ~WithinBudget /\ End("LIMIT")
       \/ /\ ~Skipped(mask) /\ WithinBudget
          /\ LET e == evaluate(problem, SelectionOf(mask))
             IN  phase' = IF e.feasible /\ e.cost < candidate.cost THEN "NOT_OPTIMAL" ELSE phase
          /\ mask' = mask + 1 /\ evaluations' = evaluations + 1
          /\ UNCHANGED <<problem, budget, origin, candidate, stack, best>>

Accept ==
    /\ phase = "VERIFY" /\ Known(candidate) /\ SolutionHolds(candidate)
    /\ mask = LastMask
    /\ End("ACCEPTED")
-----------------------------------------------------------------------------
\* A budget of zero is refused by both before anything is compiled.
Init ==
    /\ problem \in {p \in Problems : Compiles(p)}
    /\ budget \in Budgets
    /\ stack = <<[index |-> 0, selection |-> {}]>> /\ mask = 0 /\ best = NotFound
    /\ \/ origin = "SOLVER" /\ candidate = NoSolution /\ evaluations = 0
       \/ origin = "CLAIMED" /\ candidate \in Candidates(problem) /\ evaluations = IF budget = 0 THEN 0 ELSE 1
    /\ phase = IF budget = 0 THEN "LIMIT" ELSE IF origin = "SOLVER" THEN "SOLVE" ELSE "VERIFY"

Next == Branch \/ Evaluate \/ Solved \/ CheckCandidate \/ Enumerate \/ Accept \/ Cancel

Spec == Init /\ [][Next]_vars
-----------------------------------------------------------------------------
(***************************************************************************)
(* A solution that Verify accepts is a feasible selection of least cost,   *)
(* with the permissions and the cost it really has, whoever proposed it    *)
(* and whatever the machine arithmetic did (verifier.go, Verify).          *)
(***************************************************************************)
AcceptedIsOptimal ==
    phase = "ACCEPTED" =>
        /\ Optimal(problem, Claimed(candidate))
        /\ candidate.effective = Effective(problem, Claimed(candidate))
        /\ candidate.cost = CostOf(problem, Claimed(candidate))

(***************************************************************************)
(* What Solve returns, Verify accepts under the same budget: the two       *)
(* searches, in different orders, count and compare alike (solver.go,      *)
(* Solve; Authorize hands its candidate to Verify).                        *)
(***************************************************************************)
SolutionIsVerifiable ==
    origin = "SOLVER" /\ best.found /\ stack = <<>> => phase \in {"SOLVE", "VERIFY", "ACCEPTED", "CANCELED"}

(***************************************************************************)
(* A refusal is justified: Solve gives up only on problems without a       *)
(* feasible selection, and Verify calls a solution not optimal only when a *)
(* cheaper feasible one exists.                                            *)
(***************************************************************************)
RefusalIsJustified ==
    /\ phase = "INFEASIBLE" => ~\E s \in Selection(problem) : Feasible(problem, s)
    /\ phase = "NOT_OPTIMAL" =>
           \E s \in Selection(problem) :
               Feasible(problem, s) /\ CostOf(problem, s) < CostOf(problem, Claimed(candidate))
=============================================================================
