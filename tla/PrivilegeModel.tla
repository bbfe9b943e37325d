--------------------------- MODULE PrivilegeModel ---------------------------
(***************************************************************************)
(* The finite permission-selection problem of pkg/leastprivilege: grants   *)
(* are bundles of permissions, implications add further permissions, and a *)
(* selection of grants is feasible when what it makes effective covers the *)
(* required permissions, stays within the allowed ones and contains no     *)
(* forbidden combination.  Its cost is the sum of the costs of what is     *)
(* effective, a uint64 in the code and a number below 2^w = MaxUint64 + 1  *)
(* here.                                                                   *)
(*                                                                         *)
(* A problem is a record.  Its permissions are the domain of "cost"; its   *)
(* grants and rules are in the sorted order compileProblem gives them, so  *)
(* the bit i of a selection mask is the grant i+1.  The syntax of IDs and  *)
(* the collection limits are left out.                                     *)
(***************************************************************************)
EXTENDS Naturals, Sequences, FiniteSets, SequencesExt

CONSTANT MaxUint64     \* the largest cost a machine word holds

Permissions(p) == DOMAIN p.cost
Selection(p) == SUBSET DOMAIN p.grants

\* The sum of the costs of a set of permissions, without any width.
TrueCost(p, effective) == MapThenSumSet(LAMBDA q : p.cost[q], effective)

\* total > MaxUint64 - cost refuses the first permission that would overflow.
CostsFit(p) == TrueCost(p, Permissions(p)) <= MaxUint64

\* compileProblem
Compiles(p) ==
    /\ \A q \in Permissions(p) : p.cost[q] > 0
    /\ CostsFit(p)
    /\ \A i \in DOMAIN p.rules : p.rules[i].then # {}
    /\ IsInjective(p.rules)
    /\ \A group \in p.forbidden : Cardinality(group) >= 2

\* One rule of one pass: then is added when all of allOf are effective.
ApplyRule(effective, rule) ==
    IF rule.allOf \subseteq effective THEN effective \cup rule.then ELSE effective

\* Passes over the rules, in their order, until one of them changes nothing.
Close(p, granted) ==
    LET pass[effective \in SUBSET Permissions(p)] ==
            LET next == FoldLeft(ApplyRule, effective, p.rules)
            IN  IF next = effective THEN effective ELSE pass[next]
    IN  pass[granted]

Granted(p, selection) == UNION {p.grants[i] : i \in selection}

\* uint64 addition
MachineCost(p, effective) == TrueCost(p, effective) % (MaxUint64 + 1)

evaluate(p, selection) ==
    LET effective == Close(p, Granted(p, selection))
    IN  [effective |-> effective,
         feasible  |-> /\ p.required \subseteq effective
                       /\ effective \subseteq p.allowed
                       /\ \A group \in p.forbidden : ~(group \subseteq effective),
         cost      |-> MachineCost(p, effective)]
-----------------------------------------------------------------------------
(* What the comments promise, defined without any loop. *)

ClosedUnder(p, effective) ==
    \A i \in DOMAIN p.rules : p.rules[i].allOf \subseteq effective => p.rules[i].then \subseteq effective

\* "Implications are applied to a fixed point": the least one.
Effective(p, selection) ==
    LET closed == {e \in SUBSET Permissions(p) : Granted(p, selection) \subseteq e /\ ClosedUnder(p, e)}
    IN  CHOOSE least \in closed : \A e \in closed : least \subseteq e

Feasible(p, selection) ==
    LET effective == Effective(p, selection)
    IN  /\ p.required \subseteq effective
        /\ effective \subseteq p.allowed
        /\ ~\E group \in p.forbidden : group \subseteq effective

CostOf(p, selection) == TrueCost(p, Effective(p, selection))

\* "A global minimum within the supplied finite model".
Optimal(p, selection) ==
    /\ Feasible(p, selection)
    /\ \A other \in Selection(p) : Feasible(p, other) => CostOf(p, selection) <= CostOf(p, other)
=============================================================================
