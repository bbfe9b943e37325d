------------------------ MODULE PrivilegeCertificate ------------------------
(***************************************************************************)
(* Optimality certificates (pkg/leastprivilege/certificate): a certificate *)
(* is a preorder tree over the grants, S splits on the next grant (absent  *)
(* before present) and a leaf claims why no completion of the selection so *)
(* far is feasible and cheaper: C by its forced cost, F by a forced        *)
(* violation, M because even everything else selected misses a             *)
(* requirement.  Generate writes the tree with a budget of nodes, Check    *)
(* replays one under the same budget.                                      *)
(*                                                                         *)
(* The recursion of visit is the stack "calls"; "nodes" is the certificate *)
(* read or written so far.  A certificate from elsewhere is any string: it *)
(* is chosen node by node as Check reads it.  Binding digests are data and *)
(* left out.                                                               *)
(***************************************************************************)
EXTENDS PrivilegeModel

CONSTANTS
    Problems,
    Candidates(_),     \* solutions of a problem that somebody may claim
    Budgets            \* the node limits

VARIABLES
    problem, candidate, budget,
    phase,             \* GENERATE, CHECK or how it ended
    origin,            \* whose certificate is checked: GENERATED or FOREIGN
    calls,             \* the calls of visit still to run
    nodes,             \* the certificate, when this process generated it
    read               \* how many of its nodes were visited

vars == <<problem, candidate, budget, phase, origin, calls, nodes, read>>

Opcode == {"S", "C", "F", "M"}
Ended == {"VALID", "INVALID_SOLUTION", "INVALID_PROOF", "NOT_OPTIMAL", "LIMIT", "CANCELED"}

GrantCount == Len(problem.grants)
Root == [depth |-> 0, selected |-> {}]

\* prepare checks the candidate before any node is visited.
Prepared(p, c) ==
    LET e == evaluate(p, Range(c.grants))
    IN  /\ IsInjective(c.grants) /\ Range(c.grants) \subseteq DOMAIN p.grants
        /\ e.feasible /\ e.cost = c.cost /\ e.effective = c.effective

close(selected) == Close(problem, Granted(problem, selected))

weight(effective) == MachineCost(problem, effective)

violates(effective) ==
    \/ ~(effective \subseteq problem.allowed)
    \/ \E group \in problem.forbidden : group \subseteq effective

CostBound(forced) == weight(forced) >= candidate.cost

\* Mutation: the completion leaves out the grant that is next.
CompletionShort(call) == call.selected \cup (call.depth + 2)..GrantCount

Completion(call) == call.selected \cup (call.depth + 1)..GrantCount

\* Whether a leaf's own claim holds at a call: Check recomputes each of them.
Justified(node, call) ==
    CASE node = "C" -> CostBound(close(call.selected))
      [] node = "F" -> violates(close(call.selected))
      [] node = "M" -> ~(problem.required \subseteq close(Completion(call)))
      [] OTHER -> FALSE

\* reason: the first claim that holds; "S" when none does.
reason(call) ==
    IF Justified("C", call) THEN "C"
    ELSE IF Justified("F", call) THEN "F"
    ELSE IF Justified("M", call) THEN "M"
    ELSE "S"

Without(call) == [call EXCEPT !.depth = @ + 1]
With(call) == [depth |-> call.depth + 1, selected |-> call.selected \cup {call.depth + 1}]

\* What is left to visit after a node.
Continue(node) ==
    IF node = "S" THEN <<Without(Head(calls)), With(Head(calls))>> \o Tail(calls) ELSE Tail(calls)

End(how) == phase' = how /\ UNCHANGED <<problem, candidate, budget, origin, calls, nodes, read>>

Cancel == phase \in {"GENERATE", "CHECK"} /\ End("CANCELED")
-----------------------------------------------------------------------------
(* Generate *)

Generate ==
    /\ phase = "GENERATE" /\ calls # <<>>
    /\ LET node == reason(Head(calls))
       IN  \/ read >= budget /\ End("LIMIT")
           \/ read < budget /\ node = "S" /\ Head(calls).depth = GrantCount /\ End("NOT_OPTIMAL")
           \/ /\ read < budget
              /\ node = "S" => Head(calls).depth < GrantCount
              /\ nodes' = Append(nodes, node) /\ read' = read + 1
              /\ calls' = Continue(node)
              /\ UNCHANGED <<problem, candidate, budget, phase, origin>>

\* The certificate is complete, and is given to Check.
Generated ==
    /\ phase = "GENERATE" /\ calls = <<>>
    /\ phase' = "CHECK" /\ calls' = <<Root>> /\ read' = 0
    /\ UNCHANGED <<problem, candidate, budget, origin, nodes>>
-----------------------------------------------------------------------------
(* Check *)

Longest == 2^(GrantCount + 1) - 1

\* The nodes Check can read next; a foreign certificate may hold any.
NextNodes ==
    IF origin = "FOREIGN" THEN Opcode
    ELSE IF read < Len(nodes) THEN {nodes[read + 1]} ELSE {}

\* A certificate longer than the budget is refused before it is read, and one
\* longer than the tree can be is no certificate.
Readable == read < budget /\ read < Longest

LeafHolds(node, call) == Justified(node, call)

Check ==
    /\ phase = "CHECK" /\ calls # <<>>
    /\ \/ ~Readable /\ End(IF read >= budget THEN "LIMIT" ELSE "INVALID_PROOF")
       \/ \E node \in NextNodes :
              /\ Readable
              /\ \/ node = "S" /\ Head(calls).depth = GrantCount /\ End("INVALID_PROOF")
                 \/ node # "S" /\ ~LeafHolds(node, Head(calls)) /\ End("INVALID_PROOF")
                 \/ /\ IF node = "S" THEN Head(calls).depth < GrantCount ELSE LeafHolds(node, Head(calls))
                    /\ calls' = Continue(node) /\ read' = read + 1
                    /\ UNCHANGED <<problem, candidate, budget, phase, origin, nodes>>

\* A certificate that ends early, or goes on after the tree is complete.
Truncated == phase = "CHECK" /\ calls # <<>> /\ (NextNodes = {} \/ origin = "FOREIGN") /\ End("INVALID_PROOF")

Checked ==
    /\ phase = "CHECK" /\ calls = <<>>
    /\ \/ origin = "FOREIGN" /\ End("INVALID_PROOF")
       \/ (origin = "GENERATED" => read = Len(nodes)) /\ End("VALID")
-----------------------------------------------------------------------------
Init ==
    /\ problem \in {p \in Problems : Compiles(p)}
    /\ candidate \in Candidates(problem)
    /\ budget \in Budgets
    /\ origin \in {"GENERATED", "FOREIGN"}
    /\ calls = <<Root>> /\ nodes = <<>> /\ read = 0
    /\ phase = IF budget = 0 THEN "LIMIT"
               ELSE IF ~Prepared(problem, candidate) THEN "INVALID_SOLUTION"
               ELSE IF origin = "GENERATED" THEN "GENERATE" ELSE "CHECK"

Next == Generate \/ Generated \/ Check \/ Truncated \/ Checked \/ Cancel

Spec == Init /\ [][Next]_vars

TypeOK ==
    /\ problem \in Problems /\ budget \in Budgets
    /\ phase \in Ended \cup {"GENERATE", "CHECK"} /\ origin \in {"GENERATED", "FOREIGN"}
    /\ \A i \in DOMAIN calls : calls[i].depth \in 0..GrantCount /\ calls[i].selected \subseteq 1..calls[i].depth
    /\ nodes \in Seq(Opcode) /\ read \in 0..budget
-----------------------------------------------------------------------------
(***************************************************************************)
(* Check is sound: whatever string it is given, it calls valid only the    *)
(* certificate of a feasible solution of least cost (certificate.go,       *)
(* Check: "prove it infeasible or no cheaper than the independently        *)
(* validated candidate").                                                  *)
(***************************************************************************)
ValidIsOptimal == phase = "VALID" => Optimal(problem, Range(candidate.grants))

(***************************************************************************)
(* The visits still to come cover every cheaper feasible selection: no     *)
(* leaf accepted so far has cut one off (certificate.go, visit in Generate *)
(* and Check).                                                             *)
(***************************************************************************)
NothingCheaperIsCutOff ==
    phase \in {"GENERATE", "CHECK"} =>
        \A s \in Selection(problem) :
            Feasible(problem, s) /\ CostOf(problem, s) < CostOf(problem, Range(candidate.grants)) =>
                \E i \in DOMAIN calls : calls[i].selected = s \cap 1..calls[i].depth

(***************************************************************************)
(* Generate and Check agree: a certificate Generate completed within the   *)
(* budget is never refused by Check under the same budget, and Generate    *)
(* calls a solution not optimal only when a cheaper feasible one exists.   *)
(***************************************************************************)
GeneratedIsValid ==
    /\ origin = "GENERATED" /\ nodes # <<>> => phase # "INVALID_PROOF"
    /\ phase = "NOT_OPTIMAL" => ~Optimal(problem, Range(candidate.grants))
=============================================================================
