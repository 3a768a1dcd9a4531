--------------------------- MODULE ClosureContract ---------------------------
(***************************************************************************)
(* What resolving a selection against a descriptor catalog promises: in    *)
(* one step, either the request is refused because it names an unknown     *)
(* descriptor, or the answer is the least set of ids that holds the roots, *)
(* follows every edge of an allowed relation, and takes in every admitted  *)
(* member of every group it holds.                                         *)
(***************************************************************************)
EXTENDS CatalogRequests

VARIABLES
    request,     \* the request being served, fixed at the start
    outcome      \* its answer

contractVars == <<request, outcome>>

Pending  == [status |-> "pending", ids |-> {}]
Refusal  == [status |-> "refused", ids |-> {}]
Resolved(ids) == [status |-> "resolved", ids |-> ids]

Init == request \in Request /\ outcome = Pending

Refuse ==
    /\ outcome = Pending
    /\ Refused(request)
    /\ outcome' = Refusal
    /\ UNCHANGED request

Resolve ==
    /\ outcome = Pending
    /\ ~Refused(request)
    /\ outcome' = Resolved(Wanted(request))
    /\ UNCHANGED request

Next == Refuse \/ Resolve

Spec == Init /\ [][Next]_contractVars
=============================================================================
