------------------------ MODULE VersionSearchReference ------------------------
(***************************************************************************)
(* What the version search promises (README.md:137-140 of                  *)
(* descriptor-selection): ids in order, newest version first, the first    *)
(* complete compatible assignment wins.  The reference enumerates every    *)
(* assignment of an eligible version to every available id, knows nothing  *)
(* of ids that cannot take part, of pruning or of the fast path, and keeps *)
(* the compatible ones in a variable.                                      *)
(***************************************************************************)
EXTENDS VersionSearch

VARIABLES
    solutions,   \* the compatible assignments
    first        \* the one that wins, if there is one

\* a comes before b: it has the newer version of the first id they differ on.
Precedes(a, b) ==
    \E k \in DOMAIN IdOrder :
        /\ IdOrder[k] \in DOMAIN a /\ a[IdOrder[k]] > b[IdOrder[k]]
        /\ \A j \in 1..(k - 1) : IdOrder[j] \in DOMAIN a => a[IdOrder[j]] = b[IdOrder[j]]

referenceVars == <<vars, solutions, first>>

ReferenceInit == Init /\ solutions = {} /\ first = <<>>

\* The reference is worked out beside the first step.
Judge ==
    /\ phase = "check"
    /\ solutions' = {a \in DOMAIN resolve : Compatible(request, a, resolve[a])}
    /\ first' \in {a \in solutions' : \A b \in solutions' : a = b \/ Precedes(a, b)}
                  \cup (IF solutions' = {} THEN {<<>>} ELSE {})

Follow == phase # "check" /\ UNCHANGED <<solutions, first>>

ReferenceNext == Next /\ (Judge \/ Follow)

ReferenceSpec == ReferenceInit /\ [][ReferenceNext]_referenceVars /\ WF_referenceVars(ReferenceNext)

-----------------------------------------------------------------------------
Extends(a, prefix) == \A k \in DOMAIN prefix : a[choices[k]] = prefix[k]

-----------------------------------------------------------------------------
TypeOK ==
    /\ IsRequest(request) /\ phase \in Phases
    /\ \A k \in DOMAIN choices : choices[k] \in Available(request)
    /\ Len(chosen) <= Len(choices) /\ Len(frames) <= Len(choices)
    /\ \A k \in DOMAIN chosen : chosen[k] \in Eligible(request, choices[k])
    /\ \A k \in DOMAIN frames : frames[k] \subseteq Eligible(request, choices[k])
    /\ Len(chosen) + (IF phase = "next" THEN 1 ELSE 0) = Len(frames) \/ phase \in {"done", "failed"}
    /\ DOMAIN answer \subseteq Ids /\ \A d \in DOMAIN answer : answer[d] \in Versions

\* The answer is the composition of the first compatible assignment, and a sound
\* request is refused only if no assignment is compatible: neither the ids left
\* without a choice, nor the pruning, nor the fast path shows.
\* (selectVersions; README.md:137-140, 166-168)
AnswersFirst ==
    /\ phase = "done" =>
        first \in solutions /\ answer = [d \in resolve[first].composed |-> first[d]]
    /\ phase = "failed" /\ Sound => solutions = {}

\* While the search runs, the first compatible assignment is still ahead of it: in
\* the branch it is in, or among the versions an open frame has left.
\* (search, checkMandatory)
NothingSkipped ==
    phase \in {"enter", "next"} /\ solutions # {} =>
        \E k \in 0..Len(chosen) :
            /\ Extends(first, SubSeq(chosen, 1, k))
            /\ \/ k = Len(chosen)
               \/ first[choices[k + 1]] \in frames[k + 1]

\* Every request is answered or refused.
Terminates == <>(phase \in {"done", "failed"})
=============================================================================
