---------------------------- MODULE VersionSearch ----------------------------
(***************************************************************************)
(* How one version is chosen for every descriptor (selectVersions): the    *)
(* seed's ranges narrow the candidates; if all candidates of each id have  *)
(* the same topology the provider outcome is resolved once and each id     *)
(* takes its newest compatible version; otherwise a depth-first search     *)
(* tries the versions of each undecided id, newest first, prunes a branch  *)
(* as soon as a mandatory requirement cannot be met, and accepts the first *)
(* complete assignment whose composition meets all its requirements.       *)
(***************************************************************************)
EXTENDS VersionRequests

VARIABLES
    request,   \* the arguments, never modified
    resolve,   \* the callback that selects among one version per id, a function
    phase,     \* where the control is
    choices,   \* the ids that need a choice, in order
    chosen,    \* search: the versions of the first choices
    frames,    \* search: the versions each open frame still has to try
    answer     \* id -> version of the composition, once there is one

vars == <<request, resolve, phase, choices, chosen, frames, answer>>

Phases == {"check", "route", "enter", "next", "return", "done", "failed"}

\* Nothing is asked for by an id without a version.
NoCandidate == [dependencies |-> <<>>, providesFor |-> {}, defaultFor |-> {}, members |-> {}]

\* An assignment as the single-version request it makes.
SelectionOf(r, a) ==
    LET candidate == [d \in Ids |-> IF d \in DOMAIN a THEN r.candidates[d][a[d]] ELSE NoCandidate]
    IN  [enabled      |-> DOMAIN a,
         dependencies |-> [d \in Ids |-> DOMAIN candidate[d].dependencies],
         providesFor  |-> [d \in Ids |-> candidate[d].providesFor],
         defaultFor   |-> [d \in Ids |-> candidate[d].defaultFor],
         members      |-> [d \in Ids |-> candidate[d].members],
         roots        |-> Roots(r)]

\* The ranges a composition requires of an id: the seed's and those of the
\* dependencies that were kept; without any, a stable version.
Ranges(r, a, outcome, d) ==
    LET s       == SelectionOf(r, a)
        sources == {e \in outcome.composed : d \in KeptDependencies(s, outcome.slots, e)}
        asked   == {r.candidates[e][a[e]].dependencies[d] : e \in sources}
                       \cup (IF d \in Roots(r) THEN {r.required[d]} ELSE {})
    IN  IF asked = {} THEN {Stable} ELSE asked

\* finish: what the composition depends on is in it, at a version that is allowed.
Compatible(r, a, outcome) ==
    /\ outcome.status = "composed"
    /\ ~UnmetDependency(SelectionOf(r, a), outcome.slots, outcome.composed)
    /\ \A d \in outcome.composed : \A range \in Ranges(r, a, outcome, d) : a[d] \in range

\* One eligible version for every available id.
Assignments(r) ==
    {a \in [Available(r) -> Versions] : \A d \in DOMAIN a : a[d] \in Eligible(r, d)}

\* The composition of an assignment with its versions.
Composed(a, outcome) == [d \in outcome.composed |-> a[d]]

\* Dependencies, provider roles and memberships do not vary between the versions.
Uniform(r) == \A d \in Available(r) : \A b, c \in Options(r, d) : b = c

\* The versions of an id the representative composition allows.
Matching(r, outcome, d) ==
    {v \in Eligible(r, d) : \A range \in Ranges(r, Newests(r), outcome, d) : v \in range}

\* The newest matching version of what takes part, the newest of the rest.
Matched(r, outcome) ==
    [d \in Available(r) |->
        IF d \in outcome.composed THEN Newest(Matching(r, outcome, d)) ELSE Newests(r)[d]]

-----------------------------------------------------------------------------
Init ==
    /\ request \in Requests
    /\ resolve = [a \in Assignments(request) |-> OutcomeOf(SelectionOf(request, a))]
    /\ phase = "check"
    /\ choices = <<>> /\ chosen = <<>> /\ frames = <<>>
    /\ answer = <<>>

\* The catalog and the seed name only known ids, and no seed range is empty-handed.
Sound ==
    /\ \A d \in Available(request) : \A v \in DOMAIN request.candidates[d] :
        LET c == request.candidates[d][v] IN c.providesFor \cup c.defaultFor \subseteq Ids
    /\ Roots(request) \subseteq Available(request)
    /\ \A d \in Roots(request) : Eligible(request, d) # {}

Reject ==
    /\ phase = "check" /\ ~Sound
    /\ phase' = "failed"
    /\ UNCHANGED <<request, resolve, choices, chosen, frames, answer>>

Accept ==
    /\ phase = "check" /\ Sound
    /\ phase' = "route"
    /\ \E places \in {ChoicePlaces(request)} : choices' = InOrder(IdOrder, places)
    /\ UNCHANGED <<request, resolve, chosen, frames, answer>>

FastPath == choices # <<>> /\ Uniform(request)

\* One resolution fixes the edges; each id then takes its newest matching version,
\* and the result is resolved and checked again.
ChooseIndependently ==
    /\ phase = "route" /\ FastPath
    /\ \E representative \in {resolve[Newests(request)]} :
        \/ /\ representative.status = "composed"
           /\ \A d \in representative.composed : Matching(request, representative, d) # {}
           /\ \E a \in {Matched(request, representative)} :
              \E outcome \in {resolve[a]} :
                IF Compatible(request, a, outcome)
                  THEN phase' = "done" /\ answer' = Composed(a, outcome)
                  ELSE phase' = "failed" /\ answer' = answer
        \/ /\ \/ representative.status = "refused"
              \/ \E d \in representative.composed : Matching(request, representative, d) = {}
           /\ phase' = "failed" /\ answer' = answer
    /\ UNCHANGED <<request, resolve, choices, chosen, frames>>

StartSearch ==
    /\ phase = "route" /\ ~FastPath
    /\ phase' = "enter"
    /\ UNCHANGED <<request, resolve, choices, chosen, frames, answer>>

\* search: checkMandatory throws.
Prune ==
    /\ phase = "enter"
    /\ MandatoryUnmet(request, choices, chosen)
    /\ phase' = "return"
    /\ UNCHANGED <<request, resolve, choices, chosen, frames, answer>>

\* search: an id is left to choose for.
OpenFrame ==
    /\ phase = "enter"
    /\ ~MandatoryUnmet(request, choices, chosen)
    /\ Len(chosen) < Len(choices)
    /\ frames' = Append(frames, Eligible(request, choices[Len(chosen) + 1]))
    /\ phase' = "next"
    /\ UNCHANGED <<request, resolve, choices, chosen, answer>>

\* search: the assignment is complete; resolve it and check the result.
Settle ==
    /\ phase = "enter"
    /\ ~MandatoryUnmet(request, choices, chosen)
    /\ Len(chosen) = Len(choices)
    /\ \E a \in {Assignment(request, choices, chosen)} :
       \E outcome \in {resolve[a]} :
        IF Compatible(request, a, outcome)
          THEN phase' = "done" /\ answer' = Composed(a, outcome)
          ELSE phase' = "return" /\ answer' = answer
    /\ UNCHANGED <<request, resolve, choices, chosen, frames>>

\* The versions the innermost frame has left.
Left == frames[Len(frames)]

\* Mutated form of TryNext: the version stays among those to try.
TryNextAgain ==
    /\ phase = "next" /\ Left # {}
    /\ chosen' = Append(chosen, Newest(Left))
    /\ phase' = "enter"
    /\ UNCHANGED <<request, resolve, choices, frames, answer>>

\* search: the loop takes the next version of its frame, newest first.
TryNext ==
    /\ phase = "next" /\ Left # {}
    /\ chosen' = Append(chosen, Newest(Left))
    /\ frames' = [frames EXCEPT ![Len(frames)] = Left \ {Newest(Left)}]
    /\ phase' = "enter"
    /\ UNCHANGED <<request, resolve, choices, answer>>

\* search: the loop is out of versions.
CloseFrame ==
    /\ phase = "next" /\ Left = {}
    /\ frames' = SubSeq(frames, 1, Len(frames) - 1)
    /\ phase' = "return"
    /\ UNCHANGED <<request, resolve, choices, chosen, answer>>

\* search returned undefined to the frame above it.
Return ==
    /\ phase = "return" /\ frames # <<>>
    /\ chosen' = SubSeq(chosen, 1, Len(chosen) - 1)
    /\ phase' = "next"
    /\ UNCHANGED <<request, resolve, choices, frames, answer>>

\* The outermost search returned undefined: the first failure is thrown.
GiveUp ==
    /\ phase = "return" /\ frames = <<>>
    /\ phase' = "failed"
    /\ UNCHANGED <<request, resolve, choices, chosen, frames, answer>>

Next ==
    \/ Reject \/ Accept \/ ChooseIndependently \/ StartSearch
    \/ Prune \/ OpenFrame \/ Settle \/ TryNext \/ CloseFrame \/ Return \/ GiveUp

\* The code is synchronous: once called, it runs until it returns or throws.
Spec == Init /\ [][Next]_vars /\ WF_vars(Next)
=============================================================================
