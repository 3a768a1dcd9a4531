-------------------------- MODULE ProviderSelection --------------------------
(***************************************************************************)
(* Which provider serves a capability (provider-selection).  A capability  *)
(* is a slot with candidates; requests for a provider come in three tiers, *)
(* and the highest tier that names one wins.  Who made a request matters   *)
(* only to error messages, so a request is a pair <<capability, provider>>.*)
(*                                                                         *)
(* An ask is a record                                                      *)
(*   candidates   capability -> the providers that declare it              *)
(*   required     capabilities the resolved descriptors depend on          *)
(*   active       capabilities that take part without being required       *)
(*   requests     tier -> the requests of that tier                        *)
(***************************************************************************)
EXTENDS Naturals

\* Precedence, highest first.
Tiers == <<"explicit", "dependency", "default">>
Modes == {"explicit", "dependency", "default"}

\* The providers a tier names for a capability.
Named(ask, mode, c) == {r[2] : r \in {q \in ask.requests[mode] : q[1] = c}}

\* The capabilities a tier names a provider for.
Asked(ask, mode) == {r[1] : r \in ask.requests[mode]}

\* Two providers requested for one capability at one tier, whether or not a
\* higher tier would have decided.
Contradictory(ask) ==
    \E mode \in Modes : \E c \in Asked(ask, mode) :
        \E p, q \in Named(ask, mode, c) : p # q

\* A request for a provider that does not declare the capability.
NamesUnknownProvider(ask) ==
    \E mode \in Modes : \E r \in ask.requests[mode] : r[2] \notin ask.candidates[r[1]]

RequiredSlots(ask) == ask.required \cup Asked(ask, "explicit") \cup Asked(ask, "dependency")

ActiveSlots(ask) == ask.active \cup RequiredSlots(ask)

\* The positions in Tiers of the tiers that name a provider for a capability.
TiersNaming(ask, c) == {k \in 1..3 : Named(ask, Tiers[k], c) # {}}

\* Mutated form of LeavesRequiredUnfilled: candidates are taken for an answer.
LeavesRequiredWithoutCandidates(ask) == \E c \in RequiredSlots(ask) : ask.candidates[c] = {}

\* A required capability nobody names a provider for, with or without candidates.
LeavesRequiredUnfilled(ask) == \E c \in RequiredSlots(ask) : TiersNaming(ask, c) = {}

Unanswerable(ask) ==
    Contradictory(ask) \/ NamesUnknownProvider(ask) \/ LeavesRequiredUnfilled(ask)

\* Mutated form of DecidingTier: the lowest tier decides.
DecidingTierLowest(ask, c) ==
    CHOOSE k \in TiersNaming(ask, c) : \A j \in TiersNaming(ask, c) : k >= j

\* The position of the tier that decides a capability some tier names a provider for.
DecidingTier(ask, c) == CHOOSE k \in TiersNaming(ask, c) : \A j \in TiersNaming(ask, c) : k <= j

\* The slot of an active capability: its winner as a set of at most one provider.
SlotOf(ask, c) ==
    IF TiersNaming(ask, c) = {}
      THEN [winner |-> {}, mode |-> "unfilled", required |-> FALSE]
      ELSE LET mode == Tiers[DecidingTier(ask, c)]
           IN  [winner |-> Named(ask, mode, c), mode |-> mode,
                required |-> c \in RequiredSlots(ask)]

\* resolveProviderSelection, for an ask that is not unanswerable.
Resolution(ask) == [c \in ActiveSlots(ask) |-> SlotOf(ask, c)]

\* The winners of a resolution.
Winners(slots) == UNION {slots[c].winner : c \in DOMAIN slots}

\* Whether a provider won the slot of a capability.
Won(slots, c, p) == c \in DOMAIN slots /\ p \in slots[c].winner
=============================================================================
