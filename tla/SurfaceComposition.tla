------------------------- MODULE SurfaceComposition -------------------------
(***************************************************************************)
(* How one composition run activates its surfaces (resolveSurfaceModules,  *)
(* activateSurface, createPackageSourceLoad, CompositionRun.compose).  A   *)
(* call loads the surface's modules one after the other and hands each     *)
(* exported value to the host, which puts it into a registry.  A load and  *)
(* a registration are awaited: other calls run meanwhile, for another      *)
(* surface or, when a host tries again, for the same one.                  *)
(*                                                                         *)
(* The build-time view of the same run, surfaceEntries, lists the files of *)
(* those modules or aborts.                                                *)
(***************************************************************************)
EXTENDS RegistryHub

CONSTANTS
    Capabilities,
    Surfaces,
    Workspaces,    \* the resolved sets under study
    MaxCalls       \* bound: calls of compose

VARIABLES
    workspace,     \* never modified
    hub,
    held,          \* the registries the host holds, by surface
    calls,         \* the calls made, in order
    overlapped     \* the surfaces on which two calls were under way at once

surfaceVars == <<workspace, hub, held, calls, overlapped>>

Targets == {"inside", "outside", "gone", "none"}

(***************************************************************************)
(* active       the resolved capabilities, in the run's order              *)
(* marked       capability -> the surfaces it has a marker file for        *)
(* target       capability -> surface -> where its package exports it to:  *)
(*              a file of the package, a file outside of it, a file that   *)
(*              is gone, or nowhere                                        *)
(* items        capability -> surface -> the ids of the items its export   *)
(*              holds; <<>> when the module has no such export             *)
(***************************************************************************)
IsWorkspace(w) ==
    /\ w.active \in Seq(Capabilities)
    /\ \A j, k \in DOMAIN w.active : w.active[j] = w.active[k] => j = k
    /\ \A c \in Capabilities : w.marked[c] \subseteq Surfaces
    /\ \A c \in Capabilities, s \in Surfaces :
        w.target[c][s] \in Targets /\ w.items[c][s] \in Seq(Range(w.items[c][s]))

ASSUME WorkspacesAssumption == \A w \in Workspaces : IsWorkspace(w)

\* resolveSurfaceModules
Modules(s) ==
    LET marked[n \in 0..Len(workspace.active)] ==
            IF n = 0 THEN <<>>
            ELSE IF s \in workspace.marked[workspace.active[n]] THEN Append(marked[n - 1], workspace.active[n])
            ELSE marked[n - 1]
    IN  marked[Len(workspace.active)]

Exports(c, s) == workspace.items[c][s] # <<>>

\* The value a module exports: its items, each the capability's own.
Items(c, s) == [k \in DOMAIN workspace.items[c][s] |-> [id |-> workspace.items[c][s][k], of |-> c]]

\* createPackageSourceLoad: what it refuses before the module is evaluated.
Loadable(c, s) == workspace.target[c][s] = "inside"

\* resolveSurfaceEntries aborts on the first module without a file.
EntriesAbort(s) ==
    \E k \in DOMAIN Modules(s) : workspace.target[Modules(s)[k]][s] \in {"gone", "none"}

Entries(s) == {Modules(s)[k] : k \in DOMAIN Modules(s)}

-----------------------------------------------------------------------------
Call(s, direct) ==
    [surface |-> s, direct |-> direct, modules |-> Modules(s), at |-> 1,
     phase |-> IF Modules(s) = <<>> THEN "done" ELSE "loading", written |-> FALSE, activated |-> <<>>]

Current(call) == call.modules[call.at]

UnderWay(call) == call.phase \in {"loading", "registering"}

\* Mutated form of Advance: a call ends one module early.
AdvanceShort(call) ==
    [call EXCEPT !.at = @ + 1, !.written = FALSE,
                 !.phase = IF call.at + 1 >= Len(call.modules) THEN "done" ELSE "loading"]

\* The loop goes on: the next load begins, or the call returns.
Advance(call) ==
    [call EXCEPT !.at = @ + 1, !.written = FALSE,
                 !.phase = IF call.at = Len(call.modules) THEN "done" ELSE "loading"]

SurfaceInit ==
    /\ workspace \in Workspaces
    /\ hub = EmptyHub
    /\ held = [s \in Surfaces |-> 0]
    /\ calls = <<>>
    /\ overlapped = {}

\* The host asks the hub for a surface's registry and keeps it.
Hold(s) ==
    /\ held[s] = 0
    /\ hub' = Ensure(hub, s)
    /\ held' = [held EXCEPT ![s] = hub'.registries[s]]
    /\ UNCHANGED <<workspace, calls, overlapped>>

Compose(s, direct) ==
    /\ Len(calls) < MaxCalls
    /\ direct => held[s] # 0
    /\ calls' = Append(calls, Call(s, direct))
    /\ overlapped' = IF \E k \in DOMAIN calls : calls[k].surface = s /\ UnderWay(calls[k])
                     THEN overlapped \cup {s} ELSE overlapped
    /\ UNCHANGED <<workspace, hub, held>>

Step(k, call) ==
    /\ calls' = [calls EXCEPT ![k] = call]
    /\ UNCHANGED <<workspace, held, overlapped>>

\* Mutated form of LoadRejects: a module that does not load is left out.
LoadRejectsQuietly(k) ==
    /\ calls[k].phase = "loading"
    /\ Step(k, Advance(calls[k]))
    /\ UNCHANGED hub

\* The package has no such file, or evaluating the module throws.
LoadRejects(k) ==
    /\ calls[k].phase = "loading"
    /\ Step(k, [calls[k] EXCEPT !.phase = "failed"])
    /\ UNCHANGED hub

LoadWithoutExport(k) ==
    /\ calls[k].phase = "loading"
    /\ Loadable(Current(calls[k]), calls[k].surface) /\ ~Exports(Current(calls[k]), calls[k].surface)
    /\ Step(k, Advance(calls[k]))
    /\ UNCHANGED hub

LoadResolves(k) ==
    /\ calls[k].phase = "loading"
    /\ Loadable(Current(calls[k]), calls[k].surface) /\ Exports(Current(calls[k]), calls[k].surface)
    /\ Step(k, [calls[k] EXCEPT !.phase = "registering"])
    /\ UNCHANGED hub

\* The host's callback, at the moment it registers: through the hub, or through
\* the registry it holds.
HostWrites(k) ==
    LET call == calls[k]
        items == Items(Current(call), call.surface)
    IN  /\ call.phase = "registering" /\ ~call.written
        /\ hub' = IF call.direct THEN RegisterHeld(hub, held[call.surface], items)
                                 ELSE Register(hub, call.surface, items)
        /\ Step(k, [call EXCEPT !.written = TRUE])

RegisterResolves(k) ==
    /\ calls[k].phase = "registering" /\ calls[k].written
    /\ Step(k, Advance([calls[k] EXCEPT !.activated = Append(@, Current(calls[k]))]))
    /\ UNCHANGED hub

\* The callback rejects, before it wrote or after.
RegisterRejects(k) ==
    /\ calls[k].phase = "registering"
    /\ Step(k, [calls[k] EXCEPT !.phase = "failed"])
    /\ UNCHANGED hub

SurfaceNext ==
    \/ \E s \in Surfaces : Hold(s) \/ \E direct \in BOOLEAN : Compose(s, direct)
    \/ \E k \in DOMAIN calls :
        \/ LoadRejects(k) \/ LoadWithoutExport(k) \/ LoadResolves(k)
        \/ HostWrites(k) \/ RegisterResolves(k) \/ RegisterRejects(k)

SurfaceSpec == SurfaceInit /\ [][SurfaceNext]_surfaceVars

-----------------------------------------------------------------------------
SurfaceTypeOK ==
    /\ IsWorkspace(workspace)
    /\ DOMAIN hub.registries \subseteq Surfaces
    /\ \A s \in DOMAIN hub.registries : hub.registries[s] \in DOMAIN hub.contents
    /\ \A s \in Surfaces : held[s] \in {0} \cup DOMAIN hub.contents
    /\ \A k \in DOMAIN calls :
        /\ calls[k].surface \in Surfaces
        /\ calls[k].phase \in {"loading", "registering", "done", "failed"}
        /\ UnderWay(calls[k]) => calls[k].at \in DOMAIN calls[k].modules
    /\ overlapped \subseteq Surfaces

On(s) == {k \in DOMAIN calls : calls[k].surface = s}

\* What one undisturbed call registers with the first modules of a surface.
RegisteredBy(s, n) ==
    LET registered[i \in 0..n] ==
            IF i = 0 THEN <<>> ELSE PutAll(registered[i - 1], Items(Modules(s)[i], s))
    IN  registered[n]

\* No two items of the surface's modules have the same id.
Apart(s) ==
    \A i, j \in DOMAIN Modules(s) :
        \A k \in DOMAIN Items(Modules(s)[i], s), l \in DOMAIN Items(Modules(s)[j], s) :
            Items(Modules(s)[i], s)[k].id = Items(Modules(s)[j], s)[l].id => i = j /\ k = l

LastOn(s, k) == k \in On(s) /\ \A j \in On(s) : j <= k

\* A call that returned leaves its surface's registry as one undisturbed call would,
\* items and order, whatever calls failed before it or ran beside it.  When two
\* modules bring the same item id a call beside it may put the earlier one back, so
\* only one call after the other is asked for then.
ReturnedIsWhole ==
    \A k \in DOMAIN calls :
        LET s == calls[k].surface
        IN  calls[k].phase = "done" /\ (Apart(s) \/ (s \notin overlapped /\ LastOn(s, k)))
                => Listed(hub, s) = RegisteredBy(s, Len(Modules(s)))

\* A call that failed leaves no gap: what a registry holds is what the first modules
\* of its surface bring, up to some module.  A module may be in part only within one
\* registration.
NoGaps ==
    \A s \in Surfaces : Apart(s) =>
        \E n \in 0..Len(Modules(s)) : Listed(hub, s) = RegisteredBy(s, n)

\* A run whose build aborts on a surface never activates that surface whole, and one
\* whose build passes activates all the build lists, except modules without the
\* export.
BuildAgrees ==
    \A k \in DOMAIN calls : calls[k].phase = "done" =>
        /\ ~EntriesAbort(calls[k].surface)
        /\ Entries(calls[k].surface) =
            {calls[k].activated[j] : j \in DOMAIN calls[k].activated}
            \cup {c \in Entries(calls[k].surface) : ~Exports(c, calls[k].surface)}

\* An item once registered keeps its place in every listing: nothing is withdrawn,
\* and giving its id again, by a retry or by another module, does not move it.
PlacesKept ==
    [][\A s \in Surfaces : \A k \in DOMAIN Listed(hub, s) :
        k \in DOMAIN Listed(hub, s)' /\ Listed(hub, s)'[k].id = Listed(hub, s)[k].id]_surfaceVars
=============================================================================
