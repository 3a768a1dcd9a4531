----------------------------- MODULE RegistryHub -----------------------------
(***************************************************************************)
(* Registries and the hub that hands them out (createRegistry,             *)
(* createRegistryHub).  A registry is a Map from item ids to items, which  *)
(* keeps an id at the place it was first given; here the sequence of its   *)
(* items in that order.  Registries are objects: the hub maps a name to    *)
(* one, and whoever asked for it holds the same one.                       *)
(***************************************************************************)
EXTENDS Integers, Sequences, Functions

EmptyHub == [registries |-> <<>>, contents |-> <<>>]

ItemIdsOf(registry) == {registry[k].id : k \in DOMAIN registry}

\* Mutated form of Put: an id given again moves to the end.
PutLast(registry, item) ==
    Append(SelectSeq(registry, LAMBDA i : i.id # item.id), item)

\* map.set: a known id keeps its place and changes its value.
Put(registry, item) ==
    IF item.id \in ItemIdsOf(registry)
    THEN [k \in DOMAIN registry |-> IF registry[k].id = item.id THEN item ELSE registry[k]]
    ELSE Append(registry, item)

\* register on a registry: one item after the other.
PutAll(registry, items) ==
    LET put[n \in 0..Len(items)] == IF n = 0 THEN registry ELSE Put(put[n - 1], items[n])
    IN  put[Len(items)]

Created(hub, name) == name \in DOMAIN hub.registries

\* createRegistry on the hub, and the first half of its register.
Ensure(hub, name) ==
    IF Created(hub, name) THEN hub
    ELSE [registries |-> [n \in DOMAIN hub.registries \cup {name} |->
                            IF n = name THEN Len(hub.contents) + 1 ELSE hub.registries[n]],
          contents |-> Append(hub.contents, <<>>)]

\* register on a registry someone holds.
RegisterHeld(hub, registry, items) ==
    [hub EXCEPT !.contents[registry] = PutAll(@, items)]

\* register on the hub.
Register(hub, name, items) ==
    LET ensured == Ensure(hub, name)
    IN  RegisterHeld(ensured, ensured.registries[name], items)

\* list on the hub.
Listed(hub, name) ==
    IF Created(hub, name) THEN hub.contents[hub.registries[name]] ELSE <<>>
=============================================================================
