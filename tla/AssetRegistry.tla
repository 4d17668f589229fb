--------------------------- MODULE AssetRegistry ---------------------------
(* The registry of AI assets and its lineage tracker (agents/registry), the
   endpoints over them (api/routes/registry.py) and the blast radius that the
   impact assessment computes from the dependencies.

   Both are singletons of one process, and no handler suspends, so each
   endpoint is one step. An exception that is not a ValueError caught by the
   endpoint answers 500 and leaves what the handler did before.

   Identifiers of an index are a set: an asset enters an index when it is
   registered, and it cannot be registered twice.                          *)
EXTENDS Naturals, FiniteSets, SequencesExt, Relation

CONSTANTS Assets,          \* identifiers of assets
          Owners,          \* users and teams
          Types,           \* values of AssetType that occur
          DependencyLists  \* lists of dependencies that a request may carry

\* What the values of the constants satisfy.
RegistryAssumption == DependencyLists \subseteq Seq(Assets) /\ <<>> \in DependencyLists

VARIABLES
  registered,  \* the assets the registry holds
  asset,       \* the fields of each asset, meaningful while it is registered
  byType,      \* index of identifiers by type
  byOwner,     \* index of identifiers by owner
  traced       \* identifiers that have lineage events

vars == <<registered, asset, byType, byOwner, traced>>

Fields == [type : Types, owner : Owners, dependencies : DependencyLists]
NoFields == CHOOSE f \in Fields : f.dependencies = <<>>

Init ==
  /\ registered = {}
  /\ asset = [a \in Assets |-> NoFields]
  /\ byType = [t \in Types |-> {}]
  /\ byOwner = [o \in Owners |-> {}]
  /\ traced = {}

(* Events outlive their asset, and any identifier may have some. *)
TrackEvent(a) == traced' = traced \cup {a}

Register(a, f) ==
  /\ a \notin registered
  /\ registered' = registered \cup {a}
  /\ asset' = [asset EXCEPT ![a] = f]
  /\ byType' = [byType EXCEPT ![f.type] = @ \cup {a}]
  /\ byOwner' = [byOwner EXCEPT ![f.owner] = @ \cup {a}]

(* A duplicate is refused with 400 before the event. *)
CreateAsset(a, f) == Register(a, f) /\ TrackEvent(a)

(* update sets whatever fields it is given; the indexes stay. *)
SetFields(a, owner, dependencies) ==
  /\ asset' = [asset EXCEPT ![a].owner = owner, ![a].dependencies = dependencies]
  /\ UNCHANGED <<registered, byType, byOwner>>

UpdateAsset(a, owner, dependencies) ==
  /\ a \in registered
  /\ SetFields(a, owner, dependencies)
  /\ TrackEvent(a)

\* Mutant: the index of the owner keeps the identifier.
DeleteLeavingOwner(a) ==
  /\ byType' = [byType EXCEPT ![asset[a].type] = @ \ {a}]
  /\ registered' = registered \ {a}
  /\ asset' = [asset EXCEPT ![a] = NoFields]
  /\ UNCHANGED byOwner

(* remove() of a list raises when the identifier is not in it, and the rest is
   skipped: list by type first, list by owner second, the asset last. *)
Delete(a) ==
  LET inType == a \in byType[asset[a].type]
      inOwner == a \in byOwner[asset[a].owner]
  IN /\ byType' = [byType EXCEPT ![asset[a].type] = @ \ {a}]
     /\ byOwner' = IF inType THEN [byOwner EXCEPT ![asset[a].owner] = @ \ {a}] ELSE byOwner
     /\ registered' = IF inType /\ inOwner THEN registered \ {a} ELSE registered
     /\ asset' = IF inType /\ inOwner THEN [asset EXCEPT ![a] = NoFields] ELSE asset

DeleteAsset(a) ==
  /\ a \in registered
  /\ Delete(a)
  /\ UNCHANGED traced

(* An event is posted for any identifier, registered or not. *)
CreateLineageEvent(a) ==
  /\ TrackEvent(a)
  /\ UNCHANGED <<registered, asset, byType, byOwner>>

Next ==
  \/ \E a \in Assets, f \in Fields : CreateAsset(a, f)
  \/ \E a \in Assets, o \in Owners, d \in DependencyLists : UpdateAsset(a, o, d)
  \/ \E a \in Assets : DeleteAsset(a)
  \/ \E a \in Assets : CreateLineageEvent(a)

Spec == Init /\ [][Next]_vars

(***************************************************************************)
(* What the read endpoints return.                                         *)
(***************************************************************************)
(* The listings look each indexed identifier up in the registry. *)
ListByType(t) == byType[t]
ListByOwner(o) == byOwner[o]

Search(t, o) == {a \in registered : asset[a].type = t /\ asset[a].owner = o}

DependsOn(b, a) == b \in registered /\ a \in ToSet(asset[b].dependencies)

Dependents(a) == {b \in registered : DependsOn(b, a)}

(* From an asset to the first of its dependencies, until one is unknown or
   met before; the root comes first. *)
LineageChain[chain \in Seq(Assets)] ==
  LET current == chain[1]
      dependencies == asset[current].dependencies
  IN IF dependencies = <<>> \/ dependencies[1] \in ToSet(chain)
        \/ dependencies[1] \notin registered
     THEN chain
     ELSE LineageChain[<<dependencies[1]>> \o chain]

(* The assets the depth-first search of the dependents visits, in the order in
   which the registry lists them. *)
CountRecursiveDependents(a, visited, order) ==
  LET search[b \in Assets, met \in SUBSET Assets] ==
        FoldLeft(LAMBDA v, c : IF c \in v THEN v ELSE search[c, v \cup {c}],
                 met, SelectSeq(order, LAMBDA c : DependsOn(c, b)))
  IN search[a, visited]

\* Mutant: only the direct dependents are counted.
DirectOnly(a, order) == Cardinality(Dependents(a))

(* The direct dependents count once as such, and the search adds every asset
   it visits that was not visited before. *)
BlastRadius(a, order) ==
  LET Visit(v, b) == IF b \in v.visited THEN v
                     ELSE LET before == v.visited \cup {b}
                              after == CountRecursiveDependents(b, before, order)
                          IN [visited |-> after,
                              radius |-> v.radius + Cardinality(after \ before)]
  IN FoldLeft(Visit, [visited |-> {a}, radius |-> Cardinality(Dependents(a))],
              SelectSeq(order, LAMBDA b : DependsOn(b, a))).radius

(***************************************************************************)
(* Properties                                                              *)
(***************************************************************************)
TypeOK ==
  /\ registered \subseteq Assets
  /\ asset \in [Assets -> Fields]
  /\ byType \in [Types -> SUBSET Assets]
  /\ byOwner \in [Owners -> SUBSET Assets]
  /\ registered \subseteq traced /\ traced \subseteq Assets

(* No listing meets an identifier the registry lost, whatever deletions
   stopped half-way, and every registered asset is found by a search for its
   own fields. *)
ListingsResolve ==
  /\ \A t \in Types : ListByType(t) \subseteq registered
  /\ \A o \in Owners : ListByOwner(o) \subseteq registered
  /\ \A a \in registered : a \in Search(asset[a].type, asset[a].owner)

TransitiveDependents(a) ==
  LET path == [b, c \in registered |-> b # c /\ DependsOn(b, c)]
  IN {b \in registered \ {a} : a \in registered /\ TransitiveClosure(path, registered)[b, a]}

Orders == SetToSeqs(registered)

(* Over any graph of dependencies, cycles included, and any order of the
   registry, the blast radius misses no transitive dependent and counts none
   but the direct ones twice; and the lineage chain visits no asset twice. *)
RadiusMissesNothing ==
  \A a \in registered, order \in Orders :
    LET true == TransitiveDependents(a)
        radius == BlastRadius(a, order)
    IN /\ Cardinality(true) <= radius
       /\ radius <= Cardinality(true) + Cardinality(Dependents(a))
       /\ IsInjective(LineageChain[<<a>>])
=============================================================================
