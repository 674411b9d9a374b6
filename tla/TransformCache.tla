--------------------------- MODULE TransformCache ---------------------------
(***************************************************************************)
(* The transform cache under retained queries: XformCache of               *)
(* layerstack_schemas/src/xform.rs.                                        *)
(*                                                                         *)
(* A prim is its path, the sequence of its names.  A scene says of every   *)
(* path what transform is authored there, and whether the prim is active,  *)
(* or Gone.  An inactive prim is there and has a transform; it has nothing *)
(* beneath it.  A matrix is known by the local transforms whose product it *)
(* is, innermost first, so two matrices are equal when they are the same   *)
(* product.                                                                *)
(*                                                                         *)
(* A cache is a record [time, entries, nodes, free, epoch, timeStamp]:     *)
(* entries gives a cached path its slot, an index of nodes; free is the    *)
(* list of retired slots, the last retired first.  Parent links are slots. *)
(* Statistics, the namespace index of manual invalidation and the sharing  *)
(* of equal recipes are left out.                                          *)
(***************************************************************************)
EXTENDS Integers, Sequences, SequencesExt, FiniteSets, FiniteSetsExt

CONSTANTS
    Prims,      \* the paths prims may be at, each with its ancestors
    Specs,      \* what may be authored at each of them
    Times,      \* the times to evaluate at
    MaxEpoch    \* the largest validation stamp (u64::MAX in the code)

Names == {Last(p) : p \in Prims}

ASSUME PrimsAssumption ==
    /\ IsFiniteSet(Prims) /\ Prims \subseteq Seq(Names)
    /\ \A p \in Prims : Len(p) > 0 /\ (Len(p) > 1 => Front(p) \in Prims)
ASSUME SpecsAssumption ==
    \A p \in Prims : \A s \in Specs[p] :
        {s.varying, s.resets, s.active} \subseteq BOOLEAN /\ s.layout # "none"
ASSUME EpochAssumption == MaxEpoch \in Nat \ {0}

Gone == [layout |-> "none", value |-> 0, varying |-> FALSE, resets |-> FALSE, active |-> FALSE]

(* A prim is populated under a parent that is active. *)
IsScene(s) ==
    /\ DOMAIN s = Prims
    /\ \A p \in Prims :
        /\ s[p] \in Specs[p] \cup {Gone}
        /\ (s[p] # Gone /\ Len(p) > 1) => s[Front(p)].active

Present(scene) == {p \in Prims : scene[p] # Gone}
Active(scene) == {p \in Prims : scene[p].active}

(* The prim and its ancestors, the prim first. *)
Ancestry(p) == [i \in 1..Len(p) |-> SubSeq(p, 1, Len(p) - i + 1)]

Always == -1
Missing == <<<<"missing", 0, Always>>>>
Identity == <<>>

(* What a transform's operations, laid out so, make of the values authored  *)
(* at a time.                                                              *)
Evaluate(layout, spec, t) ==
    <<layout, spec.value, IF spec.varying THEN t ELSE Always>>

(* The product the cache stands for: the local transforms up to the first   *)
(* that resets the stack.                                                  *)
WorldTransform(scene, t, p) ==
    IF scene[p] = Gone THEN Missing
    ELSE LET up     == Ancestry(p)
             resets == {i \in DOMAIN up : scene[up[i]].resets}
             last   == IF resets = {} THEN Len(up) ELSE Min(resets)
         IN  [i \in 1..last |-> Evaluate(scene[up[i]].layout, scene[up[i]], t)]

-----------------------------------------------------------------------------
(* The arena *)

\* A node's parent link, when it is not a slot.
Unresolved == -1
Root == 0
Vacant == -2

NoLocal == [matrix |-> <<>>, resets |-> FALSE, held |-> FALSE]
NoRecipe == [layout |-> "none", resets |-> FALSE]

ClearCache(c) == [time |-> c.time, entries |-> <<>>, nodes |-> <<>>, free |-> <<>>,
             epoch |-> 0, timeStamp |-> 0]

NewCache(t) == ClearCache([time |-> t])

Cached(c) == DOMAIN c.entries

NewNode(c, p) ==
    [path |-> p, parent |-> Unresolved, localStamp |-> c.epoch, worldStamp |-> 0,
     validated |-> 0, worldValid |-> FALSE, worldVaries |-> FALSE,
     dependency |-> "Unknown", recipe |-> NoRecipe, local |-> NoLocal, world |-> Identity]

(* ensure_slot: a retired slot is taken before a new one is pushed. *)
EnsureSlot(c, p) ==
    IF p \in Cached(c) THEN c
    ELSE LET slot == IF c.free = <<>> THEN Len(c.nodes) + 1 ELSE Head(c.free)
         IN  [c EXCEPT !.entries = [q \in Cached(c) \cup {p} |-> IF q = p THEN slot ELSE @[q]],
                       !.nodes = IF c.free = <<>> THEN Append(@, NewNode(c, p))
                                 ELSE [@ EXCEPT ![slot] = NewNode(c, p)],
                       !.free = IF @ = <<>> THEN @ ELSE Tail(@)]

(* remove_cached and retire_slot *)
Retire(c, p) ==
    IF p \notin Cached(c) THEN c
    ELSE LET slot == c.entries[p]
         IN  [c EXCEPT !.entries = [q \in Cached(c) \ {p} |-> @[q]],
                       !.nodes[slot] = [@ EXCEPT !.recipe = NoRecipe, !.local = NoLocal,
                                                 !.worldValid = FALSE, !.parent = Vacant],
                       !.free = <<slot>> \o @]

RetireAll(c, paths) == FoldSet(LAMBDA p, held : Retire(held, p), c, paths)

Below(root, paths) == {p \in paths : IsPrefix(root, p)}

\* Mutant: a resync retires its root alone.
MutantRetireResynced(scene, c, root) == Retire(c, root)

(* The active prims at and below the root are walked, for as many as the   *)
(* cache has entries; when there are more, the entries are filtered        *)
(* instead.  An inactive prim is not walked, the root included.            *)
RetireResynced(scene, c, root) ==
    LET walked == Below(root, Active(scene))
    IN  IF Cardinality(walked) > Cardinality(Cached(c))
        THEN RetireAll(c, Below(root, Cached(c)))
        ELSE RetireAll(c, walked)

FinishRetirement(c) ==
    IF Cached(c) = {} THEN [c EXCEPT !.nodes = <<>>, !.free = <<>>] ELSE c

(* invalidate_transform: at the last epoch every stamp is given up. *)
InvalidateTransform(c, p) ==
    LET started == IF c.epoch = MaxEpoch THEN ClearCache(c) ELSE c
        stamped == [started EXCEPT !.epoch = @ + 1]
    IN  IF p \notin Cached(stamped) THEN stamped
        ELSE [stamped EXCEPT !.nodes[stamped.entries[p]] =
                 [@ EXCEPT !.recipe = NoRecipe, !.local = NoLocal, !.worldValid = FALSE,
                           !.localStamp = stamped.epoch, !.dependency = "Unknown"]]

RetireAllResynced(scene, c, roots) ==
    FoldSet(LAMBDA root, held : RetireResynced(scene, held, root), c, roots)

InvalidateAll(c, paths) == FoldSet(LAMBDA p, held : InvalidateTransform(held, p), c, paths)

(* apply_changes *)
ApplyChanges(scene, c, report) ==
    LET retired == RetireAllResynced(scene, RetireAll(c, report.removed), report.resynced)
    IN  InvalidateAll(FinishRetirement(retired), report.properties)

SetTime(c, t) ==
    IF t = c.time THEN c
    ELSE IF c.epoch = MaxEpoch THEN [ClearCache(c) EXCEPT !.time = t]
    ELSE [c EXCEPT !.time = t, !.epoch = @ + 1, !.timeStamp = c.epoch + 1]

-----------------------------------------------------------------------------
(* Lookup *)

(* A local that depends on time is evaluated again when it is older than    *)
(* the time; the edit stamp serves as its evaluation stamp.                *)
Outdated(c, node) == node.dependency = "Varying" /\ node.localStamp < c.timeStamp

(* ensure_local *)
EnsureLocal(scene, c, slot) ==
    LET node    == c.nodes[slot]
        spec    == scene[node.path]
        current == IF Outdated(c, node)
                   THEN [node EXCEPT !.local = NoLocal, !.worldValid = FALSE,
                                     !.localStamp = c.timeStamp]
                   ELSE node
        Held(recipe) == [matrix |-> <<Evaluate(recipe.layout, spec, c.time)>>,
                         resets |-> recipe.resets, held |-> TRUE]
        read    == [layout |-> spec.layout, resets |-> spec.resets]
        depends == IF current.dependency # "Unknown" THEN current.dependency
                   ELSE IF spec.varying THEN "Varying" ELSE "Static"
        filled  == IF current.local.held THEN current
                   ELSE IF current.recipe # NoRecipe
                   THEN [current EXCEPT !.local = Held(current.recipe)]
                   ELSE [current EXCEPT !.local = Held(read), !.dependency = depends,
                                        !.recipe = IF depends = "Varying" THEN read ELSE @]
    IN  [c EXCEPT !.nodes[slot] = filled]

(* parent_slot: only the first walk resolves a namespace parent. *)
ResolveParent(c, slot) ==
    LET node == c.nodes[slot]
    IN  IF node.parent # Unresolved THEN c
        ELSE IF Len(node.path) = 1 THEN [c EXCEPT !.nodes[slot].parent = Root]
        ELSE LET held == EnsureSlot(c, Front(node.path))
             IN  [held EXCEPT !.nodes[slot].parent = held.entries[Front(node.path)]]

\* Mutant: a world found valid is taken without asking when it was validated.
MutantIsValid(c, node) == node.worldValid

IsValid(c, node) == node.validated = c.epoch /\ node.worldValid

(* The walk up stops at a world valid at this epoch, at a reset, or at the  *)
(* root; `chain` is what it passed.                                        *)
Climb(scene, w) ==
    LET node   == w.cache.nodes[w.at]
        local  == EnsureLocal(scene, w.cache, w.at)
        passed == [w EXCEPT !.cache = local, !.chain = Append(@, w.at), !.at = Root]
        linked == ResolveParent(local, w.at)
    IN  IF w.at = Root THEN w
        ELSE IF IsValid(w.cache, node)
        THEN [w EXCEPT !.at = Root, !.above = node.world, !.stamp = node.worldStamp,
                       !.varies = node.worldVaries]
        ELSE IF local.nodes[w.at].local.resets THEN passed
        ELSE [passed EXCEPT !.cache = linked, !.at = linked.nodes[w.at].parent]

WorldStamp(node, above) ==
    IF node.local.resets THEN node.localStamp ELSE Max({node.localStamp, above})

(* The walk down composes the worlds whose stamp is not what is above and   *)
(* the local make it, and validates all.                                   *)
Descend(w, slot) ==
    LET node  == w.cache.nodes[slot]
        stamp == WorldStamp(node, w.stamp)
        world == IF node.worldValid /\ node.worldStamp = stamp THEN node.world
                 ELSE node.local.matrix \o (IF node.local.resets THEN Identity ELSE w.above)
        varies == node.dependency = "Varying" \/ (~node.local.resets /\ w.varies)
    IN  [w EXCEPT !.cache.nodes[slot] =
                      [@ EXCEPT !.worldValid = TRUE, !.worldStamp = stamp, !.world = world,
                                !.worldVaries = varies, !.validated = w.cache.epoch],
                  !.above = world, !.stamp = stamp, !.varies = varies]

WalkUp(scene, c, p) ==
    FoldLeft(LAMBDA w, i : Climb(scene, w),
             [cache |-> c, at |-> c.entries[p], chain |-> <<>>,
              above |-> Identity, stamp |-> 0, varies |-> FALSE],
             Ancestry(p))

WalkDown(w) == FoldLeft(LAMBDA v, slot : Descend(v, slot), w, Reverse(w.chain))

(* local_to_world: the cache it leaves and the matrix. *)
LocalToWorld(scene, c, p) ==
    IF scene[p] = Gone THEN [cache |-> c, matrix |-> Missing]
    ELSE LET w == WalkDown(WalkUp(scene, EnsureSlot(c, p), p))
         IN  [cache |-> w.cache, matrix |-> w.above]

(* What a query's walk up reads: a path, and on to its parent's slot.      *)
ReadUp(c, w) ==
    IF w.at = Root THEN w
    ELSE [paths |-> w.paths \cup {c.nodes[w.at].path},
          at |-> IF c.nodes[w.at].local.resets THEN Root ELSE c.nodes[w.at].parent]

(* world_dependencies: the paths of the slots a world query just walked. *)
WorldDependencies(c, p) ==
    IF p \notin Cached(c) \/ ~c.nodes[c.entries[p]].worldValid THEN {p}
    ELSE FoldLeft(LAMBDA w, i : ReadUp(c, w), [paths |-> {}, at |-> c.entries[p]],
                  Ancestry(p)).paths

WorldMightVary(c, p) == p \in Cached(c) /\ c.nodes[c.entries[p]].worldVaries

-----------------------------------------------------------------------------

(* Every cached path has a node of its own that names it; what is free and  *)
(* what is cached share no slot; and the node of each of the paths given    *)
(* links to the live node of its namespace parent: no link leads into a     *)
(* slot that was retired, or given since to an unrelated prim.             *)
ArenaIsLinked(c, paths) ==
    LET live == {c.entries[p] : p \in Cached(c)}
    IN  /\ \A p, q \in Cached(c) : c.entries[p] = c.entries[q] => p = q
        /\ \A p \in Cached(c) : c.nodes[c.entries[p]].path = p
        /\ live \cap Range(c.free) = {}
        /\ live \cup Range(c.free) = DOMAIN c.nodes
        /\ \A p \in Cached(c) \cap paths :
               LET node == c.nodes[c.entries[p]]
               IN  /\ node.parent # Vacant
                   /\ node.parent = Root => Len(p) = 1
                   /\ node.parent > Root =>
                          /\ Front(p) \in Cached(c)
                          /\ node.parent = c.entries[Front(p)]

=============================================================================
