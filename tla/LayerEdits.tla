----------------------------- MODULE LayerEdits -----------------------------
(***************************************************************************)
(* Transactions of layerstack/src/edit: a transaction is a sequence of     *)
(* edits, each edit runs storage steps, every step that ran leaves the     *)
(* step undoing it in a journal.  A rejected edit replays the journal      *)
(* backwards; an accepted transaction returns it reversed, as its inverse, *)
(* whose steps are guarded by what the undone step wrote.                  *)
(*                                                                         *)
(* A path is the tuple of names from the pseudo-root <<>>.  A layer maps   *)
(* the paths holding a spec to it: its child names in order and one field, *)
(* standing for every field, property and value slot of a spec.            *)
(***************************************************************************)
EXTENDS Integers, Sequences, SequencesExt, FiniteSets

CONSTANTS Paths, Values, None

Names == {Last(p) : p \in Paths \ {<<>>}}
Specs == [children : Seq(Names), field : Values \cup {None}]

\* Paths are tuples of names, the way to each of them among them.
ASSUME PathsAssumption ==
    /\ <<>> \in Paths /\ Paths \subseteq Seq(Names)
    /\ \A p \in Paths \ {<<>>} : Front(p) \in Paths
\* None is no value, no spec and no position.
ASSUME NoneAssumption == None \notin Values \cup Specs \cup Nat

IsLayer(layer) ==
    /\ DOMAIN layer \subseteq Paths
    /\ \A p \in DOMAIN layer : layer[p] \in Specs
EmptyLayer == <<>>

Has(layer, p) == p \in DOMAIN layer
SpecAt(layer, p) == IF Has(layer, p) THEN layer[p] ELSE None
FieldAt(layer, p) == IF Has(layer, p) THEN layer[p].field ELSE None
ChildrenAt(layer, p) == IF Has(layer, p) THEN layer[p].children ELSE <<>>
Lists(layer, p, name) == Contains(ChildrenAt(layer, p), name)

Put(layer, p, spec) ==
    IF spec = None THEN [q \in DOMAIN layer \ {p} |-> layer[q]]
                   ELSE [q \in DOMAIN layer \cup {p} |->
                            IF q = p THEN spec ELSE layer[q]]

-----------------------------------------------------------------------------
(* Storage steps.  `to` is what the step leaves in its slot: a spec, the   *)
(* position of a child name, a field's value, or None to remove it.        *)

PrimSlots(p, spec) == [slot |-> "prim", at |-> p, name |-> None, to |-> spec]
Child(p, name, position) ==
    [slot |-> "child", at |-> p, name |-> name, to |-> position]
Field(p, value) == [slot |-> "field", at |-> p, name |-> None, to |-> value]

(* What a list entry holds is that it is listed, at whatever position.     *)
SameState(a, b) ==
    /\ <<a.slot, a.at, a.name>> = <<b.slot, b.at, b.name>>
    /\ IF a.slot = "child" THEN (a.to = None) = (b.to = None) ELSE a.to = b.to

\* What the slot of `step` holds, which a step undoing `step` restores.
Held(layer, step) ==
    CASE step.slot = "prim" -> SpecAt(layer, step.at)
      [] step.slot = "field" -> FieldAt(layer, step.at)
      [] step.slot = "child" ->
            IF step.to # None THEN None
            ELSE SelectInSeq(layer[step.at].children, LAMBDA name : name = step.name)

\* A missing holder, or nothing to remove where something was.
Diverged(layer, step) ==
    \/ step.slot # "prim" /\ ~Has(layer, step.at)
    \/ step.slot = "child" /\ step.to = None
        /\ ~Lists(layer, step.at, step.name)
    \/ step.slot = "field" /\ step.to = None /\ FieldAt(layer, step.at) = None

Listed(children, step) ==
    IF step.to = None THEN RemoveFirst(children, step.name)
    ELSE InsertAt(children, Min({step.to, Len(children) + 1}), step.name)

Written(layer, step) ==
    CASE step.slot = "prim" -> Put(layer, step.at, step.to)
      [] step.slot = "field" -> [layer EXCEPT ![step.at].field = step.to]
      [] step.slot = "child" ->
            [layer EXCEPT ![step.at].children = Listed(@, step)]

-----------------------------------------------------------------------------
(* A journal: the layer so far, the steps undoing what ran, and why the    *)
(* transaction is refused, if it is.                                       *)

Opened(layer) == [layer |-> layer, steps |-> <<>>, refused |-> "no"]
Refuse(j, why) == [j EXCEPT !.refused = why]

RunStep(j, step) ==
    IF j.refused # "no" THEN j
    ELSE IF Diverged(j.layer, step) THEN Refuse(j, "stale")
    ELSE [j EXCEPT
            !.layer = Written(@, step),
            !.steps = Append(@, [step |-> [step EXCEPT !.to = Held(j.layer, step)],
                                 written |-> step])]

(* Op(value), and FoldLeft, with every intermediate result a value: TLC    *)
(* would otherwise compute an argument again for each of its uses.         *)
With(Op(_), value) == CHOOSE r \in {Op(x) : x \in {value}} : TRUE

Through(Op(_, _), from, items) ==
    LET at[i \in 0 .. Len(items)] ==
            IF i = 0 THEN from
            ELSE LET Step(x) == Op(x, items[i]) IN With(Step, at[i - 1])
    IN  at[Len(items)]

Run(j, steps) == Through(RunStep, j, steps)

\* Mutant: an inverse step asks nothing of what it overwrites.
MutantRunGuarded(j, guarded) == RunStep(j, guarded.step)

(* The step runs first and is judged by what it displaced.                 *)
RunGuarded(j, guarded) ==
    LET Judge(ran) ==
            IF ran.refused = "no" /\ ~SameState(Last(ran.steps).step, guarded.written)
            THEN Refuse(ran, "stale") ELSE ran
    IN  With(Judge, RunStep(j, guarded.step))

\* Mutant: the journal is replayed in the order it was written.
MutantRollBack(j) ==
    LET Restore(layer, guarded) == Written(layer, guarded.step)
    IN  Through(Restore, j.layer, j.steps)

RollBack(j) ==
    LET Restore(layer, guarded) == Written(layer, guarded.step)
    IN  Through(Restore, j.layer, Reverse(j.steps))

-----------------------------------------------------------------------------
(* Edits.                                                                  *)

(* What a transaction may ask for.  An edit of the pseudo-root is rejected *)
(* before anything else is looked at, and is left out.                     *)
Edits ==
    [edit : {"create", "remove", "clear"}, at : Paths \ {<<>>}]
        \cup [edit : {"set"}, at : Paths \ {<<>>}, value : Values]

AddChild(j, p) ==
    IF j.refused # "no" \/ Lists(j.layer, Front(p), Last(p)) THEN j
    ELSE RunStep(j, Child(Front(p), Last(p),
                          Len(ChildrenAt(j.layer, Front(p))) + 1))

InsertSpec(j, p) ==
    LET stored == RunStep(j, PrimSlots(p, [children |-> <<>>, field |-> None]))
    IN  IF p = <<>> THEN stored ELSE AddChild(stored, p)

\* The specs missing on the way to p, p included, outermost first.
Missing(layer, p) ==
    LET way == [i \in 1 .. Len(p) + 1 |-> SubSeq(p, 1, i - 1)]
        held == {i \in DOMAIN way : Has(layer, way[i])}
    IN  SubSeq(way, IF held = {} THEN 1 ELSE Max(held) + 1, Len(way))

Ensure(j, p) == Through(InsertSpec, j, Missing(j.layer, p))

CreatePrim(j, p) ==
    IF Has(j.layer, p) THEN Refuse(j, "rejected")
    ELSE InsertSpec(Ensure(j, Front(p)), p)

\* Mutant: the specs beneath the removed one stay.
MutantRemoveSpec(j, p) ==
    IF ~Has(j.layer, p) THEN j
    ELSE Run(j, <<PrimSlots(p, None)>>
                \o IF Lists(j.layer, Front(p), Last(p))
                   THEN <<Child(Front(p), Last(p), None)>> ELSE <<>>)

RemoveSpec(j, p) ==
    IF ~Has(j.layer, p) THEN j
    ELSE LET beneath == SetToSeq({q \in DOMAIN j.layer : IsPrefix(p, q)})
         IN  Run(j, [i \in DOMAIN beneath |-> PrimSlots(beneath[i], None)]
                    \o IF Lists(j.layer, Front(p), Last(p))
                       THEN <<Child(Front(p), Last(p), None)>> ELSE <<>>)

SetMetadata(j, p, value) == RunStep(Ensure(j, p), Field(p, value))
ClearMetadata(j, p) ==
    IF FieldAt(j.layer, p) = None THEN j ELSE RunStep(j, Field(p, None))

ApplyOp(j, op) ==
    IF j.refused # "no" THEN j
    ELSE CASE op.edit = "create" -> CreatePrim(j, op.at)
           [] op.edit = "remove" -> RemoveSpec(j, op.at)
           [] op.edit = "set" -> SetMetadata(j, op.at, op.value)
           [] op.edit = "clear" -> ClearMetadata(j, op.at)
           [] op.edit = "raw" -> RunGuarded(j, op.guarded)

Raw(guarded) == [edit |-> "raw", guarded |-> guarded]

(* Applies a transaction: all of it, with its inverse, or none of it.      *)
Settle(j) ==
    [refused |-> j.refused,
     layer |-> IF j.refused = "no" THEN j.layer ELSE RollBack(j),
     inverse |-> Reverse([i \in DOMAIN j.steps |-> Raw(j.steps[i])])]

Apply(layer, txn) == With(Settle, Through(ApplyOp, Opened(layer), txn))

-----------------------------------------------------------------------------
(* How often a name is listed; layers that differ in the order of child    *)
(* names at most.                                                          *)
Times(names, name) == Cardinality({i \in DOMAIN names : names[i] = name})

SameButOrder(one, other) ==
    /\ DOMAIN one = DOMAIN other
    /\ \A p \in DOMAIN one :
        /\ one[p].field = other[p].field
        /\ \A name \in Names :
                Times(one[p].children, name) = Times(other[p].children, name)
=============================================================================
