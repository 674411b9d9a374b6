----------------------------- MODULE SourceSync -----------------------------
(***************************************************************************)
(* A live stage kept in step with a layer it composes, which its host also *)
(* edits, replaces, removes, releases and inserts behind its back          *)
(* (layerstack/src/live_stage.rs and the InMemoryStore of doc.rs).         *)
(*                                                                         *)
(* The stage keeps the generations it last saw, what it is to recompose,   *)
(* and what it composed; it reads the layer only when it recomposes, after *)
(* whatever was edited since the notice.                                   *)
(***************************************************************************)
EXTENDS LayerGenerations

CONSTANTS
    Budgets,
    BoundSublayer,      \* whether a sublayer of the stage's is bound to the layer
    ReplacesRemoved,    \* whether the host inserts another layer for one removed
    MaxGeneration       \* bound on the edits made

ASSUME BudgetsAssumption == /\ Budgets \subseteq [batches : Nat, bytes : Nat]
                            /\ InitialBudget \in Budgets
ASSUME BoundsAssumption == /\ MaxGeneration \in Nat
                           /\ {BoundSublayer, ReplacesRemoved} \subseteq BOOLEAN

VARIABLES
    layer,      \* what the store holds under the id, or None
    released,   \* the generations a released layer reached, or None
    aside,      \* a layer the host holds outside the store, or None
    removed,    \* whether that is the one removed from the store
    stage       \* the live stage

vars == <<layer, released, aside, removed, stage>>

(* A stage that composed all of `l`: record_generations and full_rebuild.  *)
ComposedWhole(l) ==
    [seen |-> Generations(l), opinions |-> {}, specs |-> {},
     rebuild |-> FALSE, restack |-> FALSE, composed |-> Content(l)]

Init ==
    /\ layer = NewLayer([s \in Slots |-> 0], 0)
    /\ released = None /\ aside = None /\ removed = FALSE
    /\ stage = ComposedWhole(layer)

-----------------------------------------------------------------------------
(* The stage's notices and recomposition.                                  *)

Idle(st) == ~st.rebuild /\ st.opinions = {} /\ st.specs = {}

StructuralChange(st) == [st EXCEPT !.rebuild = TRUE, !.restack = FALSE]

LayerStackChange(st) == [st EXCEPT !.rebuild = TRUE, !.restack = Idle(st)]

(* A layer that was there and still is: by its evidence, if it suffices.   *)
HeardChange(st, l) ==
    LET paths == ChangedPaths(l, st.seen.generation)
        opinionsOnly == st.seen.structure = l.structure
    IN  CASE paths # Unknown /\ opinionsOnly -> [st EXCEPT !.opinions = @ \cup paths]
          [] paths # Unknown /\ ~opinionsOnly -> [st EXCEPT !.specs = @ \cup paths]
          [] paths = Unknown /\ opinionsOnly -> [st EXCEPT !.opinions = Paths]
          [] paths = Unknown /\ ~opinionsOnly ->
                IF ChangedLayerStackOnly(l, st.seen.generation)
                THEN LayerStackChange(st) ELSE StructuralChange(st)

(* notify_changed_layers.                                                  *)
Notified(st, l) ==
    LET heard == IF st.seen # None /\ l # None THEN HeardChange(st, l)
                 ELSE IF l # None /\ BoundSublayer THEN LayerStackChange(st)
                 ELSE StructuralChange(st)
    IN  IF st.seen = Generations(l) THEN st
        ELSE [heard EXCEPT !.seen = Generations(l)]

Reading(st, l, slots) ==
    [st EXCEPT !.composed = [s \in Slots |-> IF s \in slots THEN Content(l)[s] ELSE @[s]]]

(* recompose_restacked: a layer that joined is read whole, of one whose    *)
(* sublayers were bound only those.                                        *)
Restacks(st, l) ==
    /\ st.restack /\ st.opinions = {} /\ st.specs = {}
    /\ \/ st.seen \in {Generations(l), None}
       \/ l # None /\ ChangedLayerStackOnly(l, st.seen.generation)

Restacked(st, l) ==
    [Reading(st, l, IF st.composed[Bound] = -1 THEN Slots ELSE {Bound})
        EXCEPT !.seen = Generations(l), !.rebuild = FALSE, !.restack = FALSE]

(* recompose_controls: edits nobody notified call for a full rebuild.      *)
Controls(st, l, paths) ==
    IF st.seen # Generations(l) THEN ComposedWhole(l)
    ELSE [Reading(st, l, Specs(paths)) EXCEPT !.opinions = {}, !.specs = {}]

\* Whether a scoped recomposition finds prims whose specs changed.
Diverges(st, l) == \E p \in st.opinions : st.composed[<<"spec", p>>] # Content(l)[<<"spec", p>>]

(* recompose_pending.                                                      *)
Recomposed(st, l) ==
    IF st.rebuild THEN IF Restacks(st, l) THEN Restacked(st, l) ELSE ComposedWhole(l)
    ELSE IF st.specs # {} THEN
        IF st.opinions # {} THEN ComposedWhole(l) ELSE Controls(st, l, st.specs)
    ELSE IF Diverges(st, l) THEN Controls(st, l, st.opinions)
    ELSE [Reading(st, l, Opinions(st.opinions)) EXCEPT !.opinions = {}]

(* synchronize.                                                            *)
Synchronized(st, l) == Recomposed(Notified(st, l), l)

NotifyChangedLayers ==
    /\ stage' = Notified(stage, layer)
    /\ UNCHANGED <<layer, released, aside, removed>>

RecomposeChanges ==
    /\ stage' = Recomposed(stage, layer)
    /\ UNCHANGED <<layer, released, aside, removed>>

-----------------------------------------------------------------------------
(* Edits.  An edit changes all the slots it is about, or leaves the layer  *)
(* as it was.                                                              *)

MayEdit(l) == l # None /\ l.generation < MaxGeneration

Written(l, slots) ==
    {l.content, [s \in Slots |-> IF s \in slots THEN 1 - l.content[s] ELSE l.content[s]]}

EditOf(l, paths, structural) ==
    {Recorded(l, c, structural, paths, FALSE) :
        c \in Written(l, IF structural THEN Specs(paths) ELSE Opinions(paths))}

(* The stage's own transactions (LiveStage::apply).                        *)

\* An edit of values alone moves the generation once, which the stage knows of.
Saw(st, l) ==
    IF st.seen # None /\ st.seen.generation + 1 = l.generation /\ st.seen.structure = l.structure
    THEN [st EXCEPT !.seen = Generations(l)] ELSE st

AppliedValues(st, p, edited) ==
    LET marked == Saw([st EXCEPT !.opinions = @ \cup {p}, !.restack = FALSE], edited)
    IN  Recomposed(marked, edited)

AppliedStructure(st, l, edited) ==
    LET paths == ChangedPaths(edited, st.seen.generation)
        queued == [st EXCEPT !.specs = @ \cup paths, !.seen = Generations(edited), !.restack = FALSE]
        known == st.seen = Generations(l) /\ st.opinions = {} /\ ~st.rebuild
    IN  IF known /\ paths # Unknown THEN Recomposed(queued, edited)
        ELSE Recomposed(StructuralChange(st), edited)

ApplyValues(p) ==
    /\ MayEdit(layer)
    /\ layer' \in EditOf(layer, {p}, FALSE)
    /\ stage' = AppliedValues(stage, p, layer')
    /\ UNCHANGED <<released, aside, removed>>

ApplyStructure(p) ==
    /\ MayEdit(layer)
    /\ layer' \in EditOf(layer, {p}, TRUE)
    /\ stage' = AppliedStructure(stage, layer, layer')
    /\ UNCHANGED <<released, aside, removed>>

(* The host's edits, which the stage hears of when it looks.               *)

EditBehind(paths) ==
    /\ MayEdit(layer)
    /\ \E structural \in BOOLEAN : layer' \in EditOf(layer, paths, structural)
    /\ UNCHANGED <<released, aside, removed, stage>>

(* touch, and the accessors that hand out a whole container.               *)
Touch ==
    /\ MayEdit(layer)
    /\ \E c \in Written(layer, Slots) : layer' = Recorded(layer, c, TRUE, Unknown, FALSE)
    /\ UNCHANGED <<released, aside, removed, stage>>

BindSublayer ==
    /\ MayEdit(layer)
    /\ \E c \in Written(layer, {Bound}) : layer' = Recorded(layer, c, TRUE, Unknown, TRUE)
    /\ UNCHANGED <<released, aside, removed, stage>>

SetChangeHistoryBudget(budget) ==
    /\ layer # None
    /\ layer' = [layer EXCEPT !.evidence = SetBudget(@, budget)]
    /\ UNCHANGED <<released, aside, removed, stage>>

ForgetChangeHistory ==
    /\ layer # None
    /\ layer' = [layer EXCEPT !.evidence = Clear(@)]
    /\ UNCHANGED <<released, aside, removed, stage>>

-----------------------------------------------------------------------------
(* The store, and the layers the host holds outside it.                    *)

MaySetAside == removed => ReplacesRemoved

(* A layer read from its file again, or built anew.                        *)
BuildLayer ==
    /\ MaySetAside
    /\ \E generation \in {0, 1} : aside' = NewLayer([s \in Slots |-> 1], generation)
    /\ removed' = FALSE
    /\ UNCHANGED <<layer, released, stage>>

CloneLayer ==
    /\ MaySetAside /\ layer # None
    /\ aside' = layer
    /\ removed' = FALSE
    /\ UNCHANGED <<layer, released, stage>>

EditAside(p) ==
    /\ MayEdit(aside)
    /\ aside' \in EditOf(aside, {p}, FALSE)
    /\ UNCHANGED <<layer, released, removed, stage>>

InsertLayer ==
    /\ aside # None
    /\ LET previous == IF layer # None THEN Generations(layer) ELSE released
       IN  layer' = IF previous = None THEN aside ELSE Continued(aside, previous)
    /\ layer'.generation <= MaxGeneration
    /\ released' = IF layer # None THEN released ELSE None
    /\ aside' = None /\ removed' = FALSE
    /\ UNCHANGED stage

RemoveLayer ==
    /\ layer # None
    /\ aside' = layer /\ removed' = TRUE
    /\ layer' = None
    /\ UNCHANGED <<released, stage>>

ReleaseLayers ==
    /\ layer # None
    /\ released' = Generations(layer)
    /\ layer' = None
    /\ UNCHANGED <<aside, removed, stage>>

Next ==
    \/ NotifyChangedLayers
    \/ RecomposeChanges
    \/ \E p \in Paths : ApplyValues(p)
    \/ \E p \in Paths : ApplyStructure(p)
    \/ \E paths \in (SUBSET Paths) \ {{}} : EditBehind(paths)
    \/ Touch
    \/ BindSublayer
    \/ \E budget \in Budgets : SetChangeHistoryBudget(budget)
    \/ ForgetChangeHistory
    \/ BuildLayer
    \/ CloneLayer
    \/ \E p \in Paths : EditAside(p)
    \/ InsertLayer
    \/ RemoveLayer
    \/ ReleaseLayers

Spec == Init /\ [][Next]_vars

-----------------------------------------------------------------------------
(* Properties.                                                             *)

(* The layers are consistent (LayerOK), and the stage is to recompose only *)
(* slots there are.                                                        *)
TypeOK ==
    /\ \A l \in {layer, aside} \ {None} : LayerOK(l)
    /\ removed => aside # None /\ layer = None
    /\ stage.opinions \cup stage.specs \subseteq Paths
    /\ stage.restack => stage.rebuild

(* Whatever was edited, replaced, removed and released since, in whatever  *)
(* order with the stage's own notices, recompositions and transactions,    *)
(* synchronize leaves the stage with what the layer says: no recomposition *)
(* takes as seen what it did not read, and equal generations mean equal    *)
(* content (insert_layer: what a stage cached of the released content is   *)
(* never taken for the new).                                               *)
SynchronizeIsCurrent == Synchronized(stage, layer).composed = Content(layer)
=============================================================================
