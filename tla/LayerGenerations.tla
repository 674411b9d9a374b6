-------------------------- MODULE LayerGenerations --------------------------
(***************************************************************************)
(* A layer's generations and the evidence of its edits it retains for the  *)
(* stages that compose it (layerstack/src/doc.rs, Layer).                  *)
(*                                                                         *)
(* A layer's content is a value per slot: of each prim path, its opinions  *)
(* and its spec (its existence, arcs and children), and the layers its     *)
(* sublayers are bound to.                                                 *)
(***************************************************************************)
EXTENDS ChangeHistory

CONSTANTS Paths, InitialBudget

ASSUME PathsAssumption == "unknown" \notin Paths

Opinions(paths) == {"opinions"} \X paths
Specs(paths) == {"opinions", "spec"} \X paths
Bound == <<"bound">>
Slots == Specs(Paths) \cup {Bound}

None == [generation |-> -1, structure |-> -1]
Unknown == {"unknown"}      \* evidence that names no paths

NewLayer(content, generation) ==
    [content |-> content, generation |-> generation, structure |-> generation,
     evidence |-> [EmptyHistory(InitialBudget) EXCEPT !.floor = generation]]

Generations(l) == [generation |-> l.generation, structure |-> l.structure]
Content(l) == IF l = None THEN [s \in Slots |-> -1] ELSE l.content

(* record_scoped_change and record_layer_stack_change, with the edit.      *)
Recorded(l, content, structural, paths, layerStack) ==
    [l EXCEPT !.content = content,
              !.generation = @ + 1,
              !.structure = IF structural THEN @ + 1 ELSE @,
              !.evidence = Record(@, [rev |-> l.generation + 1, bytes |-> 1,
                                      paths |-> paths, layerStack |-> layerStack])]

\* Mutant: the layer inserted keeps the evidence it brings.
MutantContinued(l, previous) ==
    [l EXCEPT !.generation = Larger(@, previous.generation) + 1,
              !.structure = Larger(@, previous.structure) + 1]

(* insert_layer over a layer, or for one released: past both generations.  *)
Continued(l, previous) ==
    [l EXCEPT !.generation = Larger(@, previous.generation) + 1,
              !.structure = Larger(@, previous.structure) + 1,
              !.evidence = Clear(@)]

Since(l, generation) == {e \in Range(l.evidence.entries) : e.rev > generation}

\* Mutant: the batch right after what the reader saw may be missing.
MutantReachesBack(l, generation) ==
    l.evidence.entries # <<>> /\ l.evidence.entries[1].rev <= generation + 2

ReachesBack(l, generation) ==
    l.evidence.entries # <<>> /\ l.evidence.entries[1].rev <= generation + 1

(* The scopes and the supports of the changes since `generation`.          *)
ChangedPaths(l, generation) ==
    IF generation = l.generation THEN {}
    ELSE IF generation > l.generation \/ ~ReachesBack(l, generation) THEN Unknown
    ELSE LET paths == {e.paths : e \in Since(l, generation)}
         IN  IF Unknown \in paths THEN Unknown ELSE UNION paths

ChangedLayerStackOnly(l, generation) ==
    /\ generation < l.generation
    /\ ReachesBack(l, generation)
    /\ \A e \in Since(l, generation) : e.layerStack

(* What a layer holds is consistent: its evidence is its last batches,     *)
(* with none missing between them, so that a reader that finds the first   *)
(* batch it needs has them all.                                            *)
LayerOK(l) ==
    /\ l.content \in [Slots -> {0, 1}]
    /\ 0 <= l.structure /\ l.structure <= l.generation
    /\ \A i \in DOMAIN l.evidence.entries :
        l.evidence.entries[i].rev = l.generation - Len(l.evidence.entries) + i
=============================================================================
