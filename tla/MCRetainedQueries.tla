------------------------- MODULE MCRetainedQueries -------------------------
EXTENDS RetainedQueries

A == <<"A">>
B == <<"A", "B">>
D == <<"D">>

MCPrims == {A, B, D}

Still == [layout |-> "one", value |-> 1, varying |-> FALSE, resets |-> FALSE, active |-> TRUE]
Moving(layout) == [Still EXCEPT !.layout = layout, !.varying = TRUE]
Resetting == [Still EXCEPT !.resets = TRUE]
Inactive(spec) == [spec EXCEPT !.active = FALSE]

MCSpecs ==
    A :> {Moving("one"), Moving("two"), Inactive(Moving("two"))}
    @@ B :> {Still, Resetting, Inactive(Still)} @@ D :> {Still}

MCTimes == {0, 1}
MCScene == A :> Moving("one") @@ B :> Still @@ D :> Gone
MCBudget == [batches |-> 1, bytes |-> 4]

Unread == SelectSeq(reports.entries, LAMBDA e : e.rev > cursor)

(* What a consumed report says is not read again, and which of two handles  *)
(* has which query makes no difference.                                    *)
Relevant ==
    <<scene, revision, time, timeEpoch, cache, cursor, nextId,
      {<<held[h], Cardinality({g \in DOMAIN held : held[g] = held[h]})>> : h \in DOMAIN held},
      Unread, reports.floor, Len(reports.entries)>>
=============================================================================
