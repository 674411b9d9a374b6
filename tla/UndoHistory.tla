---------------------------- MODULE UndoHistory ----------------------------
(***************************************************************************)
(* UndoHistory of layerstack/src/edit/history.rs over one layer: a host    *)
(* applies transactions and records their inverses as steps, groups them,  *)
(* undoes and redoes, and unwinds to marks.  Other tools edit the layer    *)
(* without recording anything.                                             *)
(***************************************************************************)
EXTENDS LayerEdits, FiniteSets

CONSTANTS
    Transactions,   \* what the host applies and records
    Outside,        \* what others apply and nobody records
    Limit,          \* the most steps kept, or None
    MayUnwind,      \* whether the host marks and unwinds
    MaxRecorded, MaxOutside, MaxMarks, MaxResets, MaxDepth   \* bounds

\* Hosts and tools apply edits; inverse steps they get from the history.
ASSUME TransactionsAssumption == Transactions \cup Outside \subseteq Seq(Edits)
ASSUME LimitAssumption == Limit \in Nat \cup {None}
ASSUME BoundsAssumption ==
    /\ {MaxRecorded, MaxOutside, MaxMarks, MaxResets, MaxDepth} \subseteq Nat
    /\ MayUnwind \in BOOLEAN

VARIABLES
    layer,
    undo, redo,     \* the two stacks, the next step last
    group,          \* the inverses recorded in the open group
    levels,         \* how many were recorded before each open level began
    nextId, dropped, epoch,
    refused,        \* why the last operation was refused, or "no"
    marks,          \* the marks the host holds
    recorded, alien,    \* how many transactions were recorded, or not
    left            \* what host and history have left in each slot so far

history == <<undo, redo, group, levels, nextId, dropped, epoch>>
vars == <<layer, history, refused, marks, recorded, alien, left>>

Slots == {"prim", "field"} \X Paths
Content(from, s) == IF s[1] = "prim" THEN Has(from, s[2]) ELSE FieldAt(from, s[2])

Init ==
    /\ layer = EmptyLayer /\ left = [s \in Slots |-> {Content(EmptyLayer, s)}]
    /\ undo = <<>> /\ redo = <<>> /\ group = <<>> /\ levels = <<>>
    /\ nextId = 0 /\ dropped = 0 /\ epoch = 0
    /\ refused = "no"
    /\ marks = {}
    /\ recorded = 0 /\ alien = 0

-----------------------------------------------------------------------------
Open == levels # <<>>

(* Inverses of transactions applied in order, as one: the newest first.    *)
Combine(inverses) == FlattenSeq(Reverse(inverses))

Left(written) ==
    [s \in Slots |-> IF Content(written, s) # Content(layer, s)
                     THEN left[s] \cup {Content(written, s)} ELSE left[s]]

Writes(applied) ==
    /\ layer' = applied.layer
    /\ refused' = applied.refused
    /\ left' = IF applied.refused = "no" THEN Left(applied.layer) ELSE left

Refused(why) == refused' = why /\ UNCHANGED <<layer, left, history>>

\* Mutant: the bound counts the undo steps alone, before the step is there.
MutantPush(transaction) ==
    /\ nextId' = nextId + 1
    /\ LET pushed == Append(undo, [id |-> nextId, txn |-> transaction])
           over == Limit # None /\ Len(undo) > Limit
       IN  /\ undo' = IF over THEN Tail(pushed) ELSE pushed
           /\ dropped' = IF over THEN dropped + 1 ELSE dropped

Push(transaction) ==
    /\ nextId' = nextId + 1
    /\ LET pushed == Append(undo, [id |-> nextId, txn |-> transaction])
           over == Limit # None /\ Len(pushed) + Len(redo') > Limit
       IN  /\ undo' = IF over THEN Tail(pushed) ELSE pushed
           /\ dropped' = IF over THEN dropped + 1 ELSE dropped

\* Mutant: an inverse without edits is a step too.
MutantRecordNothing(inverse) ==
    /\ redo' = <<>>
    /\ UNCHANGED <<levels, epoch>>
    /\ IF Open THEN /\ group' = Append(group, inverse)
                    /\ UNCHANGED <<undo, nextId, dropped>>
       ELSE Push(inverse) /\ UNCHANGED group

\* Mutant: recording leaves what was undone to be redone.
MutantRecord(inverse) ==
    /\ UNCHANGED <<redo, levels, epoch>>
    /\ IF inverse = <<>> THEN UNCHANGED <<undo, group, nextId, dropped>>
       ELSE IF Open THEN /\ group' = Append(group, inverse)
                         /\ UNCHANGED <<undo, nextId, dropped>>
       ELSE Push(inverse) /\ UNCHANGED group

Record(inverse) ==
    /\ redo' = IF inverse = <<>> THEN redo ELSE <<>>
    /\ UNCHANGED <<levels, epoch>>
    /\ IF inverse = <<>> THEN UNCHANGED <<undo, group, nextId, dropped>>
       ELSE IF Open THEN /\ group' = Append(group, inverse)
                         /\ UNCHANGED <<undo, nextId, dropped>>
       ELSE Push(inverse) /\ UNCHANGED group

-----------------------------------------------------------------------------
(* The host applies a transaction and records the receipt's inverse.       *)
Edit(txn) ==
    /\ recorded < MaxRecorded
    /\ recorded' = recorded + 1
    /\ LET applied == Apply(layer, txn)
       IN  /\ Writes(applied)
           /\ IF applied.refused = "no" THEN Record(applied.inverse)
              ELSE UNCHANGED history
    /\ UNCHANGED <<marks, alien>>

(* Another tool's edit, applied without recording.                         *)
OutsideEdit(txn) ==
    /\ alien < MaxOutside
    /\ alien' = alien + 1
    /\ layer' = Apply(layer, txn).layer
    /\ refused' = "no"
    /\ UNCHANGED <<history, marks, recorded, left>>

BeginGroup ==
    /\ Len(levels) < MaxDepth
    /\ levels' = Append(levels, Len(group))
    /\ refused' = "no"
    /\ UNCHANGED <<layer, undo, redo, group, nextId, dropped, epoch,
                   marks, recorded, alien, left>>

(* An inner level flattens into the outer one.                             *)
EndGroup ==
    /\ IF ~Open THEN Refused("no_group")
       ELSE /\ refused' = "no"
            /\ levels' = Front(levels)
            /\ IF Len(levels) > 1 THEN UNCHANGED <<undo, redo, group, nextId, dropped>>
               ELSE /\ group' = <<>>
                    /\ UNCHANGED redo
                    /\ IF group = <<>> THEN UNCHANGED <<undo, nextId, dropped>>
                       ELSE Push(Combine(group))
            /\ UNCHANGED <<layer, epoch, left>>
    /\ UNCHANGED <<marks, recorded, alien>>

AbandonGroup ==
    /\ IF ~Open THEN Refused("no_group")
       ELSE LET start == Last(levels)
                inner == SubSeq(group, start + 1, Len(group))
                applied == Apply(layer, Combine(inner))
            IN  /\ Writes(applied)
                /\ IF applied.refused # "no" THEN UNCHANGED <<group, levels>>
                   ELSE /\ group' = SubSeq(group, 1, start)
                        /\ levels' = Front(levels)
                /\ UNCHANGED <<undo, redo, nextId, dropped, epoch>>
    /\ UNCHANGED <<marks, recorded, alien>>

\* Mutant: the redo step keeps the transaction that undoes.
MutantTurned(step, inverse) == step

Turned(step, inverse) == [step EXCEPT !.txn = inverse]

Undo ==
    /\ IF Open THEN Refused("group_open")
       ELSE IF undo = <<>> THEN Refused("empty")
       ELSE LET applied == Apply(layer, Last(undo).txn)
            IN  /\ Writes(applied)
                /\ IF applied.refused # "no" THEN UNCHANGED <<undo, redo>>
                   ELSE /\ undo' = Front(undo)
                        /\ redo' = Append(redo, Turned(Last(undo), applied.inverse))
                /\ UNCHANGED <<group, levels, nextId, dropped, epoch>>
    /\ UNCHANGED <<marks, recorded, alien>>

Redo ==
    /\ IF Open THEN Refused("group_open")
       ELSE IF redo = <<>> THEN Refused("empty")
       ELSE LET applied == Apply(layer, Last(redo).txn)
            IN  /\ Writes(applied)
                /\ IF applied.refused # "no" THEN UNCHANGED <<undo, redo>>
                   ELSE /\ redo' = Front(redo)
                        /\ undo' = Append(undo, Turned(Last(redo), applied.inverse))
                /\ UNCHANGED <<group, levels, nextId, dropped, epoch>>
    /\ UNCHANGED <<marks, recorded, alien>>

Reset ==
    /\ epoch < MaxResets
    /\ epoch' = epoch + 1
    /\ undo' = <<>> /\ redo' = <<>> /\ group' = <<>> /\ levels' = <<>>
    /\ refused' = "no"
    /\ UNCHANGED <<layer, nextId, dropped, marks, recorded, alien, left>>

-----------------------------------------------------------------------------
(* Marks.  The code's mark is its epoch, top and dropped; with it goes     *)
(* what the host may expect of it: the layer without what an open group    *)
(* recorded, which lies above the mark (None where abandoning that group   *)
(* would be refused), the steps it stands on, and the edits others had     *)
(* made.                                                                   *)

Ids(steps) == [i \in DOMAIN steps |-> steps[i].id]
Top(steps) == IF steps = <<>> THEN None ELSE Last(steps).id

TakeMark ==
    /\ MayUnwind /\ Cardinality(marks) < MaxMarks
    /\ LET before == Apply(layer, Combine(group))
       IN  marks' = marks \cup
            {[epoch |-> epoch, top |-> Top(undo), dropped |-> dropped,
              layer |-> IF before.refused = "no" THEN before.layer ELSE None,
              ids |-> Ids(undo), alien |-> alien]}
    /\ refused' = "no"
    /\ UNCHANGED <<layer, history, recorded, alien, left>>

\* Mutant: steps the bound dropped since are not missed.
MutantGone(mark) ==
    \/ mark.epoch # epoch
    \/ mark.top # None /\ mark.top \notin {undo[i].id : i \in DOMAIN undo}

Gone(mark) ==
    \/ mark.epoch # epoch
    \/ mark.top # None /\ mark.top \notin {undo[i].id : i \in DOMAIN undo}
    \/ mark.top = None /\ mark.dropped # dropped

Kept(mark) ==
    IF mark.top = None THEN 0
    ELSE Max({i \in DOMAIN undo : undo[i].id = mark.top})

UnwindTo(mark) ==
    /\ MayUnwind
    /\ IF Open THEN Refused("group_open")
       ELSE IF Gone(mark) THEN Refused("mark_gone")
       ELSE LET above == SubSeq(undo, Kept(mark) + 1, Len(undo))
                applied == Apply(layer, Combine([i \in DOMAIN above |-> above[i].txn]))
            IN  /\ Writes(applied)
                /\ undo' = IF applied.refused = "no"
                           THEN SubSeq(undo, 1, Kept(mark)) ELSE undo
                /\ UNCHANGED <<redo, group, levels, nextId, dropped, epoch>>
    /\ UNCHANGED <<marks, recorded, alien>>

Unwind == \E mark \in marks : UnwindTo(mark)

Next ==
    \/ \E txn \in Transactions : Edit(txn)
    \/ \E txn \in Outside : OutsideEdit(txn)
    \/ BeginGroup
    \/ EndGroup
    \/ AbandonGroup
    \/ Undo
    \/ Redo
    \/ Reset
    \/ TakeMark
    \/ Unwind

Spec == Init /\ [][Next]_vars
-----------------------------------------------------------------------------
(* Properties.                                                             *)

(* The stacks hold inverse transactions, and the levels of the open group  *)
(* begin in order within what the group recorded.                          *)
TypeOK ==
    /\ IsLayer(layer)
    /\ \A i \in DOMAIN undo : undo[i].id < nextId /\ undo[i].txn # <<>>
    /\ \A i \in DOMAIN redo : redo[i].id < nextId /\ redo[i].txn # <<>>
    /\ \A i \in DOMAIN levels : levels[i] <= Len(group)
    /\ \A i \in 1 .. Len(levels) - 1 : levels[i] <= levels[i + 1]
    /\ Open \/ group = <<>>
    /\ dropped <= nextId /\ nextId <= recorded
    /\ refused \in {"no", "stale", "rejected", "empty", "group_open",
                    "no_group", "mark_gone"}

(* The specs of a layer form a tree, whoever edits it and whatever is      *)
(* undone over it: every spec but the pseudo-root is listed once by the    *)
(* spec above it, and every name listed has its spec.  (The invariant      *)
(* add_child, remove_subtree and their inverse steps keep between them.)   *)
TreeIntact ==
    \A p \in DOMAIN layer :
        /\ p # <<>> => Lists(layer, Front(p), Last(p))
        /\ IsInjective(layer[p].children)
        /\ \A i \in DOMAIN layer[p].children :
                Has(layer, Append(p, layer[p].children[i]))

(* The two stacks together never hold more steps than the limit            *)
(* (UndoHistory::with_limit).                                              *)
BoundKept == Limit # None => Len(undo) + Len(redo) <= Limit

(* Steps lie on the stacks in the order they were recorded, each on one of *)
(* them only, so a mark's top names at most one place.                     *)
StepsAreUnique ==
    LET ids == Ids(undo) \o Reverse(Ids(redo))
    IN  \A i, j \in DOMAIN ids : i < j => ids[i] < ids[j]

(* A refused operation leaves the history as it was, and of the layer      *)
(* every spec, its field and the names of its children, however far its    *)
(* transaction had come (Journal::roll_back).                              *)
RefusalKeepsContent ==
    [][(refused' # "no") => SameButOrder(layer, layer') /\ UNCHANGED history]_vars

(* What the documentation says: a transaction that fails leaves every      *)
(* layer exactly as it was (Transaction, HistoryError).                    *)
RefusalChangesNothing ==
    [][(refused' # "no") => UNCHANGED <<layer, history>>]_vars

(* Undoing, redoing, abandoning and unwinding overwrite nothing that only  *)
(* an outside edit can have put there: content neither a recorded          *)
(* transaction nor the history ever left in a slot stays (Guarded).        *)
OutsideEditsSurvive ==
    [][recorded' = recorded /\ alien' = alien =>
        \A s \in Slots : Content(layer', s) # Content(layer, s)
            => Content(layer, s) \in left[s]]_vars

(* A step is stale only because of an edit the history did not record      *)
(* (HistoryError::Stale).                                                  *)
StaleMeansOutsideEdit == refused = "stale" => alien > 0

\* The steps left are those the mark was taken on, dropped ones aside.
StandsOn(mark) ==
    Ids(undo') = SubSeq(mark.ids, 1 + dropped - mark.dropped, Len(mark.ids))

(* Unwinding to a mark, over every step recorded, undone, redone, grouped  *)
(* or dropped since, brings back the layer it was taken on, but for the    *)
(* order a refusal may have left, when the steps it was taken on are there *)
(* and nobody else edited (unwind_to).                                     *)
UnwindReachesMark ==
    [][\A mark \in marks :
        /\ refused' = "no" /\ alien = mark.alien /\ mark.layer # None
        /\ StandsOn(mark) /\ UnwindTo(mark)
        => SameButOrder(layer', mark.layer)]_vars
=============================================================================
