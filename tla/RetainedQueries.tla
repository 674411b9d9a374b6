-------------------------- MODULE RetainedQueries --------------------------
(***************************************************************************)
(* Retained queries over a live stage: RetainedQueries of                  *)
(* layerstack_schemas/src/retained.rs, for its world transform queries.    *)
(*                                                                         *)
(* A host edits the stage, which publishes a report of each change to a    *)
(* bounded history (ChangeHistory).  An observer holds queries; a view     *)
(* consumes the reports published since the observer's cursor, against     *)
(* the scene as it is then and not as it was at each report, and marks the *)
(* queries they may concern.  A poll then answers from what the query      *)
(* holds, or computes with the transform cache.                            *)
(***************************************************************************)
EXTENDS TransformCache, ChangeHistory

CONSTANTS
    InitialScene,
    InitialTime,
    Budget,         \* the stage's report retention budget
    MaxCauses,      \* the causes a query keeps (8 in the code)
    PollsInactive,  \* whether the host polls queries of inactive prims
    MaxQueries,     \* bound on the handles issued
    MaxChanges      \* bound on the edits and changes of time together

ASSUME HostAssumption ==
    /\ IsScene(InitialScene)
    /\ InitialTime \in Times /\ Times \subseteq Nat
    /\ Budget \in [batches : Nat, bytes : Nat]
    /\ {MaxCauses, MaxQueries, MaxChanges} \subseteq Nat /\ MaxCauses > 0
    /\ PollsInactive \in BOOLEAN

VARIABLES
    scene, revision, reports,   \* the live stage and its journal
    time, timeEpoch,            \* the observer: the time and its changes,
    cache,                      \* the transform cache of its bounds cache,
    cursor,                     \* the revision consumed, or NoCursor,
    held, nextId                \* its queries, by handle, and the next handle

vars == <<scene, revision, reports, time, timeEpoch, cache, cursor, held, nextId>>

NoCursor == -1
NoAnswer == <<<<"unanswered", 0, Always>>>>

Cause(kind, path) == [kind |-> kind, path |-> path]
Initial == Cause("Initial", <<>>)
HistoryLost == Cause("HistoryLost", <<>>)
TimeChange == Cause("Time", <<>>)

Init ==
    /\ scene = InitialScene
    /\ revision = 0
    /\ reports = EmptyHistory(Budget)
    /\ time = InitialTime
    /\ timeEpoch = 0
    /\ cache = NewCache(InitialTime)
    /\ cursor = NoCursor
    /\ held = <<>>
    /\ nextId = 0

-----------------------------------------------------------------------------
(* The stage *)

(* What a report says of a change from one scene to another: the roots of   *)
(* what it resynced, what it removed, and the prims outside them whose      *)
(* transform properties it changed.                                        *)
Report(old, new, roots) ==
    LET beneath == {p \in Prims : \E r \in roots : IsPrefix(r, p)}
    IN  [rev |-> revision + 1, bytes |-> 1, resynced |-> roots,
         removed |-> Present(old) \ Present(new),
         properties |-> {p \in Prims \ beneath : old[p] # new[p]}]

MayChange == revision + timeEpoch < MaxChanges

(* LiveStage::apply, or the synchronization with an edited source.  Reports *)
(* are retained once there is a cursor.  A report of several changes is     *)
(* consumed change by change, as several reports read together are.         *)
Publish(new, roots) ==
    /\ MayChange
    /\ scene' = new
    /\ revision' = revision + 1
    /\ reports' = IF cursor = NoCursor THEN reports
                  ELSE Record(reports, Report(scene, new, roots))
    /\ UNCHANGED <<time, timeEpoch, cache, cursor, held, nextId>>

(* An edit of a prim's transform properties. *)
EditTransform(p) ==
    /\ scene[p] # Gone
    /\ \E spec \in {s \in Specs[p] \ {scene[p]} : s.active = scene[p].active} :
           Publish([scene EXCEPT ![p] = spec], {})

(* Anything may have changed under a resynced root: transforms, what prims *)
(* there are, and which are active.  What was beneath a prim that became   *)
(* inactive is among the removed.                                          *)
Resync(root) ==
    /\ MayChange
    /\ \E below \in [Below(root, Prims) -> UNION {Specs[p] : p \in Prims} \cup {Gone}] :
           LET new == [p \in Prims |-> IF p \in DOMAIN below THEN below[p] ELSE scene[p]]
           IN  new # scene /\ IsScene(new) /\ Publish(new, {root})

-----------------------------------------------------------------------------
(* The observer *)

\* Mutant: every mark starts the causes anew.
MutantMark(q, cause) ==
    [q EXCEPT !.dirty = TRUE, !.topologyDirty = @ \/ cause # TimeChange,
              !.causes = {cause}, !.omitted = 0]

(* Held::mark.  Causes are kept from the first mark after a poll, as many   *)
(* as the budget allows.                                                   *)
Mark(q, cause) ==
    LET causes  == IF q.dirty THEN q.causes ELSE {}
        omitted == IF q.dirty THEN q.omitted ELSE 0
        known   == cause \in causes
        room    == Cardinality(causes) < MaxCauses
    IN  [q EXCEPT !.dirty = TRUE,
                  !.topologyDirty = @ \/ cause # TimeChange,
                  !.causes = IF room THEN causes \cup {cause} ELSE causes,
                  !.omitted = IF known \/ room THEN omitted ELSE omitted + 1]

MarkAll(q, causes) == FoldSet(LAMBDA c, marked : Mark(marked, c), q, causes)

(* structural_overlap and property_overlap: a transform query is concerned  *)
(* by a resync at or above a path it read, and by a transform property of   *)
(* one.                                                                    *)
Concerning(q, report) ==
    {Cause("Resync", r) : r \in {s \in report.resynced : \E p \in q.recipe : IsPrefix(s, p)}}
        \cup {Cause("Property", p) : p \in q.recipe \cap report.properties}

(* consume, of the reports since the cursor *)
Consumed(state, report) ==
    IF report.rev <= cursor THEN state
    ELSE [cache |-> ApplyChanges(scene, state.cache, report),
          held |-> [h \in DOMAIN state.held |->
                       MarkAll(state.held[h], Concerning(state.held[h], report))]]

ConsumedAll ==
    FoldLeft(LAMBDA state, report : Consumed(state, report),
             [cache |-> cache, held |-> held], reports.entries)

(* view and sync_reports.  The first one takes the cursor, which reads      *)
(* nothing.  When reports were lost nothing held can be trusted.            *)
View ==
    /\ cursor' = revision
    /\ IF cursor = NoCursor THEN UNCHANGED <<cache, held>>
       ELSE IF cursor < reports.floor
       THEN /\ cache' = NewCache(time)
            /\ held' = [h \in DOMAIN held |-> Mark(held[h], HistoryLost)]
       ELSE cache' = ConsumedAll.cache /\ held' = ConsumedAll.held
    /\ UNCHANGED <<scene, revision, reports, time, timeEpoch, nextId>>

NewQuery(p) ==
    [path |-> p, recipe |-> {p}, answer |-> NoAnswer, dirty |-> TRUE,
     topologyDirty |-> TRUE, varying |-> TRUE, timeEpoch |-> timeEpoch,
     causes |-> {Initial}, omitted |-> 0]

(* A handle is never issued again. *)
Observe ==
    /\ nextId < MaxQueries
    /\ \E p \in Prims :
           held' = [h \in DOMAIN held \cup {nextId} |->
                       IF h = nextId THEN NewQuery(p) ELSE held[h]]
    /\ nextId' = nextId + 1
    /\ UNCHANGED <<scene, revision, reports, time, timeEpoch, cache, cursor>>

RemoveQuery(h) ==
    /\ held' = [other \in DOMAIN held \ {h} |-> held[other]]
    /\ UNCHANGED <<scene, revision, reports, time, timeEpoch, cache, cursor, nextId>>

(* set_time touches no query: each finds out at its next poll. *)
ChangeTime ==
    /\ MayChange
    /\ \E t \in Times \ {time} : time' = t /\ cache' = SetTime(cache, t)
    /\ timeEpoch' = timeEpoch + 1
    /\ UNCHANGED <<scene, revision, reports, cursor, held, nextId>>

(* A query whose answer cannot vary keeps it when the time has changed. *)
Timed(q) ==
    [IF q.timeEpoch # timeEpoch /\ q.varying THEN Mark(q, TimeChange) ELSE q
        EXCEPT !.timeEpoch = timeEpoch]

(* evaluate, and evaluate_time: a change of time alone leaves what the      *)
(* answer depends on as it was.                                            *)
Evaluated(q, c) ==
    IF q.topologyDirty
    THEN [recipe |-> WorldDependencies(c, q.path), varying |-> WorldMightVary(c, q.path)]
    ELSE [recipe |-> q.recipe, varying |-> q.varying]

(* poll: the query and the cache it leaves, and what it reports. *)
Polled(h) ==
    LET q      == Timed(held[h])
        looked == LocalToWorld(scene, cache, q.path)
        now    == Evaluated(q, looked.cache)
    IN  IF q.dirty
        THEN [query |-> [q EXCEPT !.answer = looked.matrix, !.recipe = now.recipe,
                                  !.varying = now.varying, !.dirty = FALSE,
                                  !.topologyDirty = FALSE],
              cache |-> looked.cache, causes |-> q.causes, omitted |-> q.omitted]
        ELSE [query |-> q, cache |-> cache, causes |-> {}, omitted |-> 0]

(* A view borrows the scene, so nothing is published while it is polled. *)
Synchronized == cursor = revision

(* A poll of an inactive prim's query is up to the host. *)
MayPoll(p) == p \in Active(scene) \/ scene[p] = Gone \/ PollsInactive

Poll(h) ==
    /\ Synchronized /\ MayPoll(held[h].path)
    /\ LET polled == Polled(h)
       IN  held' = [held EXCEPT ![h] = polled.query] /\ cache' = polled.cache
    /\ UNCHANGED <<scene, revision, reports, time, timeEpoch, cursor, nextId>>

Next ==
    \/ \E p \in Prims : EditTransform(p) \/ Resync(p)
    \/ View
    \/ ChangeTime
    \/ Observe
    \/ \E h \in DOMAIN held : RemoveQuery(h) \/ Poll(h)

Spec == Init /\ [][Next]_vars

-----------------------------------------------------------------------------

(* A poll answers what evaluating the query anew, with no cache, in the     *)
(* scene and at the time it is polled in, would: neither an answer held     *)
(* over edits, lost reports and changes of time, nor a world, a local or a  *)
(* recipe the cache held over them, is out of date.                        *)
AnswersAreCurrent ==
    Synchronized => \A h \in DOMAIN held : MayPoll(held[h].path) =>
        Polled(h).query.answer = WorldTransform(scene, time, held[h].path)

(* The answer without the times it was evaluated at. *)
Untimed(answer) ==
    [i \in DOMAIN answer |-> <<answer[i][1], answer[i][2], answer[i][3] = Always>>]

(* What a poll reports accounts for the answer it changed: a cause other    *)
(* than time when something beside the time made the difference, the time   *)
(* otherwise, unless causes were left out for want of room.                *)
Explains(poll, new, old) ==
    \/ new = old
    \/ Untimed(new) # Untimed(old) /\ \E c \in poll.causes : c # TimeChange
    \/ Untimed(new) = Untimed(old) /\ (TimeChange \in poll.causes \/ poll.omitted > 0)

(* A poll whose answer differs from the last says why (Explains).           *)
ChangesAreExplained ==
    Synchronized => \A h \in DOMAIN held :
        MayPoll(held[h].path) /\ held[h].answer # NoAnswer =>
        \A poll \in {Polled(h)} : Explains(poll, poll.query.answer, held[h].answer)

(* The cache's arena is linked as its walks assume, whenever it may be      *)
(* walked (ArenaIsLinked), what it holds is in the scene, and its epoch     *)
(* bounds every stamp.                                                     *)
ArenaOK ==
    Synchronized =>
        /\ ArenaIsLinked(cache, {p \in Prims : MayPoll(p)})
        /\ Cached(cache) \subseteq Present(scene)
        /\ cache.epoch <= MaxEpoch
        /\ \A i \in DOMAIN cache.nodes :
               LET n == cache.nodes[i]
               IN  Max({n.localStamp, n.worldStamp, n.validated, cache.timeStamp}) <= cache.epoch

=============================================================================
