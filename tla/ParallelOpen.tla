---------------------------- MODULE ParallelOpen ----------------------------
(* Opening a stage on several threads (layerstack_io/src/parallel_open.rs).  *)
(*                                                                           *)
(* Threads take sources from the pool, read them, and name the target of     *)
(* each arc under one lock; a target nobody named yet becomes a task of its  *)
(* own.  When nothing is left to read one pass walks the reads depth first   *)
(* and records them in the document's catalog, as Reader::load_external      *)
(* records the layers it reads on one thread.  LoadAlone is that other       *)
(* reader, and SameAsOneThread compares the two.                             *)
(*                                                                           *)
(* An asset path is the source it identifies, or Nowhere when storage        *)
(* identifies none.  A layer is its id and the ids its arcs name, in the     *)
(* order the parser asks for them.  Identities a source derives from its     *)
(* identifier (layer_ids.rs) are numbers: candidate k of a source is k past  *)
(* its first, so that sources may collide.                                   *)
EXTENDS Integers, FiniteSetsExt, SequencesExt

CONSTANTS
    Sources,    \* the identifiers of the sources in storage
    Root,       \* the source the open names
    Nowhere,    \* an asset path that identifies no source
    Threads,    \* the threads the pool runs on
    Graphs,     \* the assets each source asks for, in order
    Contents,   \* what reading each source comes to
    Catalogs,   \* first candidates, and the catalog's ids and states before the open
    Policies    \* ImportPolicy: "Strict", "AllowRecovery"

ASSUME ParallelOpenAssumption ==
    /\ Root \in Sources /\ Nowhere \notin Sources
    /\ \A c \in Catalogs : Root \notin DOMAIN c.known

VARIABLES
    scene,      \* arcs, kind and first candidate of each source; known, state, reserved
    policy,     \* the import policy of the open
    found,      \* Sources: the ids given, the ids taken, whether a candidate was stepped past
    tasks,      \* sources offered to the pool and not taken
    reading,    \* the source each thread reads, and the arcs it resolved
    reads,      \* what reading each source found, by the id it was read as
    opened      \* what the open returns and leaves in the reader

vars == <<scene, policy, found, tasks, reading, reads, opened>>

Unresolved == 0
Idle == [id |-> Unresolved]
Unopened == [error |-> "unopened"]
NoError == "none"

-----------------------------------------------------------------------------
(* Sources.                                                                  *)

IsUnread(s) == scene.kind[s] \in {"missing", "unreadable"}
IsRejected(s) == scene.kind[s] \in {"badText", "badBinary"}
HasErrors(s) == scene.kind[s] \in {"flawed", "badText"}
ErrorOf(s) == IF scene.kind[s] = "missing" THEN "missing" ELSE "rejected"

Derived(s, taken) ==
    Min({scene.first[s] + k : k \in 0 .. Cardinality(taken)} \ taken)

-----------------------------------------------------------------------------
(* The reader: its catalog and what it gathers for the commit.               *)

NewReader ==
    [ids |-> scene.known, state |-> scene.state, reserved |-> scene.reserved,
     pending |-> <<>>, failures |-> <<>>, diagnostics |-> <<>>,
     bindings |-> [b \in {} |-> Unresolved]]

Bind(reader, anchor, asset, id) ==
    [reader EXCEPT !.bindings = (<<anchor, asset>> :> id) @@ @]

Fail(reader, anchor, asset, error) ==
    [reader EXCEPT !.failures =
        Append(@, [anchor |-> anchor, asset |-> asset, error |-> error])]

SetState(reader, id, to) == [reader EXCEPT !.state = (id :> to) @@ @]

ClearState(reader, id) ==
    [reader EXCEPT !.state = [i \in DOMAIN @ \ {id} |-> @[i]]]

(* The catalog gives s an id, chosen by choose when it has none yet.         *)
Name(reader, s, choice) ==
    IF s \in DOMAIN reader.ids THEN reader
    ELSE [reader EXCEPT !.ids = (s :> choice) @@ @, !.reserved = @ \cup {choice}]

Kept(reader, s, id, layers) ==
    IF scene.kind[s] = "badBinary" THEN reader
    ELSE [reader EXCEPT !.pending = @ \o layers,
                        !.diagnostics = IF HasErrors(s) THEN Append(@, id) ELSE @]

(* Whether a strict import rejects the layer read between the two readers.   *)
StrictlyRejects(before, after) ==
    /\ policy = "Strict"
    /\ \/ Len(after.diagnostics) > Len(before.diagnostics)
       \/ \E i \in Len(before.failures) + 1 .. Len(after.failures) :
             after.failures[i].error # "missing"

Verdict(s, before, after) ==
    IF IsRejected(s) \/ StrictlyRejects(before, after) THEN "rejected" ELSE NoError

-----------------------------------------------------------------------------
(* One thread: the target of an arc is read while the layer naming it is.    *)

RECURSIVE LoadAlone(_, _)

ResolveAlone(parse, anchor, asset) ==
    LET load  == IF asset = Nowhere
                 THEN [reader |-> parse.reader, error |-> "missing", layers |-> <<>>]
                 ELSE LoadAlone(parse.reader, asset)
        bound == IF load.error = NoError THEN load.id ELSE Unresolved
        noted == IF load.error = NoError THEN load.reader
                 ELSE Fail(load.reader, anchor, asset, load.error)
    IN [reader |-> Bind(noted, anchor, asset, bound),
        arcs   |-> Append(parse.arcs, bound),
        layers |-> parse.layers \o load.layers]

LoadAlone(reader, s) ==
    LET named == Name(reader, s, Derived(s, reader.reserved))
        id    == named.ids[s]
        start == SetState(named, id, "Loading")
        parse == FoldLeft(LAMBDA p, asset : ResolveAlone(p, id, asset),
                          [reader |-> start, arcs |-> <<>>, layers |-> <<>>],
                          scene.arcs[s])
        read  == Kept(parse.reader, s, id, parse.layers)
        error == Verdict(s, start, read)
    IN CASE id \in DOMAIN named.state ->
              [reader |-> named, id |-> id, error |-> NoError, layers |-> <<>>]
         [] id \notin DOMAIN named.state /\ IsUnread(s) ->
              [reader |-> named, id |-> id, error |-> ErrorOf(s), layers |-> <<>>]
         [] OTHER ->
              [reader |-> IF error = NoError THEN SetState(read, id, "Loaded")
                                             ELSE ClearState(read, id),
               id |-> id, error |-> error,
               layers |-> IF error = NoError
                          THEN <<[id |-> id, arcs |-> parse.arcs]>> ELSE <<>>]

-----------------------------------------------------------------------------
(* The threads.                                                              *)

(* Shared::source: the sources found, with s among them.                     *)
Find(s) ==
    LET taken == found.taken \cup scene.reserved
        first == scene.first[s]
        id    == IF s \in DOMAIN scene.known THEN scene.known[s]
                 ELSE IF first \notin taken THEN first ELSE Derived(s, taken)
    IN IF s \in DOMAIN found.ids THEN found
       ELSE [ids     |-> (s :> id) @@ found.ids,
             taken   |-> found.taken \cup {id},
             stepped |-> found.stepped \/ (s \notin DOMAIN scene.known /\ first \in taken)]

(* A thread takes a source offered to the pool.                              *)
TakeTask(t) ==
    /\ reading[t] = Idle
    /\ \E s \in tasks :
          /\ tasks' = tasks \ {s}
          /\ reading' = [reading EXCEPT ![t] =
                            [source |-> s, id |-> found.ids[s], calls |-> <<>>]]
    /\ UNCHANGED <<scene, policy, found, reads, opened>>

Remaining(t) ==
    IF IsUnread(reading[t].source) THEN 0
    ELSE Len(scene.arcs[reading[t].source]) - Len(reading[t].calls)

(* A thread resolves the next arc of the layer it reads; a source found for  *)
(* the first time is offered to the pool at once.  An asset asked for before *)
(* is recorded again.                                                        *)
ResolveArc(t) ==
    /\ reading[t] # Idle /\ Remaining(t) > 0
    /\ LET asset == scene.arcs[reading[t].source][Len(reading[t].calls) + 1]
           found2 == IF asset = Nowhere THEN found ELSE Find(asset)
           id    == IF asset = Nowhere THEN Unresolved ELSE found2.ids[asset]
       IN /\ found' = found2
          /\ tasks' = tasks \cup (DOMAIN found2.ids \ DOMAIN found.ids)
          /\ reading' = [reading EXCEPT ![t].calls =
                            Append(@, [asset |-> asset, id |-> id])]
    /\ UNCHANGED <<scene, policy, reads, opened>>

(* A thread has read its source, or failed to.                               *)
FinishRead(t) ==
    /\ reading[t] # Idle /\ Remaining(t) = 0
    /\ reads' = (reading[t].id :> reading[t].calls) @@ reads
    /\ reading' = [reading EXCEPT ![t] = Idle]
    /\ UNCHANGED <<scene, policy, found, tasks, opened>>

-----------------------------------------------------------------------------
(* The pass recording the reads.                                             *)

RECURSIVE Visit(_, _, _)

(* Replay::call: an arc of the layer anchor is bound to what its visit found. *)
Call(replay, anchor, call) ==
    LET visit == IF call.asset = Nowhere
                 THEN [replay |-> replay, error |-> "missing", layers |-> <<>>]
                 ELSE Visit(replay, call.asset, call.id)
        bound == IF visit.error = NoError THEN visit.id ELSE Unresolved
        noted == IF visit.error = NoError THEN visit.replay.reader
                 ELSE Fail(visit.replay.reader, anchor, call.asset, visit.error)
    IN [visit.replay EXCEPT !.reader = Bind(noted, anchor, call.asset, bound),
                            !.layers = @ \o visit.layers]

\* Mutant: the ids the threads gave are kept, collisions included.
MutantSettled == TRUE

(* Every source was read as the id one thread gives it.                      *)
Settled == ~found.stepped

(* Replay::visit: records the source s, read as readId.                      *)
Visit(replay, s, readId) ==
    LET choice == IF Settled THEN readId ELSE Derived(s, replay.reader.reserved)
        named  == Name(replay.reader, s, choice)
        id     == named.ids[s]
        renamed == IF id = readId THEN replay.renamed
                   ELSE (readId :> id) @@ replay.renamed
        start  == SetState(named, id, "Loading")
        walked == FoldLeft(LAMBDA r, call : Call(r, id, call),
                           [replay EXCEPT !.reader = start, !.renamed = renamed,
                                          !.layers = <<>>],
                           reads[readId])
        read   == Kept(walked.reader, s, readId, walked.layers)
        error  == Verdict(s, start, read)
        back   == [replay EXCEPT !.reader = named, !.renamed = renamed]
        after  == [walked EXCEPT !.layers = replay.layers]
        layer  == [id |-> readId, arcs |-> [i \in DOMAIN reads[readId] |-> reads[readId][i].id]]
    IN CASE id \in DOMAIN named.state ->
              [replay |-> back, id |-> id, error |-> NoError, layers |-> <<>>]
         [] id \notin DOMAIN named.state /\ IsUnread(s) ->
              [replay |-> [back EXCEPT !.failed = @ \cup {readId}],
               id |-> id, error |-> ErrorOf(s), layers |-> <<>>]
         [] id \notin DOMAIN named.state /\ ~IsUnread(s) /\ error # NoError ->
              [replay |-> [after EXCEPT !.reader = ClearState(read, id),
                                        !.failed = @ \cup {readId}],
               id |-> id, error |-> error, layers |-> <<>>]
         [] OTHER ->
              [replay |-> [after EXCEPT !.reader = SetState(read, id, "Loaded")],
               id |-> id, error |-> NoError, layers |-> <<layer>>]

FinalId(replay, id) ==
    IF id \in replay.failed THEN Unresolved
    ELSE IF id \in DOMAIN replay.renamed THEN replay.renamed[id] ELSE id

(* A layer naming a source that failed is rewritten, and every layer when a  *)
(* collision renumbered one.                                                 *)
Rewritten(replay, layer) ==
    IF \/ DOMAIN replay.renamed # {}
       \/ \E i \in DOMAIN reads[layer.id] : reads[layer.id][i].id \in replay.failed
    THEN [id   |-> FinalId(replay, layer.id),
          arcs |-> [i \in DOMAIN layer.arcs |-> FinalId(replay, layer.arcs[i])]]
    ELSE layer

(* A diagnostic names the layer read, even one that failed.                  *)
DiagnosticId(replay, id) ==
    IF id \in DOMAIN replay.renamed THEN replay.renamed[id] ELSE id

(* Nothing is left to read: the reads are recorded and the layers finished.  *)
Record ==
    /\ opened = Unopened /\ tasks = {} /\ \A t \in Threads : reading[t] = Idle
    /\ LET visit == Visit([reader |-> NewReader, renamed |-> [i \in {} |-> i],
                           failed |-> {}, layers |-> <<>>],
                          Root, found.ids[Root])
           walk == visit.replay
           rewrite(layers) == [i \in DOMAIN layers |-> Rewritten(walk, layers[i])]
           ids == walk.reader.diagnostics
       IN opened' =
            [reader |-> [walk.reader EXCEPT
                !.pending = rewrite(@),
                !.diagnostics = [i \in DOMAIN ids |-> DiagnosticId(walk, ids[i])]],
             id |-> visit.id, error |-> visit.error, layers |-> rewrite(visit.layers)]
    /\ UNCHANGED <<scene, policy, found, tasks, reading, reads>>

-----------------------------------------------------------------------------
Init ==
    /\ \E arcs \in Graphs, kind \in Contents, c \in Catalogs :
          scene = [arcs |-> arcs, kind |-> kind, first |-> c.first,
                   known |-> c.known, state |-> c.state, reserved |-> c.reserved]
    /\ policy \in Policies
    /\ LET id == IF scene.first[Root] \in scene.reserved
                 THEN Derived(Root, scene.reserved) ELSE scene.first[Root]
       IN found = [ids |-> Root :> id, taken |-> {id},
                   stepped |-> scene.first[Root] \in scene.reserved]
    /\ tasks = {Root}
    /\ reading = [t \in Threads |-> Idle]
    /\ reads = [i \in {} |-> <<>>]
    /\ opened = Unopened

Next ==
    \/ \E t \in Threads : TakeTask(t) \/ ResolveArc(t) \/ FinishRead(t)
    \/ Record

Spec == Init /\ [][Next]_vars

-----------------------------------------------------------------------------
(* What the pass keeps of an arc one thread resolved: one to a source that   *)
(* failed is unresolved, also where the parser asked for the source while it *)
(* was still being read, around a cycle, and it failed only later.           *)
AsRecorded(reader, layer) ==
    LET failed == {reader.ids[reader.failures[i].asset] :
                     i \in {j \in DOMAIN reader.failures :
                              reader.failures[j].asset # Nowhere}}
    IN [layer EXCEPT !.arcs = [i \in DOMAIN @ |->
            IF @[i] \in failed THEN Unresolved ELSE @[i]]]

(* However the threads shared the sources and settled their ids, a stage     *)
(* opened on them has the layers, in the order, under the ids and with the   *)
(* bindings, failures and diagnostics that one thread gives it, or fails as  *)
(* one thread does (parallel_open.rs:16-22).                                 *)
SameAsOneThread ==
    opened # Unopened =>
        LET alone == LoadAlone(NewReader, Root)
            recorded(layers) ==
                [i \in DOMAIN layers |-> AsRecorded(alone.reader, layers[i])]
        IN /\ opened.error = alone.error
           /\ alone.error = NoError =>
                opened = [alone EXCEPT !.reader.pending = recorded(@),
                                       !.layers = recorded(@)]
=============================================================================
