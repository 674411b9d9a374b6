----------------------------- MODULE Documents -----------------------------
(***************************************************************************)
(* A document and the files its layers are read from and saved to          *)
(* (layerstack_io: lib.rs, reload.rs, release.rs, freshness.rs and the     *)
(* atomic writes of filesystem.rs).                                        *)
(*                                                                         *)
(* A call of the document holds it exclusively, so no edit of a layer      *)
(* comes between two steps of one; other programs write the files at any   *)
(* point, and the process may die at any point, leaving the file it was    *)
(* writing beside the one it was to replace.  A file is the sequence of    *)
(* the contents it had; its version, which storage reports, is how many    *)
(* that is.  Which layers the stage uses, and so asks for, saves, reloads  *)
(* and does not release, is its own affair: any that are in the state the  *)
(* call takes them in.                                                     *)
(***************************************************************************)
EXTENDS Integers, Sequences

CONSTANTS
    Layer,          \* the layers read from files
    Content,        \* what a layer may hold
    Name,           \* the names a save may give its candidate
    MaxVersion      \* bound on the contents a file has

Missing == "missing"        \* no file; of a layer, not in the store
Torn == "torn"              \* no more than the first part of a save
None == "none"              \* no layer, no candidate

ASSUME ContentAssumption == {Missing, Torn} \cap Content = {}
ASSUME NameAssumption == None \notin Layer \cup Name
ASSUME VersionAssumption == MaxVersion \in Nat \ {0}

VARIABLES
    file,       \* the contents each file had, the last its own
    beside,     \* what the directory holds under each candidate's name
    content,    \* what each layer holds, or Missing
    dirty,      \* the layers edited since they were read or saved
    fresh,      \* how the document tells whether a layer's file changed
    at,         \* where the call under way is
    todo,       \* the layers it has still to take
    layer,      \* the layer it has in hand
    seen,       \* the version it has of that layer's file
    name,       \* the candidate it writes
    next,       \* what a read or a reload prepares
    raced       \* layers whose file another program wrote as they were saved

disk == <<file, beside>>
document == <<content, dirty, fresh, raced>>
hand == <<layer, seen, name>>
call == <<at, todo, hand, next>>
vars == <<disk, document, call>>

Resident == {l \in Layer : content[l] # Missing}
Held(l) == file[l][Len(file[l])]

(* Freshness: the version before the read, the digest of the bytes read,   *)
(* or nothing recorded.                                                    *)
NoVersion == 0
Version(v) == [kind |-> "version", of |-> v]
Digest(c) == [kind |-> "digest", of |-> c]
Unknown == [kind |-> "none", of |-> 0]

\* Mutant: a version storage does not report is recorded as one.
MutantFreshnessOf(v, c) == Version(v)

FreshnessOf(v, c) == IF v = NoVersion THEN Digest(c) ELSE Version(v)

(* version_of: none where storage reports none or fails, as of no file.    *)
Reported(l) ==
    {NoVersion} \cup (IF Held(l) = Missing THEN {} ELSE {Len(file[l])})

(* A reload with nothing prepared; `discards` is the dirty layers it was   *)
(* told to discard, `since` the versions it began at.                      *)
Nothing == [selected |-> {}, discards |-> {}, marked |-> {}, read |-> {},
            content |-> [l \in Layer |-> Missing],
            fresh |-> [l \in Layer |-> Unknown],
            since |-> [l \in Layer |-> 0]]

Init ==
    /\ file \in [Layer -> {<<c>> : c \in Content}]
    /\ beside = [n \in Name |-> Missing]
    /\ content = [l \in Layer |-> Missing]
    /\ dirty = {} /\ fresh = [l \in Layer |-> Unknown] /\ raced = {}
    /\ at = "idle" /\ todo = {} /\ next = Nothing
    /\ layer = None /\ seen = NoVersion /\ name = None

(* The call is done with the layer it had in hand.                         *)
PutDown == layer' = None /\ seen' = NoVersion /\ name' = None

-----------------------------------------------------------------------------
(* Around the document's calls.                                            *)

(* Another program writes, replaces or removes a file.                     *)
Outside(l, c) ==
    /\ Len(file[l]) < MaxVersion
    /\ file' = [file EXCEPT ![l] = Append(@, c)]
    /\ UNCHANGED <<beside, document, call>>

(* The process dies, and another opens the same files.                     *)
Crash ==
    /\ content' = [l \in Layer |-> Missing]
    /\ dirty' = {} /\ fresh' = [l \in Layer |-> Unknown] /\ raced' = {}
    /\ at' = "idle" /\ todo' = {} /\ next' = Nothing
    /\ PutDown
    /\ UNCHANGED disk

Edit(l, c) ==
    /\ at = "idle" /\ l \in Resident /\ c # content[l]
    /\ content' = [content EXCEPT ![l] = c]
    /\ dirty' = dirty \cup {l}
    /\ UNCHANGED <<disk, fresh, raced, call>>

-----------------------------------------------------------------------------
(* save_layers: each dirty layer selected in turn, by an atomic write.     *)

StartSave(S) ==
    /\ at = "idle" /\ S # {} /\ S \subseteq dirty
    /\ todo' = S /\ at' = "take"
    /\ UNCHANGED <<disk, document, hand, next>>

TakeLayer(l) ==
    /\ at = "take" /\ l \in todo
    /\ layer' = l /\ todo' = todo \ {l} /\ at' = "create"
    /\ UNCHANGED <<disk, document, seen, name, next>>

EndSave ==
    /\ at = "take" /\ todo = {}
    /\ at' = "idle"
    /\ UNCHANGED <<disk, document, todo, hand, next>>

(* create_new: under the first name nothing has, whoever left it there.    *)
CreateCandidate(n) ==
    /\ at = "create" /\ beside[n] = Missing
    /\ beside' = [beside EXCEPT ![n] = Torn]
    /\ name' = n /\ at' = "write"
    /\ UNCHANGED <<file, document, todo, layer, seen, next>>

\* Mutant: the candidate is renamed before it is written out.
MutantWriteCandidate ==
    /\ at = "write" /\ at' = "rename"
    /\ UNCHANGED <<disk, document, todo, hand, next>>

(* The bytes written out and synced.                                       *)
WriteCandidate ==
    /\ at = "write"
    /\ beside' = [beside EXCEPT ![name] = content[layer]]
    /\ at' = "rename"
    /\ UNCHANGED <<file, document, todo, hand, next>>

Rename ==
    /\ at = "rename" /\ Len(file[layer]) < MaxVersion
    /\ file' = [file EXCEPT ![layer] = Append(@, beside[name])]
    /\ beside' = [beside EXCEPT ![name] = Missing]
    /\ seen' = Len(file[layer]) + 1
    /\ name' = None /\ at' = "saved"
    /\ UNCHANGED <<document, todo, layer, next>>

(* set_saved, and the version storage reports now.                         *)
RecordSaved ==
    /\ at = "saved"
    /\ dirty' = dirty \ {layer}
    /\ \E v \in Reported(layer) :
        /\ fresh' = [fresh EXCEPT ![layer] =
                        IF v = NoVersion THEN Unknown ELSE Version(v)]
        /\ raced' = IF v \in {NoVersion, seen} THEN raced \ {layer}
                                               ELSE raced \cup {layer}
    /\ at' = "take"
    /\ PutDown
    /\ UNCHANGED <<disk, content, todo, next>>

\* Mutant: the layer counts as saved.
MutantSaveFails ==
    /\ at \in {"create", "write", "rename"}
    /\ dirty' = dirty \ {layer}
    /\ at' = "take"
    /\ PutDown
    /\ UNCHANGED <<disk, content, fresh, raced, todo, next>>

(* A step of the write fails: the layer stays dirty, its file as it was,   *)
(* and dropping the candidate removes it, unless that fails too.           *)
SaveFails ==
    /\ at \in {"create", "write", "rename"}
    /\ \/ beside' = beside
       \/ at # "create" /\ beside' = [beside EXCEPT ![name] = Missing]
    /\ at' = "take"
    /\ PutDown
    /\ UNCHANGED <<file, document, todo, next>>

-----------------------------------------------------------------------------
(* Reading: a read round of the layers the stage asks for, and the reload  *)
(* of selected ones, prepared apart and then committed.                    *)

Versions == [l \in Layer |-> Len(file[l])]

(* read_round.                                                             *)
StartRead(S) ==
    /\ at = "idle" /\ S # {} /\ S \cap Resident = {}
    /\ todo' = S /\ at' = "stat"
    /\ UNCHANGED <<disk, document, hand, next>>

\* Mutant: one clean layer is enough.
MutantMayReload(S, policy) == policy = "preserve" => S \ dirty # {}

MayReload(S, policy) == policy = "preserve" => S \cap dirty = {}

(* prepare_reload_internal: a forced reload marks all it selects, and any  *)
(* reload the dirty.                                                       *)
StartReload(S, policy, forced) ==
    /\ at = "idle" /\ S # {} /\ S \subseteq Resident
    /\ MayReload(S, policy)
    /\ next' = [Nothing EXCEPT !.selected = S, !.since = Versions,
                               !.marked = IF forced THEN S ELSE S \cap dirty,
                               !.discards = IF policy = "discard" THEN S \cap dirty ELSE {}]
    /\ todo' = S /\ at' = "compare"
    /\ UNCHANGED <<disk, document, hand>>

\* Mutant: a version that cannot be had is taken for the one recorded.
MutantVersionChanged(l, v) ==
    fresh[l].kind = "version" /\ v # NoVersion /\ fresh[l] # Version(v)

VersionChanged(l, v) == fresh[l].kind = "version" /\ fresh[l] # Version(v)

(* Which of them to read: the marked, those whose version changed, which   *)
(* it marks, and those with no version recorded.                           *)
Compare(l) ==
    /\ at = "compare" /\ l \in todo
    /\ \E v \in Reported(l) :
        LET mark == VersionChanged(l, v) \/ l \in next.marked
            read == mark \/ fresh[l].kind # "version"
        IN  next' = [next EXCEPT !.marked = IF mark THEN @ \cup {l} ELSE @,
                                 !.read = IF read THEN @ \cup {l} ELSE @]
    /\ todo' = todo \ {l}
    /\ UNCHANGED <<disk, document, hand, at>>

Compared ==
    /\ at = "compare" /\ todo = {}
    /\ todo' = next.read /\ at' = "stat"
    /\ next' = [next EXCEPT !.read = {}]
    /\ UNCHANGED <<disk, document, hand>>

(* load_external: the version before the bytes.                            *)
ReadVersion(l) ==
    /\ at = "stat" /\ l \in todo
    /\ layer' = l /\ todo' = todo \ {l}
    /\ seen' \in Reported(l)
    /\ at' = "bytes"
    /\ UNCHANGED <<disk, document, name, next>>

(* A source with the digest it had is left as it is, unless it is marked.  *)
ReadBytes ==
    /\ at = "bytes" /\ Held(layer) # Missing
    /\ LET new == FreshnessOf(seen, Held(layer))
           asItWas == /\ layer \in Resident \ next.marked
                      /\ fresh[layer].kind = "digest" /\ fresh[layer] = new
       IN  next' = IF asItWas THEN next
                   ELSE [next EXCEPT !.content[layer] = Held(layer),
                                     !.fresh[layer] = new]
    /\ at' = "stat"
    /\ PutDown
    /\ UNCHANGED <<disk, document, todo>>

(* The read or the parse fails: the layer keeps what it had, and the       *)
(* others go on.                                                           *)
ReadFails ==
    /\ at = "bytes"
    /\ next' = [next EXCEPT !.selected = @ \ {layer}]
    /\ at' = "stat"
    /\ PutDown
    /\ UNCHANGED <<disk, document, todo>>

\* Mutant: of the resident ones, only those marked.
MutantReplaced ==
    {l \in Layer : /\ next.content[l] # Missing
                   /\ l \in next.marked \cup dirty \/ l \notin Resident}

(* The layers a commit publishes: not those read unmarked and as they were.*)
Replaced ==
    {l \in Layer : /\ next.content[l] # Missing
                   /\ \/ l \in next.marked \cup dirty
                      \/ next.content[l] # content[l]}

Commit ==
    /\ at = "stat" /\ todo = {}
    /\ content' = [l \in Layer |-> IF l \in Replaced THEN next.content[l] ELSE content[l]]
    /\ dirty' = dirty \ Replaced
    /\ fresh' = [l \in Layer |-> IF next.content[l] = Missing THEN fresh[l]
                                                               ELSE next.fresh[l]]
    /\ raced' = {l \in raced : next.content[l] = Missing}
    /\ at' = "idle" /\ next' = Nothing
    /\ UNCHANGED <<disk, todo, hand>>

(* A prepared reload dropped, or a read round a strict import rejects.     *)
Reject ==
    /\ at = "stat" /\ todo = {}
    /\ at' = "idle" /\ next' = Nothing
    /\ UNCHANGED <<disk, document, todo, hand>>

(* release_unused_layers: the clean layers nothing uses or keeps.          *)
Release(S) ==
    /\ at = "idle" /\ S # {} /\ S \subseteq Resident \ dirty
    /\ content' = [l \in Layer |-> IF l \in S THEN Missing ELSE content[l]]
    /\ UNCHANGED <<disk, dirty, fresh, raced, call>>

-----------------------------------------------------------------------------
Next ==
    \/ \E l \in Layer, c \in Content \cup {Missing} : Outside(l, c)
    \/ Crash
    \/ \E l \in Layer, c \in Content : Edit(l, c)
    \/ \E S \in SUBSET Layer : StartSave(S) \/ StartRead(S) \/ Release(S)
    \/ \E S \in SUBSET Layer, policy \in {"preserve", "discard"}, forced \in BOOLEAN :
        StartReload(S, policy, forced)
    \/ \E l \in Layer : TakeLayer(l) \/ Compare(l) \/ ReadVersion(l)
    \/ \E n \in Name : CreateCandidate(n)
    \/ WriteCandidate \/ Rename \/ RecordSaved \/ SaveFails \/ EndSave
    \/ Compared \/ ReadBytes \/ ReadFails \/ Commit \/ Reject

Spec == Init /\ [][Next]_vars

-----------------------------------------------------------------------------
Freshnesses ==
    {Version(v) : v \in 1 .. MaxVersion} \cup {Digest(c) : c \in Content} \cup {Unknown}

PreparedReload ==
    [selected : SUBSET Layer, discards : SUBSET Layer,
     marked : SUBSET Layer, read : SUBSET Layer,
     content : [Layer -> Content \cup {Missing}],
     fresh : [Layer -> Freshnesses],
     since : [Layer -> 0 .. MaxVersion]]

(* The types of the state.                                                 *)
TypeOK ==
    /\ file \in [Layer -> Seq(Content \cup {Missing, Torn})]
    /\ \A l \in Layer : Len(file[l]) \in 1 .. MaxVersion
    /\ beside \in [Name -> Content \cup {Missing, Torn}]
    /\ content \in [Layer -> Content \cup {Missing}]
    /\ dirty \subseteq Layer /\ raced \subseteq Layer
    /\ fresh \in [Layer -> Freshnesses]
    /\ at \in {"idle", "take", "create", "write", "rename", "saved",
               "compare", "stat", "bytes"}
    /\ todo \subseteq Layer /\ layer \in Layer \cup {None}
    /\ seen \in 0 .. MaxVersion /\ name \in Name \cup {None}
    /\ next \in PreparedReload

(* A file never holds part of what a save writes, whatever step of the     *)
(* save failed and wherever the process died (atomic_write).               *)
FilesAreWhole == \A l \in Layer : Held(l) # Torn

(* A clean layer the next reload would pass over, as its file's version is *)
(* the one recorded, holds what its file holds; one it would compare by    *)
(* bytes holds what the recorded digest is of.  The layers another program *)
(* wrote between the rename and the version of their save are the          *)
(* exception (lib.rs, save_layers).                                        *)
FreshMeansSame ==
    \A l \in Resident \ (dirty \cup raced) :
        /\ fresh[l] = Version(Len(file[l])) => content[l] = Held(l)
        /\ fresh[l].kind = "digest" => fresh[l] = Digest(content[l])

(* What a clean layer holds, its file held: no edit is called saved by a   *)
(* failed write, a failed reload, a release or a read in between.          *)
CleanMeansStored ==
    \A l \in Resident \ dirty : \E v \in 1 .. Len(file[l]) : file[l][v] = content[l]

(* Unsaved edits go only into their file, by a save, or at the host's      *)
(* word: by another edit, by a reload under DiscardDirty that selected the *)
(* layer, or with the process.                                             *)
EditsAreKept ==
    [][\A l \in dirty :
        \/ content'[l] = content[l] /\ l \in dirty'
        \/ \E c \in Content : Edit(l, c)
        \/ at = "saved" /\ layer = l /\ content'[l] = file[l][seen]
        \/ Commit /\ l \in next.discards
        \/ Crash]_vars

(* A committed reload leaves each layer it selected and could read clean,  *)
(* and with a content its file had since the reload began, whether it      *)
(* passed the file over, compared or read it (but for the race above).     *)
ReloadIsCurrent ==
    [][Commit => \A l \in next.selected \ raced :
        /\ l \notin dirty'
        /\ \E v \in next.since[l] .. Len(file[l]) : file[l][v] = content'[l]]_vars
=============================================================================
