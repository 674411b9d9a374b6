-------------------------- MODULE Documents_proofs --------------------------
(***************************************************************************)
(* For any layers, contents and candidate names: files stay whole, a clean *)
(* layer's record of its file is true, edits are kept and a reload is      *)
(* current.  The invariant follows what a save has on disk at each step    *)
(* (SaveOK), what the records say of the files (DocumentOK), and, of a     *)
(* reload, why each selected layer is or will be current (ReloadOK).       *)
(***************************************************************************)
EXTENDS Documents, SequenceTheorems, TLAPS

Saving == {"take", "create", "write", "rename", "saved"}
Reading == {"compare", "stat", "bytes"}

SaveOK ==
    /\ dirty \subseteq Resident
    /\ at \in Saving => todo \subseteq dirty
    /\ at \in Saving \ {"take"} => layer \in dirty \ todo
    /\ at \in {"write", "rename"} => name \in Name
    /\ at = "rename" => beside[name] = content[layer]
    /\ at = "saved" => seen \in 1 .. Len(file[layer]) /\ file[layer][seen] = content[layer]

DocumentOK ==
    /\ \A l \in Layer : fresh[l].kind = "version" => fresh[l].of <= Len(file[l])
    /\ FilesAreWhole /\ FreshMeansSame /\ CleanMeansStored

(* The layers a read or reload has still to read, or to compare.           *)
Pending == todo \cup next.read \cup (IF at = "bytes" THEN {layer} ELSE {})

(* A content read is one its file had, and its freshness tells of it.      *)
ReadOK(l) ==
    /\ l \in next.selected \/ l \notin Resident
    /\ \E v \in 1 .. Len(file[l]) :
        /\ file[l][v] = next.content[l]
        /\ l \in next.selected => v >= next.since[l]
    /\ next.fresh[l].kind = "version" => next.fresh[l].of <= Len(file[l])
    /\ next.fresh[l] = Version(Len(file[l])) => next.content[l] = Held(l)
    /\ next.fresh[l].kind = "digest" => next.fresh[l] = Digest(next.content[l])

(* A selected layer that is not read is as its file was.                   *)
PassedOver(l) ==
    /\ l \notin next.marked
    /\ l \in raced \/ \E v \in next.since[l] .. Len(file[l]) : file[l][v] = content[l]

ReloadOK ==
    /\ at \notin Reading => next = Nothing
    /\ at = "compare" => todo \subseteq Resident
    /\ at \in {"stat", "bytes"} => next.read = {}
    /\ at = "bytes" => layer \in Layer \ todo /\ seen <= Len(file[layer])
    /\ at \in Reading =>
        /\ next.selected \cap dirty \subseteq next.discards \cap next.marked
        /\ \A l \in Pending : next.content[l] = Missing /\ (l \in next.selected \/ l \notin Resident)
        /\ \A l \in next.selected : next.since[l] \in 1 .. Len(file[l])
        /\ \A l \in Layer : next.content[l] # Missing => ReadOK(l)
        /\ \A l \in next.selected \ Pending : next.content[l] # Missing \/ PassedOver(l)

IInv == TypeOK /\ SaveOK /\ DocumentOK /\ ReloadOK

-----------------------------------------------------------------------------
(* The three kinds of freshness are apart, and each tells what it is of.   *)
LEMMA FreshnessFacts ==
    /\ \A v : Version(v).kind = "version" /\ Version(v).of = v
    /\ \A c : Digest(c).kind = "digest" /\ Digest(c).of = c
    /\ Unknown.kind = "none"
    /\ \A v, w : Version(v) = Version(w) => v = w
    /\ \A f \in Freshnesses :
        /\ f.kind = "version" => f = Version(f.of) /\ f.of \in 1 .. MaxVersion
        /\ f.kind = "digest" => f = Digest(f.of) /\ f.of \in Content
    /\ \A v \in 1 .. MaxVersion : Version(v) \in Freshnesses
    /\ \A c \in Content : Digest(c) \in Freshnesses
    /\ Unknown \in Freshnesses
<1>1. /\ \A v : Version(v).kind = "version" /\ Version(v).of = v
      /\ \A c : Digest(c).kind = "digest" /\ Digest(c).of = c
      /\ Unknown.kind = "none"
  BY DEF Version, Digest, Unknown
<1>2. \A v, w : Version(v) = Version(w) => v = w
  BY <1>1
<1>3. ASSUME NEW f \in Freshnesses
      PROVE  /\ f.kind = "version" => f = Version(f.of) /\ f.of \in 1 .. MaxVersion
             /\ f.kind = "digest" => f = Digest(f.of) /\ f.of \in Content
  <2>1. CASE f \in {Version(v) : v \in 1 .. MaxVersion}  BY <2>1, <1>1
  <2>2. CASE f \in {Digest(c) : c \in Content}  BY <2>2, <1>1
  <2>3. CASE f = Unknown  BY <2>3, <1>1
  <2>. QED  BY <2>1, <2>2, <2>3 DEF Freshnesses
<1>. QED  BY <1>1, <1>2, <1>3 DEF Freshnesses

(* A file written has one more content, and the contents it had.           *)
LEMMA FileGrows ==
    ASSUME TypeOK, NEW k \in Layer, NEW c \in Content \cup {Missing, Torn},
           Len(file[k]) < MaxVersion, file' = [file EXCEPT ![k] = Append(@, c)]
    PROVE  /\ file' \in [Layer -> Seq(Content \cup {Missing, Torn})]
           /\ \A l \in Layer : Len(file'[l]) \in 1 .. MaxVersion
           /\ Len(file'[k]) = Len(file[k]) + 1 /\ file'[k][Len(file'[k])] = c
           /\ \A l \in Layer : /\ Len(file[l]) <= Len(file'[l])
                              /\ \A v \in 1 .. Len(file[l]) : file'[l][v] = file[l][v]
           /\ \A l \in Layer \ {k} : file'[l] = file[l]
<1>. DEFINE S == Content \cup {Missing, Torn}
<1>1. /\ file[k] \in Seq(S) /\ Len(file[k]) \in 1 .. MaxVersion
      /\ file \in [Layer -> Seq(S)] /\ \A l \in Layer : Len(file[l]) \in 1 .. MaxVersion
  BY DEF TypeOK
<1>2. /\ Append(file[k], c) \in Seq(S)
      /\ Len(Append(file[k], c)) = Len(file[k]) + 1
      /\ \A v \in 1 .. Len(file[k]) : Append(file[k], c)[v] = file[k][v]
      /\ Append(file[k], c)[Len(file[k]) + 1] = c
  BY <1>1, AppendProperties
<1>3. file'[k] = Append(file[k], c) /\ \A l \in Layer \ {k} : file'[l] = file[l]
  BY <1>1
<1>4. file' \in [Layer -> Seq(S)]
  BY <1>1, <1>2
<1>5. Len(file'[k]) \in 1 .. MaxVersion
  BY <1>1, <1>2, <1>3, VersionAssumption
<1>. HIDE DEF S
<1>. QED  BY <1>1, <1>2, <1>3, <1>4, <1>5 DEF S

LEMMA NothingPrepared == Nothing \in PreparedReload
BY FreshnessFacts, VersionAssumption DEF Nothing, PreparedReload

LEMMA ReportedVersions ==
    ASSUME TypeOK, NEW l \in Layer, NEW v \in Reported(l)
    PROVE  v \in 0 .. MaxVersion /\ v \in {NoVersion, Len(file[l])}
BY VersionAssumption DEF TypeOK, Reported, NoVersion

(* What comparing a layer decides, for a version storage may report.       *)
LEMMA CompareDecides ==
    ASSUME TypeOK, NEW l \in Layer, Compare(l)
    PROVE  /\ next' \in PreparedReload
           /\ next'.selected = next.selected /\ next'.discards = next.discards
           /\ next'.content = next.content /\ next'.fresh = next.fresh
           /\ next'.since = next.since
           /\ \/ next'.marked = next.marked \cup {l} /\ next'.read = next.read \cup {l}
              \/ /\ next'.marked = next.marked /\ l \notin next.marked
                 /\ \/ next'.read = next.read \cup {l}
                    \/ /\ next'.read = next.read
                       /\ \E v \in Reported(l) : fresh[l] = Version(v)
<1>1. PICK v \in Reported(l) :
        LET mark == VersionChanged(l, v) \/ l \in next.marked
            read == mark \/ fresh[l].kind # "version"
        IN  next' = [next EXCEPT !.marked = IF mark THEN @ \cup {l} ELSE @,
                                 !.read = IF read THEN @ \cup {l} ELSE @]
  BY DEF Compare
<1>2. next \in PreparedReload  BY DEF TypeOK
<1>3. CASE VersionChanged(l, v) \/ l \in next.marked
  <2>1. next' = [next EXCEPT !.marked = next.marked \cup {l}, !.read = next.read \cup {l}]
    BY <1>1, <1>3
  <2>. QED  BY <2>1, <1>2 DEF PreparedReload
<1>4. CASE ~VersionChanged(l, v) /\ l \notin next.marked /\ fresh[l].kind # "version"
  <2>1. next' = [next EXCEPT !.marked = next.marked, !.read = next.read \cup {l}]
    BY <1>1, <1>4
  <2>. QED  BY <2>1, <1>2, <1>4 DEF PreparedReload
<1>5. CASE ~VersionChanged(l, v) /\ l \notin next.marked /\ fresh[l].kind = "version"
  <2>1. next' = [next EXCEPT !.marked = next.marked, !.read = next.read]
    BY <1>1, <1>5
  <2>2. fresh[l] = Version(v)
    BY <1>5 DEF VersionChanged
  <2>. QED  BY <2>1, <2>2, <1>2, <1>5 DEF PreparedReload
<1>. QED  BY <1>3, <1>4, <1>5

-----------------------------------------------------------------------------
(* Every step keeps the types, given what SaveOK and ReloadOK say of the   *)
(* layer and the candidate in hand.                                        *)
LEMMA TypesKept == ASSUME IInv, Next  PROVE TypeOK'
<1>. USE DEF disk, document, hand, call
<1>0. TypeOK /\ SaveOK /\ ReloadOK /\ dirty \subseteq Resident
  BY DEF IInv, SaveOK
<1>1. ASSUME NEW l \in Layer, NEW c \in Content \cup {Missing}, Outside(l, c)  PROVE TypeOK'
  BY <1>0, <1>1, FileGrows DEF TypeOK, Outside
<1>2. CASE Crash
  BY <1>0, <1>2, NothingPrepared, FreshnessFacts, VersionAssumption
     DEF TypeOK, Crash, PutDown, NoVersion
<1>3. ASSUME NEW l \in Layer, NEW c \in Content, Edit(l, c)  PROVE TypeOK'
  BY <1>0, <1>3 DEF TypeOK, Edit
<1>4. ASSUME NEW S \in SUBSET Layer, StartSave(S) \/ StartRead(S) \/ Release(S)  PROVE TypeOK'
  BY <1>0, <1>4 DEF TypeOK, StartSave, StartRead, Release
<1>5. ASSUME NEW S \in SUBSET Layer, NEW policy, NEW forced \in BOOLEAN,
             StartReload(S, policy, forced)
      PROVE  TypeOK'
  <2>1. [l \in Layer |-> Len(file[l])] \in [Layer -> 0 .. MaxVersion]
    BY <1>0 DEF TypeOK
  <2>2. next' \in PreparedReload
    BY <1>0, <1>5, <2>1, NothingPrepared DEF StartReload, Versions, PreparedReload
  <2>. QED  BY <1>0, <1>5, <2>2 DEF TypeOK, StartReload
<1>6. ASSUME NEW l \in Layer, TakeLayer(l)  PROVE TypeOK'
  BY <1>0, <1>6 DEF TypeOK, TakeLayer
<1>7. ASSUME NEW l \in Layer, Compare(l)  PROVE TypeOK'
  <2>1. next' \in PreparedReload
    BY <1>0, <1>7, CompareDecides
  <2>. QED  BY <1>0, <1>7, <2>1 DEF TypeOK, Compare
<1>8. ASSUME NEW l \in Layer, ReadVersion(l)  PROVE TypeOK'
  BY <1>0, <1>8, ReportedVersions DEF TypeOK, ReadVersion
<1>9. ASSUME NEW n \in Name, CreateCandidate(n)  PROVE TypeOK'
  BY <1>0, <1>9 DEF TypeOK, CreateCandidate
<1>10. CASE WriteCandidate
  <2>1. layer \in Layer /\ content[layer] \in Content /\ name \in Name
    BY <1>0, <1>10 DEF TypeOK, WriteCandidate, SaveOK, Saving, Resident
  <2>. QED  BY <1>0, <1>10, <2>1 DEF TypeOK, WriteCandidate
<1>11. CASE Rename
  <2>1. layer \in Layer /\ name \in Name /\ beside[name] \in Content
    BY <1>0, <1>11 DEF TypeOK, Rename, SaveOK, Saving, Resident
  <2>2. /\ Len(file[layer]) < MaxVersion
        /\ file' = [file EXCEPT ![layer] = Append(@, beside[name])]
        /\ seen' = Len(file[layer]) + 1
    BY <1>11 DEF Rename
  <2>3. /\ file' \in [Layer -> Seq(Content \cup {Missing, Torn})]
        /\ \A l \in Layer : Len(file'[l]) \in 1 .. MaxVersion
        /\ seen' \in 1 .. MaxVersion
    BY <1>0, <2>1, <2>2, FileGrows
  <2>. QED  BY <1>0, <1>11, <2>1, <2>3 DEF TypeOK, Rename
<1>12. CASE RecordSaved
  <2>1. layer \in Layer
    BY <1>0, <1>12 DEF RecordSaved, SaveOK, Saving, Resident
  <2>2. PICK v \in Reported(layer) :
            fresh' = [fresh EXCEPT ![layer] = IF v = NoVersion THEN Unknown ELSE Version(v)]
    BY <1>12 DEF RecordSaved
  <2>3. fresh' \in [Layer -> Freshnesses]
    BY <1>0, <2>1, <2>2, ReportedVersions, FreshnessFacts DEF TypeOK, NoVersion
  <2>. QED  BY <1>0, <1>12, <2>1, <2>3, VersionAssumption DEF TypeOK, RecordSaved, PutDown, NoVersion
<1>13. CASE SaveFails
  <2>1. beside' \in [Name -> Content \cup {Missing, Torn}]
    BY <1>0, <1>13 DEF TypeOK, SaveFails
  <2>. QED  BY <1>0, <1>13, <2>1, VersionAssumption DEF TypeOK, SaveFails, PutDown, NoVersion
<1>14. CASE EndSave
  BY <1>0, <1>14 DEF TypeOK, EndSave
<1>15. CASE Compared
  BY <1>0, <1>15 DEF TypeOK, Compared, PreparedReload
<1>16. CASE ReadBytes
  <2>1. layer \in Layer /\ Held(layer) # Missing
    BY <1>0, <1>16 DEF ReadBytes, ReloadOK
  <2>2. Held(layer) \in Content
    <3>1. Held(layer) \in Content \cup {Missing, Torn}
      BY <1>0, <2>1, ElementOfSeq DEF TypeOK, Held
    <3>2. Held(layer) # Torn
      BY <2>1 DEF IInv, DocumentOK, FilesAreWhole
    <3>. QED  BY <3>1, <3>2, <2>1
  <2>3. FreshnessOf(seen, Held(layer)) \in Freshnesses
    BY <1>0, <2>2, FreshnessFacts DEF TypeOK, FreshnessOf, NoVersion
  <2>4. next' \in PreparedReload
    BY <1>0, <1>16, <2>1, <2>2, <2>3 DEF TypeOK, ReadBytes, PreparedReload
  <2>. QED  BY <1>0, <1>16, <2>4, VersionAssumption DEF TypeOK, ReadBytes, PutDown, NoVersion
<1>17. CASE ReadFails
  <2>1. next' \in PreparedReload
    BY <1>0, <1>17 DEF TypeOK, ReadFails, PreparedReload
  <2>. QED  BY <1>0, <1>17, <2>1, VersionAssumption DEF TypeOK, ReadFails, PutDown, NoVersion
<1>18. CASE Commit
  <2>1. /\ content' \in [Layer -> Content \cup {Missing}]
        /\ fresh' \in [Layer -> Freshnesses]
    BY <1>0, <1>18 DEF TypeOK, Commit, PreparedReload
  <2>. QED  BY <1>0, <1>18, <2>1, NothingPrepared DEF TypeOK, Commit
<1>19. CASE Reject
  BY <1>0, <1>19, NothingPrepared DEF TypeOK, Reject
<1>. QED
  BY <1>1, <1>2, <1>3, <1>4, <1>5, <1>6, <1>7, <1>8, <1>9, <1>10, <1>11, <1>12, <1>13,
     <1>14, <1>15, <1>16, <1>17, <1>18, <1>19 DEF Next

-----------------------------------------------------------------------------
(* Every step keeps what a save has on disk.                               *)
LEMMA SaveKept == ASSUME IInv, Next  PROVE SaveOK'
<1>. USE DEF disk, document, hand, call
<1>0. TypeOK /\ SaveOK /\ Missing \notin Content
  BY ContentAssumption DEF IInv
<1>1. ASSUME NEW l \in Layer, NEW c \in Content \cup {Missing}, Outside(l, c)  PROVE SaveOK'
  <2>1. \A k \in Layer : /\ Len(file[k]) \in Nat /\ Len(file'[k]) \in Nat
                         /\ Len(file[k]) <= Len(file'[k])
                         /\ \A v \in 1 .. Len(file[k]) : file'[k][v] = file[k][v]
    BY <1>0, <1>1, FileGrows DEF Outside, TypeOK
  <2>2. /\ seen \in Int /\ at = "saved" => layer \in Layer
    BY <1>0 DEF TypeOK, SaveOK, Saving, Resident
  <2>. QED  BY <1>0, <1>1, <2>1, <2>2 DEF SaveOK, Saving, Outside, Resident
<1>2. CASE Crash
  BY <1>2 DEF SaveOK, Saving, Crash, Resident
<1>3. ASSUME NEW l \in Layer, NEW c \in Content, Edit(l, c)  PROVE SaveOK'
  BY <1>0, <1>3 DEF SaveOK, Saving, Edit, Resident, TypeOK
<1>4. ASSUME NEW S \in SUBSET Layer, StartSave(S)  PROVE SaveOK'
  BY <1>0, <1>4 DEF SaveOK, Saving, StartSave, Resident
<1>5. ASSUME NEW S \in SUBSET Layer, StartRead(S) \/ Release(S)  PROVE SaveOK'
  BY <1>0, <1>5 DEF SaveOK, Saving, StartRead, Release, Resident
<1>6. ASSUME NEW S \in SUBSET Layer, NEW policy, NEW forced \in BOOLEAN,
             StartReload(S, policy, forced)
      PROVE  SaveOK'
  BY <1>0, <1>6 DEF SaveOK, Saving, StartReload, Resident
<1>7. ASSUME NEW l \in Layer, TakeLayer(l)  PROVE SaveOK'
  BY <1>0, <1>7 DEF SaveOK, Saving, TakeLayer, Resident
<1>8. ASSUME NEW l \in Layer, Compare(l) \/ ReadVersion(l)  PROVE SaveOK'
  BY <1>0, <1>8 DEF SaveOK, Saving, Compare, ReadVersion, Resident
<1>9. ASSUME NEW n \in Name, CreateCandidate(n)  PROVE SaveOK'
  BY <1>0, <1>9 DEF SaveOK, Saving, CreateCandidate, Resident
<1>10. CASE WriteCandidate
  BY <1>0, <1>10 DEF SaveOK, Saving, WriteCandidate, Resident, TypeOK
<1>11. CASE Rename
  <2>1. layer \in Layer /\ name \in Name /\ beside[name] = content[layer]
        /\ beside[name] \in Content
    BY <1>0, <1>11 DEF TypeOK, Rename, SaveOK, Saving, Resident
  <2>2. /\ Len(file'[layer]) = Len(file[layer]) + 1
        /\ file'[layer][Len(file'[layer])] = beside[name]
    BY <1>0, <1>11, <2>1, FileGrows DEF Rename
  <2>3. /\ seen' = Len(file'[layer]) /\ seen' \in 1 .. Len(file'[layer])
        /\ file'[layer][seen'] = content'[layer']
    BY <1>0, <1>11, <2>1, <2>2 DEF Rename, TypeOK
  <2>. QED  BY <1>0, <1>11, <2>3 DEF SaveOK, Saving, Rename, Resident
<1>12. CASE RecordSaved
  BY <1>0, <1>12 DEF SaveOK, Saving, RecordSaved, PutDown, Resident
<1>13. CASE SaveFails
  BY <1>0, <1>13 DEF SaveOK, Saving, SaveFails, PutDown, Resident
<1>14. CASE EndSave
  BY <1>0, <1>14 DEF SaveOK, Saving, EndSave, Resident
<1>15. CASE Compared \/ ReadBytes \/ ReadFails \/ Reject
  BY <1>0, <1>15 DEF SaveOK, Saving, Compared, ReadBytes, ReadFails, Reject, PutDown, Resident
<1>16. CASE Commit
  <2>1. Resident \subseteq Resident'
    BY <1>0, <1>16 DEF Commit, Resident, Replaced
  <2>. QED  BY <1>0, <1>16, <2>1 DEF SaveOK, Saving, Commit
<1>. QED
  BY <1>1, <1>2, <1>3, <1>4, <1>5, <1>6, <1>7, <1>8, <1>9, <1>10, <1>11, <1>12, <1>13,
     <1>14, <1>15, <1>16 DEF Next

-----------------------------------------------------------------------------
(* A file written leaves true what the records of the document say.        *)
LEMMA RecordsSurviveWrite ==
    ASSUME TypeOK, DocumentOK, NEW k \in Layer, NEW c \in Content \cup {Missing},
           Len(file[k]) < MaxVersion, file' = [file EXCEPT ![k] = Append(@, c)],
           UNCHANGED <<content, dirty, fresh, raced>>
    PROVE  DocumentOK'
<1>1. /\ \A l \in Layer : /\ Len(file[l]) \in Nat /\ Len(file'[l]) \in Nat
                           /\ Len(file[l]) <= Len(file'[l])
                           /\ \A v \in 1 .. Len(file[l]) : file'[l][v] = file[l][v]
      /\ Len(file'[k]) = Len(file[k]) + 1 /\ file'[k][Len(file'[k])] = c
      /\ \A l \in Layer \ {k} : file'[l] = file[l]
  BY FileGrows DEF TypeOK
<1>2. \A l \in Layer : fresh[l] \in Freshnesses
  BY DEF TypeOK
<1>3. ASSUME NEW l \in Layer, fresh'[l].kind = "version"  PROVE fresh'[l].of <= Len(file'[l])
  <2>1. fresh[l].of \in Nat /\ fresh[l].of <= Len(file[l])
    BY <1>2, <1>3, FreshnessFacts DEF DocumentOK
  <2>. QED  BY <2>1, <1>1
<1>4. FilesAreWhole'
  BY <1>1, ContentAssumption DEF DocumentOK, FilesAreWhole, Held, Torn, Missing
<1>5. ASSUME NEW l \in Resident \ (dirty \cup raced)
      PROVE  /\ fresh[l] = Version(Len(file'[l])) => content[l] = Held(l)'
             /\ fresh[l].kind = "digest" => fresh[l] = Digest(content[l])
  <2>0. l \in Layer  BY DEF Resident
  <2>1. CASE l # k
    BY <2>0, <2>1, <1>1, <1>5 DEF DocumentOK, FreshMeansSame, Held
  <2>2. CASE l = k
    <3>1. fresh[k] # Version(Len(file'[k]))
      BY <1>1, <1>2, FreshnessFacts DEF DocumentOK
    <3>. QED  BY <2>2, <3>1, <1>5 DEF DocumentOK, FreshMeansSame
  <2>. QED  BY <2>1, <2>2
<1>6. ASSUME NEW l \in Resident \ dirty
      PROVE  \E v \in 1 .. Len(file'[l]) : file'[l][v] = content[l]
  <2>1. PICK v \in 1 .. Len(file[l]) : file[l][v] = content[l]
    BY <1>6 DEF DocumentOK, CleanMeansStored
  <2>2. l \in Layer  BY DEF Resident
  <2>. QED  BY <2>1, <2>2, <1>1
<1>. QED  BY <1>3, <1>4, <1>5, <1>6 DEF DocumentOK, FreshMeansSame, CleanMeansStored, Resident

LEMMA RecordsKept ==
    ASSUME DocumentOK, UNCHANGED <<file, document>>
    PROVE  DocumentOK'
BY DEF DocumentOK, FilesAreWhole, FreshMeansSame, CleanMeansStored, document, Held, Resident

LEMMA DocumentKept == ASSUME IInv, Next  PROVE DocumentOK'
<1>. USE DEF disk
<1>0. TypeOK /\ SaveOK /\ DocumentOK /\ ReloadOK
  BY DEF IInv
<1>1. ASSUME NEW l \in Layer, NEW c \in Content \cup {Missing}, Outside(l, c)  PROVE DocumentOK'
  BY <1>0, <1>1, RecordsSurviveWrite DEF Outside, document
<1>2. CASE Crash
  BY <1>0, <1>2, FreshnessFacts
     DEF Crash, DocumentOK, FilesAreWhole, FreshMeansSame, CleanMeansStored, Resident, Held
<1>3. ASSUME NEW l \in Layer, NEW c \in Content, Edit(l, c)  PROVE DocumentOK'
  BY <1>0, <1>3 DEF Edit, DocumentOK, FilesAreWhole, FreshMeansSame, CleanMeansStored,
                    Resident, Held, TypeOK
<1>4. CASE Rename
  <2>1. layer \in Layer /\ beside[name] \in Content
    BY <1>0, <1>4 DEF TypeOK, Rename, SaveOK, Saving, Resident
  <2>. QED  BY <1>0, <1>4, <2>1, RecordsSurviveWrite DEF Rename, document
<1>5. CASE RecordSaved
  <2>1. /\ layer \in Resident /\ layer \in Layer
        /\ seen \in 1 .. Len(file[layer]) /\ file[layer][seen] = content[layer]
    BY <1>0, <1>5 DEF RecordSaved, SaveOK, Saving, Resident
  <2>2. PICK v \in Reported(layer) :
            /\ fresh' = [fresh EXCEPT ![layer] = IF v = NoVersion THEN Unknown ELSE Version(v)]
            /\ raced' = IF v \in {NoVersion, seen} THEN raced \ {layer}
                                                   ELSE raced \cup {layer}
    BY <1>5 DEF RecordSaved
  <2>3. v \in {NoVersion, Len(file[layer])}
    BY <1>0, <2>1, ReportedVersions
  <2>4. /\ UNCHANGED <<file, content>> /\ dirty' = dirty \ {layer} /\ Resident' = Resident
        /\ \A l \in Layer \ {layer} : fresh'[l] = fresh[l] /\ (l \in raced' <=> l \in raced)
        /\ fresh'[layer] = IF v = NoVersion THEN Unknown ELSE Version(v)
    BY <1>0, <1>5, <2>1, <2>2 DEF RecordSaved, TypeOK, Resident
  <2>5. Len(file[layer]) \in Nat  BY <1>0, <2>1 DEF TypeOK
  <2>6. \A l \in Layer : fresh'[l].kind = "version" => fresh'[l].of <= Len(file'[l])
    BY <1>0, <2>3, <2>4, <2>5, FreshnessFacts DEF DocumentOK
  <2>7. ASSUME NEW l \in Resident \ (dirty' \cup raced')
        PROVE  /\ fresh'[l] = Version(Len(file[l])) => content[l] = Held(l)
               /\ fresh'[l].kind = "digest" => fresh'[l] = Digest(content[l])
    <3>1. CASE l # layer
      BY <2>4, <2>7, <3>1, <1>0 DEF DocumentOK, FreshMeansSame, Resident
    <3>2. CASE l = layer
      <4>1. v \in {NoVersion, seen}
        BY <2>2, <2>7, <3>2
      <4>2. CASE v = NoVersion
        BY <2>4, <3>2, <4>2, FreshnessFacts
      <4>3. CASE v # NoVersion
        BY <2>1, <2>3, <2>4, <3>2, <4>1, <4>3, FreshnessFacts DEF Held
      <4>. QED  BY <4>2, <4>3
    <3>. QED  BY <3>1, <3>2
  <2>8. \A l \in Resident \ dirty' : \E w \in 1 .. Len(file[l]) : file[l][w] = content[l]
    BY <2>1, <2>4, <1>0 DEF DocumentOK, CleanMeansStored
  <2>9. FilesAreWhole'
    BY <2>4, <1>0 DEF DocumentOK, FilesAreWhole, Held
  <2>. QED  BY <2>4, <2>6, <2>7, <2>8, <2>9 DEF DocumentOK, FreshMeansSame, CleanMeansStored, Held
<1>6. CASE Commit
  <2>1. /\ UNCHANGED file /\ dirty' = dirty \ Replaced
        /\ \A l \in Layer : /\ content'[l] = IF l \in Replaced THEN next.content[l] ELSE content[l]
                            /\ fresh'[l] = IF next.content[l] = Missing THEN fresh[l]
                                                                     ELSE next.fresh[l]
        /\ raced' = {l \in raced : next.content[l] = Missing}
    BY <1>6 DEF Commit
  <2>2. ASSUME NEW l \in Layer, next.content[l] # Missing
        PROVE  content'[l] = next.content[l] /\ l \notin dirty' /\ fresh'[l] = next.fresh[l] /\ ReadOK(l)
    <3>1. content'[l] = next.content[l] /\ l \notin dirty' /\ fresh'[l] = next.fresh[l]
      BY <2>1, <2>2 DEF Replaced
    <3>2. ReadOK(l)
      BY <1>0, <1>6, <2>2 DEF ReloadOK, Reading, Commit
    <3>. QED  BY <3>1, <3>2
  <2>3. ASSUME NEW l \in Layer, next.content[l] = Missing
        PROVE  /\ content'[l] = content[l] /\ (l \in dirty' <=> l \in dirty) /\ fresh'[l] = fresh[l]
               /\ l \in raced' <=> l \in raced
    BY <2>1, <2>3 DEF Replaced
  <2>4. \A l \in Layer : fresh'[l].kind = "version" => fresh'[l].of <= Len(file'[l])
    BY <1>0, <2>1, <2>2, <2>3 DEF DocumentOK, ReadOK
  <2>5. ASSUME NEW l \in Layer, content'[l] # Missing, l \notin dirty' \cup raced'
        PROVE  /\ fresh'[l] = Version(Len(file[l])) => content'[l] = Held(l)
               /\ fresh'[l].kind = "digest" => fresh'[l] = Digest(content'[l])
    BY <1>0, <2>2, <2>3, <2>5 DEF DocumentOK, FreshMeansSame, ReadOK, Resident
  <2>6. ASSUME NEW l \in Layer, content'[l] # Missing, l \notin dirty'
        PROVE  \E v \in 1 .. Len(file[l]) : file[l][v] = content'[l]
    BY <1>0, <2>2, <2>3, <2>6 DEF DocumentOK, CleanMeansStored, ReadOK, Resident
  <2>7. FilesAreWhole'
    BY <2>1, <1>0 DEF DocumentOK, FilesAreWhole, Held
  <2>. QED  BY <2>1, <2>4, <2>5, <2>6, <2>7
            DEF DocumentOK, FreshMeansSame, CleanMeansStored, Held, Resident
<1>7. ASSUME NEW S \in SUBSET Layer, Release(S)  PROVE DocumentOK'
  BY <1>0, <1>7 DEF Release, DocumentOK, FilesAreWhole, FreshMeansSame, CleanMeansStored,
                    Resident, Held
<1>8. ASSUME NEW S \in SUBSET Layer, StartSave(S) \/ StartRead(S)  PROVE DocumentOK'
  BY <1>0, <1>8, RecordsKept DEF StartSave, StartRead
<1>9. ASSUME NEW S \in SUBSET Layer, NEW policy, NEW forced \in BOOLEAN,
             StartReload(S, policy, forced)
      PROVE  DocumentOK'
  BY <1>0, <1>9, RecordsKept DEF StartReload
<1>10. ASSUME NEW l \in Layer, TakeLayer(l) \/ Compare(l) \/ ReadVersion(l)  PROVE DocumentOK'
  BY <1>0, <1>10, RecordsKept DEF TakeLayer, Compare, ReadVersion
<1>11. ASSUME NEW n \in Name, CreateCandidate(n)  PROVE DocumentOK'
  BY <1>0, <1>11, RecordsKept DEF CreateCandidate
<1>12. CASE WriteCandidate \/ SaveFails \/ EndSave \/ Compared \/ ReadBytes \/ ReadFails \/ Reject
  BY <1>0, <1>12, RecordsKept DEF WriteCandidate, SaveFails, EndSave, Compared, ReadBytes,
                                  ReadFails, Reject
<1>. QED
  BY <1>1, <1>2, <1>3, <1>4, <1>5, <1>6, <1>7, <1>8, <1>9, <1>10, <1>11, <1>12 DEF Next

-----------------------------------------------------------------------------
(* Every step keeps what a read or reload knows.                           *)

(* Another program's write: what was read and passed over was so before it.*)
LEMMA ReloadSurvivesWrite ==
    ASSUME IInv, NEW k \in Layer, NEW c \in Content \cup {Missing}, Outside(k, c)
    PROVE  ReloadOK'
<1>0. TypeOK /\ ReloadOK /\ UNCHANGED <<content, dirty, fresh, raced, at, todo, layer, seen, next>>
  BY DEF IInv, Outside, document, call, hand
<1>1. /\ \A l \in Layer : /\ Len(file[l]) \in Nat /\ Len(file'[l]) \in Nat
                           /\ Len(file[l]) <= Len(file'[l])
                           /\ \A v \in 1 .. Len(file[l]) : file'[l][v] = file[l][v]
      /\ Len(file'[k]) = Len(file[k]) + 1
      /\ \A l \in Layer \ {k} : file'[l] = file[l]
  BY <1>0, FileGrows DEF Outside, TypeOK
<1>2. /\ next \in PreparedReload /\ seen \in Nat
      /\ \A l \in Layer : next.fresh[l] \in Freshnesses /\ next.since[l] \in Nat
      /\ \A l \in next.selected : l \in Layer
  BY <1>0 DEF TypeOK, PreparedReload
<1>3. ASSUME NEW l \in Layer, ReadOK(l)  PROVE ReadOK(l)'
  <2>1. PICK v \in 1 .. Len(file[l]) :
            file[l][v] = next.content[l] /\ (l \in next.selected => v >= next.since[l])
    BY <1>3 DEF ReadOK
  <2>2. v \in 1 .. Len(file'[l]) /\ file'[l][v] = next.content[l]
    BY <1>1, <2>1
  <2>3. next.fresh[l].kind = "version" => next.fresh[l].of <= Len(file'[l])
    <3>1. next.fresh[l].kind = "version" => next.fresh[l].of \in Nat
      BY <1>2, FreshnessFacts
    <3>. QED  BY <1>1, <1>3, <3>1 DEF ReadOK
  <2>4. next.fresh[l] = Version(Len(file'[l])) => next.content[l] = Held(l)'
    <3>1. CASE l # k
      BY <1>1, <1>3, <3>1, <1>0 DEF ReadOK, Held
    <3>2. CASE l = k
      BY <1>1, <1>3, <3>2, FreshnessFacts DEF ReadOK
    <3>. QED  BY <3>1, <3>2
  <2>. QED  BY <1>0, <1>3, <2>1, <2>2, <2>3, <2>4 DEF ReadOK, Resident
<1>4. ASSUME NEW l \in next.selected, next.since[l] \in 1 .. Len(file[l]), PassedOver(l)
      PROVE  PassedOver(l)'
  <2>1. l \in Layer /\ next.since[l] \in Nat  BY <1>2, <1>4
  <2>. QED  BY <1>0, <1>1, <1>4, <2>1 DEF PassedOver
<1>5. at = "bytes" => seen <= Len(file'[layer])
  BY <1>0, <1>1, <1>2 DEF ReloadOK
<1>6. \A l \in next.selected : next.since[l] \in 1 .. Len(file[l]) => next.since[l] \in 1 .. Len(file'[l])
  BY <1>1, <1>2
<1>7. Pending' = Pending /\ Resident' = Resident
  BY <1>0 DEF Pending, Resident
<1>. QED  BY <1>0, <1>3, <1>4, <1>5, <1>6, <1>7 DEF ReloadOK

LEMMA ReadBegins == ASSUME IInv, NEW S \in SUBSET Layer, StartRead(S)  PROVE ReloadOK'
<1>1. /\ next = Nothing /\ UNCHANGED <<file, content, dirty, raced, next>>
      /\ at' = "stat" /\ todo' = S /\ S \cap Resident = {}
  BY DEF IInv, ReloadOK, Reading, StartRead, disk, document
<1>2. Pending' = S /\ Resident' = Resident
  BY <1>1 DEF Pending, Nothing, Resident
<1>. QED  BY <1>1, <1>2 DEF ReloadOK, Reading, Nothing

LEMMA ReloadBegins ==
    ASSUME IInv, NEW S \in SUBSET Layer, NEW policy, NEW forced \in BOOLEAN,
           StartReload(S, policy, forced), policy \in {"preserve", "discard"}
    PROVE  ReloadOK'
<1>1. /\ UNCHANGED <<file, content, dirty, raced>> /\ Resident' = Resident
      /\ at' = "compare" /\ todo' = S /\ S \subseteq Resident
  BY DEF StartReload, disk, document, Resident
<1>2. /\ next'.selected = S /\ next'.since = [l \in Layer |-> Len(file[l])]
      /\ next'.read = {} /\ next'.content = [l \in Layer |-> Missing]
      /\ S \cap dirty \subseteq next'.marked
      /\ next'.discards = IF policy = "discard" THEN S \cap dirty ELSE {}
  BY DEF StartReload, Nothing, Versions
<1>3. S \cap dirty \subseteq next'.discards
  BY <1>2 DEF StartReload, MayReload
<1>4. \A l \in S : next'.since[l] \in 1 .. Len(file[l])
  BY <1>2 DEF IInv, TypeOK
<1>5. Pending' = S
  BY <1>1, <1>2 DEF Pending
<1>. QED  BY <1>1, <1>2, <1>3, <1>4, <1>5 DEF ReloadOK, Reading

(* A layer passed over because its version is the recorded one.            *)
LEMMA ReloadCompares == ASSUME IInv, NEW k \in Layer, Compare(k)  PROVE ReloadOK'
<1>0. TypeOK /\ DocumentOK /\ ReloadOK  BY DEF IInv
<1>1. /\ at = "compare" /\ at' = "compare" /\ k \in todo /\ todo' = todo \ {k}
      /\ UNCHANGED <<file, content, dirty, fresh, raced>> /\ Resident' = Resident
  BY DEF Compare, disk, document, Resident
<1>2. /\ next'.selected = next.selected /\ next'.discards = next.discards
      /\ next'.content = next.content /\ next'.fresh = next.fresh /\ next'.since = next.since
      /\ \/ next'.marked = next.marked \cup {k} /\ next'.read = next.read \cup {k}
         \/ /\ next'.marked = next.marked /\ k \notin next.marked
            /\ \/ next'.read = next.read \cup {k}
               \/ next'.read = next.read /\ \E v \in Reported(k) : fresh[k] = Version(v)
  BY <1>0, CompareDecides
<1>3. Pending = todo \cup next.read /\ Pending' = (todo \ {k}) \cup next'.read
  BY <1>1 DEF Pending
<1>4. Pending' \subseteq Pending /\ Pending \subseteq Pending' \cup {k}
  BY <1>1, <1>2, <1>3
<1>5. \A l \in Layer : next.content[l] # Missing => ReadOK(l)'
  BY <1>0, <1>1, <1>2 DEF ReloadOK, Reading, ReadOK, Held
<1>6. ASSUME NEW l \in next.selected \ Pending'
      PROVE  next.content[l] # Missing \/ PassedOver(l)'
  <2>1. CASE l # k
    <3>1. next.content[l] # Missing \/ PassedOver(l)
      BY <1>0, <1>1, <1>4, <1>6, <2>1 DEF ReloadOK, Reading
    <3>. QED  BY <1>1, <1>2, <2>1, <3>1 DEF PassedOver
  <2>2. CASE l = k
    <3>1. k \notin next'.read
      BY <1>3, <1>6, <2>2
    <3>2. k \notin next.marked /\ next'.marked = next.marked
          /\ \E v \in Reported(k) : fresh[k] = Version(v)
      BY <1>2, <3>1
    <3>3. PICK v \in Reported(k) : fresh[k] = Version(v)
      BY <3>2
    <3>4. v = Len(file[k]) /\ v \in Nat
      BY <1>0, <3>3, ReportedVersions, FreshnessFacts DEF TypeOK, NoVersion
    <3>5. k \notin dirty /\ next.since[k] \in 1 .. Len(file[k])
      BY <1>0, <1>1, <1>6, <2>2, <3>2 DEF ReloadOK, Reading
    <3>6. k \in Resident
      BY <1>0, <1>1, <1>6, <2>2 DEF ReloadOK
    <3>7. k \in raced \/ content[k] = file[k][Len(file[k])]
      BY <1>0, <3>3, <3>4, <3>5, <3>6 DEF DocumentOK, FreshMeansSame, Held
    <3>8. k \in raced \/ \E w \in next.since[k] .. Len(file[k]) : file[k][w] = content[k]
      BY <3>4, <3>5, <3>7
    <3>. QED  BY <1>1, <1>2, <2>2, <3>2, <3>8 DEF PassedOver
  <2>. QED  BY <2>1, <2>2
<1>7. \A l \in Pending' : next'.content[l] = Missing /\ (l \in next'.selected \/ l \notin Resident')
  BY <1>0, <1>1, <1>2, <1>4 DEF ReloadOK, Reading
<1>. QED  BY <1>0, <1>1, <1>2, <1>5, <1>6, <1>7 DEF ReloadOK, Reading

LEMMA ReloadGoesOn ==
    ASSUME IInv, Compared \/ \E l \in Layer : ReadVersion(l)
    PROVE  ReloadOK'
<1>0. TypeOK /\ ReloadOK /\ UNCHANGED <<file, content, dirty, fresh, raced>>
      /\ Resident' = Resident
  BY DEF IInv, Compared, ReadVersion, disk, document, Resident
<1>1. CASE Compared
  <2>1. /\ next'.selected = next.selected /\ next'.discards = next.discards
        /\ next'.marked = next.marked /\ next'.read = {}
        /\ next'.content = next.content /\ next'.fresh = next.fresh /\ next'.since = next.since
        /\ at = "compare" /\ at' = "stat" /\ todo = {} /\ todo' = next.read
    BY <1>0, <1>1 DEF Compared, TypeOK, PreparedReload
  <2>2. Pending' = Pending
    BY <2>1 DEF Pending
  <2>3. \A l \in Layer : (ReadOK(l)' <=> ReadOK(l)) /\ (PassedOver(l)' <=> PassedOver(l))
    BY <1>0, <2>1 DEF ReadOK, PassedOver, Held
  <2>4. next.selected \subseteq Layer
    BY <1>0 DEF TypeOK, PreparedReload
  <2>. QED  BY <1>0, <2>1, <2>2, <2>3, <2>4 DEF ReloadOK, Reading
<1>2. ASSUME NEW k \in Layer, ReadVersion(k)  PROVE ReloadOK'
  <2>1. /\ at = "stat" /\ at' = "bytes" /\ k \in todo /\ todo' = todo \ {k} /\ layer' = k
        /\ next' = next /\ seen' \in Reported(k)
    BY <1>2 DEF ReadVersion
  <2>2. seen' <= Len(file'[k])
    BY <1>0, <2>1, ReportedVersions DEF TypeOK, NoVersion
  <2>3. Pending' = Pending
    BY <2>1 DEF Pending
  <2>4. \A l \in Layer : (ReadOK(l)' <=> ReadOK(l)) /\ (PassedOver(l)' <=> PassedOver(l))
    BY <1>0, <2>1 DEF ReadOK, PassedOver, Held
  <2>5. next.selected \subseteq Layer
    BY <1>0 DEF TypeOK, PreparedReload
  <2>. QED  BY <1>0, <2>1, <2>2, <2>3, <2>4, <2>5 DEF ReloadOK, Reading
<1>. QED  BY <1>1, <1>2

(* The layer in hand is no longer pending, and the others stay as they are.*)
LEMMA ReadEnds ==
    ASSUME IInv, NEW k \in Layer, k = layer, at = "bytes", at' = "stat",
           UNCHANGED <<file, content, dirty, fresh, raced, todo>>,
           next'.selected \subseteq next.selected, next.selected \subseteq next'.selected \cup {k},
           UNCHANGED <<next.discards, next.marked, next.read, next.since>>,
           \A l \in Layer \ {k} :
               next'.content[l] = next.content[l] /\ next'.fresh[l] = next.fresh[l],
           next'.content[k] # Missing => ReadOK(k)',
           k \in next'.selected => next'.content[k] # Missing \/ PassedOver(k)
    PROVE  ReloadOK'
<1>0. TypeOK /\ ReloadOK /\ Resident' = Resident
  BY DEF IInv, Resident
<1>1. /\ next.read = {} /\ next'.read = {} /\ k \notin todo
      /\ Pending = todo \cup {k} /\ Pending' = todo
  BY <1>0 DEF ReloadOK, Pending
<1>2. next.selected \subseteq Layer /\ todo \subseteq Layer
  BY <1>0 DEF TypeOK, PreparedReload
<1>3. ASSUME NEW l \in Layer, next'.content[l] # Missing  PROVE ReadOK(l)'
  <2>1. CASE l # k
    <3>1. ReadOK(l)
      BY <1>0, <1>3, <2>1 DEF ReloadOK, Reading
    <3>. QED  BY <1>0, <2>1, <3>1 DEF ReadOK, Held
  <2>2. CASE l = k
    BY <1>3, <2>2
  <2>. QED  BY <2>1, <2>2
<1>4. ASSUME NEW l \in next'.selected \ Pending'
      PROVE  next'.content[l] # Missing \/ PassedOver(l)'
  <2>1. PassedOver(l)' <=> PassedOver(l)
    BY DEF PassedOver
  <2>2. CASE l # k
    BY <1>0, <1>1, <1>2, <1>4, <2>1, <2>2 DEF ReloadOK, Reading
  <2>3. CASE l = k
    BY <1>4, <2>1, <2>3
  <2>. QED  BY <2>2, <2>3
<1>5. \A l \in Pending' : next'.content[l] = Missing /\ (l \in next'.selected \/ l \notin Resident')
  BY <1>0, <1>1, <1>2 DEF ReloadOK, Reading
<1>6. /\ next'.selected \cap dirty' \subseteq next'.discards \cap next'.marked
      /\ \A l \in next'.selected : next'.since[l] \in 1 .. Len(file'[l])
  BY <1>0 DEF ReloadOK, Reading
<1>. QED  BY <1>1, <1>3, <1>4, <1>5, <1>6 DEF ReloadOK, Reading

LEMMA BytesRead == ASSUME IInv, NEW k \in Layer, k = layer, ReadBytes  PROVE ReloadOK'
<1>0. /\ TypeOK /\ DocumentOK /\ ReloadOK /\ seen <= Len(file[k])
      /\ next \in PreparedReload /\ Len(file[k]) \in Nat /\ seen \in Nat
  BY DEF IInv, ReadBytes, ReloadOK, TypeOK
<1>1. /\ at = "bytes" /\ at' = "stat" /\ Held(k) # Missing
      /\ UNCHANGED <<file, content, dirty, fresh, raced, todo>>
  BY DEF ReadBytes, disk, document
<1>. DEFINE new == FreshnessOf(seen, Held(k))
            asItWas == /\ k \in Resident \ next.marked
                       /\ fresh[k].kind = "digest" /\ fresh[k] = new
<1>2. next' = IF asItWas THEN next
              ELSE [next EXCEPT !.content[k] = Held(k), !.fresh[k] = new]
  BY DEF ReadBytes
<1>3. k \in next.selected =>
        /\ next.since[k] \in 1 .. Len(file[k])
        /\ k \in dirty => k \in next.marked
  BY <1>0, <1>1 DEF ReloadOK, Reading
<1>4. k \in next.selected \/ k \notin Resident
  BY <1>0, <1>1 DEF ReloadOK, Reading, Pending
<1>5. new = IF seen = NoVersion THEN Digest(Held(k)) ELSE Version(seen)
  BY DEF FreshnessOf
<1>6. CASE asItWas
  <2>1. next' = next  BY <1>2, <1>6
  <2>2. next.content[k] = Missing
    BY <1>0, <1>1 DEF ReloadOK, Reading, Pending
  <2>3. ASSUME k \in next.selected  PROVE PassedOver(k)
    <3>1. fresh[k] = Digest(Held(k))
      BY <1>5, <1>6, FreshnessFacts
    <3>2. k \in raced \/ fresh[k] = Digest(content[k])
      BY <1>0, <1>3, <1>6, <2>3 DEF DocumentOK, FreshMeansSame
    <3>3. k \in raced \/ content[k] = Held(k)
      BY <3>1, <3>2, FreshnessFacts
    <3>. QED  BY <1>0, <1>3, <1>6, <2>3, <3>3 DEF PassedOver, Held
  <2>. QED  BY <1>0, <1>1, <2>1, <2>2, <2>3, ReadEnds DEF IInv
<1>7. CASE ~asItWas
  <2>0. next' = [next EXCEPT !.content[k] = Held(k), !.fresh[k] = new]
    BY <1>2, <1>7
  <2>. HIDE DEF new, asItWas
  <2>1. /\ next'.selected = next.selected /\ next'.discards = next.discards
        /\ next'.marked = next.marked /\ next'.read = next.read /\ next'.since = next.since
        /\ next'.content[k] = Held(k) /\ next'.fresh[k] = new
        /\ \A l \in Layer \ {k} :
               next'.content[l] = next.content[l] /\ next'.fresh[l] = next.fresh[l]
    BY <1>0, <2>0 DEF PreparedReload
  <2>2. /\ new.kind = "version" => new.of <= Len(file[k])
        /\ new.kind = "digest" => new = Digest(Held(k))
    BY <1>0, <1>5, FreshnessFacts
  <2>3. /\ Len(file[k]) \in 1 .. Len(file[k])
        /\ k \in next.selected => Len(file[k]) >= next.since[k]
    BY <1>0, <1>3 DEF TypeOK
  <2>4. ReadOK(k)'
    BY <1>0, <1>1, <1>4, <2>1, <2>2, <2>3 DEF ReadOK, Held, Resident, PutDown, ReadBytes
  <2>. QED  BY <1>0, <1>1, <2>1, <2>4, ReadEnds DEF IInv
<1>. QED  BY <1>6, <1>7

LEMMA BytesUnread == ASSUME IInv, NEW k \in Layer, k = layer, ReadFails  PROVE ReloadOK'
<1>0. ReloadOK /\ next \in PreparedReload
  BY DEF IInv, TypeOK
<1>1. /\ at = "bytes" /\ at' = "stat" /\ UNCHANGED <<file, content, dirty, fresh, raced, todo>>
  BY DEF ReadFails, disk, document
<1>2. /\ next'.selected = next.selected \ {k} /\ next'.discards = next.discards
      /\ next'.marked = next.marked /\ next'.read = next.read /\ next'.since = next.since
      /\ next'.content = next.content /\ next'.fresh = next.fresh
  BY <1>0 DEF ReadFails, PreparedReload
<1>3. next'.content[k] = Missing
  BY <1>0, <1>1, <1>2 DEF ReloadOK, Reading, Pending
<1>. QED  BY <1>1, <1>2, <1>3, ReadEnds

LEMMA NothingUnderWay ==
    ASSUME at' \notin Reading, next' = Nothing
    PROVE  ReloadOK'
BY DEF ReloadOK, Reading

LEMMA ReloadKept == ASSUME IInv, Next  PROVE ReloadOK'
<1>0. ReloadOK  BY DEF IInv
<1>1. ASSUME NEW l \in Layer, NEW c \in Content \cup {Missing}, Outside(l, c)  PROVE ReloadOK'
  BY <1>1, ReloadSurvivesWrite
<1>2. CASE Crash \/ Commit \/ Reject
  BY <1>2, NothingUnderWay DEF Crash, Commit, Reject, Reading
<1>3. ASSUME NEW l \in Layer, NEW c \in Content, Edit(l, c)  PROVE ReloadOK'
  BY <1>0, <1>3, NothingUnderWay DEF Edit, ReloadOK, Reading, call
<1>4. ASSUME NEW S \in SUBSET Layer, StartSave(S) \/ Release(S)  PROVE ReloadOK'
  BY <1>0, <1>4, NothingUnderWay DEF StartSave, Release, ReloadOK, Reading, call
<1>5. ASSUME NEW S \in SUBSET Layer, StartRead(S)  PROVE ReloadOK'
  BY <1>5, ReadBegins
<1>6. ASSUME NEW S \in SUBSET Layer, NEW policy \in {"preserve", "discard"}, NEW forced \in BOOLEAN,
             StartReload(S, policy, forced)
      PROVE  ReloadOK'
  BY <1>6, ReloadBegins
<1>7. ASSUME NEW l \in Layer, TakeLayer(l)  PROVE ReloadOK'
  BY <1>0, <1>7, NothingUnderWay DEF TakeLayer, ReloadOK, Reading
<1>8. ASSUME NEW l \in Layer, Compare(l)  PROVE ReloadOK'
  BY <1>8, ReloadCompares
<1>9. CASE Compared \/ \E l \in Layer : ReadVersion(l)
  BY <1>9, ReloadGoesOn
<1>10. ASSUME NEW n \in Name, CreateCandidate(n)  PROVE ReloadOK'
  BY <1>0, <1>10, NothingUnderWay DEF CreateCandidate, ReloadOK, Reading
<1>11. CASE WriteCandidate \/ Rename \/ RecordSaved \/ SaveFails \/ EndSave
  BY <1>0, <1>11, NothingUnderWay
     DEF WriteCandidate, Rename, RecordSaved, SaveFails, EndSave, ReloadOK, Reading
<1>12. CASE ReadBytes \/ ReadFails
  BY <1>0, <1>12, BytesRead, BytesUnread DEF ReadBytes, ReadFails, ReloadOK
<1>. QED
  BY <1>1, <1>2, <1>3, <1>4, <1>5, <1>6, <1>7, <1>8, <1>9, <1>10, <1>11, <1>12 DEF Next

-----------------------------------------------------------------------------
LEMMA InitIInv == Init => IInv
<1>. SUFFICES ASSUME Init  PROVE IInv
  OBVIOUS
<1>1. ASSUME NEW l \in Layer
      PROVE  /\ file[l] \in Seq(Content \cup {Missing, Torn}) /\ Len(file[l]) = 1
             /\ Held(l) \in Content
  <2>1. PICK c \in Content : file[l] = <<c>>
    BY <1>1 DEF Init
  <2>. QED  BY <2>1 DEF Held
<1>2. file \in [Layer -> Seq(Content \cup {Missing, Torn})]
  <2>1. file = [l \in Layer |-> file[l]]  BY DEF Init
  <2>. QED  BY <1>1, <2>1
<1>3. TypeOK
  <2>1. \A l \in Layer : Len(file[l]) \in 1 .. MaxVersion
    <3>1. 1 \in 1 .. MaxVersion  BY VersionAssumption
    <3>. QED  BY <1>1, <3>1, Zenon
  <2>2. /\ beside \in [Name -> Content \cup {Missing, Torn}]
        /\ content \in [Layer -> Content \cup {Missing}]
        /\ fresh \in [Layer -> Freshnesses]
    BY FreshnessFacts DEF Init
  <2>3. seen \in 0 .. MaxVersion
    BY VersionAssumption DEF Init, NoVersion
  <2>. QED  BY <1>2, <2>1, <2>2, <2>3, NothingPrepared DEF Init, TypeOK
<1>4. SaveOK
  BY DEF Init, SaveOK, Saving
<1>5. Resident = {} /\ \A l \in Layer : fresh[l] = Unknown
  BY DEF Init, Resident
<1>6. DocumentOK
  BY <1>1, <1>5, FreshnessFacts, ContentAssumption
     DEF DocumentOK, FilesAreWhole, FreshMeansSame, CleanMeansStored
<1>7. ReloadOK
  BY DEF Init, ReloadOK, Reading
<1>. QED  BY <1>3, <1>4, <1>6, <1>7 DEF IInv

LEMMA NextIInv == IInv /\ [Next]_vars => IInv'
<1>1. ASSUME IInv, Next  PROVE IInv'
  BY <1>1, TypesKept, SaveKept, DocumentKept, ReloadKept DEF IInv
<1>2. ASSUME IInv, UNCHANGED vars  PROVE IInv'
  <2>1. /\ UNCHANGED <<file, beside, content, dirty, fresh, raced, at, todo, layer, seen, name, next>>
    BY <1>2 DEF vars, disk, document, hand, call
  <2>2. TypeOK' /\ SaveOK'
    BY <1>2, <2>1 DEF IInv, TypeOK, SaveOK, Resident
  <2>3. DocumentOK'
    BY <1>2, <2>1, RecordsKept DEF IInv, document
  <2>4. ReloadOK'
    BY <1>2, <2>1 DEF IInv, ReloadOK, ReadOK, PassedOver, Pending, Resident, Held
  <2>. QED  BY <2>2, <2>3, <2>4 DEF IInv
<1>. QED  BY <1>1, <1>2

(* The invariant holds throughout.                                         *)
THEOREM Invariance == Spec => []IInv
BY InitIInv, NextIInv, PTL DEF Spec

(* The types of the state hold throughout (Documents).                     *)
THEOREM DocumentTypes == Spec => []TypeOK
<1>1. IInv => TypeOK  BY DEF IInv
<1>. QED  BY <1>1, Invariance, PTL

(* No file ever holds part of what a save writes (atomic_write), whatever  *)
(* fails and wherever the process dies.                                    *)
THEOREM FilesStayWhole == Spec => []FilesAreWhole
<1>1. IInv => FilesAreWhole  BY DEF IInv, DocumentOK
<1>. QED  BY <1>1, Invariance, PTL

(* The next reload passes over no clean layer that differs from its file,  *)
(* but for the race of a save (reload.rs, save_layers).                    *)
THEOREM FreshnessIsTrue == Spec => []FreshMeansSame
<1>1. IInv => FreshMeansSame  BY DEF IInv, DocumentOK
<1>. QED  BY <1>1, Invariance, PTL

(* What a clean layer holds, its file held (save_layers, reload commit).   *)
THEOREM CleanIsStored == Spec => []CleanMeansStored
<1>1. IInv => CleanMeansStored  BY DEF IInv, DocumentOK
<1>. QED  BY <1>1, Invariance, PTL

-----------------------------------------------------------------------------
(* What one step does with a layer that has unsaved edits.                 *)
LEMMA StepKeepsEdits ==
    ASSUME IInv, Next, NEW l \in dirty
    PROVE  \/ content'[l] = content[l] /\ l \in dirty'
           \/ \E c \in Content : Edit(l, c)
           \/ at = "saved" /\ layer = l /\ content'[l] = file[l][seen]
           \/ Commit /\ l \in next.discards
           \/ Crash
<1>0. TypeOK /\ SaveOK /\ ReloadOK /\ l \in Layer
  BY DEF IInv, SaveOK, Resident
<1>1. ASSUME NEW k \in Layer, NEW c \in Content, Edit(k, c), k # l
      PROVE  content'[l] = content[l] /\ l \in dirty'
  BY <1>0, <1>1 DEF Edit, TypeOK
<1>2. CASE RecordSaved
  BY <1>0, <1>2 DEF RecordSaved, SaveOK, Saving
<1>3. CASE Commit
  <2>1. CASE next.content[l] = Missing
    BY <1>0, <1>3, <2>1 DEF Commit, Replaced
  <2>2. CASE next.content[l] # Missing
    <3>1. l \in next.selected /\ l \in Resident
      BY <1>0, <1>3, <2>2 DEF ReloadOK, ReadOK, Reading, Commit, SaveOK
    <3>. QED  BY <1>0, <1>3, <3>1 DEF ReloadOK, Reading, Commit
  <2>. QED  BY <2>1, <2>2
<1>4. ASSUME NEW S \in SUBSET Layer, Release(S)  PROVE content'[l] = content[l] /\ l \in dirty'
  BY <1>0, <1>4 DEF Release
<1>5. CASE UNCHANGED document
  BY <1>5 DEF document
<1>. QED
  BY <1>1, <1>2, <1>3, <1>4, <1>5
     DEF Next, Outside, StartSave, StartRead, StartReload, TakeLayer, Compare, ReadVersion,
         CreateCandidate, WriteCandidate, Rename, SaveFails, EndSave, Compared, ReadBytes,
         ReadFails, Reject

(* Unsaved edits go only into their file or at the host's word             *)
(* (save_layers, PreparedReload::commit, release_unused_layers).           *)
THEOREM EditsStay == Spec => EditsAreKept
<1>1. ASSUME IInv, [Next]_vars
      PROVE  [\A l \in dirty :
                \/ content'[l] = content[l] /\ l \in dirty'
                \/ \E c \in Content : Edit(l, c)
                \/ at = "saved" /\ layer = l /\ content'[l] = file[l][seen]
                \/ Commit /\ l \in next.discards
                \/ Crash]_vars
  <2>1. CASE Next  BY <1>1, <2>1, StepKeepsEdits
  <2>2. CASE UNCHANGED vars  BY <2>2
  <2>. QED  BY <1>1, <2>1, <2>2
<1>. QED  BY <1>1, Invariance, PTL DEF Spec, EditsAreKept

(* A committed reload left each layer it could read clean and current.     *)
LEMMA CommitIsCurrent ==
    ASSUME IInv, Commit, NEW l \in next.selected \ raced
    PROVE  /\ l \notin dirty'
           /\ \E v \in next.since[l] .. Len(file[l]) : file[l][v] = content'[l]
<1>0. /\ TypeOK /\ ReloadOK /\ l \in Layer /\ at = "stat" /\ todo = {}
  BY DEF IInv, Commit, TypeOK, PreparedReload
<1>1. Pending = {}
  BY <1>0 DEF ReloadOK, Pending
<1>2. next.since[l] \in 1 .. Len(file[l]) /\ (l \in dirty => l \in next.marked)
  BY <1>0 DEF ReloadOK, Reading
<1>3. content'[l] = IF l \in Replaced THEN next.content[l] ELSE content[l]
  BY <1>0 DEF Commit
<1>4. CASE next.content[l] # Missing
  <2>1. l \notin dirty' /\ content'[l] = next.content[l]
    BY <1>0, <1>3, <1>4 DEF Commit, Replaced
  <2>2. ReadOK(l)
    BY <1>0, <1>4 DEF ReloadOK, Reading
  <2>. QED  BY <1>2, <2>1, <2>2 DEF ReadOK
<1>5. CASE next.content[l] = Missing
  <2>1. PassedOver(l)
    BY <1>0, <1>1, <1>5 DEF ReloadOK, Reading
  <2>2. l \notin Replaced
    BY <1>5 DEF Replaced
  <2>. QED  BY <1>2, <1>3, <2>1, <2>2 DEF PassedOver, Commit
<1>. QED  BY <1>4, <1>5

(* A reload publishes what the files held since it began                   *)
(* (prepare_reload_internal and commit).                                   *)
THEOREM ReloadsAreCurrent == Spec => ReloadIsCurrent
<1>1. ASSUME IInv
      PROVE  Commit => \A l \in next.selected \ raced :
                /\ l \notin dirty'
                /\ \E v \in next.since[l] .. Len(file[l]) : file[l][v] = content'[l]
  BY <1>1, CommitIsCurrent
<1>. QED  BY <1>1, Invariance, PTL DEF ReloadIsCurrent
=============================================================================
