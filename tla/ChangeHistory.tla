--------------------------- MODULE ChangeHistory ---------------------------
(***************************************************************************)
(* Retained change evidence: History<T> of                                 *)
(* layerstack/src/change_history.rs, the bounded queue under both a        *)
(* layer's authored evidence and a live stage's composed evidence.         *)
(*                                                                         *)
(* A history is a record [entries, budget, floor].  An entry is a batch    *)
(* with its revision `rev` and its size `bytes`; what else it carries is   *)
(* its owner's business.  `retained_bytes` is not a second variable but    *)
(* what it counts, the bytes of the entries: the code keeps the two equal  *)
(* by adding on push and subtracting on evict.                             *)
(***************************************************************************)
EXTENDS Integers, Sequences, SequencesExt

Bytes(entries) == FoldLeft(LAMBDA sum, e : sum + e.bytes, 0, entries)

(* The eviction loops pop from the front while a limit is exceeded, so what *)
(* they leave is the longest suffix within both limits.                     *)
Within(entries, batches, bytes) == Len(entries) <= batches /\ Bytes(entries) <= bytes

Newest(entries, batches, bytes) ==
    CHOOSE s \in Suffixes(entries) :
        /\ Within(s, batches, bytes)
        /\ \A t \in Suffixes(entries) : Within(t, batches, bytes) => Len(t) <= Len(s)

Larger(m, n) == IF m >= n THEN m ELSE n

(* Evicting the entries in front of `kept` raises the floor to the revision *)
(* of the last of them.                                                     *)
EvictDownTo(h, kept) ==
    LET evicted == Len(h.entries) - Len(kept)
    IN  [h EXCEPT !.entries = kept,
                  !.floor = IF evicted = 0 THEN @ ELSE Larger(@, h.entries[evicted].rev)]

\* Mutant: the floor starts below the first revision.
MutantEmptyHistory(budget) == [entries |-> <<>>, budget |-> budget, floor |-> -1]

EmptyHistory(budget) == [entries |-> <<>>, budget |-> budget, floor |-> 0]

Trim(h) == EvictDownTo(h, Newest(h.entries, h.budget.batches, h.budget.bytes))

\* Mutant: the history is started anew under the new budget.
MutantSetBudgetStartsAnew(h, budget) == EmptyHistory(budget)

SetBudget(h, budget) == Trim([h EXCEPT !.budget = budget])

Clear(h) == EvictDownTo(h, <<>>)

\* Mutant: the batch that was not retained is not counted as lost.
MutantDiscard(h, rev) == Clear(h)

(* A batch that cannot be retained: no reader may skip it, so all evidence  *)
(* before it is unusable too.                                               *)
Discard(h, rev) == [Clear(h) EXCEPT !.floor = Larger(@, rev)]

TooLarge(h, bytes) == h.budget.batches = 0 \/ bytes > h.budget.bytes

(* Room is made before the entry is added. *)
Record(h, entry) ==
    IF TooLarge(h, entry.bytes)
    THEN Discard(h, entry.rev)
    ELSE LET room == EvictDownTo(h, Newest(h.entries, h.budget.batches - 1,
                                           h.budget.bytes - entry.bytes))
         IN  [room EXCEPT !.entries = Append(@, entry)]

(* The batch is only built when its estimated size could be retained; the   *)
(* built one is measured again.                                             *)
RecordWith(h, estimated, entry) ==
    IF TooLarge(h, estimated) THEN Discard(h, entry.rev) ELSE Record(h, entry)

=============================================================================
