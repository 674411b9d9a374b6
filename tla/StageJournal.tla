---------------------------- MODULE StageJournal ----------------------------
(***************************************************************************)
(* Composed change notices of one live stage: the Journal of               *)
(* layerstack/src/live_stage/notices.rs over a ChangeHistory.              *)
(*                                                                         *)
(* Observers hold cursors and pull what they have not read; subscribers    *)
(* hold a token of a callback and are told of every report as it is        *)
(* published.  What a report says is left out: a report is known by the    *)
(* revision it was published at.                                           *)
(***************************************************************************)
EXTENDS ChangeHistory

CONSTANTS
    Observers,      \* who may hold a cursor
    Subscribers,    \* who may hold a subscription
    Sizes,          \* the retained bytes a report may take
    Budgets,        \* the budgets a host may set, the first one among them
    InitialBudget,
    MaxRevision,    \* bound on the reports published
    MaxTokens       \* bound on the subscriptions made

ASSUME SizesAssumption == Sizes \subseteq Nat
ASSUME BudgetsAssumption == /\ Budgets \subseteq [batches : Nat, bytes : Nat]
                            /\ InitialBudget \in Budgets
ASSUME BoundsAssumption == MaxRevision \in Nat /\ MaxTokens \in Nat

VARIABLES
    revision, enabled, reports, callbacks, nextSubscription,  \* the Journal
    cursor,      \* each observer's ChangeCursor, or NoCursor
    token,       \* each subscriber's ChangeSubscription id, or NoToken
    heard        \* what each subscriber's callback was called with

vars == <<revision, enabled, reports, callbacks, nextSubscription,
          cursor, token, heard>>

(* A cursor names the stage it was made by: this one, or another. *)
NoCursor == [stage |-> "none", revision |-> 0]
NoToken == -1

Init ==
    /\ revision = 0
    /\ enabled = FALSE
    /\ reports = EmptyHistory(InitialBudget)
    /\ callbacks = <<>>
    /\ nextSubscription = 0
    /\ cursor = [o \in Observers |-> NoCursor]
    /\ token = [s \in Subscribers |-> NoToken]
    /\ heard = [s \in Subscribers |-> [since |-> 0, revisions |-> <<>>]]

(* Journal::cursor.  The first cursor starts the retention of reports. *)
TakeCursor(o) ==
    /\ cursor' = [cursor EXCEPT ![o] = [stage |-> "this", revision |-> revision]]
    /\ enabled' = TRUE
    /\ UNCHANGED <<revision, reports, callbacks, nextSubscription, token, heard>>

(* ChangeCursor is Clone: an observer hands a copy of its position to another. *)
CloneCursor(o, other) ==
    /\ cursor[o] # NoCursor
    /\ cursor' = [cursor EXCEPT ![other] = cursor[o]]
    /\ UNCHANGED <<revision, enabled, reports, callbacks, nextSubscription, token, heard>>

(* An observer of another stage, at any revision of it. *)
TakeForeignCursor(o) ==
    \E r \in 0..MaxRevision :
        /\ cursor' = [cursor EXCEPT ![o] = [stage |-> "other", revision |-> r]]
        /\ UNCHANGED <<revision, enabled, reports, callbacks, nextSubscription, token, heard>>

LastRetained(n) ==
    LET kept == Len(reports.entries)
        skip == IF kept > n THEN kept - n ELSE 0
    IN  [i \in 1..(kept - skip) |-> reports.entries[skip + i].rev]

\* Mutant: a cursor at the floor is taken for one below it.
MutantReply(c) ==
    IF c.stage # "this" THEN [outcome |-> "DifferentStage"]
    ELSE IF c.revision <= reports.floor THEN [outcome |-> "Expired"]
    ELSE [outcome |-> "Changes", changes |-> LastRetained(revision - c.revision)]

(* Journal::read: the unread reports are the last ones retained. *)
Reply(c) ==
    IF c.stage # "this" THEN [outcome |-> "DifferentStage"]
    ELSE IF c.revision < reports.floor THEN [outcome |-> "Expired"]
    ELSE [outcome |-> "Changes", changes |-> LastRetained(revision - c.revision)]

(* Reading moves the cursor to the present even when its evidence is gone. *)
Read(o) ==
    /\ cursor[o].stage = "this"
    /\ cursor' = [cursor EXCEPT ![o].revision = revision]
    /\ UNCHANGED <<revision, enabled, reports, callbacks, nextSubscription, token, heard>>

\* Mutant: callbacks are only called while reports are retained for cursors.
MutantCalled(s) == enabled /\ \E i \in DOMAIN callbacks : callbacks[i].subscriber = s

(* The subscribers whose callback is called with a report. *)
Called(s) == \E i \in DOMAIN callbacks : callbacks[i].subscriber = s

(* Journal::publish of a report that says something. *)
Publish(bytes, estimated) ==
    /\ revision < MaxRevision
    /\ revision' = revision + 1
    /\ reports' = IF enabled
                  THEN RecordWith(reports, estimated,
                                  [rev |-> revision', bytes |-> bytes])
                  ELSE reports
    /\ heard' = [s \in Subscribers |->
                    IF Called(s) THEN [heard[s] EXCEPT !.revisions = Append(@, revision')]
                    ELSE heard[s]]
    /\ UNCHANGED <<enabled, callbacks, nextSubscription, cursor, token>>

(* The size is estimated before the report is copied; the copy may take as  *)
(* much or more.                                                            *)
PublishSome ==
    \E bytes, estimated \in Sizes : estimated <= bytes /\ Publish(bytes, estimated)

ChangeBudget ==
    \E budget \in Budgets :
        /\ reports' = SetBudget(reports, budget)
        /\ UNCHANGED <<revision, enabled, callbacks, nextSubscription, cursor, token, heard>>

\* Mutant: the next free position serves as the id.
MutantNewId == Len(callbacks)

NewId == nextSubscription

(* Journal::subscribe.  A subscriber that has a token keeps it. *)
Subscribe(s) ==
    /\ token[s] = NoToken
    /\ nextSubscription < MaxTokens
    /\ nextSubscription' = nextSubscription + 1
    /\ callbacks' = Append(callbacks, [id |-> NewId, subscriber |-> s])
    /\ token' = [token EXCEPT ![s] = NewId]
    /\ heard' = [heard EXCEPT ![s] = [since |-> revision, revisions |-> <<>>]]
    /\ UNCHANGED <<revision, enabled, reports, cursor>>

(* Journal::unsubscribe: the first callback with the token's id goes, if    *)
(* there still is one.  A token outlives its callback (`drop` false), so it *)
(* may be used again.                                                       *)
Unsubscribe(s) ==
    \E drop \in BOOLEAN :
        /\ token[s] # NoToken
        /\ callbacks' = RemoveFirstMatch(callbacks, LAMBDA c : c.id = token[s])
        /\ token' = IF drop THEN [token EXCEPT ![s] = NoToken] ELSE token
        /\ UNCHANGED <<revision, enabled, reports, nextSubscription, cursor, heard>>

Next ==
    \/ \E o \in Observers : TakeCursor(o) \/ TakeForeignCursor(o) \/ Read(o)
    \/ \E o, other \in Observers : CloneCursor(o, other)
    \/ PublishSome
    \/ ChangeBudget
    \/ \E s \in Subscribers : Subscribe(s) \/ Unsubscribe(s)

Spec == Init /\ [][Next]_vars

-----------------------------------------------------------------------------

TypeOK ==
    /\ revision \in Nat
    /\ enabled \in BOOLEAN
    /\ reports \in [entries : Seq([rev : Nat, bytes : Nat]),
                    budget : Budgets, floor : Nat]
    /\ callbacks \in Seq([id : Nat, subscriber : Subscribers])
    /\ nextSubscription \in Nat
    /\ cursor \in [Observers -> [stage : {"none", "this", "other"}, revision : Nat]]
    /\ token \in [Subscribers -> Nat \cup {NoToken}]
    /\ heard \in [Subscribers -> [since : Nat, revisions : Seq(Nat)]]

(* What a read answers with changes is every report published since the    *)
(* cursor's revision, in order and each once: evictions, budgets changed    *)
(* between reads, batches too large to keep and the reports published       *)
(* before the first cursor never leave a gap a reader could not see.        *)
RepliesComplete ==
    \A o \in Observers :
        LET reply == Reply(cursor[o])
        IN  reply.outcome = "Changes" =>
                reply.changes = [i \in 1..(revision - cursor[o].revision) |->
                                    cursor[o].revision + i]

(* A reader is only told to rebuild when a report it has not read is really *)
(* gone: expiry is never a false alarm.                                     *)
ExpiryMeansLoss ==
    \A o \in Observers :
        Reply(cursor[o]).outcome = "Expired" =>
            \E r \in (cursor[o].revision + 1)..revision :
                \A i \in DOMAIN reports.entries : reports.entries[i].rev # r

(* A callback that is still registered has been called once for each        *)
(* report since it was registered, in order; registering or removing others *)
(* in between makes no difference.                                          *)
SubscribersHearEveryReport ==
    \A s \in Subscribers :
        (\E i \in DOMAIN callbacks : callbacks[i].subscriber = s) =>
            heard[s].revisions = [i \in 1..(revision - heard[s].since) |-> heard[s].since + i]

(* A token, even one used before and kept, only ever removes the callback   *)
(* it was returned for: ids are not reused after an unsubscription.         *)
TokensNameTheirCallback ==
    \A s \in Subscribers, i \in DOMAIN callbacks :
        callbacks[i].id = token[s] => callbacks[i].subscriber = s

(* Evidence once gone stays gone: the floor never falls, so a cursor that   *)
(* would be told Expired is told so until it reads.                         *)
ExpiryIsForGood ==
    [][\A o \in Observers :
        (Reply(cursor[o]).outcome = "Expired" /\ cursor' = cursor)
            => Reply(cursor[o])'.outcome = "Expired"]_vars
=============================================================================
