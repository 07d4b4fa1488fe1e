----------------------------- MODULE DraftSession -----------------------------
(***************************************************************************)
(* The commissioners' write path: apps/api/src/draft-session.ts.           *)
(*                                                                         *)
(* A request carries an idempotency key and the sequence its author had on *)
(* screen.  A handler reads the whole session without a lock (getSession), *)
(* decides against that snapshot, and hands a batch of events to a         *)
(* transaction that locks the draft, re-checks what may have changed, and  *)
(* appends.  Requests are retried after lost answers, may run twice at the *)
(* same time, and the API may stop between the two steps.                  *)
(*                                                                         *)
(* An idempotency key belongs to one request, as the web client uses it    *)
(* (randomMutationKey); a correction also uses "<key>:replacement".        *)
(***************************************************************************)
EXTENDS DraftReducer

CONSTANTS
  Keys,       \* idempotency keys
  Handlers,   \* requests the API processes can run at the same time
  Actions,    \* the actions a commissioner may enter
  NoRequest,  \* a key nobody has used yet
  MaxLog      \* bound: no request is composed on a longer log

ASSUME SessionAssumption ==
  /\ MaxLog \in Nat
  /\ Actions \subseteq [type : SnakeTypes \union AuctionTypes, team : Teams,
                       player : Players, number : Nat]
  /\ NoRequest \notin Keys

VARIABLES
  log,         \* draft_events, in order of sequence
  draftState,  \* drafts.state
  authority,   \* what the league says of the actor: see Authorities
  request,     \* request[k]: the request sent under key k
  handler,     \* handler[h]: an API request in flight
  answered     \* answered[k]: every answer the author of k received (history)

vars == <<log, draftState, authority, request, handler, answered>>

-----------------------------------------------------------------------------
(***************************************************************************)
(* Requests and the events they ask for.                                   *)
(***************************************************************************)

Appends == [kind : {"append"}, expected : Nat, action : Actions]
\* targetSequence is optional in an undo; 0 stands for "the latest".
Undos == [kind : {"undo"}, expected : Nat, target : Nat]
Corrections == [kind : {"correct"}, expected : Nat, target : Nat, action : Actions]

Requests == Appends \union Undos \union Corrections

Authorities == {"commissioner", "member", "archived"}

\* draftEventIdFor("manual", draft, idempotency key)
EventId(k, part) == [key |-> k, part |-> part]

ActionEvent(id, a) ==
  [id |-> id, type |-> a.type, team |-> a.team, player |-> a.player, number |-> a.number]

RevertEvent(id, target) ==
  [id |-> id, type |-> "DRAFT_EVENT_REVERTED", target |-> target]

\* The sequence an undo or a correction points at, in a session.
TargetOf(r, session) ==
  IF r.kind = "undo" /\ r.target = 0 THEN LatestUndoable(session) ELSE r.target

\* Faulty: an action may be undone again.
AnyActionTarget(session, sequence) ==
  sequence \in DOMAIN session /\ ~IsRevert(session[sequence])

\* activeCorrectionTarget: an action that still counts, never a revert.
ActiveTarget(session, sequence) ==
  /\ sequence \in DOMAIN session
  /\ ~IsRevert(session[sequence])
  /\ IsActive(session)[sequence]

\* The batch the service builds: one event, or a revert and its replacement.
PendingEvents(k, r, session) ==
  LET revert == RevertEvent(EventId(k, "main"), session[TargetOf(r, session)].id)
  IN CASE r.kind = "append"  -> <<ActionEvent(EventId(k, "main"), r.action)>>
       [] r.kind = "undo"    -> <<revert>>
       [] r.kind = "correct" ->
            <<revert, ActionEvent(EventId(k, "replacement"), r.action)>>

HasKey(events, k) == \E i \in DOMAIN events : events[i].id.key = k

ReducedState(events) == IF IsComplete(Reduce(events)) THEN "complete" ELSE "live"

\* Faulty: only the newest events of the log count as recorded.
RecordedLast(k, r, session) ==
  IF r.kind = "undo"
  THEN LET i == Len(session)
       IN session[i].id = EventId(k, "main") /\ IsRevert(session[i])
  ELSE /\ r.expected < Len(session)
       /\ LET before == SubSeq(session, 1, r.expected)
          IN before \o PendingEvents(k, r, before) = session

\* A known key is replayed only if it was recorded as this request asks.  An undo
\* compares its target, when it named one; the others compare every column.
RecordedAsAsked(k, r, session) ==
  IF r.kind = "undo"
  THEN \E i \in DOMAIN session :
         /\ session[i].id = EventId(k, "main")
         /\ IsRevert(session[i])
         /\ r.target # 0 => session[i].target = session[r.target].id
  ELSE /\ r.expected < Len(session)
       /\ LET before == SubSeq(session, 1, r.expected)
          IN IsPrefix(before \o PendingEvents(k, r, before), session)

\* The target counts and the engine accepts the candidate log.
Applicable(k, r, session) ==
  /\ r.kind # "append" => ActiveTarget(session, TargetOf(r, session))
  /\ Legal(session \o PendingEvents(k, r, session))

-----------------------------------------------------------------------------
Idle == [phase |-> "idle"]

Init ==
  /\ log = <<>>
  /\ draftState = "created"
  /\ authority = "commissioner"
  /\ request = [k \in Keys |-> NoRequest]
  /\ handler = [h \in Handlers |-> Idle]
  /\ answered = [k \in Keys |-> {}]

\* Someone composes a request on the board they see.  The request may reach the
\* API much later, when the log has moved on.
Compose(k) ==
  /\ request[k] = NoRequest
  /\ Len(log) < MaxLog
  /\ \E r \in [kind : {"append"}, expected : {Len(log)}, action : Actions]
         \union [kind : {"undo"}, expected : {Len(log)}, target : 0 .. Len(log)]
         \union [kind : {"correct"}, expected : {Len(log)}, target : 1 .. Len(log),
                 action : Actions] :
       request' = [request EXCEPT ![k] = r]
  /\ UNCHANGED <<log, draftState, authority, handler, answered>>

\* The answer reaches its author, or the connection is lost first.
Answer(k, outcome) ==
  \/ answered' = [answered EXCEPT ![k] = @ \union {outcome}]
  \/ UNCHANGED answered

\* appendEvent, undoEvent and correctEvent up to the repository call.  The same
\* request may be received any number of times.  Most ways out write nothing;
\* the code takes them in this order.
Allowed(k) == request[k] # NoRequest /\ authority # "member"
New(k) == Allowed(k) /\ ~HasKey(log, k)
Finished(k) == request[k].kind = "append" /\ IsComplete(Reduce(log))
Current(k) == New(k) /\ ~Finished(k) /\ Len(log) = request[k].expected

AnswerForbidden(k) ==
  request[k] # NoRequest /\ authority = "member" /\ Answer(k, "FORBIDDEN")

AnswerKnownKey(k) ==
  /\ Allowed(k) /\ HasKey(log, k)
  /\ Answer(k, IF RecordedAsAsked(k, request[k], log)
               THEN "replayed" ELSE "IDEMPOTENCY_CONFLICT")

AnswerComplete(k) == New(k) /\ Finished(k) /\ Answer(k, "REFUSED")

AnswerStale(k) ==
  /\ New(k) /\ ~Finished(k) /\ Len(log) # request[k].expected
  /\ Answer(k, "VERSION_CONFLICT")

AnswerInapplicable(k) ==
  Current(k) /\ ~Applicable(k, request[k], log) /\ Answer(k, "REFUSED")

AnswerAtOnce(k) ==
  /\ \/ AnswerForbidden(k)
     \/ AnswerKnownKey(k)
     \/ AnswerComplete(k)
     \/ AnswerStale(k)
     \/ AnswerInapplicable(k)
  /\ UNCHANGED <<log, draftState, authority, request, handler>>

Prepare(h, k) ==
  /\ handler[h] = Idle
  /\ Current(k)
  /\ Applicable(k, request[k], log)
  /\ handler' = [handler EXCEPT ![h] =
       [phase   |-> "append",
        key     |-> k,
        session |-> log,
        pending |-> PendingEvents(k, request[k], log)]]
  /\ UNCHANGED <<log, draftState, authority, request, answered>>

\* Faulty: only the snapshot was asked.
NothingStored(w) == FALSE

\* appendEvents: the transaction, with the row of the draft locked.  It checks
\* again what the snapshot could not promise.
StoredAlready(w) == \E i \in DOMAIN w.pending, j \in DOMAIN log : log[j].id = w.pending[i].id

CommitForbidden(w) == authority # "commissioner" /\ Answer(w.key, "FORBIDDEN")

CommitKnownKey(w) ==
  /\ authority = "commissioner" /\ StoredAlready(w)
  /\ Answer(w.key, IF IsPrefix(w.session \o w.pending, log)
                   THEN "replayed" ELSE "IDEMPOTENCY_CONFLICT")

CommitStale(w) ==
  /\ authority = "commissioner" /\ ~StoredAlready(w) /\ Len(log) # Len(w.session)
  /\ Answer(w.key, "VERSION_CONFLICT")

\* Faulty: the sequence is not checked under the lock.
CommitAppendUnfenced(w) ==
  /\ authority = "commissioner" /\ ~StoredAlready(w)
  /\ log' = log \o w.pending
  /\ draftState' = ReducedState(w.session \o w.pending)
  /\ Answer(w.key, "saved")

\* Faulty: the state is the one before the append.
CommitAppendOldState(w) ==
  /\ authority = "commissioner" /\ ~StoredAlready(w) /\ Len(log) = Len(w.session)
  /\ log' = log \o w.pending
  /\ draftState' = ReducedState(w.session)
  /\ Answer(w.key, "saved")

CommitAppend(w) ==
  /\ authority = "commissioner" /\ ~StoredAlready(w) /\ Len(log) = Len(w.session)
  /\ log' = log \o w.pending
  /\ draftState' = ReducedState(w.session \o w.pending)
  /\ Answer(w.key, "saved")

Commit(h) ==
  /\ handler[h] # Idle
  /\ LET w == handler[h]
     IN \/ CommitAppend(w)
        \/ /\ CommitForbidden(w) \/ CommitKnownKey(w) \/ CommitStale(w)
           /\ UNCHANGED <<log, draftState>>
  /\ handler' = [handler EXCEPT ![h] = Idle]
  /\ UNCHANGED <<authority, request>>

\* Faulty: what was being written stays behind.
AbandonHalf(h) ==
  /\ handler[h] # Idle
  /\ handler' = [handler EXCEPT ![h].phase = "idle"]
  /\ UNCHANGED <<log, draftState, authority, request, answered>>

\* The API stops, or the caller's connection is torn down, between the two.
Abandon(h) ==
  /\ handler[h] # Idle
  /\ handler' = [handler EXCEPT ![h] = Idle]
  /\ UNCHANGED <<log, draftState, authority, request, answered>>

\* A role is changed or the league archived (or restored) at any time.
ChangeAuthority ==
  /\ \E a \in Authorities \ {authority} : authority' = a
  /\ UNCHANGED <<log, draftState, request, handler, answered>>

Next ==
  \/ \E k \in Keys : Compose(k)
  \/ \E k \in Keys : AnswerAtOnce(k)
  \/ \E h \in Handlers, k \in Keys : Prepare(h, k)
  \/ \E h \in Handlers : Commit(h)
  \/ \E h \in Handlers : Abandon(h)
  \/ ChangeAuthority

Spec == Init /\ [][Next]_vars

-----------------------------------------------------------------------------
(***************************************************************************)
(* Properties.                                                             *)
(***************************************************************************)

EventIds == [key : Keys, part : {"main", "replacement"}]

Event ==
  [id : EventIds, type : SnakeTypes \union AuctionTypes, team : Teams,
   player : Players, number : Nat]
  \union [id : EventIds, type : {"DRAFT_EVENT_REVERTED"}, target : EventIds]

Writes ==
  [phase : {"append"}, key : Keys, session : Seq(Event), pending : Seq(Event)]

Outcomes == {"saved", "replayed", "FORBIDDEN", "VERSION_CONFLICT", "REFUSED",
             "IDEMPOTENCY_CONFLICT"}

\* Types of the variables.
TypeOK ==
  /\ log \in Seq(Event)
  /\ draftState \in {"created", "live", "complete"}
  /\ authority \in Authorities
  /\ request \in [Keys -> Requests \union {NoRequest}]
  /\ handler \in [Handlers -> {Idle} \union Writes]
  /\ answered \in [Keys -> SUBSET Outcomes]

\* Every log a reader can load reduces: the candidate a handler validated on an
\* unlocked snapshot is still legal where the transaction puts it.
LedgerReduces == Legal(log)

\* The room implements the append-only ledger.
Ledger == INSTANCE DraftLedger
ImplementsLedger == Ledger!Spec

\* drafts.state, written from the caller's own computation, always agrees with
\* the log it sits beside.
StateMatchesLog == draftState = IF log = <<>> THEN "created" ELSE ReducedState(log)

\* A request is in the log entirely or not at all, at the place its author
\* asked for and once: retries and duplicates add nothing, and no reader sees
\* a correction's revert without its replacement.
WholeAndOnce ==
  \A k \in Keys :
    HasKey(log, k) =>
      LET before == SubSeq(log, 1, request[k].expected)
          batch == PendingEvents(k, request[k], before)
      IN /\ IsPrefix(before \o batch, log)
         /\ Cardinality({i \in DOMAIN log : log[i].id.key = k}) = Len(batch)

\* What the author of a request is told is true and stays true.  Success means
\* the events are in the log; a conflict or a refusal means they are not and
\* never will be, even if another copy of the request is still in flight.
AnswersAreFinal ==
  \A k \in Keys :
    /\ answered[k] \intersect {"saved", "replayed"} # {} => HasKey(log, k)
    /\ answered[k] \intersect {"VERSION_CONFLICT", "REFUSED"} # {} => ~HasKey(log, k)

\* Retrying a request never turns into a conflict with itself.
RetriesRecognised ==
  \A k \in Keys : "IDEMPOTENCY_CONFLICT" \notin answered[k]

\* No author is misled: answers stay true of the log, and a repeated request is
\* answered as the replay it is.
AnswersAreTrue == AnswersAreFinal /\ RetriesRecognised

\* Two commissioners undoing the same pick at once revert it once, and no revert
\* is itself reverted through this API (activeCorrectionTarget).
RevertedOnce ==
  \A i, j \in DOMAIN log :
    IsRevert(log[i]) /\ IsRevert(log[j]) =>
      /\ i # j => log[i].target # log[j].target
      /\ log[i].target # log[j].id

\* Undoing the latest action is always possible, also in a finished draft, in an
\* open nomination and after any mixture of undos and corrections.
LatestCanBeUndone ==
  LatestUndoable(log) # 0 =>
    Legal(Append(log, RevertEvent(EventId(NoRequest, "main"),
                                  log[LatestUndoable(log)].id)))

\* Undo does what the API promises of it, for commissioners who race each other:
\* one action is taken back once, and the latest one always can be.
UndoIsSound == RevertedOnce /\ LatestCanBeUndone

=============================================================================
