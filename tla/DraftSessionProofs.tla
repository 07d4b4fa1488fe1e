-------------------------- MODULE DraftSessionProofs --------------------------
(***************************************************************************)
(* The commissioners' write path keeps the ledger append-only and legal,   *)
(* for any number of requests in flight, of any length of log, in any      *)
(* league; that retries, duplicates, races and refusals are told apart     *)
(* truthfully and for good; and that undo does what it promises.           *)
(***************************************************************************)
EXTENDS DraftSession, DraftReducerProofs

(***************************************************************************)
(* The strengthening.  A handler that is about to write holds a batch that *)
(* was legal after the log it read, and what it read is still the start of *)
(* the log.                                                                *)
(***************************************************************************)
PendingWritesLegal ==
  \A h \in Handlers :
    handler[h] # Idle =>
      /\ handler[h].pending # <<>>
      /\ IsPrefix(handler[h].session, log)
      /\ Legal(handler[h].session \o handler[h].pending)

SessionInv == TypeOK /\ LedgerReduces /\ PendingWritesLegal

\* The batch of an applicable request: well-formed events under its key; unless
\* it only appends, first a revert of the target.
LEMMA PendingTyped ==
  ASSUME NEW k \in Keys, NEW r \in Requests, NEW session \in Seq(Event),
         Applicable(k, r, session),
         NEW batch, batch = PendingEvents(k, r, session)
  PROVE  /\ batch \in Seq(Event) /\ batch # <<>>
         /\ Len(batch) \in {1, 2}
         /\ batch[1].id = EventId(k, "main")
         /\ \A i \in DOMAIN batch : batch[i].id.key = k
         /\ \A i \in DOMAIN batch : IsRevert(batch[i]) =>
              /\ i = 1
              /\ ActiveTarget(session, TargetOf(r, session))
              /\ batch[1].target = session[TargetOf(r, session)].id
         /\ r.kind # "append" => ActiveTarget(session, TargetOf(r, session))
         /\ r.kind = "undo" =>
              /\ Len(batch) = 1 /\ IsRevert(batch[1])
              /\ batch[1].target = session[TargetOf(r, session)].id
<1> DEFINE target == session[TargetOf(r, session)].id
           revert == RevertEvent(EventId(k, "main"), target)
           action == ActionEvent(EventId(k, "main"), r.action)
           replacement == ActionEvent(EventId(k, "replacement"), r.action)
<1>0. /\ revert.id = EventId(k, "main") /\ action.id = EventId(k, "main")
      /\ replacement.id.key = k /\ EventId(k, "main").key = k
      /\ revert.target = target /\ IsRevert(revert)
  BY DEF RevertEvent, ActionEvent, EventId, IsRevert
<1>1. CASE r \in Appends
  <2>1. action \in Event /\ r.kind = "append" /\ ~IsRevert(action)
    BY <1>1, SessionAssumption DEF Appends, ActionEvent, EventId, EventIds, Event,
         IsRevert, SnakeTypes, AuctionTypes
  <2>2. batch = <<action>>
    BY <2>1 DEF PendingEvents
  <2> HIDE DEF action
  <2>3. QED
    BY <1>0, <2>1, <2>2
<1>2. CASE r \in Undos \union Corrections
  <2>1. r.kind # "append"
    BY <1>2 DEF Undos, Corrections
  <2>2. ActiveTarget(session, TargetOf(r, session))
    BY <2>1 DEF Applicable
  <2>3. target \in EventIds
    BY <2>2 DEF ActiveTarget, Event
  <2>4. revert \in Event
    BY <2>3 DEF RevertEvent, EventId, EventIds, Event
  <2>5. CASE r \in Undos
    <3>1. batch = <<revert>>
      BY <2>5 DEF Undos, PendingEvents
    <3> HIDE DEF revert
    <3>2. QED
      BY <1>0, <2>1, <2>2, <2>4, <3>1
  <2>6. CASE r \in Corrections
    <3>1. replacement \in Event /\ ~IsRevert(replacement) /\ r.kind = "correct"
      BY <2>6, SessionAssumption DEF Corrections, ActionEvent, EventId, EventIds, Event,
           IsRevert, SnakeTypes, AuctionTypes
    <3>2. batch = <<revert, replacement>>
      BY <2>6 DEF Corrections, PendingEvents
    <3> HIDE DEF revert, replacement
    <3>3. QED
      BY <1>0, <2>1, <2>2, <2>4, <3>1, <3>2
  <2>7. QED
    BY <1>2, <2>5, <2>6
<1>3. QED
  BY <1>1, <1>2 DEF Requests

\* A new session satisfies the invariant.
LEMMA SessionInvInit == Init => SessionInv
<1> SUFFICES ASSUME Init PROVE SessionInv
  OBVIOUS
<1>1. TypeOK
  BY DEF Init, TypeOK, Authorities
<1>2. LedgerReduces
  <2>1. WellFormed(<<>>)
    BY DEF WellFormed
  <2>2. Reduce(<<>>).legal
    BY ReduceOfNothing, EmptyRoomIsSound
  <2>3. QED
    BY <2>1, <2>2 DEF Init, LedgerReduces, Legal
<1>3. PendingWritesLegal
  BY DEF Init, PendingWritesLegal
<1>4. QED
  BY <1>1, <1>2, <1>3 DEF SessionInv

\* Whoever answers, the history of answers keeps its type.
LEMMA AnswerTyped ==
  ASSUME TypeOK, NEW k \in Keys, NEW outcome \in Outcomes, Answer(k, outcome)
  PROVE  answered' \in [Keys -> SUBSET Outcomes]
BY DEF Answer, TypeOK

\* A commit either leaves the log alone or appends the handler's own batch to
\* the log that handler read.
LEMMA CommitKinds ==
  ASSUME SessionInv, NEW h \in Handlers, Commit(h)
  PROVE  /\ UNCHANGED <<authority, request>>
         /\ handler' = [handler EXCEPT ![h] = Idle]
         /\ answered' \in [Keys -> SUBSET Outcomes]
         /\ \/ UNCHANGED <<log, draftState>>
            \/ /\ log' = log \o handler[h].pending
               /\ draftState' \in {"live", "complete"}
               /\ handler[h].pending \in Seq(Event)
               /\ handler[h].pending # <<>>
               /\ Legal(log')
<1> DEFINE w == handler[h]
<1>1. w \in Writes /\ TypeOK
  BY DEF Commit, SessionInv, TypeOK
<1>2. w.key \in Keys /\ w.session \in Seq(Event) /\ w.pending \in Seq(Event)
  BY <1>1 DEF Writes
<1>3. \/ CommitAppend(w)
      \/ /\ CommitForbidden(w) \/ CommitKnownKey(w) \/ CommitStale(w)
         /\ UNCHANGED <<log, draftState>>
  BY DEF Commit
<1>4. UNCHANGED <<authority, request>> /\ handler' = [handler EXCEPT ![h] = Idle]
  BY DEF Commit
<1>5. answered' \in [Keys -> SUBSET Outcomes]
  <2>1. PICK outcome \in Outcomes : Answer(w.key, outcome)
    BY <1>3 DEF CommitAppend, CommitForbidden, CommitKnownKey, CommitStale, Outcomes
  <2>2. QED
    BY <1>1, <1>2, <2>1, AnswerTyped
<1>6. CASE CommitAppend(w)
  <2>1. log' = log \o w.pending /\ Len(log) = Len(w.session)
    BY <1>6 DEF CommitAppend
  <2>2. w.pending # <<>> /\ IsPrefix(w.session, log) /\ Legal(w.session \o w.pending)
    BY DEF Commit, SessionInv, PendingWritesLegal
  <2>3. w.session = log
    BY <1>1, <1>2, <2>1, <2>2, PrefixSameLength DEF TypeOK
  <2>4. draftState' \in {"live", "complete"}
    BY <1>6 DEF CommitAppend, ReducedState
  <2>5. QED
    BY <1>2, <1>4, <1>5, <2>1, <2>2, <2>3, <2>4
<1>7. QED
  BY <1>3, <1>4, <1>5, <1>6

\* Every step keeps the invariant.  Only a commit touches the log, and then only
\* by appending, so what the other handlers read stays the start of it.
LEMMA SessionInvStep == SessionInv /\ [Next]_vars => SessionInv'
<1> SUFFICES ASSUME SessionInv, [Next]_vars PROVE SessionInv'
  OBVIOUS
<1> USE DEF SessionInv
<1>1. ASSUME NEW k \in Keys, Compose(k) PROVE SessionInv'
  <2>1. UNCHANGED <<log, draftState, authority, handler, answered>>
    BY <1>1 DEF Compose
  <2>2. request' \in [Keys -> Requests \union {NoRequest}]
    <3>1. Len(log) \in Nat
      BY DEF TypeOK
    <3>2. PICK r \in [kind : {"append"}, expected : {Len(log)}, action : Actions]
                 \union [kind : {"undo"}, expected : {Len(log)}, target : 0 .. Len(log)]
                 \union [kind : {"correct"}, expected : {Len(log)}, target : 1 .. Len(log),
                         action : Actions] :
            request' = [request EXCEPT ![k] = r]
      BY <1>1 DEF Compose
    <3>3. r \in Requests
      BY <3>1, <3>2 DEF Requests, Appends, Undos, Corrections
    <3>4. QED
      BY <3>2, <3>3 DEF TypeOK
  <2>3. QED
    BY <2>1, <2>2 DEF TypeOK, LedgerReduces, PendingWritesLegal
<1>2. ASSUME NEW k \in Keys, AnswerAtOnce(k) PROVE SessionInv'
  <2>1. UNCHANGED <<log, draftState, authority, request, handler>>
    BY <1>2 DEF AnswerAtOnce
  <2>2. PICK outcome \in Outcomes : Answer(k, outcome)
    BY <1>2 DEF AnswerAtOnce, AnswerForbidden, AnswerKnownKey, AnswerComplete,
                AnswerStale, AnswerInapplicable, Outcomes
  <2>3. answered' \in [Keys -> SUBSET Outcomes]
    BY <2>2, AnswerTyped
  <2>4. QED
    BY <2>1, <2>3 DEF TypeOK, LedgerReduces, PendingWritesLegal
<1>3. ASSUME NEW h \in Handlers, NEW k \in Keys, Prepare(h, k) PROVE SessionInv'
  <2> DEFINE write == [phase   |-> "append",
                       key     |-> k,
                       session |-> log,
                       pending |-> PendingEvents(k, request[k], log)]
  <2>1. /\ UNCHANGED <<log, draftState, authority, request, answered>>
        /\ handler' = [handler EXCEPT ![h] = write]
        /\ Applicable(k, request[k], log)
        /\ request[k] # NoRequest
    BY <1>3 DEF Prepare, Current, New, Allowed
  <2>2. request[k] \in Requests /\ log \in Seq(Event)
    BY <2>1 DEF TypeOK
  <2>3. write.pending \in Seq(Event) /\ write.pending # <<>>
    BY <2>1, <2>2, PendingTyped
  <2>4. IsPrefix(write.session, log) /\ Legal(write.session \o write.pending)
    BY <2>1, <2>2, PrefixReflexive DEF Applicable
  <2>5. write \in Writes
    BY <2>2, <2>3 DEF Writes
  <2> HIDE DEF write
  <2>6. TypeOK'
    BY <2>1, <2>5 DEF TypeOK
  <2>7. PendingWritesLegal'
    BY <2>1, <2>3, <2>4 DEF TypeOK, PendingWritesLegal
  <2>8. QED
    BY <2>1, <2>6, <2>7 DEF LedgerReduces
<1>4. ASSUME NEW h \in Handlers, Commit(h) PROVE SessionInv'
  <2>1. /\ UNCHANGED <<authority, request>>
        /\ handler' = [handler EXCEPT ![h] = Idle]
        /\ answered' \in [Keys -> SUBSET Outcomes]
    BY <1>4, CommitKinds
  <2>2. CASE UNCHANGED <<log, draftState>>
    BY <2>1, <2>2 DEF TypeOK, LedgerReduces, PendingWritesLegal
  <2>3. CASE /\ log' = log \o handler[h].pending
             /\ draftState' \in {"live", "complete"}
             /\ handler[h].pending \in Seq(Event)
             /\ Legal(log')
    <3>1. log' \in Seq(Event) /\ IsPrefix(log, log')
      BY <2>3, PrefixOfConcat DEF TypeOK
    <3>2. ASSUME NEW g \in Handlers, handler'[g] # Idle
          PROVE  handler'[g] = handler[g] /\ IsPrefix(handler[g].session, log')
      <4>1. handler'[g] = handler[g]
        BY <2>1, <3>2 DEF TypeOK
      <4>2. IsPrefix(handler[g].session, log)
        BY <3>2, <4>1 DEF PendingWritesLegal
      <4>3. handler[g].session \in Seq(Event)
        BY <3>2, <4>1 DEF TypeOK, Writes
      <4>4. QED
        BY <3>1, <4>1, <4>2, <4>3, PrefixTransitive DEF TypeOK
    <3>3. TypeOK'
      BY <2>1, <2>3, <3>1 DEF TypeOK
    <3>4. PendingWritesLegal'
      BY <3>2 DEF PendingWritesLegal
    <3>5. QED
      BY <2>3, <3>3, <3>4 DEF LedgerReduces
  <2>4. QED
    BY <1>4, <2>2, <2>3, CommitKinds
<1>5. ASSUME NEW h \in Handlers, Abandon(h) PROVE SessionInv'
  <2>1. /\ UNCHANGED <<log, draftState, authority, request, answered>>
        /\ handler' = [handler EXCEPT ![h] = Idle]
    BY <1>5 DEF Abandon
  <2>2. QED
    BY <2>1 DEF TypeOK, LedgerReduces, PendingWritesLegal
<1>6. CASE ChangeAuthority
  BY <1>6 DEF ChangeAuthority, TypeOK, LedgerReduces, PendingWritesLegal
<1>7. CASE UNCHANGED vars
  BY <1>7 DEF vars, TypeOK, LedgerReduces, PendingWritesLegal
<1>8. QED
  BY <1>1, <1>2, <1>3, <1>4, <1>5, <1>6, <1>7 DEF Next

\* The invariant of the ledger holds in every state of the session.
THEOREM SessionInvariant == Spec => []SessionInv
BY SessionInvInit, SessionInvStep, PTL DEF Spec

\* Every variable of the write path keeps its type, whatever is in flight.
THEOREM SessionTypeCorrect == Spec => []TypeOK
<1>1. SessionInv => TypeOK
  BY DEF SessionInv
<1>2. QED
  BY <1>1, SessionInvariant, PTL

\* What a handler validated on an unlocked snapshot is still legal where the
\* transaction puts it: getSession never meets a log that does not reduce.
THEOREM LedgerAlwaysReduces == Spec => []LedgerReduces
<1>1. SessionInv => LedgerReduces
  BY DEF SessionInv
<1>2. QED
  BY <1>1, SessionInvariant, PTL

\* The write path implements the append-only ledger: each of its steps appends
\* one whole batch after which the log reduces, or leaves the log alone.
THEOREM SessionImplementsLedger == Spec => ImplementsLedger
<1>1. Init => Ledger!Init
  BY DEF Init, Ledger!Init
<1>2. SessionInv /\ [Next]_vars => [Ledger!AppendBatch]_log
  <2> SUFFICES ASSUME SessionInv, Next, log' # log
               PROVE  Ledger!AppendBatch
    BY DEF vars
  <2>1. PICK h \in Handlers : Commit(h)
    BY DEF Next, Compose, AnswerAtOnce, Prepare, Abandon, ChangeAuthority
  <2>2. /\ log' = log \o handler[h].pending
        /\ handler[h].pending \in Seq(Event)
        /\ Legal(log')
    BY <2>1, CommitKinds
  <2>3. IsPrefix(log, log')
    BY <2>2, PrefixOfConcat DEF SessionInv, TypeOK
  <2>4. QED
    BY <2>2, <2>3 DEF Ledger!AppendBatch, Ledger!IsPrefix, IsPrefix
<1>3. QED
  BY <1>1, <1>2, SessionInvariant, PTL DEF Spec, ImplementsLedger, Ledger!Spec

-----------------------------------------------------------------------------
(***************************************************************************)
(* What is recorded of a request, as a fact about a log.                   *)
(***************************************************************************)

\* WholeAndOnce, of one request and any log.
Recorded(k, r, events) ==
  LET before == SubSeq(events, 1, r.expected)
      batch == PendingEvents(k, r, before)
  IN /\ IsPrefix(before \o batch, events)
     /\ Cardinality({i \in DOMAIN events : events[i].id.key = k}) = Len(batch)

\* What a request put into the log is still what it put there after others wrote.
LEMMA RecordedStays ==
  ASSUME NEW k \in Keys, NEW r \in Requests, NEW events \in Seq(Event),
         r.expected <= Len(events),
         Applicable(k, r, SubSeq(events, 1, r.expected)),
         Recorded(k, r, events),
         NEW other \in Seq(Event), \A i \in DOMAIN other : other[i].id.key # k
  PROVE  /\ Recorded(k, r, events \o other)
         /\ SubSeq(events \o other, 1, r.expected) = SubSeq(events, 1, r.expected)
<1> DEFINE before == SubSeq(events, 1, r.expected)
           batch == PendingEvents(k, r, before)
           longer == events \o other
<1>1. r.expected \in 0 .. Len(events)
  BY DEF Requests, Appends, Undos, Corrections
<1>2. before \in Seq(Event) /\ Len(before) = r.expected /\ IsPrefix(before, events)
  BY <1>1, InitialPart
<1>3. batch \in Seq(Event)
  BY <1>2, PendingTyped
<1>4. /\ IsPrefix(before \o batch, events)
      /\ Cardinality({i \in DOMAIN events : events[i].id.key = k}) = Len(batch)
  BY DEF Recorded
<1>5. longer \in Seq(Event) /\ IsPrefix(events, longer)
  BY PrefixOfConcat
<1>6. before \o batch \in Seq(Event)
  BY <1>2, <1>3, PrefixOfConcat
<1>7. /\ Len(longer) = Len(events) + Len(other)
      /\ \A i \in 1 .. Len(events) : longer[i] = events[i]
      /\ \A i \in 1 .. Len(other) : longer[Len(events) + i] = other[i]
  BY ConcatProperties
<1> HIDE DEF before, batch, longer
<1>8. IsPrefix(before, longer) /\ IsPrefix(before \o batch, longer)
  BY <1>2, <1>4, <1>5, <1>6, PrefixTransitive
<1>9. SubSeq(longer, 1, r.expected) = before
  BY <1>2, <1>5, <1>8, InitialPartIs
<1>10. {i \in DOMAIN longer : longer[i].id.key = k} = {i \in DOMAIN events : events[i].id.key = k}
  <2>1. ASSUME NEW i \in DOMAIN longer, longer[i].id.key = k PROVE i \in 1 .. Len(events)
    <3>1. Len(events) \in Nat /\ Len(other) \in Nat /\ i \in 1 .. Len(longer)
      BY <1>5, <2>1
    <3>2. CASE i > Len(events)
      <4>1. i - Len(events) \in 1 .. Len(other) /\ Len(events) + (i - Len(events)) = i
        BY <1>7, <3>1, <3>2
      <4>2. longer[i] = other[i - Len(events)] /\ i - Len(events) \in DOMAIN other
        BY <1>7, <4>1
      <4>3. QED
        BY <2>1, <4>2
    <3>3. QED
      BY <3>1, <3>2
  <2>2. DOMAIN events = 1 .. Len(events) /\ DOMAIN events \subseteq DOMAIN longer
    BY <1>5, <1>7
  <2>3. QED
    BY <1>7, <2>1, <2>2
<1>11. QED
  BY <1>4, <1>8, <1>9, <1>10 DEF Recorded, before, batch, longer

\* A new key's batch, put after the log it was decided on, is recorded.
LEMMA RecordedNow ==
  ASSUME NEW k \in Keys, NEW r \in Requests, NEW events \in Seq(Event),
         r.expected = Len(events), Applicable(k, r, events), ~HasKey(events, k)
  PROVE  LET longer == events \o PendingEvents(k, r, events)
         IN /\ Recorded(k, r, longer) /\ HasKey(longer, k)
            /\ SubSeq(longer, 1, r.expected) = events
<1> DEFINE batch == PendingEvents(k, r, events)
           longer == events \o batch
<1>1. /\ batch \in Seq(Event) /\ batch # <<>>
      /\ \A i \in DOMAIN batch : batch[i].id.key = k
      /\ Len(batch) \in {1, 2}
  BY PendingTyped
<1>2. longer \in Seq(Event) /\ IsPrefix(events, longer)
  BY <1>1, PrefixOfConcat
<1>3. /\ Len(longer) = Len(events) + Len(batch)
      /\ \A i \in 1 .. Len(events) : longer[i] = events[i]
      /\ \A i \in 1 .. Len(batch) : longer[Len(events) + i] = batch[i]
  BY <1>1, ConcatProperties
<1> HIDE DEF batch, longer
<1>4. SubSeq(longer, 1, r.expected) = events
  BY <1>2, InitialPartIs
<1>5. IsPrefix(events \o batch, longer)
  BY <1>2, PrefixReflexive DEF longer
<1>6. {i \in DOMAIN longer : longer[i].id.key = k} = Len(events) + 1 .. Len(events) + Len(batch)
  <2>1. ASSUME NEW i \in DOMAIN longer
        PROVE  longer[i].id.key = k <=> i > Len(events)
    <3>1. Len(events) \in Nat /\ Len(batch) \in Nat /\ i \in 1 .. Len(longer)
      BY <1>1, <1>2, <2>1
    <3>2. CASE i > Len(events)
      <4>1. i - Len(events) \in 1 .. Len(batch) /\ Len(events) + (i - Len(events)) = i
        BY <1>3, <3>1, <3>2
      <4>2. longer[i] = batch[i - Len(events)] /\ i - Len(events) \in DOMAIN batch
        BY <1>1, <1>3, <4>1
      <4>3. QED
        BY <1>1, <3>2, <4>2
    <3>3. CASE i \in 1 .. Len(events)
      <4>1. longer[i] = events[i] /\ i \in DOMAIN events /\ ~(i > Len(events))
        BY <1>3, <3>1, <3>3
      <4>2. QED
        BY <4>1 DEF HasKey
    <3>4. QED
      BY <3>1, <3>2, <3>3
  <2>2. DOMAIN longer = 1 .. Len(events) + Len(batch) /\ Len(events) \in Nat /\ Len(batch) \in Nat
    BY <1>1, <1>2, <1>3
  <2>3. QED
    BY <2>1, <2>2
<1>7. Cardinality(Len(events) + 1 .. Len(events) + Len(batch)) = Len(batch)
  <2> DEFINE a == Len(events) + 1
             b == Len(events) + Len(batch)
  <2>1. a \in Int /\ b \in Int /\ b - a + 1 = Len(batch) /\ ~(a > b)
    BY <1>1
  <2> HIDE DEF a, b
  <2>2. Cardinality(a .. b) = b - a + 1
    BY <2>1, FS_Interval
  <2>3. QED
    BY <2>1, <2>2 DEF a, b
<1>8. HasKey(longer, k)
  <2>1. Len(events) + 1 \in {i \in DOMAIN longer : longer[i].id.key = k}
    BY <1>1, <1>6
  <2>2. QED
    BY <2>1 DEF HasKey
<1>9. QED
  BY <1>4, <1>5, <1>6, <1>7, <1>8 DEF Recorded, batch, longer

\* A recorded request is recognised when it comes again.
LEMMA RecordedIsRecognised ==
  ASSUME NEW k \in Keys, NEW r \in Requests, NEW events \in Seq(Event),
         r.expected <= Len(events), r.kind # "append" => r.target <= r.expected,
         Applicable(k, r, SubSeq(events, 1, r.expected)),
         Recorded(k, r, events)
  PROVE  /\ RecordedAsAsked(k, r, events)
         /\ \E i \in DOMAIN events : events[i].id = EventId(k, "main")
<1> DEFINE before == SubSeq(events, 1, r.expected)
           batch == PendingEvents(k, r, before)
           put == before \o batch
<1>1. r.expected \in 0 .. Len(events)
  BY DEF Requests, Appends, Undos, Corrections
<1>2. /\ before \in Seq(Event) /\ Len(before) = r.expected
      /\ \A i \in 1 .. r.expected : before[i] = events[i]
  BY <1>1, InitialPart
<1>3. /\ batch \in Seq(Event) /\ Len(batch) \in {1, 2}
      /\ batch[1].id = EventId(k, "main")
      /\ r.kind = "undo" => IsRevert(batch[1]) /\ batch[1].target = before[TargetOf(r, before)].id
  <2>1. before \in Seq(Event) /\ Applicable(k, r, before)
    BY <1>2
  <2> HIDE DEF before
  <2>2. QED
    BY <2>1, PendingTyped
<1>4. IsPrefix(put, events)
  BY DEF Recorded
<1>5. /\ put \in Seq(Event) /\ Len(put) = Len(before) + Len(batch)
      /\ \A i \in 1 .. Len(batch) : put[Len(before) + i] = batch[i]
  BY <1>2, <1>3, ConcatProperties, SMTT(30)
<1> HIDE DEF before, batch
<1>6. /\ r.expected + 1 \in DOMAIN events /\ events[r.expected + 1] = batch[1]
      /\ r.expected < Len(events)
  <2> HIDE DEF put
  <2>1. Len(put) <= Len(events) /\ \A i \in 1 .. Len(put) : put[i] = events[i]
    BY <1>4, <1>5, PrefixPointwise
  <2>2. r.expected + 1 \in 1 .. Len(put) /\ put[r.expected + 1] = batch[1]
    BY <1>1, <1>2, <1>3, <1>5
  <2>3. QED
    BY <1>1, <2>1, <2>2
<1>7. RecordedAsAsked(k, r, events)
  <2>1. CASE r.kind = "undo"
    <3>1. ASSUME r.target # 0 PROVE batch[1].target = events[r.target].id
      <4>1. TargetOf(r, before) = r.target /\ r.target \in 1 .. r.expected
        BY <2>1, <3>1 DEF TargetOf, Requests, Appends, Undos, Corrections
      <4>2. QED
        BY <1>2, <1>3, <2>1, <4>1
    <3>2. QED
      BY <1>3, <1>6, <2>1, <3>1 DEF RecordedAsAsked
  <2>2. CASE r.kind # "undo"
    BY <1>4, <1>6, <2>2 DEF RecordedAsAsked, before, batch
  <2>3. QED
    BY <2>1, <2>2
<1>8. QED
  BY <1>3, <1>6, <1>7

-----------------------------------------------------------------------------
(***************************************************************************)
(* Undone once.                                                            *)
(***************************************************************************)

\* RevertedOnce, of any log.
RevertsOnce(events) ==
  \A i, j \in DOMAIN events :
    IsRevert(events[i]) /\ IsRevert(events[j]) =>
      /\ i # j => events[i].target # events[j].target
      /\ events[i].target # events[j].id

\* So a batch decided on a log undoes nothing twice, and no revert.
LEMMA RevertsOnceStays ==
  ASSUME NEW k \in Keys, NEW r \in Requests, NEW events \in Seq(Event),
         WellFormed(events), RevertsOnce(events),
         Applicable(k, r, events), ~HasKey(events, k)
  PROVE  RevertsOnce(events \o PendingEvents(k, r, events))
<1> DEFINE batch == PendingEvents(k, r, events)
           longer == events \o batch
           n == Len(events) + 1
           p == TargetOf(r, events)
<1>1. /\ batch \in Seq(Event) /\ Len(batch) \in {1, 2}
      /\ \A i \in DOMAIN batch : batch[i].id.key = k
      /\ \A i \in DOMAIN batch : IsRevert(batch[i]) =>
           i = 1 /\ ActiveTarget(events, p) /\ batch[1].target = events[p].id
  BY PendingTyped
<1>2. /\ longer \in Seq(Event) /\ Len(longer) = Len(events) + Len(batch)
      /\ \A i \in 1 .. Len(events) : longer[i] = events[i]
      /\ \A i \in 1 .. Len(batch) : longer[Len(events) + i] = batch[i]
  BY <1>1, ConcatProperties
<1> HIDE DEF batch, longer, p
<1>3. \A i \in DOMAIN events : i \in 1 .. Len(events) /\ events[i].id.key # k
  BY DEF HasKey
<1>4. ASSUME NEW i \in DOMAIN longer, i \notin DOMAIN events, IsRevert(longer[i])
      PROVE  /\ i = n /\ longer[i].id.key = k
             /\ p \in DOMAIN events /\ ~IsRevert(events[p]) /\ IsActive(events)[p]
             /\ longer[i].target = events[p].id
  <2>1. i - Len(events) \in DOMAIN batch /\ longer[i] = batch[i - Len(events)]
    <3>1. Len(events) \in Nat /\ Len(batch) \in Nat /\ DOMAIN events = 1 .. Len(events)
          /\ DOMAIN longer = 1 .. Len(events) + Len(batch) /\ DOMAIN batch = 1 .. Len(batch)
      BY <1>1, <1>2
    <3>2. i - Len(events) \in 1 .. Len(batch) /\ Len(events) + (i - Len(events)) = i
      BY <1>4, <3>1
    <3>3. QED
      BY <1>2, <3>1, <3>2
  <2>2. i - Len(events) = 1 /\ ActiveTarget(events, p) /\ batch[1].target = events[p].id
    BY <1>1, <1>4, <2>1
  <2>3. i = n
    BY <1>2, <1>4, <2>2
  <2>4. QED
    BY <1>1, <1>4, <2>1, <2>2, <2>3 DEF ActiveTarget
<1> HIDE DEF n
<1>5. ASSUME NEW i \in DOMAIN events, IsRevert(events[i]),
             NEW j \in DOMAIN longer, j \notin DOMAIN events, IsRevert(longer[j])
      PROVE  /\ events[i].target # longer[j].target
             /\ events[i].target # longer[j].id
             /\ longer[j].target # events[i].id
  <2>1. /\ longer[j].id.key = k /\ p \in DOMAIN events /\ ~IsRevert(events[p])
        /\ IsActive(events)[p] /\ longer[j].target = events[p].id
    BY <1>4, <1>5
  <2>2. events[i].target # events[p].id
    <3>1. RevertsStand(events)
      BY DEF RevertsOnce, RevertsStand
    <3>2. QED
      BY <1>5, <2>1, <3>1, ActiveIsNotReverted
  <2>3. PICK h \in 1 .. i - 1 : events[h].id = events[i].target
    BY <1>5 DEF WellFormed
  <2>4. h \in DOMAIN events
    BY <1>5, <2>3
  <2>5. events[i].target # longer[j].id
    BY <1>3, <2>1, <2>3, <2>4
  <2>6. events[p].id # events[i].id
    BY <1>5, <2>1 DEF WellFormed
  <2>7. QED
    BY <2>1, <2>2, <2>5, <2>6
<1>6. ASSUME NEW i \in DOMAIN longer, i \notin DOMAIN events, IsRevert(longer[i])
      PROVE  longer[i].target # longer[i].id
  BY <1>3, <1>4, <1>6
<1>7. \A i \in DOMAIN events : longer[i] = events[i]
  BY <1>2, <1>3
<1>8. SUFFICES ASSUME NEW i \in DOMAIN longer, NEW j \in DOMAIN longer,
                      IsRevert(longer[i]), IsRevert(longer[j])
               PROVE  /\ i # j => longer[i].target # longer[j].target
                      /\ longer[i].target # longer[j].id
  BY DEF RevertsOnce, longer, batch
<1>9. CASE i \in DOMAIN events /\ j \in DOMAIN events
  BY <1>7, <1>8, <1>9 DEF RevertsOnce
<1>10. CASE i \in DOMAIN events /\ j \notin DOMAIN events
  BY <1>5, <1>7, <1>8, <1>10
<1>11. CASE i \notin DOMAIN events /\ j \in DOMAIN events
  BY <1>5, <1>7, <1>8, <1>11
<1>12. CASE i \notin DOMAIN events /\ j \notin DOMAIN events
  BY <1>4, <1>6, <1>8, <1>12
<1>13. QED
  BY <1>9, <1>10, <1>11, <1>12

-----------------------------------------------------------------------------
(***************************************************************************)
(* The second strengthening: why the log and the answers agree.  A handler *)
(* decided on exactly the log its request names, so two handlers of one    *)
(* request hold the same batch, and a request that was refused has no way  *)
(* into the log left.                                                      *)
(***************************************************************************)

\* What a handler was allowed to put after the log it read.
Decided(k, r, session) ==
  /\ Applicable(k, r, session)
  /\ ~(r.kind = "append" /\ IsComplete(Reduce(session)))

\* A handler that is about to write holds the batch it decided on the log its
\* request names, and that log is still the start of the log.
WritesAreDecided ==
  \A h \in Handlers :
    handler[h] # Idle =>
      LET w == handler[h]
          r == request[w.key]
      IN /\ r # NoRequest
         /\ IsPrefix(w.session, log) /\ Len(w.session) = r.expected
         /\ ~HasKey(w.session, w.key)
         /\ Decided(w.key, r, w.session)
         /\ w.pending = PendingEvents(w.key, r, w.session)

\* A request names a log that exists and a target in it.
RequestsLookBack ==
  \A k \in Keys :
    request[k] # NoRequest =>
      /\ request[k].expected <= Len(log)
      /\ request[k].kind # "append" => request[k].target <= request[k].expected

\* The batch in the log is the batch of a request that was applicable there.
RecordedWereDecided ==
  \A k \in Keys :
    HasKey(log, k) =>
      /\ request[k] # NoRequest
      /\ Applicable(k, request[k], SubSeq(log, 1, request[k].expected))

\* A request that is refused or comes too late has no way into the log left:
\* the log has moved on, or is the very log that refuses it.
Closed(k) ==
  /\ request[k] # NoRequest /\ ~HasKey(log, k)
  /\ Len(log) = request[k].expected => ~Decided(k, request[k], log)

\* Every answer its author has is true of the log and of what can become of it.
Truthful(k) ==
  /\ answered[k] \intersect {"saved", "replayed"} # {} => HasKey(log, k)
  /\ answered[k] \intersect {"VERSION_CONFLICT", "REFUSED"} # {} => Closed(k)
  /\ "IDEMPOTENCY_CONFLICT" \notin answered[k]

Logged == StateMatchesLog /\ RevertedOnce /\ RecordedWereDecided /\ WholeAndOnce

RecordInv ==
  /\ RequestsLookBack /\ WritesAreDecided /\ Logged
  /\ \A k \in Keys : Truthful(k)

\* A new session satisfies the invariant of the record.
LEMMA RecordInvInit == Init => RecordInv
<1> SUFFICES ASSUME Init PROVE RecordInv
  OBVIOUS
<1>1. log = <<>> /\ draftState = "created" /\ \A k \in Keys : request[k] = NoRequest
  BY DEF Init
<1>2. \A k \in Keys : answered[k] = {}
  BY DEF Init
<1>3. \A h \in Handlers : handler[h] = Idle
  BY DEF Init
<1>4. \A k : ~HasKey(log, k)
  BY <1>1 DEF HasKey
<1>5. StateMatchesLog /\ RevertedOnce
  BY <1>1 DEF StateMatchesLog, RevertedOnce
<1>6. RecordedWereDecided /\ WholeAndOnce
  BY <1>4 DEF RecordedWereDecided, WholeAndOnce
<1>7. RequestsLookBack /\ WritesAreDecided
  BY <1>1, <1>3 DEF RequestsLookBack, WritesAreDecided
<1>8. \A k \in Keys : Truthful(k)
  BY <1>2 DEF Truthful
<1>9. QED
  BY <1>5, <1>6, <1>7, <1>8 DEF RecordInv, Logged

\* An answer that is true keeps the answers true, if what they are about holds on.
LEMMA AnswerKeepsTruth ==
  ASSUME TypeOK, NEW k \in Keys, NEW outcome, Answer(k, outcome),
         \A l \in Keys : Truthful(l),
         \A l \in Keys : HasKey(log, l) => HasKey(log', l),
         \A l \in Keys : answered[l] \intersect {"VERSION_CONFLICT", "REFUSED"} # {} /\ Closed(l)
           => Closed(l)',
         outcome \in {"saved", "replayed"} => HasKey(log', k),
         outcome \in {"VERSION_CONFLICT", "REFUSED"} => Closed(k)',
         outcome # "IDEMPOTENCY_CONFLICT"
  PROVE  \A l \in Keys : Truthful(l)'
<1> SUFFICES ASSUME NEW l \in Keys PROVE Truthful(l)'
  OBVIOUS
<1>1. Truthful(l)
  OBVIOUS
<1>2. \/ answered'[l] = answered[l]
      \/ l = k /\ answered'[l] = answered[l] \union {outcome}
  BY DEF Answer, TypeOK
<1>3. CASE answered'[l] = answered[l]
  BY <1>1, <1>3 DEF Truthful
<1>4. CASE l = k /\ answered'[l] = answered[l] \union {outcome}
  <2>1. answered'[l] \intersect {"saved", "replayed"} # {} => HasKey(log', l)
    BY <1>1, <1>4 DEF Truthful
  <2>2. answered'[l] \intersect {"VERSION_CONFLICT", "REFUSED"} # {} => Closed(l)'
    BY <1>1, <1>4 DEF Truthful
  <2>3. "IDEMPOTENCY_CONFLICT" \notin answered'[l]
    BY <1>1, <1>4 DEF Truthful
  <2>4. QED
    BY <2>1, <2>2, <2>3 DEF Truthful
<1>5. QED
  BY <1>2, <1>3, <1>4

\* What is about a log and the requests recorded in it stays while both stay.
LEMMA LoggedStays ==
  ASSUME Logged, UNCHANGED <<log, draftState>>,
         \A k \in Keys : request[k] # NoRequest => request'[k] = request[k]
  PROVE  Logged'
<1>1. StateMatchesLog' /\ RevertedOnce'
  BY DEF Logged, StateMatchesLog, RevertedOnce
<1>2. ASSUME NEW k \in Keys, HasKey(log, k)
      PROVE  request[k] # NoRequest /\ request'[k] = request[k]
  BY <1>2 DEF Logged, RecordedWereDecided
<1>3. RecordedWereDecided'
  BY <1>2 DEF Logged, RecordedWereDecided
<1>4. WholeAndOnce'
  BY <1>2 DEF Logged, WholeAndOnce
<1>5. QED
  BY <1>1, <1>3, <1>4 DEF Logged

\* A request in the log is there with its first event, and recognised.
LEMMA RecordedKey ==
  ASSUME TypeOK, RecordInv, NEW k \in Keys, HasKey(log, k)
  PROVE  /\ request[k] \in Requests
         /\ Recorded(k, request[k], log)
         /\ Applicable(k, request[k], SubSeq(log, 1, request[k].expected))
         /\ request[k].expected <= Len(log)
         /\ RecordedAsAsked(k, request[k], log)
         /\ \E i \in DOMAIN log : log[i].id = EventId(k, "main")
<1>1. /\ request[k] # NoRequest
      /\ Applicable(k, request[k], SubSeq(log, 1, request[k].expected))
  BY DEF RecordInv, Logged, RecordedWereDecided
<1>2. request[k] \in Requests /\ log \in Seq(Event)
  BY <1>1 DEF TypeOK
<1>3. Recorded(k, request[k], log)
  BY DEF RecordInv, Logged, WholeAndOnce, Recorded
<1>4. /\ request[k].expected <= Len(log)
      /\ request[k].kind # "append" => request[k].target <= request[k].expected
  BY <1>1, SMTT(30) DEF RecordInv, RequestsLookBack
<1>5. QED
  BY <1>1, <1>2, <1>3, <1>4, RecordedIsRecognised

\* A commit that appends: the handler's decision is about the log as it is.
LEMMA CommitFacts ==
  ASSUME TypeOK, RecordInv, NEW h \in Handlers, handler[h] # Idle,
         NEW w, w = handler[h], NEW r, r = request[w.key]
  PROVE  /\ w.key \in Keys /\ r \in Requests
         /\ w.session \in Seq(Event) /\ IsPrefix(w.session, log) /\ Len(w.session) = r.expected
         /\ ~HasKey(w.session, w.key) /\ Decided(w.key, r, w.session)
         /\ Applicable(w.key, r, w.session)
         /\ w.pending = PendingEvents(w.key, r, w.session)
         /\ w.pending \in Seq(Event) /\ w.pending # <<>>
         /\ w.pending[1].id = EventId(w.key, "main")
         /\ 1 \in DOMAIN w.pending
         /\ \A i \in DOMAIN w.pending : w.pending[i].id.key = w.key
         /\ Len(w.session) = Len(log) => w.session = log
<1>1. /\ w.key \in Keys /\ w.session \in Seq(Event) /\ log \in Seq(Event)
  BY DEF TypeOK, Writes
<1>2. /\ r # NoRequest /\ IsPrefix(w.session, log) /\ Len(w.session) = r.expected
      /\ ~HasKey(w.session, w.key) /\ Decided(w.key, r, w.session)
      /\ w.pending = PendingEvents(w.key, r, w.session)
  BY DEF RecordInv, WritesAreDecided
<1>3. r \in Requests /\ Applicable(w.key, r, w.session)
  BY <1>1, <1>2 DEF TypeOK, Decided
<1>4. /\ w.pending \in Seq(Event) /\ w.pending # <<>> /\ Len(w.pending) \in {1, 2}
      /\ w.pending[1].id = EventId(w.key, "main")
      /\ \A i \in DOMAIN w.pending : w.pending[i].id.key = w.key
  BY <1>1, <1>2, <1>3, PendingTyped
<1>5. 1 \in DOMAIN w.pending
  BY <1>4
<1>6. Len(w.session) = Len(log) => w.session = log
  BY <1>1, <1>2, PrefixSameLength
<1>7. QED
  BY <1>1, <1>2, <1>3, <1>4, <1>5, <1>6, ZenonT(40)

\* If the key is in the log, the transaction finds its events.
LEMMA KnownIsStored ==
  ASSUME TypeOK, RecordInv, NEW h \in Handlers, handler[h] # Idle
  PROVE  StoredAlready(handler[h]) <=> HasKey(log, handler[h].key)
<1> DEFINE w == handler[h]
<1>1. /\ w.key \in Keys /\ w.pending[1].id = EventId(w.key, "main") /\ 1 \in DOMAIN w.pending
      /\ \A i \in DOMAIN w.pending : w.pending[i].id.key = w.key
  BY CommitFacts
<1> HIDE DEF w
<1>2. StoredAlready(w) => HasKey(log, w.key)
  BY <1>1 DEF StoredAlready, HasKey
<1>3. ASSUME HasKey(log, w.key) PROVE StoredAlready(w)
  <2>1. \E i \in DOMAIN log : log[i].id = EventId(w.key, "main")
    BY <1>1, <1>3, RecordedKey
  <2>2. QED
    BY <1>1, <2>1 DEF StoredAlready
<1>4. QED
  BY <1>2, <1>3 DEF w

\* What the log says of all requests after one of them appended its batch.
LEMMA CommitKeepsLogged ==
  ASSUME TypeOK, LedgerReduces, RecordInv, NEW h \in Handlers, handler[h] # Idle,
         CommitAppend(handler[h]), UNCHANGED request
  PROVE  /\ Logged'
         /\ HasKey(log', handler[h].key) /\ Len(log') > Len(log)
         /\ \A k \in Keys : HasKey(log, k) => HasKey(log', k)
         /\ \A k \in Keys : HasKey(log', k) => HasKey(log, k) \/ k = handler[h].key
<1> DEFINE w == handler[h]
           r == request[w.key]
<1>1. /\ log' = log \o w.pending /\ Len(log) = Len(w.session)
      /\ draftState' = ReducedState(w.session \o w.pending)
  BY DEF CommitAppend
<1>2. /\ w.key \in Keys /\ r \in Requests /\ log \in Seq(Event)
      /\ w.session = log /\ r.expected = Len(log)
      /\ ~HasKey(log, w.key) /\ Applicable(w.key, r, log)
      /\ w.pending = PendingEvents(w.key, r, log)
      /\ w.pending \in Seq(Event) /\ w.pending # <<>>
      /\ \A i \in DOMAIN w.pending : w.pending[i].id.key = w.key
  BY <1>1, CommitFacts DEF TypeOK
<1> HIDE DEF w, r
<1>3. /\ log' \in Seq(Event) /\ Len(log') = Len(log) + Len(w.pending)
      /\ \A i \in 1 .. Len(log) : log'[i] = log[i]
      /\ \A i \in 1 .. Len(w.pending) : log'[Len(log) + i] = w.pending[i]
      /\ Len(w.pending) \in Nat \ {0} /\ Len(log) \in Nat
  BY <1>1, <1>2, ConcatProperties, EmptySeq, SMTT(30)
<1>4. /\ Recorded(w.key, r, log') /\ HasKey(log', w.key)
      /\ SubSeq(log', 1, r.expected) = log
  BY <1>1, <1>2, RecordedNow
<1>5. ASSUME NEW k \in Keys, HasKey(log, k) PROVE HasKey(log', k)
  <2>1. PICK i \in DOMAIN log : log[i].id.key = k
    BY <1>5 DEF HasKey
  <2>2. i \in DOMAIN log' /\ log'[i] = log[i]
    BY <1>2, <1>3, <2>1
  <2>3. QED
    BY <2>1, <2>2 DEF HasKey
<1>6. ASSUME NEW k \in Keys, HasKey(log', k) PROVE HasKey(log, k) \/ k = w.key
  <2>1. PICK i \in DOMAIN log' : log'[i].id.key = k
    BY <1>6 DEF HasKey
  <2>2. CASE i \in DOMAIN log
    BY <1>2, <1>3, <2>1, <2>2 DEF HasKey
  <2>3. CASE i \notin DOMAIN log
    <3>1. i - Len(log) \in 1 .. Len(w.pending) /\ Len(log) + (i - Len(log)) = i
      BY <1>2, <1>3, <2>1, <2>3
    <3>2. log'[i] = w.pending[i - Len(log)] /\ i - Len(log) \in DOMAIN w.pending
      BY <1>2, <1>3, <3>1
    <3>3. QED
      BY <1>2, <2>1, <3>2
  <2>4. QED
    BY <2>2, <2>3
<1>7. ASSUME NEW k \in Keys, HasKey(log', k)
      PROVE  /\ Recorded(k, request[k], log')
             /\ request[k] # NoRequest
             /\ Applicable(k, request[k], SubSeq(log', 1, request[k].expected))
  <2>1. CASE k = w.key
    <3>1. r = request[k] /\ r # NoRequest
      <4>1. r = request[k]
        BY <2>1 DEF r
      <4>2. ~(r = NoRequest)
        BY <2>1 DEF RecordInv, WritesAreDecided, w, r
      <4>3. QED
        BY <4>1, <4>2
    <3>2. QED
      BY <1>2, <1>4, <2>1, <3>1
  <2>2. CASE k # w.key
    <3>1. HasKey(log, k)
      BY <1>6, <1>7, <2>2
    <3>2. /\ request[k] \in Requests /\ Recorded(k, request[k], log)
          /\ Applicable(k, request[k], SubSeq(log, 1, request[k].expected))
          /\ request[k].expected <= Len(log)
      BY <3>1, RecordedKey
    <3>3. \A i \in DOMAIN w.pending : w.pending[i].id.key # k
      BY <1>2, <2>2
    <3>4. /\ Recorded(k, request[k], log \o w.pending)
          /\ SubSeq(log \o w.pending, 1, request[k].expected)
               = SubSeq(log, 1, request[k].expected)
      BY <1>2, <3>2, <3>3, RecordedStays, ZenonT(40)
    <3>5. request[k] # NoRequest
      BY <3>1 DEF RecordInv, Logged, RecordedWereDecided
    <3>6. QED
      BY <1>1, <3>2, <3>4, <3>5
  <2>3. QED
    BY <2>1, <2>2
<1>8. RecordedWereDecided' /\ WholeAndOnce'
  BY <1>7 DEF RecordedWereDecided, WholeAndOnce, Recorded
<1>9. RevertedOnce'
  <2>1. RevertsOnce(log) /\ WellFormed(log)
    BY DEF RecordInv, Logged, RevertedOnce, RevertsOnce, LedgerReduces, Legal
  <2>2. RevertsOnce(log')
    BY <1>1, <1>2, <2>1, RevertsOnceStays
  <2>3. QED
    BY <2>2 DEF RevertsOnce, RevertedOnce
<1>10. StateMatchesLog'
  <2>1. log' # <<>> /\ draftState' = ReducedState(log')
    BY <1>1, <1>2, <1>3
  <2>2. QED
    BY <2>1 DEF StateMatchesLog
<1>11. QED
  BY <1>3, <1>4, <1>5, <1>6, <1>8, <1>9, <1>10 DEF Logged, w

\* Every step keeps the agreement.
LEMMA RecordInvStep == TypeOK /\ LedgerReduces /\ RecordInv /\ [Next]_vars => RecordInv'
<1> SUFFICES ASSUME TypeOK, LedgerReduces, RecordInv, [Next]_vars PROVE RecordInv'
  OBVIOUS
<1>0. /\ RequestsLookBack /\ WritesAreDecided /\ Logged /\ \A k \in Keys : Truthful(k)
  BY DEF RecordInv
<1>1. ASSUME NEW k \in Keys, Compose(k) PROVE RecordInv'
  <2>1. PICK r \in [kind : {"append"}, expected : {Len(log)}, action : Actions]
               \union [kind : {"undo"}, expected : {Len(log)}, target : 0 .. Len(log)]
               \union [kind : {"correct"}, expected : {Len(log)}, target : 1 .. Len(log),
                       action : Actions] :
          request' = [request EXCEPT ![k] = r]
    BY <1>1 DEF Compose
  <2>2. /\ r.expected = Len(log) /\ Len(log) \in Nat
        /\ r.kind # "append" => r.target <= r.expected
    BY <2>1 DEF TypeOK
  <2>3. /\ request[k] = NoRequest
        /\ UNCHANGED <<log, draftState, authority, handler, answered>>
    BY <1>1 DEF Compose
  <2>4. /\ request'[k] = r /\ \A l \in Keys \ {k} : request'[l] = request[l]
    BY <2>1 DEF TypeOK
  <2>5. \A l \in Keys : request[l] # NoRequest => request'[l] = request[l]
    BY <2>3, <2>4
  <2>6. RequestsLookBack'
    BY <1>0, <2>2, <2>3, <2>4 DEF RequestsLookBack
  <2>7. WritesAreDecided'
    <3>1. ASSUME NEW h \in Handlers, handler[h] # Idle
          PROVE  request[handler[h].key] # NoRequest /\ handler[h].key \in Keys
      BY <1>0, <3>1 DEF WritesAreDecided, TypeOK, Writes
    <3>2. QED
      BY <1>0, <2>3, <2>5, <3>1 DEF WritesAreDecided
  <2>8. \A l \in Keys : Truthful(l)'
    BY <1>0, <2>3, <2>5 DEF Truthful, Closed, HasKey
  <2>9. QED
    BY <1>0, <2>3, <2>5, <2>6, <2>7, <2>8, LoggedStays DEF RecordInv
<1>2. ASSUME NEW k \in Keys, AnswerAtOnce(k) PROVE RecordInv'
  <2>1. UNCHANGED <<log, draftState, authority, request, handler>>
    BY <1>2 DEF AnswerAtOnce
  <2>2. \A l \in Keys : (Closed(l) => Closed(l)') /\ (HasKey(log, l) => HasKey(log', l))
    BY <2>1 DEF Closed, Decided, HasKey
  <2>3. \E outcome : /\ Answer(k, outcome) /\ outcome # "IDEMPOTENCY_CONFLICT"
                     /\ outcome \in {"saved", "replayed"} => HasKey(log, k)
                     /\ outcome \in {"VERSION_CONFLICT", "REFUSED"} => Closed(k)
    <3>1. CASE AnswerForbidden(k)
      BY <3>1 DEF AnswerForbidden
    <3>2. CASE AnswerKnownKey(k)
      <4>1. HasKey(log, k) /\ RecordedAsAsked(k, request[k], log)
        BY <3>2, RecordedKey DEF AnswerKnownKey
      <4>2. Answer(k, "replayed")
        BY <3>2, <4>1 DEF AnswerKnownKey
      <4>3. QED
        BY <4>1, <4>2
    <3>3. CASE AnswerComplete(k)
      <4>1. Answer(k, "REFUSED") /\ Closed(k)
        BY <3>3 DEF AnswerComplete, New, Allowed, Finished, Closed, Decided
      <4>2. QED
        BY <4>1
    <3>4. CASE AnswerStale(k)
      <4>1. Answer(k, "VERSION_CONFLICT") /\ Closed(k)
        BY <3>4 DEF AnswerStale, New, Allowed, Closed
      <4>2. QED
        BY <4>1
    <3>5. CASE AnswerInapplicable(k)
      <4>1. Answer(k, "REFUSED") /\ Closed(k)
        BY <3>5 DEF AnswerInapplicable, Current, New, Allowed, Closed, Decided
      <4>2. QED
        BY <4>1
    <3>6. QED
      BY <1>2, <3>1, <3>2, <3>3, <3>4, <3>5 DEF AnswerAtOnce
  <2>4. \A l \in Keys : Truthful(l)'
    BY <1>0, <2>2, <2>3, AnswerKeepsTruth
  <2>5. RequestsLookBack' /\ WritesAreDecided'
    BY <1>0, <2>1 DEF RequestsLookBack, WritesAreDecided
  <2>6. QED
    BY <1>0, <2>1, <2>4, <2>5, LoggedStays DEF RecordInv
<1>3. ASSUME NEW h \in Handlers, NEW k \in Keys, Prepare(h, k) PROVE RecordInv'
  <2> DEFINE write == [phase   |-> "append",
                       key     |-> k,
                       session |-> log,
                       pending |-> PendingEvents(k, request[k], log)]
  <2>1. /\ UNCHANGED <<log, draftState, authority, request, answered>>
        /\ handler' = [handler EXCEPT ![h] = write]
        /\ request[k] # NoRequest /\ ~HasKey(log, k) /\ Len(log) = request[k].expected
        /\ Decided(k, request[k], log)
    BY <1>3 DEF Prepare, Current, New, Allowed, Finished, Decided
  <2>2. IsPrefix(log, log)
    BY PrefixReflexive DEF TypeOK
  <2>3. /\ write.key = k /\ write.session = log
        /\ write.pending = PendingEvents(k, request[k], log)
    OBVIOUS
  <2> HIDE DEF write
  <2>4. handler'[h] = write /\ \A g \in Handlers \ {h} : handler'[g] = handler[g]
    BY <2>1 DEF TypeOK
  <2>5. WritesAreDecided'
    <3>1. SUFFICES ASSUME NEW g \in Handlers, handler'[g] # Idle
                   PROVE  LET w == handler'[g]
                              r == request[w.key]
                          IN /\ r # NoRequest
                             /\ IsPrefix(w.session, log) /\ Len(w.session) = r.expected
                             /\ ~HasKey(w.session, w.key)
                             /\ Decided(w.key, r, w.session)
                             /\ w.pending = PendingEvents(w.key, r, w.session)
      BY <2>1 DEF WritesAreDecided
    <3>2. CASE g = h
      BY <2>1, <2>2, <2>3, <2>4, <3>2
    <3>3. CASE g # h
      BY <1>0, <2>4, <3>1, <3>3 DEF WritesAreDecided
    <3>4. QED
      BY <3>2, <3>3
  <2>6. RequestsLookBack' /\ \A l \in Keys : Truthful(l)'
    BY <1>0, <2>1 DEF RequestsLookBack, Truthful, Closed, HasKey
  <2>7. QED
    BY <1>0, <2>1, <2>5, <2>6, LoggedStays DEF RecordInv
<1>4. ASSUME NEW h \in Handlers, Commit(h) PROVE RecordInv'
  <2> DEFINE w == handler[h]
             r == request[w.key]
  <2>1. /\ w # Idle /\ UNCHANGED <<authority, request>>
        /\ handler' = [handler EXCEPT ![h] = Idle]
        /\ \/ CommitAppend(w)
           \/ /\ CommitForbidden(w) \/ CommitKnownKey(w) \/ CommitStale(w)
              /\ UNCHANGED <<log, draftState>>
    BY <1>4 DEF Commit
  <2>2. /\ w.key \in Keys /\ r \in Requests /\ w.session \in Seq(Event)
        /\ IsPrefix(w.session, log) /\ Len(w.session) = r.expected
        /\ Decided(w.key, r, w.session)
        /\ w.pending = PendingEvents(w.key, r, w.session)
        /\ Len(w.session) = Len(log) => w.session = log
        /\ StoredAlready(w) <=> HasKey(log, w.key)
    BY <2>1, CommitFacts, KnownIsStored
  <2>3. r # NoRequest
    BY <1>0, <2>1 DEF WritesAreDecided
  <2>4. \A g \in Handlers : handler'[g] = Idle \/ handler'[g] = handler[g]
    BY <2>1 DEF TypeOK
  <2>5. CASE CommitAppend(w)
    <3>1. /\ Logged' /\ HasKey(log', w.key) /\ Len(log') > Len(log)
          /\ \A k \in Keys : HasKey(log, k) => HasKey(log', k)
          /\ \A k \in Keys : HasKey(log', k) => HasKey(log, k) \/ k = w.key
      BY <2>1, <2>5, CommitKeepsLogged
    <3>2. /\ log \in Seq(Event) /\ w.pending \in Seq(Event) /\ log' = log \o w.pending
          /\ Len(log) = Len(w.session) /\ Answer(w.key, "saved")
      BY <2>1, <2>5, CommitFacts DEF CommitAppend, TypeOK
    <3> HIDE DEF w, r
    <3>3. log' \in Seq(Event) /\ IsPrefix(log, log') /\ Len(log) \in Nat /\ Len(log') \in Nat
      BY <3>2, PrefixOfConcat
    <3>4. RequestsLookBack'
      <4>1. SUFFICES ASSUME NEW l \in Keys, request[l] # NoRequest
                     PROVE  /\ request[l].expected <= Len(log')
                            /\ request[l].kind # "append" =>
                                 request[l].target <= request[l].expected
        BY <2>1 DEF RequestsLookBack
      <4>2. request[l].expected \in Nat
        BY <4>1 DEF TypeOK, Requests, Appends, Undos, Corrections
      <4>3. QED
        BY <1>0, <3>1, <3>3, <4>1, <4>2 DEF RequestsLookBack
    <3>5. WritesAreDecided'
      <4>1. SUFFICES ASSUME NEW g \in Handlers, handler'[g] # Idle
                     PROVE  LET v == handler[g]
                                q == request[v.key]
                            IN /\ q # NoRequest
                               /\ IsPrefix(v.session, log') /\ Len(v.session) = q.expected
                               /\ ~HasKey(v.session, v.key)
                               /\ Decided(v.key, q, v.session)
                               /\ v.pending = PendingEvents(v.key, q, v.session)
        BY <2>1, <2>4 DEF WritesAreDecided
      <4>2. handler[g] # Idle
        BY <2>4, <4>1
      <4>3. handler[g].session \in Seq(Event) /\ IsPrefix(handler[g].session, log)
        BY <1>0, <4>2 DEF TypeOK, Writes, WritesAreDecided
      <4>4. IsPrefix(handler[g].session, log')
        BY <3>2, <3>3, <4>3, PrefixTransitive
      <4>5. QED
        BY <1>0, <4>2, <4>4 DEF WritesAreDecided
    <3>6. ASSUME NEW l \in Keys, Closed(l) PROVE Closed(l)'
      <4>1. l # w.key
        <5>1. SUFFICES ASSUME l = w.key PROVE FALSE
          OBVIOUS
        <5>2. request[l] = r /\ Len(log) = r.expected /\ Decided(l, r, log)
          BY <2>2, <3>2, <5>1 DEF r
        <5>3. QED
          BY <3>6, <5>2 DEF Closed
      <4>2. ~HasKey(log', l)
        BY <3>1, <3>6, <4>1 DEF Closed
      <4>3. request[l] # NoRequest
        BY <3>6 DEF Closed
      <4>4. request[l].expected \in Nat /\ request[l].expected <= Len(log)
        BY <1>0, <4>3 DEF RequestsLookBack, TypeOK, Requests, Appends, Undos, Corrections
      <4>5. Len(log') # request[l].expected
        BY <3>1, <3>3, <4>4
      <4>6. QED
        BY <2>1, <4>2, <4>3, <4>5 DEF Closed
    <3>7. \A l \in Keys : Truthful(l)'
      BY <1>0, <2>2, <3>1, <3>2, <3>6, AnswerKeepsTruth
    <3>8. QED
      BY <3>1, <3>4, <3>5, <3>7 DEF RecordInv
  <2>6. CASE /\ CommitForbidden(w) \/ CommitKnownKey(w) \/ CommitStale(w)
             /\ UNCHANGED <<log, draftState>>
    <3>1. \A l \in Keys : (Closed(l) => Closed(l)') /\ (HasKey(log, l) => HasKey(log', l))
      BY <2>1, <2>6 DEF Closed, Decided, HasKey
    <3>2. \E outcome : /\ Answer(w.key, outcome) /\ outcome # "IDEMPOTENCY_CONFLICT"
                       /\ outcome \in {"saved", "replayed"} => HasKey(log, w.key)
                       /\ outcome \in {"VERSION_CONFLICT", "REFUSED"} => Closed(w.key)
      <4>1. CASE CommitForbidden(w)
        BY <4>1 DEF CommitForbidden
      <4>2. CASE CommitKnownKey(w)
        <5>1. HasKey(log, w.key)
          BY <2>2, <4>2 DEF CommitKnownKey
        <5>2. Recorded(w.key, r, log)
          BY <2>2, <5>1, RecordedKey
        <5>3. SubSeq(log, 1, r.expected) = w.session
          BY <2>2, InitialPartIs DEF TypeOK
        <5> HIDE DEF w, r
        <5>4. IsPrefix(w.session \o w.pending, log)
          BY <2>2, <5>2, <5>3 DEF Recorded
        <5>5. Answer(w.key, "replayed")
          BY <4>2, <5>4 DEF CommitKnownKey
        <5>6. QED
          BY <5>1, <5>5
      <4>3. CASE CommitStale(w)
        <5>1. Answer(w.key, "VERSION_CONFLICT") /\ ~StoredAlready(w) /\ Len(log) # Len(w.session)
          BY <4>3 DEF CommitStale
        <5>2. Closed(w.key)
          BY <2>2, <2>3, <5>1 DEF Closed
        <5> HIDE DEF w
        <5>3. QED
          BY <5>1, <5>2
      <4>4. QED
        BY <2>6, <4>1, <4>2, <4>3
    <3>3. \A l \in Keys : Truthful(l)'
      BY <1>0, <2>2, <3>1, <3>2, AnswerKeepsTruth
    <3>4. RequestsLookBack'
      BY <1>0, <2>1, <2>6 DEF RequestsLookBack
    <3>5. WritesAreDecided'
      BY <1>0, <2>1, <2>4, <2>6 DEF WritesAreDecided
    <3>6. Logged'
      BY <1>0, <2>1, <2>6, LoggedStays
    <3>7. QED
      BY <3>3, <3>4, <3>5, <3>6 DEF RecordInv
  <2>7. QED
    BY <2>1, <2>5, <2>6
<1>5. ASSUME NEW h \in Handlers, Abandon(h) PROVE RecordInv'
  <2>1. /\ UNCHANGED <<log, draftState, authority, request, answered>>
        /\ handler' = [handler EXCEPT ![h] = Idle]
    BY <1>5 DEF Abandon
  <2>2. \A g \in Handlers : handler'[g] = Idle \/ handler'[g] = handler[g]
    BY <2>1 DEF TypeOK
  <2>3. WritesAreDecided' /\ RequestsLookBack'
    BY <1>0, <2>1, <2>2 DEF WritesAreDecided, RequestsLookBack
  <2>4. \A l \in Keys : Truthful(l)'
    BY <1>0, <2>1 DEF Truthful, Closed, HasKey
  <2>5. QED
    BY <1>0, <2>1, <2>3, <2>4, LoggedStays DEF RecordInv
<1>6. ASSUME UNCHANGED <<log, draftState, request, handler, answered>> PROVE RecordInv'
  <2>1. WritesAreDecided' /\ RequestsLookBack' /\ \A l \in Keys : Truthful(l)'
    BY <1>0, <1>6 DEF WritesAreDecided, RequestsLookBack, Truthful, Closed, HasKey
  <2>2. QED
    BY <1>0, <1>6, <2>1, LoggedStays DEF RecordInv
<1>7. CASE ChangeAuthority \/ UNCHANGED vars
  BY <1>6, <1>7 DEF ChangeAuthority, vars
<1>8. QED
  BY <1>1, <1>2, <1>3, <1>4, <1>5, <1>7 DEF Next

\* The invariant of the record (requests, answers, stored state) holds in every state.
THEOREM RecordInvariant == Spec => []RecordInv
<1>1. SessionInv => TypeOK /\ LedgerReduces
  BY DEF SessionInv
<1>2. QED
  BY <1>1, SessionInvariant, RecordInvInit, RecordInvStep, PTL DEF Spec

\* drafts.state always agrees with the log it sits beside, although it is
\* written from what the caller computed outside the transaction.
THEOREM StateAlwaysMatches == Spec => []StateMatchesLog
<1>1. RecordInv => StateMatchesLog
  BY DEF RecordInv, Logged
<1>2. QED
  BY <1>1, RecordInvariant, PTL

\* A request is in the log entirely and once, where its author asked, or not at
\* all, however often it is sent and whatever else runs.
THEOREM RequestsWholeAndOnce == Spec => []WholeAndOnce
<1>1. RecordInv => WholeAndOnce
  BY DEF RecordInv, Logged
<1>2. QED
  BY <1>1, RecordInvariant, PTL

\* What an author is told is true and stays true, and a retry is recognised.
THEOREM AnswersAlwaysTrue == Spec => []AnswersAreTrue
<1>1. RecordInv => AnswersAreTrue
  BY DEF RecordInv, Truthful, Closed, AnswersAreTrue, AnswersAreFinal, RetriesRecognised
<1>2. QED
  BY <1>1, RecordInvariant, PTL

-----------------------------------------------------------------------------
(***************************************************************************)
(* What the log of a session is as a draft.                                *)
(***************************************************************************)

LEMMA LogOfEvents == TypeOK => OfEvents(log)
BY DEF TypeOK, Event, OfEvents, IsRevert, IsAction

\* Every action is undone at most once, no revert is undone, and the latest
\* action can always be undone.
THEOREM UndoAlwaysSound == Spec => []UndoIsSound
<1>1. SessionInv => LatestCanBeUndone
  <2> DEFINE revert == RevertEvent(EventId(NoRequest, "main"), log[LatestUndoable(log)].id)
             S == Event \union {revert}
  <2>1. SUFFICES ASSUME TypeOK, LedgerReduces, LatestUndoable(log) # 0
                 PROVE  Legal(Append(log, revert))
    BY DEF SessionInv, LatestCanBeUndone
  <2>2. log \in Seq(S) /\ revert \in S
    BY <2>1 DEF TypeOK
  <2>3. IsRevert(revert) /\ revert.target = log[LatestUndoable(log)].id
    BY DEF RevertEvent, IsRevert
  <2>4. \A i \in DOMAIN log : log[i].id # revert.id
    <3>1. revert.id.key = NoRequest
      BY DEF RevertEvent, EventId
    <3>2. ASSUME NEW i \in DOMAIN log PROVE log[i].id.key \in Keys
      BY <2>1, <3>2 DEF TypeOK, Event, EventIds
    <3> HIDE DEF revert
    <3>3. QED
      BY <3>1, <3>2, SessionAssumption
  <2> HIDE DEF revert, S
  <2>5. OfEvents(log) /\ Legal(log)
    BY <2>1, LogOfEvents DEF LedgerReduces
  <2>6. QED
    BY <2>1, <2>2, <2>3, <2>4, <2>5, LatestAlwaysUndoable
<1>2. RecordInv => RevertedOnce
  BY DEF RecordInv, Logged
<1>3. QED
  BY <1>1, <1>2, SessionInvariant, RecordInvariant, PTL DEF UndoIsSound

\* Every board a commissioner or a reader of the session is shown is sound.
THEOREM BoardsAlwaysSound == Spec => []SoundRoom(Reduce(log))
<1>1. SessionInv => SoundRoom(Reduce(log))
  BY LogOfEvents, EveryRoomIsSound DEF SessionInv, TypeOK
<1>2. QED
  BY <1>1, SessionInvariant, PTL
=============================================================================
