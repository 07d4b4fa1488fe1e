---------------------------- MODULE EspnLiveRoom ----------------------------
(***************************************************************************)
(* A draft room fed by ESPN.  Three writers share the ledger:              *)
(*                                                                         *)
(*  - pages: browser tabs that show the ESPN draft and upload the whole    *)
(*    board at each change (EspnLiveDraftService.ingest).  One page at a   *)
(*    time holds the lease of the feed; a heartbeat renews it;             *)
(*  - polls: the server reads ESPN's results itself                        *)
(*    (EspnDraftPollService.refresh), under a poll lease;                  *)
(*  - commissioners, who may also freeze the feed (manual backup).  The    *)
(*    module DraftSession shows that each of their writes is one atomic    *)
(*    append decided on the log it extends, so here it is one step.        *)
(*                                                                         *)
(* A page and a poll both decide on what they read earlier without a lock  *)
(* and commit under the locks of the draft and of the feed.                *)
(*                                                                         *)
(* Time is abstract: a lease may have lapsed, the browser may have been    *)
(* quiet and a poll may be due at any moment.  drafts.state is left out:   *)
(* no step below reads it but to write it back.                            *)
(***************************************************************************)
EXTENDS DraftReducer

CONSTANTS
  Pages,          \* page sessions, each of one paired device
  Uploads,        \* uploads the API can work on at the same time
  Polls,          \* server polls that can run at the same time
  Screens,        \* what a page may render: sequences of observations
  Results,        \* what ESPN may answer to a poll: observations
  ManualActions,  \* what a commissioner may enter
  NoPage,         \* nobody holds the feed yet
  NoBoard,        \* no observation
  MaxLog,         \* bound: no writer starts on a longer log
  MaxManual,      \* bound on manual events
  MaxFreezes,     \* bound on the switches of manual backup
  MaxTakeovers,   \* bound: no page starts after so many takeovers of the feed
  MaxPolls        \* bound on claims of the poll lease

\* ESPN_LIVE_DRAFT_LIMITS.destructiveConfirmations, and the poll's literal 2.
DestructiveConfirmations == 2

\* An observation is a cumulative board: its picks, in the order of the draft,
\* and whether ESPN says the draft is over.  A checksum stands for all of it.
\* (ESPN's waiting and paused are handled as live is.)
Observations == Results \union UNION {Range(screen) : screen \in Screens}

\* What an event says happened; the number is the overall pick of a snake draft, the
\* price of an auction.
DraftActions ==
  [type : SnakeTypes \union AuctionTypes, team : Teams, player : Players, number : Nat]

ObservationType == [state : {"live", "complete"}, picks : Seq(DraftActions)]

ASSUME RoomAssumption ==
  /\ MaxLog \in Nat /\ MaxFreezes \in Nat /\ {MaxManual, MaxTakeovers, MaxPolls} \subseteq Nat
  /\ Screens \subseteq Seq(ObservationType) /\ Results \subseteq ObservationType
  /\ ManualActions \subseteq DraftActions
  /\ NoPage \notin Pages /\ NoBoard \notin Observations

VARIABLES
  log,       \* draft_events
  feed,      \* the row of draft_provider_feeds
  recorded,  \* draft_provider_observations: <<page session, revision>>
  screen,    \* screen[g][r]: what page g renders, and uploads, as revision r
  upload,    \* upload[u]: an upload the API works on
  poll,      \* poll[q]: a server poll under way
  freezes,   \* how often manual backup was switched (bound)
  held,      \* history: the boards held as destructive, and whether since the
             \* last switch of manual backup
  unearned   \* history: rewrites without a hold ("unseen"), or without one since
             \* that switch ("resumed")

vars == <<log, feed, recorded, screen, upload, poll, freezes, held, unearned>>

-----------------------------------------------------------------------------
(***************************************************************************)
(* The reconciler: a pure function of the log and the observed board.      *)
(***************************************************************************)

Reverted(events) ==
  {events[i].target : i \in {j \in DOMAIN events : IsRevert(events[j])}}

StandingAt(events, source) ==
  {i \in DOMAIN events : /\ events[i].source = source
                         /\ ~IsRevert(events[i])
                         /\ events[i].id \notin Reverted(events)}

\* Positions of the actions of a source that no revert names, oldest first.
Standing(events, source) ==
  EventsAt([i \in DOMAIN events |-> i], StandingAt(events, source))

ActionOf(e) == [type |-> e.type, team |-> e.team, player |-> e.player, number |-> e.number]

\* acceptedProviderActions
Accepted(events) ==
  LET positions == Standing(events, "espn")
  IN [n \in DOMAIN positions |-> ActionOf(events[positions[n]])]

KeeperTypes == {"SNAKE_KEEPER_ASSIGNED", "AUCTION_KEEPER_ASSIGNED"}

\* canonicalProviderOrder: keepers first, each group in the order of the draft.
CanonicalOrder(picks) ==
  LET keepers == {n \in DOMAIN picks : picks[n].type \in KeeperTypes}
  IN EventsAt(picks, keepers) \o EventsAt(picks, DOMAIN picks \ keepers)

\* How many of the accepted actions the board repeats before the first it does not.
CommonPrefix(events, picks) ==
  LET accepted == Accepted(events)
      observed == CanonicalOrder(picks)
  IN Max({k \in 0 .. Len(accepted) :
            k <= Len(observed) /\ \A n \in 1 .. k : accepted[n] = observed[n]})

\* The accepted actions the board contradicts, newest first, and what it adds.
Superseded(events, picks) ==
  Reverse(SubSeq(Standing(events, "espn"),
                 CommonPrefix(events, picks) + 1, Len(Accepted(events))))

Additions(events, picks) ==
  SubSeq(CanonicalOrder(picks),
         CommonPrefix(events, picks) + 1, Len(CanonicalOrder(picks)))

\* Idempotency keys, and with them event ids, are derived from the content.
RevertKey(position, action) == [revert |-> position, fingerprint |-> action]

Slot(action, saleSequence) ==
  IF action.type \in SnakeTypes THEN action.number ELSE saleSequence

\* usedKeys: who claimed a slot before, reverted or not.
Claims(events, slot) ==
  {i \in DOMAIN events : /\ events[i].source = "espn"
                         /\ ~IsRevert(events[i])
                         /\ events[i].id.slot = slot}

\* Faulty: a slot that was claimed before is claimed under the same key.
ActionKeyFirst(events, additions, prefix, n) ==
  [slot        |-> Slot(additions[n], prefix + n),
   fingerprint |-> additions[n],
   generation  |-> 0]

\* The key of the n-th addition.  A slot claimed before, by the log or by an earlier
\* addition, gets a new generation.
ActionKey(events, additions, prefix, n) ==
  LET slot == Slot(additions[n], prefix + n)
      earlier == {m \in 1 .. n - 1 : Slot(additions[m], prefix + m) = slot}
  IN [slot        |-> slot,
      fingerprint |-> additions[n],
      generation  |-> Cardinality(Claims(events, slot)) + Cardinality(earlier)]

\* What reconcileProviderObservation wants to append.
ProviderEvents(events, picks) ==
  LET superseded == Superseded(events, picks)
      additions == Additions(events, picks)
      Fingerprint(position) ==
        IF additions # <<>> THEN additions[1] ELSE ActionOf(events[position])
      revert == [n \in DOMAIN superseded |->
        [id     |-> RevertKey(superseded[n], Fingerprint(superseded[n])),
         type   |-> "DRAFT_EVENT_REVERTED",
         target |-> events[superseded[n]].id,
         source |-> "espn"]]
      add == [n \in DOMAIN additions |->
        [id     |-> ActionKey(events, additions, CommonPrefix(events, picks), n),
         type   |-> additions[n].type,
         team   |-> additions[n].team,
         player |-> additions[n].player,
         number |-> additions[n].number,
         source |-> "espn"]]
  IN revert \o add

\* Faulty: manual entries do not stop a rewrite.
PlanOverManual(events, picks, confirmed) ==
  LET append == ProviderEvents(events, picks)
      rewrites == Superseded(events, picks) # <<>>
  IN CASE append = <<>>            -> "idempotent"
       [] rewrites /\ ~confirmed   -> "destructive-hold"
       [] OTHER ->
            IF ~Legal(events \o append) THEN "held"
            ELSE IF rewrites THEN "destructive" ELSE "forward"

\* The kind of the plan.
Plan(events, picks, confirmed) ==
  LET append == ProviderEvents(events, picks)
      rewrites == Superseded(events, picks) # <<>>
      touched == Standing(events, "manual") # <<>>
  IN CASE append = <<>>                          -> "idempotent"
       [] rewrites /\ touched                    -> "held"
       [] rewrites /\ ~touched /\ ~confirmed     -> "destructive-hold"
       [] OTHER ->
            IF ~Legal(events \o append) THEN "held"
            ELSE IF rewrites THEN "destructive" ELSE "forward"

-----------------------------------------------------------------------------
(***************************************************************************)
(* What an upload or a poll decides, from what it read.                    *)
(***************************************************************************)

\* Nothing is applied; the confirmations start over.
Hold(state, issue) ==
  [result |-> "held", append |-> <<>>, state |-> state, issue |-> issue,
   pending |-> NoBoard, pendingSeen |-> 0]

\* A destructive board waits for its confirmations.
HoldDestructive(board, seen) ==
  [result |-> "held", append |-> <<>>, state |-> board.state,
   issue |-> "DESTRUCTIVE_PENDING", pending |-> board, pendingSeen |-> seen]

Advance(append, state) ==
  [result |-> IF append = <<>> THEN "idempotent" ELSE "accepted",
   append |-> append, state |-> state, issue |-> "none",
   pending |-> NoBoard, pendingSeen |-> 0]

\* How often the board was seen as destructive, this look included.
Seen(context, board) ==
  IF context.pending = board THEN context.pendingSeen + 1 ELSE 1

\* Faulty: the first look is enough.
ConfirmedAtOnce(context, board) == TRUE

\* Faulty: one look too many is needed.
ConfirmedLate(context, board) ==
  context.pending = board /\ context.pendingSeen + 1 > DestructiveConfirmations

Confirmed(context, board) ==
  context.pending = board /\ context.pendingSeen + 1 >= DestructiveConfirmations

\* What both do with the reconciler's plan; applying it leaves the feed in "state".
FollowPlan(context, events, board, state) ==
  LET plan == Plan(events, board.picks, Confirmed(context, board))
  IN CASE plan = "held"             -> Hold("degraded", "REFUSED")
       [] plan = "destructive-hold" -> HoldDestructive(board, Seen(context, board))
       [] OTHER                      ->
            Advance(ProviderEvents(events, board.picks), state)

\* ingest.  Whether every identity of the board resolves is up to the crosswalk.
DecideUpload(context, events, board, resolved) ==
  IF ~resolved THEN Hold("degraded", "UNRESOLVED")
  ELSE IF context.manualBackupActive THEN Hold(context.state, "MANUAL_BACKUP_ACTIVE")
  ELSE FollowPlan(context, events, board, board.state)

TotalSlots == FoldFunction(+, 0, [t \in Teams |-> Cardinality(RosterSlots[t])])

\* #applySnapshot, from the plan on.  The poll does not take ESPN's word that the
\* draft is over: the engine must agree.  It takes the engine's word that it is.
Conclude(decision, events, board) ==
  IF decision.issue # "none" THEN decision
  ELSE IF IsComplete(Reduce(events \o decision.append))
       THEN [decision EXCEPT !.state = "complete"]
  ELSE IF board.state = "complete" THEN Hold("degraded", "COMPLETED_COUNT_MISMATCH")
  ELSE decision

\* #applySnapshot.  A complete board has a pick for every slot.
DecidePoll(context, events, board, resolved) ==
  IF context.manualBackupActive THEN Hold(board.state, "MANUAL_BACKUP_ACTIVE")
  ELSE IF ~resolved \/ (board.state = "complete" /\ Len(board.picks) # TotalSlots)
       THEN Hold("degraded", "UNRESOLVED")
  ELSE Conclude(FollowPlan(context, events, board, board.state), events, board)

-----------------------------------------------------------------------------
\* Faulty: whatever was appended since is ignored.
LedgerStill(w) == FALSE

\* The ledger is longer than the one w decided on.
LedgerMoved(w) == Len(log) # w.sequence

\* The session w read, kept by its length: the ledger is append-only.
Session(w) == SubSeq(log, 1, w.sequence)

Idle == [phase |-> "idle"]

\* createSession: an empty log and a waiting feed.
Init ==
  /\ log = <<>>
  /\ feed = [state              |-> "waiting",
             activePage         |-> NoPage,
             leaseGeneration    |-> 0,
             lastPageRevision   |-> 0,       \* 0 is null
             lastChecksum       |-> NoBoard,
             manualBackupActive |-> FALSE,
             pending            |-> NoBoard,
             pendingSeen        |-> 0,
             pollGeneration     |-> 0,
             serverLastChecksum |-> NoBoard,
             serverPending      |-> NoBoard,
             serverPendingSeen  |-> 0,
             verified           |-> FALSE]
  /\ recorded = {}
  /\ screen \in [Pages -> Screens]
  /\ upload = [u \in Uploads |-> Idle]
  /\ poll = [q \in Polls |-> Idle]
  /\ freezes = 0
  /\ held = {}
  /\ unearned = {}

\* The history of a channel's decision that has just been committed.
Looks(channel, board) == {h \in held : h.channel = channel /\ h.board = board}

Remember(channel, board, decision) ==
  /\ held' =
       IF decision.issue = "DESTRUCTIVE_PENDING"
       THEN held \union {[channel |-> channel, board |-> board, since |-> TRUE]}
       ELSE held
  /\ LET rewrites == \E i \in DOMAIN decision.append : IsRevert(decision.append[i])
         looks == Looks(channel, board)
         faults == {f \in {"unseen", "resumed"} :
                      CASE f = "unseen"  -> looks = {}
                        [] f = "resumed" -> \A h \in looks : ~h.since}
     IN unearned' = IF rewrites THEN unearned \union ({channel} \X faults) ELSE unearned

-----------------------------------------------------------------------------
(***************************************************************************)
(* Pages.                                                                  *)
(***************************************************************************)

\* What of the feed an upload still uses when it commits.
Context == [state              |-> feed.state,
            pending            |-> feed.pending,
            pendingSeen        |-> feed.pendingSeen,
            manualBackupActive |-> feed.manualBackupActive]

HoldsFeed(page) == feed.activePage = page

\* Was the revision behind, or at, the last one of its page when ingest read the
\* feed?  Then ingest answers without a commit.
Answered(page, revision) == HoldsFeed(page) /\ revision <= feed.lastPageRevision

\* lastReceivedAt moves: polls under way will find the browser fresh.
Received == [q \in Polls |->
  IF poll[q].phase = "fetching" THEN [poll[q] EXCEPT !.browserSince = TRUE] ELSE poll[q]]

\* loadSessionContext reads the feed.  A page may post a revision again, and posts
\* may arrive late and in any order.
ReceiveObservation(u, g, r) ==
  /\ upload[u] = Idle
  /\ Len(log) < MaxLog /\ feed.leaseGeneration - freezes < MaxTakeovers
  /\ upload' = [upload EXCEPT ![u] =
       [phase      |-> "observed",
        page       |-> g,
        revision   |-> r,
        generation |-> feed.leaseGeneration,
        answered   |-> Answered(g, r),
        context    |-> Context]]
  /\ UNCHANGED <<log, feed, recorded, screen, poll, freezes, held, unearned>>

\* The lease of another page is no obstacle once it lapsed (25 seconds without an
\* observation or a heartbeat).
MayClaim(page, generation, lapsed) ==
  /\ feed.leaseGeneration = generation
  /\ feed.activePage = NoPage \/ HoldsFeed(page) \/ lapsed

\* Faulty: the page counts from the start in the same generation.
TakenSilently(page) ==
  IF HoldsFeed(page) THEN feed
  ELSE [feed EXCEPT !.activePage = page, !.lastPageRevision = 0]

\* The feed once the page holds the lease: its own, renewed, or a takeover.
Taken(page) ==
  IF HoldsFeed(page) THEN feed
  ELSE [feed EXCEPT !.activePage = page,
                    !.lastPageRevision = 0,
                    !.leaseGeneration = @ + 1]

\* claimLease, and the ledger as ingest read it, some time between the feed and
\* the claim.  (An upload whose ledger moves before the claim commits nothing, so
\* the ones that read what they claim on are all that matter.)
ClaimLease(u) ==
  /\ upload[u].phase = "observed"
  /\ \E lapsed \in BOOLEAN :
       LET w == upload[u]
       IN \/ /\ MayClaim(w.page, w.generation, lapsed)
             /\ feed' = Taken(w.page)
             /\ upload' = [upload EXCEPT ![u] =
                  IF w.answered THEN Idle
                  ELSE [phase      |-> "decided",
                        page       |-> w.page,
                        revision   |-> w.revision,
                        sequence   |-> Len(log),
                        generation |-> feed'.leaseGeneration,
                        context    |-> w.context]]
          \/ /\ ~MayClaim(w.page, w.generation, lapsed)
             /\ upload' = [upload EXCEPT ![u] = Idle]
             /\ UNCHANGED feed
  /\ UNCHANGED <<log, recorded, screen, poll, freezes, held, unearned>>

\* The fences of commitObservation.
CanAdvance(w) ==
  /\ ~LedgerMoved(w)
  /\ HoldsFeed(w.page)
  /\ feed.leaseGeneration = w.generation
  /\ feed.manualBackupActive = w.context.manualBackupActive
  /\ w.revision > feed.lastPageRevision
  /\ <<w.page, w.revision>> \notin recorded

RecordObservation(w, board, decision) ==
  /\ log' = log \o decision.append
  /\ feed' = [feed EXCEPT
       !.state = decision.state,
       !.lastPageRevision = w.revision,
       !.lastChecksum = IF decision.result = "held" THEN @ ELSE board,
       !.pending = decision.pending,
       !.pendingSeen = decision.pendingSeen]
  /\ Remember("browser", board, decision)

CommitObservation(u) ==
  /\ upload[u].phase = "decided"
  /\ LET w == upload[u]
         board == screen[w.page][w.revision]
     IN \/ /\ CanAdvance(w)
           /\ \E resolved \in BOOLEAN :
                RecordObservation(w, board,
                  DecideUpload(w.context, Session(w), board, resolved))
           /\ recorded' = recorded \union {<<w.page, w.revision>>}
           /\ poll' = Received
        \/ ~CanAdvance(w) /\ UNCHANGED <<log, feed, recorded, poll, held, unearned>>
  /\ upload' = [upload EXCEPT ![u] = Idle]
  /\ UNCHANGED <<screen, freezes>>

\* recordHeartbeat: reads the feed; if the page is up to date ...
ReceiveHeartbeat(u, g, r) ==
  /\ upload[u] = Idle
  /\ Len(log) < MaxLog
  /\ feed.lastPageRevision = r /\ feed.lastChecksum = screen[g][r]
  /\ upload' = [upload EXCEPT ![u] =
       [phase |-> "heartbeat", page |-> g, revision |-> r, state |-> feed.state]]
  /\ UNCHANGED <<log, feed, recorded, screen, poll, freezes, held, unearned>>

\* ... it renews the lease, in one conditional update.
RenewLease(u) ==
  /\ upload[u].phase = "heartbeat"
  /\ LET w == upload[u]
         board == screen[w.page][w.revision]
         current == /\ HoldsFeed(w.page)
                    /\ feed.lastPageRevision = w.revision
                    /\ feed.lastChecksum = board
     IN \/ /\ current
           /\ feed' = [feed EXCEPT !.state = IF w.state = "degraded" THEN @ ELSE board.state]
           /\ poll' = Received
        \/ ~current /\ UNCHANGED <<feed, poll>>
  /\ upload' = [upload EXCEPT ![u] = Idle]
  /\ UNCHANGED <<log, recorded, screen, freezes, held, unearned>>

\* The API stops, or the connection is lost, before the commit.
AbandonUpload(u) ==
  /\ upload[u] # Idle
  /\ upload' = [upload EXCEPT ![u] = Idle]
  /\ UNCHANGED <<log, feed, recorded, screen, poll, freezes, held, unearned>>

-----------------------------------------------------------------------------
(***************************************************************************)
(* Server polls.                                                           *)
(***************************************************************************)

\* refresh reads the session before it claims the poll.
StartPoll(q) ==
  /\ poll[q] = Idle
  /\ Len(log) < MaxLog
  /\ feed.pollGeneration < MaxPolls
  /\ poll' = [poll EXCEPT ![q] = [phase |-> "started", sequence |-> Len(log)]]
  /\ UNCHANGED <<log, feed, recorded, screen, upload, freezes, held, unearned>>

\* claimPoll.  What it returns of the feed is what the poll decides on.  Whether
\* a poll is due, and an earlier one's lease free or lapsed, is a matter of time.
ClaimPoll(q) ==
  /\ poll[q].phase = "started"
  /\ \/ /\ feed.state # "complete"
        /\ feed.pollGeneration < MaxPolls
        /\ feed' = [feed EXCEPT !.pollGeneration = @ + 1]
        /\ poll' = [poll EXCEPT ![q] =
             [phase        |-> "fetching",
              sequence     |-> poll[q].sequence,
              generation   |-> feed'.pollGeneration,
              browserSince |-> FALSE,
              context      |-> [pending            |-> feed.serverPending,
                                pendingSeen        |-> feed.serverPendingSeen,
                                manualBackupActive |-> feed.manualBackupActive]]]
     \/ poll' = [poll EXCEPT ![q] = Idle] /\ UNCHANGED feed
  /\ UNCHANGED <<log, recorded, screen, upload, freezes, held, unearned>>

OwnsPoll(w) == feed.pollGeneration = w.generation

\* Was the browser heard less than half a minute before the poll was claimed, or
\* since?  Then the state of the feed is the browser's to tell.
BrowserFresh(w) == IF w.browserSince THEN {TRUE} ELSE {recorded # {}, FALSE}

\* Faulty: manual backup may have been switched since.
PollSuperseded(w) == ~OwnsPoll(w)

\* Another poll was claimed, or manual backup switched, since w was.
PollFenced(w) == ~OwnsPoll(w) \/ feed.manualBackupActive # w.context.manualBackupActive

\* What commitPoll writes.  The state of the feed is the browser's while it is fresh.
RecordPoll(board, decision, fresh) ==
  /\ log' = log \o decision.append
  /\ feed' = [feed EXCEPT
       !.state = IF decision.state # "complete" /\ fresh THEN @ ELSE decision.state,
       !.serverLastChecksum = board,
       !.serverPending = decision.pending,
       !.serverPendingSeen = decision.pendingSeen,
       !.verified = decision.state = "complete" /\ decision.issue = "none"]
  /\ Remember("server", board, decision)

\* commitPoll, with the answer of ESPN that #applySnapshot decided on.
CommitPoll(q) ==
  /\ poll[q].phase = "fetching"
  /\ LET w == poll[q]
     IN \/ (PollFenced(w) \/ LedgerMoved(w)) /\ UNCHANGED <<log, feed, held, unearned>>
        \/ /\ ~PollFenced(w) /\ ~LedgerMoved(w)
           /\ \E board \in Results, resolved \in BOOLEAN, fresh \in BrowserFresh(w) :
                RecordPoll(board, DecidePoll(w.context, Session(w), board, resolved), fresh)
  /\ poll' = [poll EXCEPT ![q] = Idle]
  /\ UNCHANGED <<recorded, screen, upload, freezes>>

\* ESPN, the credential or the connection failed: recordFailure when that was
\* expected; releaseClaim, which leaves the state alone, when it was not.
FailPoll(q) ==
  /\ poll[q].phase = "fetching"
  /\ \/ /\ OwnsPoll(poll[q])
        /\ FALSE \in BrowserFresh(poll[q])
        /\ feed' = [feed EXCEPT !.state = "stale"]
     \/ UNCHANGED feed
  /\ poll' = [poll EXCEPT ![q] = Idle]
  /\ UNCHANGED <<log, recorded, screen, upload, freezes, held, unearned>>

\* The API stops during a poll.
AbandonPoll(q) ==
  /\ poll[q] # Idle
  /\ poll' = [poll EXCEPT ![q] = Idle]
  /\ UNCHANGED <<log, feed, recorded, screen, upload, freezes, held, unearned>>

-----------------------------------------------------------------------------
(***************************************************************************)
(* Commissioners.                                                          *)
(***************************************************************************)

ManualCount == Cardinality({i \in DOMAIN log : log[i].source = "manual"})

ManualKey(position) == [manual |-> position]

ManualAction(position, a) ==
  [id |-> ManualKey(position), type |-> a.type, team |-> a.team, player |-> a.player,
   number |-> a.number, source |-> "manual"]

ManualRevert(position, target) ==
  [id |-> ManualKey(position), type |-> "DRAFT_EVENT_REVERTED",
   target |-> log[target].id, source |-> "manual"]

\* An append (not in a finished draft), an undo, or a correction: see DraftSession.
ManualBatches ==
  LET next == Len(log) + 1
      targets == {i \in DOMAIN log : ~IsRevert(log[i]) /\ IsActive(log)[i]}
      open == ~IsComplete(Reduce(log))
  IN {<<ManualAction(next, a)>> : a \in {b \in ManualActions : open}}
     \union {<<ManualRevert(next, i)>> : i \in targets}
     \union {<<ManualRevert(next, i), ManualAction(next + 1, a)>> :
               i \in targets, a \in ManualActions}

ManualWrite ==
  /\ Len(log) < MaxLog
  /\ ManualCount < MaxManual
  /\ \E batch \in ManualBatches : Legal(log \o batch) /\ log' = log \o batch
  /\ UNCHANGED <<feed, recorded, screen, upload, poll, freezes, held, unearned>>

\* Faulty: the count of a board's looks survives the switch.
SetManualBackupKeepsCount ==
  /\ freezes < MaxFreezes
  /\ freezes' = freezes + 1
  /\ \E active \in BOOLEAN :
       feed' = [feed EXCEPT !.manualBackupActive = active, !.leaseGeneration = @ + 1]
  /\ held' = {[h EXCEPT !.since = FALSE] : h \in held}
  /\ UNCHANGED <<log, recorded, screen, upload, poll, unearned>>

\* setManualBackupActive.  A request for the mode the feed is in writes nothing,
\* but it looks before it locks: of two that ask for the same at once, both write.
SetManualBackup ==
  /\ freezes < MaxFreezes
  /\ freezes' = freezes + 1
  /\ \E active \in BOOLEAN :
       /\ active = feed.manualBackupActive => freezes > 0
       /\ feed' = [feed EXCEPT !.manualBackupActive = active,
                               !.leaseGeneration = @ + 1,
                               !.pending = NoBoard,
                               !.pendingSeen = 0]
  /\ held' = {[h EXCEPT !.since = FALSE] : h \in held}
  /\ UNCHANGED <<log, recorded, screen, upload, poll, unearned>>

-----------------------------------------------------------------------------
Next ==
  \/ \E u \in Uploads, g \in Pages :
       \E r \in DOMAIN screen[g] : ReceiveObservation(u, g, r) \/ ReceiveHeartbeat(u, g, r)
  \/ \E u \in Uploads : ClaimLease(u)
  \/ \E u \in Uploads : CommitObservation(u)
  \/ \E u \in Uploads : RenewLease(u)
  \/ \E u \in Uploads : AbandonUpload(u)
  \/ \E q \in Polls : StartPoll(q)
  \/ \E q \in Polls : ClaimPoll(q)
  \/ \E q \in Polls : CommitPoll(q)
  \/ \E q \in Polls : FailPoll(q)
  \/ \E q \in Polls : AbandonPoll(q)
  \/ ManualWrite
  \/ SetManualBackup

Spec == Init /\ [][Next]_vars

-----------------------------------------------------------------------------
(***************************************************************************)
(* Properties.                                                             *)
(***************************************************************************)

EventIds ==
  [manual : 1 .. MaxLog + 2]
  \union [revert : Nat, fingerprint : DraftActions]
  \union [slot : Nat, fingerprint : DraftActions, generation : Nat]

Event ==
  [id : EventIds, type : SnakeTypes \union AuctionTypes, team : Teams,
   player : Players, number : Nat, source : {"espn", "manual"}]
  \union [id : EventIds, type : {"DRAFT_EVENT_REVERTED"}, target : EventIds,
          source : {"espn", "manual"}]

FeedStates == {"waiting", "live", "degraded", "stale", "complete"}
Boards == Observations \union {NoBoard}

Feed ==
  [state : FeedStates, activePage : Pages \union {NoPage}, leaseGeneration : Nat,
   lastPageRevision : Nat, lastChecksum : Boards, manualBackupActive : BOOLEAN,
   pending : Boards, pendingSeen : {0, 1}, pollGeneration : Nat,
   serverLastChecksum : Boards, serverPending : Boards, serverPendingSeen : {0, 1},
   verified : BOOLEAN]

\* What an upload and a poll keep, by their phase.
Revisions == Nat \ {0}

UploadStates ==
  LET contexts == [state : FeedStates, pending : Boards, pendingSeen : {0, 1},
                   manualBackupActive : BOOLEAN]
  IN {Idle}
     \union [phase : {"observed"}, page : Pages, revision : Revisions, generation : Nat,
             answered : BOOLEAN, context : contexts]
     \union [phase : {"decided"}, page : Pages, revision : Revisions, sequence : Nat,
             generation : Nat, context : contexts]
     \union [phase : {"heartbeat"}, page : Pages, revision : Revisions, state : FeedStates]

PollStates ==
  {Idle}
  \union [phase : {"started"}, sequence : Nat]
  \union [phase : {"fetching"}, sequence : Nat, generation : Nat, browserSince : BOOLEAN,
          context : [pending : Boards, pendingSeen : {0, 1}, manualBackupActive : BOOLEAN]]

Channels == {"browser", "server"}

\* Types of the variables; a destructive board is never counted past its first
\* look, because the second one applies it.
TypeOK ==
  /\ log \in Seq(Event)
  /\ feed \in Feed
  /\ recorded \subseteq Pages \X Revisions
  /\ screen \in [Pages -> Screens]
  /\ upload \in [Uploads -> UploadStates]
  /\ poll \in [Polls -> PollStates]
  /\ freezes \in 0 .. MaxFreezes
  /\ held \subseteq [channel : Channels, board : Observations, since : BOOLEAN]
  /\ unearned \subseteq Channels \X {"unseen", "resumed"}

\* The room implements the append-only ledger, whoever writes and in whatever
\* order: pages, polls and commissioners together.
Ledger == INSTANCE DraftLedger
ImplementsLedger == Ledger!Spec

\* Provider history is never rewritten over an entry a human made and did not
\* take back, not even one entered after the writer read the ledger.
ManualEntriesStand ==
  \A i \in DOMAIN log :
    IsRevert(log[i]) /\ log[i].source = "espn" =>
      Standing(SubSeq(log, 1, i - 1), "manual") = <<>>

\* The provider actions that stand are a board somebody observed, never a blend
\* of two; unless a commissioner took one of them back.
NeverABlend ==
  \/ \E i \in DOMAIN log : IsRevert(log[i]) /\ log[i].source = "manual"
  \/ Accepted(log) \in {<<>>} \union {CanonicalOrder(o.picks) : o \in Observations}

\* What the log shows of the provider is sound: one observed board, and no human
\* entry written over.
HistoryIsSound == NeverABlend /\ ManualEntriesStand

\* The generation counter keeps derived keys unique across repeated rollbacks:
\* whatever board comes next, none of its events claims a key that is taken.
KeysAreFresh ==
  \A o \in Observations :
    LET append == ProviderEvents(log, o.picks)
    IN /\ \A i \in DOMAIN append, j \in DOMAIN log : append[i].id # log[j].id
       /\ \A i, j \in DOMAIN append : append[i].id = append[j].id => i = j

\* A page's rewrite of accepted history was seen before, by a page, after the
\* last switch of manual backup: a count taken before it is never resumed.
BrowserRewritesReEarned == <<"browser", "resumed">> \notin unearned

\* Neither a page nor a poll rewrites accepted history at the first sight of the
\* board that contradicts it.
RewritesSeenTwice == \A c \in Channels : <<c, "unseen">> \notin unearned

\* While manual backup is on, only humans write, even with an upload or a poll
\* under way when it was switched on.
FrozenMeansManual ==
  [][feed.manualBackupActive =>
       \A i \in Len(log) + 1 .. Len(log') : log'[i].source = "manual"]_vars

\* The cursor readers poll with only moves forward: across takeovers, when a new
\* page counts from the start again, and when posts arrive out of order.
CursorOnlyAdvances ==
  [][\/ feed'.leaseGeneration > feed.leaseGeneration
     \/ /\ feed'.leaseGeneration = feed.leaseGeneration
        /\ feed'.lastPageRevision >= feed.lastPageRevision]_vars

-----------------------------------------------------------------------------
(***************************************************************************)
(* What a comment of the repository says, and the code does not do.        *)
(***************************************************************************)

\* "a destructive rewrite must re-earn its confirmations after the freeze
\* instead of resuming a count taken before a human took over"
RewritesReEarned == \A c \in Channels : <<c, "resumed">> \notin unearned

=============================================================================
