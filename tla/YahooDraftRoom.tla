--------------------------- MODULE YahooDraftRoom ---------------------------
(***************************************************************************)
(* A draft room assisted by Yahoo (yahoo-draft-service.ts and              *)
(* yahoo-draft-reconciler.ts).  Two kinds of writers share the ledger:     *)
(*                                                                         *)
(*  - polls (YahooDraftPollService.refresh): read the ledger, claim the    *)
(*    poll lease, fetch Yahoo's cumulative results, resolve the players    *)
(*    nobody resolved before, reconcile, and commit under the locks of the *)
(*    draft and of the feed.  Unlike ESPN's, they never take anything      *)
(*    back: a contradiction is held for a human;                           *)
(*  - commissioners, each of whose writes is one atomic append decided on  *)
(*    the log it extends (DraftSession), so it is one step here.           *)
(*                                                                         *)
(* An admitted room (applicationMode "append") applies what a poll plans;  *)
(* a shadow room only compares.  The release table of this version admits  *)
(* neither format, so "append" is the path the code keeps behind it.       *)
(*                                                                         *)
(* Time is abstract: a lease may have lapsed and a poll may be due at any  *)
(* moment.  Whoever claims last owns the feed, which is what the equality  *)
(* of poll generations says.  The commissioner has confirmed the standard  *)
(* scope; drafts.state is left out, no step reads it but to write it back. *)
(***************************************************************************)
EXTENDS DraftReducer

CONSTANTS
  Polls,          \* polls that can run at the same time
  Drafts,         \* how Yahoo's draft may go: sequences of the boards it shows
  Resolvable,     \* players whose Yahoo identity the resolver can match
  PageSize,       \* MAX_YAHOO_DRAFT_PLAYER_KEYS: identities asked for per poll
  ManualActions,  \* what a commissioner may enter
  Nobody,         \* no poll has claimed the feed yet
  NoBoard,        \* no observation
  MaxManual       \* bound: no commissioner writes after so many manual events

\* What Yahoo says of a pick; the number is the overall pick of a snake draft, the
\* price of an auction.
Facts == [team : Teams, player : Players, number : Nat]

\* A board: Yahoo's status of the draft, whether the collection was complete, in
\* sequence and of the draft's own kind, and the picks in their order.
Boards == UNION {Range(draft) : draft \in Drafts}

ASSUME YahooRoomAssumption ==
  /\ MaxManual \in Nat /\ PageSize \in Nat \ {0}
  /\ Resolvable \subseteq Players
  /\ Drafts \subseteq Seq([status : STRING, usable : BOOLEAN, picks : Seq(Facts)]) \ {<<>>}
  /\ ManualActions \subseteq [type : SnakeTypes \union AuctionTypes, team : Teams,
                             player : Players, number : Nat]
  /\ Nobody \notin Polls /\ NoBoard \notin Boards

VARIABLES
  log,       \* draft_events
  feed,      \* the row of yahoo_draft_poll_feeds
  known,     \* player_external_ids: the players matched so far
  poll,      \* poll[q]: a poll under way
  archived,  \* leagues.archived
  yahoo      \* the boards Yahoo has yet to show, the present one first

vars == <<log, feed, known, poll, archived, yahoo>>

-----------------------------------------------------------------------------
(***************************************************************************)
(* The reconciler: a pure function of the log and the observed board.      *)
(***************************************************************************)

Reverted(events) ==
  {events[i].target : i \in {j \in DOMAIN events : IsRevert(events[j])}}

\* activeEvents, which looks at the targets of all reverts.
Standing(events) ==
  {i \in DOMAIN events : ~IsRevert(events[i]) /\ events[i].id \notin Reverted(events)}

Active(events) == EventsAt(events, Standing(events))

Acquisitions == {"SNAKE_PLAYER_SELECTED", "AUCTION_PLAYER_SOLD"}
Keepers == {"SNAKE_KEEPER_ASSIGNED", "AUCTION_KEEPER_ASSIGNED"}

\* A snake pick is told by its overall number, a sale by its price.
Fact(e) == [team |-> e.team, player |-> e.player, number |-> e.number]

\* ledgerActions of the active events, each as the fact that sameAction compares
\* with Yahoo's.
LedgerActions(events) ==
  LET acquired == EventsAt(events, {i \in Standing(events) :
                                      events[i].type \in Acquisitions \union Keepers})
  IN [n \in DOMAIN acquired |-> Fact(acquired[n])]

\* Faulty: what a commissioner took back is offered again.
NothingReverted(events) == FALSE

\* hasRevertedYahooAcquisition
HasReverted(events) ==
  \E i \in DOMAIN events :
    /\ events[i].source = "yahoo"
    /\ events[i].type \in Acquisitions
    /\ events[i].id \in Reverted(events)

\* The key of a pick is a digest of Yahoo's fact: the same at every poll.
PickEvents(picks) ==
  [n \in DOMAIN picks |->
    [id     |-> [pick |-> n, fact |-> picks[n]],
     type   |-> IF Mode = "SNAKE" THEN "SNAKE_PLAYER_SELECTED" ELSE "AUCTION_PLAYER_SOLD",
     team   |-> picks[n].team,
     player |-> picks[n].player,
     number |-> picks[n].number,
     source |-> "yahoo"]]

ExpectedPickCount ==
  IF Mode = "SNAKE" THEN Len(PickOrder)
  ELSE FoldFunction(+, 0, [t \in Teams |-> Cardinality(RosterSlots[t])])

\* The board is not one the reconciler can compare with the ledger.
NotComparable(events, board, players) ==
  \/ board.status = "unknown"
  \/ /\ board.status = "postdraft"
     /\ \/ Len(board.picks) # ExpectedPickCount
        \/ {board.picks[n].team : n \in DOMAIN board.picks} # Teams
  \/ \E i \in Standing(events) : events[i].type \in Keepers
  \/ ~board.usable
  \/ {board.picks[n].player : n \in DOMAIN board.picks} \ players # {}

\* HISTORY_TRUNCATED and HISTORY_DIVERGED
Contradicts(events, board) == ~IsPrefix(LedgerActions(events), board.picks)

Held(verification) ==
  [kind |-> "held", append |-> <<>>, verification |-> verification, complete |-> FALSE]

\* What is appended, and whether an admitted room is complete with it.
PlanToAppend(events, append) ==
  [kind |-> "append", append |-> append, verification |-> "pending",
   complete |-> IsComplete(Reduce(Active(events) \o append))]

\* The chain of holds of refresh, then reconcileYahooDraftSnapshot; players are
\* those whose identity is known.  (A plan that appends nothing is "idempotent".)
Reconcile(events, board, players) ==
  LET append == SubSeq(PickEvents(board.picks),
                       Len(LedgerActions(events)) + 1, Len(board.picks))
  IN CASE HasReverted(events)                   -> Held("mismatched")
       [] NotComparable(events, board, players) -> Held("pending")
       [] Contradicts(events, board)            -> Held("mismatched")
       [] OTHER -> IF Legal(Active(events) \o append) THEN PlanToAppend(events, append)
                   ELSE Held("pending")

-----------------------------------------------------------------------------
(***************************************************************************)
(* Polls.                                                                  *)
(***************************************************************************)

Idle == [phase |-> "idle"]

\* createSession with a Yahoo feed.
Init ==
  /\ log = <<>>
  /\ feed \in [state : {"waiting"}, applicationMode : {"append", "shadow"},
               owner : {Nobody}, lastChecksum : {NoBoard}, verification : {"pending"}]
  /\ known = {}
  /\ poll = [q \in Polls |-> Idle]
  /\ archived = FALSE
  /\ yahoo \in Drafts

\* A reader's refresh reads the session, before anything else.
StartPoll(q) ==
  /\ poll[q] = Idle
  /\ poll' = [poll EXCEPT ![q] = [phase |-> "started", sequence |-> Len(log)]]
  /\ UNCHANGED <<log, feed, known, archived, yahoo>>

\* claimPoll, when the poll is due and the previous lease is released or lapsed.
ClaimPoll(q) ==
  /\ poll[q].phase = "started"
  /\ feed.state \notin {"complete", "disabled"}
  /\ feed' = [feed EXCEPT !.owner = q]
  /\ poll' = [poll EXCEPT ![q].phase = "claimed"]
  /\ UNCHANGED <<log, known, archived, yahoo>>

\* Of the players nobody matched before, the first page.
IdentityPage(picks) ==
  LET unknown == SelectSeq(picks, LAMBDA f : f.player \notin known)
  IN {unknown[n].player : n \in DOMAIN unknown \intersect 1 .. PageSize}

\* Faulty: who was asked for is recorded, matched or not.
Asked(picks) == IdentityPage(picks)

\* #resolvePlayers and persistPlayerMappings
Matched(picks) == IdentityPage(picks) \intersect Resolvable

\* Yahoo answers, and the poll decides on the session it read.  What the resolver
\* matches of the next page of identities is persisted at once, whatever becomes of
\* the poll.
Fetch(q) ==
  /\ poll[q].phase = "claimed"
  /\ known' = known \union Matched(Head(yahoo).picks)
  /\ poll' = [poll EXCEPT ![q] =
       [phase    |-> "decided",
        sequence |-> poll[q].sequence,
        board    |-> Head(yahoo),
        plan     |-> Reconcile(SubSeq(log, 1, poll[q].sequence), Head(yahoo), known')]]
  /\ UNCHANGED <<log, feed, archived, yahoo>>

\* Faulty: only the poll's own claim is looked at.
LedgerStill(w) == FALSE

\* CONCURRENT_LEDGER_CHANGE: the ledger is longer than the one w decided on.
LedgerMoved(w) == Len(log) # w.sequence

ProviderState(status) ==
  CASE status = "predraft"  -> "waiting"
    [] status = "drafting"  -> "drafting"
    [] status = "postdraft" -> "complete"
    [] OTHER                -> "attention"

\* Faulty: what Yahoo says of its draft is all the feed shows.
FeedStateOfYahoo(board, disputed) == ProviderState(board.status)

FeedState(board, disputed) ==
  IF archived THEN "disabled"
  ELSE IF disputed THEN "attention"
  ELSE ProviderState(board.status)

\* commitObservation of a poll that still owns the feed.  Only an append that
\* fills the room is verified, and never one decided on an older ledger.
CommitObservation(q) ==
  /\ poll[q].phase = "decided"
  /\ feed.owner = q
  /\ LET w == poll[q]
         disputed == LedgerMoved(w) \/ w.plan.kind = "held"
         applied == ~archived /\ ~disputed /\ feed.applicationMode = "append"
         verified == applied /\ w.board.status = "postdraft" /\ w.plan.complete
     IN /\ log' = IF applied THEN log \o w.plan.append ELSE log
        /\ feed' = [feed EXCEPT !.state = FeedState(w.board, disputed),
                                !.lastChecksum = w.board,
                                !.verification = IF verified THEN "verified"
                                                 ELSE w.plan.verification]
  /\ poll' = [poll EXCEPT ![q] = Idle]
  /\ UNCHANGED <<known, archived, yahoo>>

\* recordFailure: no connection, or Yahoo does not answer.
FailPoll(q) ==
  /\ poll[q].phase = "claimed"
  /\ feed.owner = q
  /\ feed' = [feed EXCEPT !.state = "delayed"]
  /\ poll' = [poll EXCEPT ![q] = Idle]
  /\ UNCHANGED <<log, known, archived, yahoo>>

\* The poll is not due or not needed; it lost the feed to a later claim; an
\* unexpected error (releaseClaim: the lease is abstract); or the API stops.
AbandonPoll(q) ==
  /\ poll[q] # Idle
  /\ poll' = [poll EXCEPT ![q] = Idle]
  /\ UNCHANGED <<log, feed, known, archived, yahoo>>

-----------------------------------------------------------------------------
(***************************************************************************)
(* Commissioners, and Yahoo.                                               *)
(***************************************************************************)

ManualEvent(position, a) ==
  [id |-> [manual |-> position], type |-> a.type, team |-> a.team,
   player |-> a.player, number |-> a.number, source |-> "manual"]

ManualRevert(position, target) ==
  [id |-> [manual |-> position], type |-> "DRAFT_EVENT_REVERTED",
   target |-> log[target].id, source |-> "manual"]

\* An append (not in a finished draft), an undo, or a correction: see DraftSession.
ManualBatches ==
  LET next == Len(log) + 1
      targets == {i \in DOMAIN log : ~IsRevert(log[i]) /\ IsActive(log)[i]}
      open == ~IsComplete(Reduce(log))
  IN {<<ManualEvent(next, a)>> : a \in {b \in ManualActions : open}}
     \union {<<ManualRevert(next, i)>> : i \in targets}
     \union {<<ManualRevert(next, i), ManualEvent(next + 1, a)>> :
               i \in targets, a \in ManualActions}

WriteManually ==
  /\ ~archived
  /\ Cardinality({i \in DOMAIN log : log[i].source = "manual"}) < MaxManual
  /\ \E batch \in ManualBatches : Legal(log \o batch) /\ log' = log \o batch
  /\ UNCHANGED <<known, poll, archived, yahoo>>

\* Faulty: the verified comparison survives the write.
CommissionerWriteOnly == WriteManually /\ UNCHANGED feed

\* appendInsideTransaction: a write reopens a verified comparison.
CommissionerWrite ==
  /\ WriteManually
  /\ feed' = IF feed.verification = "verified"
             THEN [feed EXCEPT !.state = "attention", !.verification = "pending"]
             ELSE feed

\* The league is archived elsewhere.
Archive ==
  /\ ~archived
  /\ archived' = TRUE
  /\ UNCHANGED <<log, feed, known, poll, yahoo>>

\* Yahoo's draft goes on.
YahooMovesOn ==
  /\ Len(yahoo) > 1
  /\ yahoo' = Tail(yahoo)
  /\ UNCHANGED <<log, feed, known, poll, archived>>

-----------------------------------------------------------------------------
Next ==
  \/ \E q \in Polls : StartPoll(q)
  \/ \E q \in Polls : ClaimPoll(q)
  \/ \E q \in Polls : Fetch(q)
  \/ \E q \in Polls : CommitObservation(q)
  \/ \E q \in Polls : FailPoll(q)
  \/ \E q \in Polls : AbandonPoll(q)
  \/ CommissionerWrite
  \/ Archive
  \/ YahooMovesOn

Spec == Init /\ [][Next]_vars

\* A reader keeps the room open, so polls keep coming and keep being due; Yahoo
\* does not fail every poll; and a lease outlasts a poll that is not stuck, so not
\* every poll loses the feed between its claim and its commit.
Fairness ==
  /\ WF_vars(\E q \in Polls : StartPoll(q))
  /\ SF_vars(\E q \in Polls : ClaimPoll(q))
  /\ SF_vars(\E q \in Polls : feed.owner = q /\ Fetch(q))
  /\ SF_vars(\E q \in Polls : CommitObservation(q))

FairSpec == Spec /\ Fairness

-----------------------------------------------------------------------------
(***************************************************************************)
(* Properties.                                                             *)
(***************************************************************************)

FeedStates == {"waiting", "drafting", "complete", "delayed", "attention", "disabled"}

EventIds == [pick : Nat, fact : Facts] \union [manual : Nat]

Event ==
  [id : [pick : Nat, fact : Facts], type : Acquisitions, team : Teams,
   player : Players, number : Nat, source : {"yahoo"}]
  \union [id : [manual : Nat], type : SnakeTypes \union AuctionTypes, team : Teams,
          player : Players, number : Nat, source : {"manual"}]
  \union [id : [manual : Nat], type : {"DRAFT_EVENT_REVERTED"}, target : EventIds,
          source : {"manual"}]

Plans ==
  [kind : {"held", "append"}, append : Seq(Event),
   verification : {"pending", "mismatched"}, complete : BOOLEAN]

PollStates ==
  {Idle} \union [phase : {"started", "claimed"}, sequence : Nat]
         \union [phase : {"decided"}, sequence : Nat, board : Boards, plan : Plans]

\* Types of the variables.
TypeOK ==
  /\ log \in Seq(Event)
  /\ feed \in [state : FeedStates, applicationMode : {"append", "shadow"},
               owner : Polls \union {Nobody}, lastChecksum : Boards \union {NoBoard},
               verification : {"pending", "verified", "mismatched"}]
  /\ known \subseteq Resolvable
  /\ poll \in [Polls -> PollStates]
  /\ \A q \in Polls : poll[q] # Idle => poll[q].sequence <= Len(log)
  /\ archived \in BOOLEAN
  /\ yahoo \in Seq(Boards) \ {<<>>}

\* The room implements the append-only ledger, whoever writes and in whatever
\* order: overlapping polls and commissioners together.
Ledger == INSTANCE DraftLedger
ImplementsLedger == Ledger!Spec

\* A comparison shown as verified is true of the ledger as it is now: Yahoo's draft
\* is over and what stands, whoever entered it, is Yahoo's final board.
VerifiedMatchesYahoo ==
  feed.verification = "verified" =>
    /\ feed.lastChecksum.status = "postdraft"
    /\ LedgerActions(log) = feed.lastChecksum.picks

\* What a commissioner took back of Yahoo's is never put back by a poll, not even
\* by one that had read the ledger before: from then on nothing of Yahoo's comes.
TakenBackStays ==
  \A i, j, k \in DOMAIN log :
    /\ log[i].source = "yahoo"
    /\ IsRevert(log[j]) /\ log[j].target = log[i].id
    /\ j < k
    => log[k].source = "manual"

\* The feed has nothing more to do with what Yahoo shows: it ended with the final
\* board (in the ledger too, when it may write), or waits for a human because the
\* reconciler cannot take this board over this ledger.
Settled ==
  \/ feed.state = "disabled"
  \/ /\ feed.state = "complete"
     /\ feed.lastChecksum = Head(yahoo)
     /\ feed.applicationMode = "append" => LedgerActions(log) = Head(yahoo).picks
  \/ /\ feed.state = "attention"
     /\ Reconcile(log, Head(yahoo), Resolvable).kind = "held"

\* Once Yahoo's draft is over every room settles on its final board, through lost
\* leases, failed polls, pages of unknown players and commissioners' writes.
SettlesOnTheFinalBoard == (Len(yahoo) = 1) ~> Settled
=============================================================================
