# Laces Out: a TLA+ verification project

Laces Out is a fantasy-football companion: a TypeScript monorepo of a Next.js web
application (`apps/web`), a Fastify API (`apps/api`), pg-boss workers
(`apps/worker`), a Chrome extension (`apps/espn-bridge`) and some twenty packages,
all around one PostgreSQL database. This directory models the parts of it where
several writers change one shared record at the same time: the **draft room** (two
providers, pages, polls and commissioners on one ledger), the **refresh requests**
and **authorizations** through which provider data arrives, and the two places where
the rest-of-season pipeline coordinates processes: its **live cache** and the
**validation of scoring profiles**.

- [1. Inventory](#1-inventory) - the system's parts and what makes each correct
- [2. What is modelled](#2-what-is-modelled) - modules, state, actions and the code
- [3. Runs](#3-runs) - what TLC checks, on which instances, and what it shows
- [4. Proofs](#4-proofs) - what TLAPS proves, and along which argument
- [5. Disagreements with the repository](#5-disagreements-with-the-repository)
- [6. Limits](#6-limits) - what is only model-checked, abstracted, or left out
- [7. Plan](#7-plan) - what comes next

How to run, from this directory:

    tlasany DraftSession.tla                            # parse
    tlc -workers 2 -config MCDraftSession.cfg MCDraftSession.tla
    tlapm DraftSessionProofs.tla                        # check the proofs

## 1. Inventory

| Component | State it keeps | Operations | What makes it correct | Where |
|---|---|---|---|---|
| Draft engine | none: a fold over events | `reduceDraft`, `maximumLegalBid`, roster matching | no player twice, rosters fit their slots, nobody is priced out | `DraftReducer`, `DraftRoom`, `RosterMatching` |
| Draft session | `draft_events`, `drafts.state` | append, undo, correct | every log reduces; requests recorded whole and once; answers are true | `DraftSession`, `DraftLedger` |
| ESPN live draft | `draft_provider_feeds`, `draft_provider_observations` | ingest, heartbeat, lease claim, manual backup | one board at a time, human entries stand, frozen means frozen | `EspnLiveRoom` |
| ESPN server polls | poll lease, counters and verification of the feed | claim, commit, fail | the same, with a second channel | `EspnLiveRoom` |
| Yahoo draft | `yahoo_draft_poll_feeds`, `player_external_ids` | claim, commit, fail, archive | a verified room equals Yahoo's, what is taken back stays so, every room settles | `YahooDraftRoom` |
| ESPN refresh intents | `refresh_requests`, `espn_league_sync_states` | request, offer, report, capture, expire | fulfilled only by captures in time; one live request; every request ends | `EspnRefresh`, `RefreshPromise` |
| Provider connections | `provider_connections`: token, version, health, circuit | exchange, refuse, throttle, count, sign in, disconnect | a rotated token is not spent twice nor lost; a degraded account the sweep chooses does not stay so | `YahooConnection` |
| Rest-of-season live cache | files on a volume, a database lock, a kernel lock | lock, prune, pin, read, leave | one builder; a pin that was handed out is kept; the lock is freed | `RosLiveCache`, `GenerationPin` |
| Rest-of-season profiles | `first_party_ros_profile_validations`, the validation queue | discover, sweep, claim, prove, complete | cycles are kept apart, a corpus judges once, every profile is settled | `RosProfileRecovery` |
| League sync | league snapshot rows | import, replace | a snapshot replaces atomically | its effects on requests and connections only |
| Browser extension | revision counter, outbox | observe, upload, retry | the newest board gets through | as the posts `EspnLiveRoom` accepts |
| Jobs | pg-boss queues | enqueue, sweep, coalesce | demand is never lost | as the queues of the models above |
| Accounts, handoff, pairing, membership | tokens, sessions, devices | issue, redeem, revoke | a token redeems once | not modelled |
| Change events, notifications | events, delivery claims | write, claim, send, release | written once; an alert is not sent twice | not modelled |
| Projections, rankings, engines, AI, connectors, UI | derived data | numeric and I/O | outside a model checker's reach | not modelled |

How they interact: processes share nothing but the database, one volume and one
queue. The API's handlers and the workers' jobs are transactions with reads before
them; what one process read is stale when it writes, unless the transaction locks and
checks again. The extension and the web client talk to the API over HTTP with retries.
Jobs are delivered by pg-boss, which may give a job out again while it is still being
run. Hence the behaviours that are hard here: decisions taken on unlocked snapshots,
leases and the fences that guard them, retries under idempotency keys, posts late and
out of order, updates by id of rows that changed since they were read, and crashes
between a step and the record of it. `PROJECT.json` lists each at its line under
`hazards`.

## 2. What is modelled

    DraftReducer          the pure fold: which events count,
                          what each does                      -> DraftReducerProofs
      DraftRoom           the fold as a state machine         -> DraftRoomProofs
        RosterMatching    the matching that decides CanRoster -> DraftRoomProofs
      DraftSession        commissioners' write path           -> DraftSessionProofs
      EspnLiveRoom        pages, polls and commissioners      -> EspnLiveRoomProofs
      YahooDraftRoom      polls, commissioners, the verified
                          comparison                          -> YahooDraftRoomProofs
    DraftLedger           abstract: append-only legal log, implemented by
                          DraftSession, EspnLiveRoom and YahooDraftRoom

    RefreshPromise        abstract: what a request for fresh data promises
      EspnRefresh         implements it                       -> EspnRefreshProofs
    YahooConnection       one member's authorization and all
                          who use it                          -> YahooConnectionProofs
    GenerationPin         abstract: a pin that is handed out is kept
      RosLiveCache        implements it                       -> RosProofs
    RosProfileRecovery    one scoring profile and all who
                          prove it                            -> RosProofs

**DraftReducer** translates `packages/engine-draft/src/reducer.ts` and the roster test
of `packages/domain/src/roster.ts`. A draft is a log; `Reduce(log)` folds its surviving
actions into a room (`roster`, `spent`, `consumed`, `onBlock`, `bidder`, `bid`).
`IsActive` is `resolveActiveEvents`: an event is suppressed by a later revert that is
not suppressed itself. `CanX` is the guard of an event type, `Pick`, `Buy`, `Nominate`,
`Bid` and `ClearNomination` its effects. Where the TypeScript throws, the room's
`legal` becomes FALSE. `CanRoster` states what the maximum matching decides (an
assignment of distinct eligible slots exists), not how it finds it; **RosterMatching**
translates the augmenting paths of `assignPlayersToRosterSlots`. `TryAssign` calls itself in
the code; here it is a function over the slots that are left to visit, of which a call
always has fewer than its caller. That it decides `CanRoster` is checked and proved.

**DraftRoom** takes one accepted event as a step. Its reachable rooms are those of the
legal logs, so its invariants are facts about every board anyone can be shown.

**DraftLedger** is the abstract specification: a log that only grows, a batch at a
time, and that always reduces.

**DraftSession** translates `apps/api/src/draft-session.ts`. State: `log`
(`draft_events`), `draftState` (`drafts.state`), `authority` (role and archived flag),
the requests composed under each idempotency key, the handlers in flight, and a history
of answers. `Compose` is the web client; `AnswerAtOnce` and `Prepare` are the service
up to the repository call (they read an unlocked snapshot); `Commit` is
`#appendInsideTransaction` with its checks in the order of the code; `Abandon` is a
crash or a dropped connection. Any request may be delivered any number of times, to
any handler, at any later moment, and its answer may be lost.

**EspnLiveRoom** translates `espn-live-draft-service.ts`, `-persistence.ts`,
`-reconciler.ts` and `espn-draft-service.ts`. The reconciler is a set of pure
operators (`Accepted`, `Superseded`, `Additions`, `ActionKey`, `Plan`). An upload goes
through `ReceiveObservation` (read the feed), `ClaimLease` (conditional update, and the
ledger it decides on), `CommitObservation` (fences, append, feed). A heartbeat is
`ReceiveHeartbeat` and `RenewLease`. A poll is `StartPoll` (reads the session),
`ClaimPoll` (poll lease), `CommitPoll`, `FailPoll` or `AbandonPoll`. A commissioner's
write is one step (`ManualWrite`), which is what DraftSession shows it to be;
`SetManualBackup` is the freeze. What decides is what was read, so each upload and poll
carries the feed's fields it read and the length of the ledger it read (the ledger
being append-only, a length is a snapshot).

**YahooDraftRoom** translates `yahoo-draft-service.ts` and `-reconciler.ts` and the
line of `draft-session.ts` that reopens a verified comparison. A reader's refresh is a
poll: `StartPoll` reads the session, `ClaimPoll` takes the lease (a later claim is its
lapse), `Fetch` asks Yahoo, persists the next page of matched identities and decides,
`CommitObservation` writes if the poll still owns the feed. `Reconcile` is the chain of
holds. The feed is in one of two modes: a shadow room compares and never writes. The
release table admits no format to the other mode yet; the code behind it is modelled.

**EspnRefresh** translates `apps/api/src/espn-refresh.ts`, `packages/league-sync`'s
`espn-refresh.ts` and `espn-sync-persistence.ts`, and the request handling of the
worker's reads. `requests` is `refresh_requests`, `freshness` the stored
artifact freshness. A handler that reads a request and writes it later without a lock
is two actions: `ReportScope`/`ReportWrite` (a device reports that it started),
`StartFound`/`StartWrite` and `FailFound`/`FailWrite` (a background read). `Ask` and
`Create` are the page's inspection and the create under the advisory lock. `Store` is a
capture, with the older-part rule of the available-player family. **RefreshPromise**
is what a member may rely on: the row's result and error are mapped to an outcome, and
a fulfilled intent had every part of every family captured in time and stays fulfilled.

**YahooConnection** translates `yahoo-connection.ts`, the marks of `yahoo-sync.ts` and
`league-sync-service.ts` and `connection-circuit.ts`. A worker is a
league-sync job or the member's discovery. The exchange of the refresh token is
`Lock`, `Exchange` (Yahoo may rotate the token) and `Commit`, all under the row lock;
each may fail, lose its answer or crash. The marks on the way out (`MarkFailure`,
`RecordFailure`, `OpenCircuit`, `RecordSuccess`, `MarkThrottle`) are statements of
their own, in the order of the code. The sweep queues one connection of each league, a
healthy one first (`provider-sync-sweep.ts:336-379`): `chosen` says whether it would
choose this one though it is degraded, and `RankChanges` changes that at any time, as
seasons, due times and the league's other accounts do. Any eligible connection may be
started unchosen as well (a member's request, a retry, an earlier choice). A roster that
Yahoo reports incomplete ends the job with the connection unmarked.

**RosLiveCache** translates the database lock (`ros-corpus-lock.ts`), the kernel lock
and its helper process (`ros-live-filesystem-lock.ts`), the worker thread's life, the
pruning and the generation store. A kernel lock lasts as long as somebody holds its
descriptor, which the helper inherits. `disk` is what processes see, `durable` what a
crash leaves. **GenerationPin** is the promise: the pin a builder was told of
is the pin everybody is told, until it is pruned.

**RosProfileRecovery** translates `ros-profile-recovery.ts`, `ros-profile-validation.ts`
and the profile part of `ros-profile-discovery.ts`. `row` is the ledger row with its
recovery marker and its claim (`startedAt`), `jobs` what pg-boss still knows. A sweep
is `Reserve` (one locked transaction), `FindNoJob`/`FindJob`, `Send`, `RecordDispatch`
or `ReleaseDispatch`; `DeclareLost` gives up a cycle the queue lost. A proof is `Begin`
(compares and claims in one update), `Judge`, `Conclude` (fenced by the claim)
and `EndJob`; a job may expire while its proof still runs. Discovery is `DiscoverRow`
and then `Adopt`, `EnqueueFirstProof` or `FailOrphan`.

Abstractions made on purpose: a checksum is the board itself; time is nondeterminism
(a lease may have lapsed, a delay may have passed) except in `EspnRefresh`, which has a
clock because promises are about instants; whether identities resolve, what a
statistic says and how Yahoo answers are free choices; payload fields nobody tests are
dropped; a random or timestamp identity is a value nobody else holds.

## 3. Runs

| Run | Instance | Shows |
|---|---|---|
| `room_snake` | 2 teams, 5 players of four eligibilities, slots RB, WR and FLEX, 5 picks, keepers out of turn | rosters fit their slots at once (`EveryRosterFits`) and have the size of the picks used (`PicksMatchRosters`); the matching is right (`MatchingDecidesFit`) |
| `room_auction` | 2 teams, 2 RB + 2 QB, slots RB and FLEX, budgets 3 and 4, minimum 1, prices 0 to 4 | nobody is priced out of finishing (`BudgetReserve`); a bid that was accepted can be honoured unless a keeper was assigned meanwhile (`OnlyKeepersBreakTheHighBid`) |
| `session` | 3 requests (append, undo, correct), 2 handlers, a log of up to 3 when composing | the write path of commissioners, and that it implements `DraftLedger` |
| `espn_browser` | 2 tabs, 2 uploads, 2 boards per tab, 1 manual write, 2 switches, 2 takeovers | the browser channel alone: takeovers, late posts |
| `espn_hybrid` | 1 tab, 2 overlapping polls with 4 claims, 1 manual write, 1 switch | both channels and a human on one ledger; refinement of `DraftLedger` |
| `yahoo_draft` | 2 overlapping polls, 1 manual write, a draft that ends well and one that is rolled back and ends with a player nobody can identify, each in a shadow and in an applying room | refinement of `DraftLedger`, the verified comparison, taking back, settling |
| `refresh` | 1 member, 1 device, both background paths, 2 requests, 1 retry | refinement of `RefreshPromise`; creates are not refused; requests end |
| `yahoo_connection` | 1 job, 1 discovery, 2 refresh tokens, a circuit of 2 failures, 2 mishaps | rotation is safe; degraded accounts that the sweep chooses leave that state |
| `ros_live_cache` | 2 builders, 2 generations, 2 instants, 2 faults | one builder, no torn record, refinement of `GenerationPin`, builds end |
| `profile_recovery` | 2 sweeps, 2 proofs at once, discovery, 1 mishap, a queue without retries; a profile that is new, withheld, or queued by an earlier release | cycles are kept apart, a corpus judges once, profiles are settled |
| `find_resumed_count` | 2 polls, 2 switches | a disagreement, section 5 |
| `reauthorization_ends` | as `yahoo_connection` | a disagreement, section 5 |

Distinct states and minutes with two workers: `room_snake` 600 (0:07), `room_auction`
17,788 (0:05), `session` 827,595 (2:30), `espn_browser` 139,909 (0:15), `espn_hybrid`
441,917 (1:30), `yahoo_draft` 93,480 (2:35), `refresh` 418,600 (2:15),
`yahoo_connection` 475,636 (2:20), `ros_live_cache` 337,578 (2:15), `profile_recovery`
268,927 (1:20). Every action and every disjunct of the next-state relations fires.

Each property is about a way this code could go wrong:

- `ImplementsLedger` (three runs): a batch decided on an unlocked snapshot is still
  legal where the transaction puts it, whoever else writes.
- `WholeAndOnce`, `AnswersAreTrue`: retries and duplicates of a request add nothing; its
  author is never told of a conflict with itself; a refusal is final although copies of
  the request are still under way; a correction is never half there.
- `StateMatchesLog`: a column computed from the caller's snapshot agrees with the log
  it is stored beside.
- `UndoIsSound`: two commissioners who race take an action back once, and the latest
  action can always be taken back.
- `MatchingDecidesFit`: in every room a draft reaches, for every candidate and whatever
  order the ids of players and slots sort in, the augmenting paths accept the candidate
  exactly when everybody fits.
- `HistoryIsSound`: ESPN's history is never rewritten over a human
  entry, and the provider's actions that stand are one observed board.
- `FrozenMeansManual`: nothing decided before a freeze is committed during it.
- `RewritesSeenTwice`, `BrowserRewritesReEarned`: the confirmation protocol of
  destructive boards.
- `KeysAreFresh`: derived idempotency keys never collide, however often ESPN rolls back.
- `CursorOnlyAdvances`: the cursor readers poll with never goes back.
- `VerifiedMatchesYahoo`, `TakenBackStays`, `SettlesOnTheFinalBoard`: a comparison shown
  as verified is true of the ledger as it is now; no poll, not even one already under
  way, puts back what a commissioner took back; once Yahoo's draft is over the feed
  ends with the final board or waits for a human with a reason.
- `KeepsThePromise`, `NeverRefusedForALiveRequest`, `EveryRequestSettles`: a result is
  never recorded before every part was captured in time, and stays; the one-live-request
  index never refuses a create; a request that expires ends for good, although late
  reports set it back to processing.
- `TokenIsSafe`, `DegradedIsNotForever`: Yahoo never refuses a token because another
  worker spent it, and what is stored is what Yahoo accepts unless a mishap outside the
  database lost it; a degraded connection that the sweep
  chooses is tried until it heals, must sign in or loses that place to another account.
- `CacheIsSound`, `KeepsThePin`, `EveryBuildEnds`: through lost sessions, killed workers
  and crashes one builder is in the cache, no record is torn, a pin is kept, and no
  descriptor holds the lock for ever.
- `CyclesKeptApart`, `JudgedOnce`, `EveryProfileSettles`: a stored verdict is of the cycle
  the row is at; a replay is not judged twice running on one corpus; no order of
  lost jobs, abandoned reservations, refused sends and orphaned claims leaves a profile
  with nobody to pick it up.

Every property has a mutant in `PROJECT.json`: a definition replaced by an operator
marked `Faulty:` beside it, as a plausible bug would, under which the run fails.

### Bounds

Two concurrent actors of each kind are what every race in this code needs (a reader and
the writer that overtakes it); three requests let a third intervene. The ESPN runs have a
board, a contradicting board and a final one, which the reconciler's outcomes need; with
tabs alone the manual entry stays legal beside a rewrite, so that only the code's own
test protects it; two switches of manual backup are an ABA. In `refresh` two requests
succeed each other, the older one late. Two refresh tokens are one rotation or one new
sign-in while a worker still holds the old token; two mishaps are a lost
answer and another on the way to recover from it. In `ros_live_cache` two faults are a
lost session and a crash. `profile_recovery` has one mishap: with retries in the queue
(`RetryLimit` 1) the same properties hold, in a run too long to keep. `MaxLog`,
`MaxManual`, `MaxFreezes`, `MaxTakeovers`, `MaxPolls`, `MaxTime`, `MaxRequests`,
`MaxDelay`, `MaxTries`, `MaxJobs`, `MaxTokens`, `MaxVersion`, `MaxFaults` and `MaxCacheFaults` are bounds of
the models; `Threshold`, `MaxRuns` and `RetryLimit` are smaller than the code's numbers.
Symmetry is used on request keys, handlers, uploads, pages and polls, never with a
liveness property. Deadlock checking is off where drafts end, disconnected accounts
stay so, and bounds stop the writers; it is on for `yahoo_draft` and `ros_live_cache`,
which can always go on.

### Fairness

Safety properties assume none. The liveness properties assume, and no more:

- `EspnRefresh`: time passes, the five-minute sweep runs, a transaction that has read its
  rows writes them, and the queue runs the jobs it holds. Nothing of members or devices.
- `YahooConnection`: strong fairness of a worker's steps, because PostgreSQL grants a row
  lock in the order it was asked for, so that a waiting worker is not passed over for
  ever; weak fairness of `SweptStart`, because the sweep keeps running and so queues a
  connection that stays eligible and `chosen`; cooldowns end. Nothing makes the sweep
  choose a connection: `DegradedIsNotForever` has that as its premise, and ends with it
  (the cooldown of the connection itself does not end it). Mishaps are bounded.
- `RosLiveCache`: processes and their children take steps and deadlines pass. Nobody has
  to start a build or to stop one.
- `YahooDraftRoom`: a reader keeps the room open, so polls keep starting; a poll that is
  due again and again is claimed; Yahoo does not fail every poll; a lease outlasts a poll
  that is not stuck, so not every poll loses the feed before its commit.
- `RosProfileRecovery`: sweeps, proofs and the queue take steps; a decision that keeps
  being possible is taken, because sweeps run every five minutes and every delay is
  finite; discovery runs every week and eventually gets to see an orphan; a
  dispatching sweep is not preceded by discovery every time.

## 4. Proofs

TLAPS checks the following for every value of the constants: any number of teams,
players, slots, handlers, pages, uploads, polls, workers, builders and sweeps, any
requests, boards and drafts, any bounds. The only assumptions are the named `ASSUME`s of
the modules: types of the constants, and in `DraftReducer` `ConfigAssumption`, which is
what `validateConfig` accepts. TLC evaluates each of them on the instances.

Of the 40 checks of a property by a passing run, 35 are of one that is also a theorem. The
five others are the liveness properties (section 6).

| Module | Theorem of a run's property |
|---|---|
| `DraftRoomProofs` | `TypeOK`, `EveryRosterFits`, `PicksMatchRosters`, `BudgetReserve`, `OnlyKeepersBreakTheHighBid`, `MatchingDecidesFit` |
| `DraftSessionProofs` | `TypeOK`, `StateMatchesLog`, `WholeAndOnce`, `AnswersAreTrue`, `UndoIsSound`, `ImplementsLedger` |
| `YahooDraftRoomProofs` | `TypeOK`, `VerifiedMatchesYahoo`, `TakenBackStays`, `ImplementsLedger` |
| `EspnLiveRoomProofs` | `TypeOK`, `HistoryIsSound`, `KeysAreFresh`, `RewritesSeenTwice`, `BrowserRewritesReEarned`, `FrozenMeansManual`, `CursorOnlyAdvances`, `ImplementsLedger` |
| `EspnRefreshProofs` | `TypeOK`, `NeverRefusedForALiveRequest`, `KeepsThePromise` |
| `YahooConnectionProofs` | `TypeOK`, `TokenIsSafe` |
| `RosProofs` | of the live cache `CacheTypeOK`, `CacheIsSound`, `KeepsThePin`; of profile recovery `TypeOK`, `CyclesKeptApart`, `JudgedOnce` |

**Induction over a log.** The reducer and the reconcilers are folds. The library's
`NatInduction` takes an operator, which the provers here cannot instantiate, so
`DraftReducerProofs` proves induction once for sets: `LeastNatural` (from the
library's `WFMin`, which takes none) and from it
`InductionOnNat`, `InductionDownwards` and `MaxIsGreatest`. A fold is then handled in
three steps: the recursive function exists (`FoldExists`, `ActivityExists`,
`KeptExists`), it is the only solution of its equations (`FoldUnique`,
`ActivityUnique`), and appending an event continues it (`FoldOfAppend`,
`ActivityOfAppend`, `EventsAtOfConcat`). Whatever else is said of a log rests on these.

**DraftReducerProofs** - what the engine computes for *every* log. `EveryRoomIsSound`:
whatever the log holds, the room `reduceDraft` ends in has disjoint rosters that fit
their slots, keeps the auction's reserve, and has used as many picks of each team as the
team has players. `EveryPlayerHasAPick` says which: in the room of a legal snake log a
team's players are exactly those of its picks and keepers that survive, each at an
overall pick the draft order gives that team, no number and no player twice. The parts of
`SoundRoom` need each other: that a purchase keeps the reserve follows from
`MaximumLegalBid` only when the buyer had an open slot, and that it had one follows from
`CanRoster` by counting (`OpenSlotLeft`, `AcquisitionSlots`: the roster is assigned
injectively to slots and one is left over). `LatestAlwaysUndoable`: the revert of
`latestUndoableEvent` can always be appended. The log without its last action ended in
a legal room before (`LatestIsLast`), and suppressing that action changes no other
event's standing (`ActivityOfUndo`).

**DraftRoomProofs** - the same facts of the fold as a state machine: each of the six actions
is one admissible event (`StepIsApply`), and `ApplyKeepsSound` does the rest.

Its last section proves `MatchingIsExact`: for any slots in any order, and any roster
with one player more in any order, the matching the code computes says yes exactly when
`CanRoster` does. The state of a search is what it must say: the slots that are held are
those of the players seated so far, one each (`Seated`). A search that succeeds leaves
them seated and one slot more, held by the one that asked (`SeatedAnd`): the player in the
way has moved (`TakesTheSlotOfAnother`). One that fails has changed nothing but the visited
slots, and none of *their* holders, nor the one that asked, is eligible for a slot outside
them (`Stuck`). `ProbeAnswers` and `TrySlotsAnswers` carry this through the loop over the
slots, given that the calls it makes answer so (`Reliable`); `TryAssignAnswers` is the
induction over the slots left, which says at once that the recursion ends. A refusal is
then right by counting (`RefusedDoesNotFit`): the holders of the visited slots and the
refused player are one more than those slots, and have no others. Players are numbered
there, because the list may name one twice: a keeper may join the team that bids for it.

**DraftSessionProofs** - two invariants. `SessionInv` adds to the types and to
`Legal(log)` what each handler in flight knows: its snapshot is a prefix of the log, and
the batch it carries is legal on that snapshot. With it, the check
`Len(log) = Len(session)` under the lock says that snapshot and log are the same
(`PrefixSameLength`), so the batch is legal where it is put; without the prefix part the
fence proves nothing, because two logs of one length need not be equal. This gives
`LedgerReduces` and the refinement. `RecordInv` is about the requests: what a handler carries is
what its request asks for on that prefix and its key is new there; a recorded key's
batch follows the log its request was made on (`RecordedStays`: appends of others
change neither); an action is reverted once; a refused request has no way into the log left
(`Closed`: the log has moved past it, or refuses it). It gives the state column, the
answers and the undo. `BoardsAlwaysSound` joins it with `EveryRoomIsSound`: this is
what every reader of a session computes.

**YahooDraftRoomProofs** - the reconciler replays the *active events alone*
(`yahoo-draft-service.ts:198`), ignoring whether a revert was itself reverted, and appends after
the *whole* log. `ReconcilerSeesTheRoom` proves that both end in one room if no
revert names a revert (`RevertsStand`), an invariant that holds because commissioners
only take back actions and Yahoo takes nothing back. `LegalAfterTheLog`: what is legal
after the active events is legal after the log. The ids of what was
taken back must also be new, which is where `HasReverted` is needed. `DecidedOnTheLedger`
says that a decided poll's plan is the reconciler's answer on a prefix of the log. The
rest follows as in the session; `WantedCompletes` says that the ledger then is the board.

**EspnLiveRoomProofs** - `LiveRoomInv` has three parts beside the types.

- The log is sound (`SoundLog`): it is legal, what stands of the provider is one observed board,
  and no revert of ESPN's follows a human entry that stands. The work is in
  what `reconcileProviderObservation` appends. `ReconcilerAppends` spells it out; after it
  the events of ESPN's that stand are the common prefix and the additions
  (`ProviderStanding`), which in their order are the board (`ProviderCompletes`). The
  order is forced: a set of positions has one increasing enumeration (`OneOrder`).
- The keys tell where they come from (`Keyed`): the key of the i-th event of a slot
  has the number of claims of that slot before it as its generation. So a new key
  differs from all that exist (`NewKeysAreFresh`): an older claim of the slot counted
  fewer claims, a revert is named by the position it takes back, and an entry by its own.
  Uniqueness of the keys alone is not inductive.
- What is counted was looked at (`Looked`): a count of one, in the feed or in the context
  of an upload or a poll, means that this channel held this board before. For a page
  the look was after the last switch of manual backup *as long as the generation
  is the one it read*: the switch starts a generation, so an upload from before it
  may remember a count that is no longer earned, but can no longer commit. Polls have no such
  clause, and `RewritesReEarned` fails for them (section 5).

`FrozenAlwaysManual` follows since each decision commits in the mode it
read; `CursorAlwaysAdvances` since a takeover, which resets the revision, starts a generation.

**EspnRefreshProofs** - the invariant adds two facts to the types. A family is never
fresher than any of its parts (`FamiliesFollowTheirParts`): a request is fulfilled
by what the families say, and promised what the parts are. And one request at most is live
(`OneLiveRequest`), although a late report or a background read sets a request to
processing by its id, whatever it was: such a write keeps what was asked
and any result, and the live index refuses it when another request is live. What
each handler does to the table is stated once, row by row (`MovesTo`, `Rewritten`,
`Created`), and every action is shown to be one of these; the invariant, `NeverRefused`
(what the retirement leaves live, the create reuses) and the refinement of
`RefreshPromise` then follow from the rows alone.

**RosProofs**, the live cache - `LockInv`: who is in the cache is the `holder`, a child that
took the lock holds it for its parent, and nobody in the cache has a child that could
still give the lock back. `StoreInv`: every record was synchronized before it had its
name, and what was promised, or looked up on the way to a promise, is on the disk as it is in
memory. With it each step maps to a step of `GenerationPin` or a stutter.

**YahooConnectionProofs** - `TokenInv`: a worker at the exchange holds the row's lock and
carries the stored token (what it read before the lock would not do); the token waiting
to be stored by a sign-in is nobody else's; between the exchange and its commit
the new token is the good one, otherwise the stored one is.

**RosProofs**, profile recovery - `ClaimsMatch`: a claim that still holds belongs to the
cycle of the row's marker, so a late conclusion fenced by its claim cannot write
another cycle's verdict. `ReservationsMatch` says the same of sweeps that are sending.
`JudgedOnce` is not inductive: it needs `NewEvidence`, that a profile leaves its verdict
only when it was withheld for want of data and another corpus is at hand, and
`NothingLeftOver`, that the cycles of an earlier release have no verdict.

## 5. Disagreements with the repository

Two runs are expected to find a violation; each quotes what the repository says.

| Run | The repository says | The code does |
|---|---|---|
| `find_resumed_count` | a destructive rewrite "must re-earn its confirmations after the freeze" (`espn-live-draft-persistence.ts:1695`) | resets the pages' counters only; a server poll resumes the count taken before |
| `reauthorization_ends` | "On 401/403: stop retries, mark `reauthorize`" (`docs/operations.md:1607`) | the job that was refused goes on to count its failure, which marks the account degraded, and the sweep retries it |

Noticed, modelled as the code does it, and not made into a run:

- A heartbeat reads the feed and writes its state later, so it can clear a degraded feed
  it "must not clear" (`espn-live-draft-persistence.ts:1565-1620`).
- The ESPN feed stays verified when the ledger changes, and becomes verified when the
  engine alone calls the draft over (`espn-draft-service.ts:468`); Yahoo's does not.
- A final ESPN board held for a second look completes the feed, and complete feeds are
  not polled, so the second look never comes (`espn-draft-service.ts:710`).
- A degraded Yahoo account is queued only for a league that no healthy account is linked
  to and no other degraded one goes before it (`provider-sync-sweep.ts:336-342`, 379).
  Otherwise nothing but its member or a retry starts a read, and it stays degraded:
  `docs/operations.md:1623-1625` prefers healthy accounts and also says an account must
  not be stranded merely because its health is degraded. `DegradedIsNotForever` is
  about the accounts that are chosen.
- A comment says that marking a throttled connection degraded would exclude it and
  prevent self-healing (`league-sync-service.ts:445-449`); the sweep admits degraded
  connections (`provider-sync-sweep.ts:357`), as `docs/operations.md:1623` says.
- A refused refresh marks the connection by id after its transaction, and can overwrite
  a sign-in completed since (`yahoo-connection.ts:445`).
- Discovery adopts an artifact by id with the report it read before, over whatever the
  row holds by then (`ros-profile-discovery.ts:172`). Nobody reads what is lost.
- A heartbeat, or a poll held by manual backup, can move a feed from `complete` back to
  `live` or `stale`; a held poll writes back a `drafts.state` read earlier.
- A keeper assigned during a nomination can leave a nomination that only an undo ends;
  a nomination of a player nobody can roster, or a bid on a player a keeper has taken,
  is accepted.

## 6. Limits

- Only model-checked: the five liveness properties (`EveryRequestSettles`,
  `DegradedIsNotForever`, `EveryBuildEnds`, `EveryProfileSettles`,
  `SettlesOnTheFinalBoard`), because TLAPS has no rule for fairness and ENABLED here.
- A theorem is about the model: TypeScript's maps, sorts and recursion are what
  `RosterMatching` says they are, not something proved of the program text.
- `UndoIsSound` is checked in a snake room; in an auction, whose logs have nominations
  and bids as well, it is only proved.
- `EspnLiveRoom` has no liveness property: it counts the generations of its leases, and
  at the bound of such a count fairness would prove nothing. The same retry loop is
  checked in `YahooDraftRoom`, which keeps the owner of the lease and no counter.
- `drafts.state` is only in `DraftSession`; readers of the server-sent stream are not
  modelled. A manual write is atomic in the provider rooms; its own races are
  in `DraftSession`.
- An idempotency key belongs to one request, as the web client generates it.
- `EspnRefresh` leaves out the attempt rows, which pace a device: any device may take up
  any live request at any time, which is more than the code allows.
- `CanNominate` leaves out the test that a nomination number is a positive integer
  (`reducer.ts:320-326`). `RenewLease` takes the state of the page's board for the state
  a heartbeat sends (`espn-live-draft-persistence.ts:1562`, 1581).
- `SyncDirectory` makes a pin durable together with the directories above its generation.
  The code syncs the directories of the metadata and its kinds
  (`ros-live-generation-store.ts:321-364`) and never those above `generations/<identity>`,
  so `KeepsThePin` rests on a file system that journals their creation.
- In `RosProfileRecovery` a marginal rail without a corpus
  (`ros-corpus-routing.ts:285-286`) is reached only as a dependency that fails, `Adopt`
  leaves out the marker that publication reads, and `EveryProfileSettles` is checked
  for a queue without retries (`RetryLimit` 0).
- In `RosProfileRecovery` a corpus, once ready, stays the one of its release or becomes
  unreadable; the bootstrap that prepares it, and the publication that follows an
  admission, are not modelled, nor are a row whose definition no longer parses and a
  report that fails its identity checks beyond the failure they cause.

Not modelled, and why. Most of the repository's lines are bundled design-system code,
floating-point projections, parsers of provider pages, React components, schemas and
tests of them: a model checker has nothing to say of them, and the share of lines the map
covers is small for that reason. Accounts, invitations, password resets, pairing and the
browser handoff are single statements or single locked transactions whose model would
be a guard and an assignment. Notifications are claimed before they are sent
(`push-notifications.ts:137`): a crash in between loses one, by design. The capacity
reservation of outcome files and the corpus bootstrap's ledger are candidates that were
left for their size.

## 7. Plan

Done: the draft ledger, both providers' rooms, refresh requests, authorizations, the live
cache, profile recovery; every safety property a run checks is also a theorem. No
module declares a RECURSIVE operator. What would add most next, as models:

1. the corpus bootstrap of the rest-of-season pipeline with its request ledger;
2. the attempts and offers by which devices take up refresh requests;
3. the heartbeat's late write (`espn-live-draft-persistence.ts:1565`), with a property of
   the feed's state that the other writers of it keep.
