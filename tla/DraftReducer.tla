---------------------------- MODULE DraftReducer ----------------------------
(***************************************************************************)
(* The pure draft engine: packages/engine-draft/src/reducer.ts, with the   *)
(* roster legality test it calls in packages/domain/src/roster.ts.         *)
(*                                                                         *)
(* A draft is never stored as a state.  It is a log of events, and every   *)
(* reader folds the log into a room: who owns whom, what was spent, which  *)
(* picks are used, which player is on the block.  A later event can revert *)
(* an earlier one, so the fold runs over the events that survive.  The     *)
(* TypeScript throws a DraftInvariantError at the first illegal event; the *)
(* fold here carries that outcome in the field "legal".                    *)
(*                                                                         *)
(* Names and wording of the events' payloads are abstracted: an event has  *)
(* an identity, a type, a team, a player and one number (the overall pick, *)
(* the price or the bid).  The nomination number, tested to be a positive  *)
(* integer and to nothing else, and the nominating team are left out.      *)
(***************************************************************************)
EXTENDS Integers, Sequences, FiniteSets, SequencesExt

CONSTANTS
  Mode,         \* "SNAKE" or "AUCTION"
  Teams,        \* the fantasy teams
  Players,      \* the player pool
  NoPlayer,     \* no player is on the block
  NoTeam,       \* no team has bid yet
  RosterSlots,  \* RosterSlots[t]: the slots of team t
  Eligible,     \* Eligible[p]: the slots player p may occupy
  PickOrder,    \* snake: the team that owns each overall pick
  Budget,       \* auction: Budget[t]
  MinimumBid    \* auction: the least price of a sale or a bid

(***************************************************************************)
(* validateConfig: what createSession checks before a draft exists.        *)
(***************************************************************************)
ValidConfig ==
  /\ Mode \in {"SNAKE", "AUCTION"}
  /\ IsFiniteSet(Teams) /\ Cardinality(Teams) >= 2
  /\ \A t \in Teams : IsFiniteSet(RosterSlots[t]) /\ RosterSlots[t] # {}
  /\ Mode = "SNAKE" =>
       /\ PickOrder \in Seq(Teams) /\ PickOrder # <<>>
       /\ \A t \in Teams :
            Cardinality({n \in DOMAIN PickOrder : PickOrder[n] = t})
              <= Cardinality(RosterSlots[t])
  /\ Mode = "AUCTION" =>
       /\ MinimumBid \in Nat
       /\ Budget \in [Teams -> Nat]
       /\ \A t \in Teams : Budget[t] >= MinimumBid * Cardinality(RosterSlots[t])

ASSUME ConfigAssumption == ValidConfig

ASSUME SentinelAssumption == NoPlayer \notin Players /\ NoTeam \notin Teams

SnakeTypes == {"SNAKE_KEEPER_ASSIGNED", "SNAKE_PLAYER_SELECTED"}
AuctionTypes == {"AUCTION_KEEPER_ASSIGNED", "AUCTION_NOMINATION_STARTED",
                 "AUCTION_BID_PLACED", "AUCTION_PLAYER_SOLD"}

IsRevert(e) == e.type = "DRAFT_EVENT_REVERTED"

-----------------------------------------------------------------------------
(***************************************************************************)
(* Which events survive.                                                   *)
(***************************************************************************)

\* Every event has its own identity and every revert names an earlier event.
WellFormed(log) ==
  /\ \A i, j \in DOMAIN log : log[i].id = log[j].id => i = j
  /\ \A i \in DOMAIN log :
       IsRevert(log[i]) => \E j \in 1 .. i - 1 : log[j].id = log[i].target

\* An event is suppressed by a later revert that is not suppressed itself:
\* the TypeScript decides this walking the log from the newest event back.
IsActive(log) ==
  LET active[i \in DOMAIN log] ==
        ~ \E j \in i + 1 .. Len(log) :
            IsRevert(log[j]) /\ log[j].target = log[i].id /\ active[j]
  IN active

\* The positions of the surviving events that do something.
ActiveActions(log) ==
  LET active == IsActive(log)
  IN {i \in DOMAIN log : active[i] /\ ~IsRevert(log[i])}

\* The elements at some of the positions, in their order: the filters with which the
\* reconcilers read a log.
EventsAt(events, positions) ==
  LET kept[n \in 0 .. Len(events)] ==
        IF n = 0 THEN <<>>
        ELSE IF n \in positions THEN Append(kept[n - 1], events[n])
        ELSE kept[n - 1]
  IN kept[Len(events)]

\* Faulty: takes the oldest action for the latest one.
OldestUndoable(log) ==
  LET actions == ActiveActions(log)
  IN IF actions = {} THEN 0 ELSE Min(actions)

\* latestUndoableEvent, as a position; 0 stands for null.
LatestUndoable(log) ==
  LET actions == ActiveActions(log)
  IN IF actions = {} THEN 0 ELSE Max(actions)

-----------------------------------------------------------------------------
(***************************************************************************)
(* The room the fold maintains.                                            *)
(***************************************************************************)

EmptyRoom ==
  [legal    |-> TRUE,
   roster   |-> [t \in Teams |-> {}],
   spent    |-> [t \in Teams |-> 0],
   consumed |-> {},
   onBlock  |-> NoPlayer,   \* activeNomination.playerId
   bidder   |-> NoTeam,     \* activeNomination.highBidTeamId
   bid      |-> 0]          \* activeNomination.highBid

Drafted(room) == UNION {room.roster[t] : t \in Teams}

OpenSlots(room, t) == Cardinality(RosterSlots[t]) - Cardinality(room.roster[t])

Remaining(room, t) == Budget[t] - room.spent[t]

\* Faulty: forgets the reserve of one of the other open slots.
ReserveOneShort(remaining, openSlots) ==
  LET spendable == remaining - MinimumBid * (openSlots - 2)
  IN IF openSlots = 0 \/ spendable < 0 THEN 0 ELSE spendable

\* maximumLegalBid: keep the minimum for every other open slot.
MaximumLegalBid(remaining, openSlots) ==
  LET spendable == remaining - MinimumBid * (openSlots - 1)
  IN IF openSlots = 0 \/ spendable < 0 THEN 0 ELSE spendable

LegalMaximum(room, t) == MaximumLegalBid(Remaining(room, t), OpenSlots(room, t))

\* slotOf puts every player of the roster in an eligible slot of its own.
IsAssignment(slotOf, roster) ==
  /\ \A q \in roster : slotOf[q] \in Eligible[q]
  /\ \A q, r \in roster : slotOf[q] = slotOf[r] => q = r

\* Faulty: any free slot will do, eligible or not.
AnySlotFree(room, t, p) == OpenSlots(room, t) > 0

\* assignPlayersToRosterSlots(roster + p).feasible, which the TypeScript decides
\* with a maximum matching: an eligible slot is left for p.  A bid may name a
\* player the team already holds; the matching then needs a second slot for it.
CanRoster(room, t, p) ==
  \E slotOf \in [room.roster[t] -> RosterSlots[t]] :
    /\ IsAssignment(slotOf, room.roster[t])
    /\ \E s \in RosterSlots[t] \intersect Eligible[p] :
         \A q \in room.roster[t] : slotOf[q] # s

\* addPlayer
CanAdd(room, t, p) == p \notin Drafted(room) /\ CanRoster(room, t, p)

\* nextOpenPick returns the least of these, or null.
OpenPicks(room) == DOMAIN PickOrder \ room.consumed

-----------------------------------------------------------------------------
(***************************************************************************)
(* One event: when the fold accepts it, and what it does.                  *)
(***************************************************************************)

CanPick(room, e) ==
  /\ e.type \in SnakeTypes
  /\ Mode = "SNAKE"
  /\ e.number \in OpenPicks(room)
  /\ e.type = "SNAKE_PLAYER_SELECTED" => \A n \in OpenPicks(room) : e.number <= n
  /\ PickOrder[e.number] = e.team
  /\ CanAdd(room, e.team, e.player)

\* Faulty: a keeper uses no pick.
PickFreeKeepers(room, e) ==
  [room EXCEPT !.roster[e.team] = @ \union {e.player},
               !.consumed = IF e.type = "SNAKE_PLAYER_SELECTED"
                            THEN @ \union {e.number} ELSE @]

Pick(room, e) ==
  [room EXCEPT !.roster[e.team] = @ \union {e.player},
               !.consumed = @ \union {e.number}]

CanNominate(room, e) ==
  /\ e.type = "AUCTION_NOMINATION_STARTED"
  /\ Mode = "AUCTION"
  /\ e.player \notin Drafted(room)
  /\ room.onBlock = NoPlayer

Nominate(room, e) ==
  [room EXCEPT !.onBlock = e.player, !.bidder = NoTeam, !.bid = 0]

\* Faulty: the reserve is checked at the sale only.
CanBidAnything(room, e) ==
  /\ e.type = "AUCTION_BID_PLACED"
  /\ Mode = "AUCTION"
  /\ room.onBlock = e.player
  /\ e.number >= MinimumBid
  /\ room.bidder # NoTeam => e.number > room.bid
  /\ CanRoster(room, e.team, e.player)

CanBid(room, e) ==
  /\ e.type = "AUCTION_BID_PLACED"
  /\ Mode = "AUCTION"
  /\ room.onBlock = e.player
  /\ e.number >= MinimumBid
  /\ room.bidder # NoTeam => e.number > room.bid
  /\ e.number <= LegalMaximum(room, e.team)
  /\ CanRoster(room, e.team, e.player)

Bid(room, e) == [room EXCEPT !.bidder = e.team, !.bid = e.number]

\* A sale may be recorded with no nomination; with one it must match it.
MatchesNomination(room, e) ==
  room.onBlock # NoPlayer =>
    /\ room.onBlock = e.player
    /\ room.bidder # NoTeam => room.bidder = e.team /\ room.bid = e.number

\* addAuctionPlayer
CanBuy(room, e, least) ==
  /\ Mode = "AUCTION"
  /\ e.number >= least
  /\ e.number <= LegalMaximum(room, e.team)
  /\ CanAdd(room, e.team, e.player)

\* Faulty: the price is paid back.
BuyRefunded(room, e) ==
  [room EXCEPT !.roster[e.team] = @ \union {e.player},
               !.spent[e.team] = @ - e.number]

Buy(room, e) ==
  [room EXCEPT !.roster[e.team] = @ \union {e.player},
               !.spent[e.team] = @ + e.number]

CanKeep(room, e) == e.type = "AUCTION_KEEPER_ASSIGNED" /\ CanBuy(room, e, 0)

CanSell(room, e) ==
  /\ e.type = "AUCTION_PLAYER_SOLD"
  /\ MatchesNomination(room, e)
  /\ CanBuy(room, e, MinimumBid)

ClearNomination(room) ==
  [room EXCEPT !.onBlock = NoPlayer, !.bidder = NoTeam, !.bid = 0]

\* The two tables of the reducer's switch.
Admissible(room, e) ==
  \/ CanPick(room, e)
  \/ CanKeep(room, e)
  \/ CanNominate(room, e)
  \/ CanBid(room, e)
  \/ CanSell(room, e)

Apply(room, e) ==
  CASE e.type \in SnakeTypes                   -> Pick(room, e)
    [] e.type = "AUCTION_KEEPER_ASSIGNED"      -> Buy(room, e)
    [] e.type = "AUCTION_NOMINATION_STARTED"   -> Nominate(room, e)
    [] e.type = "AUCTION_BID_PLACED"           -> Bid(room, e)
    [] e.type = "AUCTION_PLAYER_SOLD"          -> ClearNomination(Buy(room, e))

-----------------------------------------------------------------------------
(***************************************************************************)
(* reduceDraft.                                                            *)
(***************************************************************************)

Step(room, e) ==
  IF room.legal /\ Admissible(room, e) THEN Apply(room, e)
                                       ELSE [room EXCEPT !.legal = FALSE]

\* The rooms after the first n events; one that does not survive changes nothing.
Reduce(log) ==
  LET actions == ActiveActions(log)
      room[n \in 0 .. Len(log)] ==
        IF n = 0 THEN EmptyRoom
        ELSE IF n \in actions THEN Step(room[n - 1], log[n])
        ELSE room[n - 1]
  IN room[Len(log)]

\* reduceDraft(log) returns instead of throwing.
Legal(log) == WellFormed(log) /\ Reduce(log).legal

IsComplete(room) ==
  IF Mode = "SNAKE"
  THEN OpenPicks(room) = {}
  ELSE room.onBlock = NoPlayer /\ \A t \in Teams : OpenSlots(room, t) = 0

-----------------------------------------------------------------------------
(***************************************************************************)
(* What a room is, and what every room of a draft board has to be.         *)
(***************************************************************************)

Rooms ==
  [legal    : BOOLEAN,
   roster   : [Teams -> SUBSET Players],
   spent    : [Teams -> Nat],
   consumed : SUBSET DOMAIN PickOrder,
   onBlock  : Players \union {NoPlayer},
   bidder   : Teams \union {NoTeam},
   bid      : Nat]

DisjointRosters(room) ==
  \A t, u \in Teams : t # u => room.roster[t] \intersect room.roster[u] = {}

RostersFit(room) ==
  \A t \in Teams :
    \E slotOf \in [room.roster[t] -> RosterSlots[t]] :
      IsAssignment(slotOf, room.roster[t])

WithinSlots(room) ==
  \A t \in Teams : IsFiniteSet(room.roster[t]) /\ OpenSlots(room, t) >= 0

ReserveKept(room) ==
  Mode = "AUCTION" =>
    \A t \in Teams : Remaining(room, t) >= MinimumBid * OpenSlots(room, t)

PicksFilled(room) ==
  Mode = "SNAKE" =>
    \A t \in Teams :
      Cardinality({n \in room.consumed : PickOrder[n] = t})
        = Cardinality(room.roster[t])

SoundRoom(room) ==
  /\ room \in Rooms
  /\ DisjointRosters(room) /\ RostersFit(room) /\ WithinSlots(room)
  /\ ReserveKept(room) /\ PicksFilled(room)
=============================================================================
