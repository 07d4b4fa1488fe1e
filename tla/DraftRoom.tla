------------------------------ MODULE DraftRoom ------------------------------
(***************************************************************************)
(* The fold of DraftReducer as a state machine: one action per event type, *)
(* taken when the reducer accepts the event.  Its reachable rooms are      *)
(* exactly the rooms some legal log reduces to (a log with reverts reduces *)
(* to the room of its surviving actions, which is the room of a shorter    *)
(* run), so an invariant here is a fact about every draft board a reader   *)
(* can be shown.                                                           *)
(***************************************************************************)
EXTENDS DraftReducer

CONSTANT Amounts  \* the overall picks, prices and bids that can be entered

ASSUME AmountsAssumption == Amounts \subseteq Nat

VARIABLE room

vars == <<room>>

Action(type, t, p, n) == [type |-> type, team |-> t, player |-> p, number |-> n]

Init == room = EmptyRoom

SnakeKeeperAssigned(t, p, n) ==
  LET e == Action("SNAKE_KEEPER_ASSIGNED", t, p, n)
  IN CanPick(room, e) /\ room' = Pick(room, e)

SnakePlayerSelected(t, p, n) ==
  LET e == Action("SNAKE_PLAYER_SELECTED", t, p, n)
  IN CanPick(room, e) /\ room' = Pick(room, e)

AuctionKeeperAssigned(t, p, n) ==
  LET e == Action("AUCTION_KEEPER_ASSIGNED", t, p, n)
  IN CanKeep(room, e) /\ room' = Buy(room, e)

AuctionNominationStarted(t, p) ==
  LET e == Action("AUCTION_NOMINATION_STARTED", t, p, 1)
  IN CanNominate(room, e) /\ room' = Nominate(room, e)

AuctionBidPlaced(t, p, n) ==
  LET e == Action("AUCTION_BID_PLACED", t, p, n)
  IN CanBid(room, e) /\ room' = Bid(room, e)

AuctionPlayerSold(t, p, n) ==
  LET e == Action("AUCTION_PLAYER_SOLD", t, p, n)
  IN CanSell(room, e) /\ room' = ClearNomination(Buy(room, e))

Next ==
  \E t \in Teams, p \in Players :
    \/ AuctionNominationStarted(t, p)
    \/ \E n \in Amounts :
         \/ SnakeKeeperAssigned(t, p, n)
         \/ SnakePlayerSelected(t, p, n)
         \/ AuctionKeeperAssigned(t, p, n)
         \/ AuctionBidPlaced(t, p, n)
         \/ AuctionPlayerSold(t, p, n)

Spec == Init /\ [][Next]_vars

-----------------------------------------------------------------------------
(***************************************************************************)
(* Properties.                                                             *)
(***************************************************************************)

\* The room keeps its shape (types.ts, DraftState).
TypeOK == room \in Rooms /\ room.legal

\* No player is on two rosters, however keepers, picks and sales alternate
\* (the DRAFTED check of addPlayer).
OneOwner == DisjointRosters(room)

\* Every roster can be laid out in its team's slots all at once, although each
\* acquisition was tested against the roster of its own moment (assertRosterLegal).
EveryRosterFits == RostersFit(room)

\* No team ever holds more players than it has slots.
RosterBounded == WithinSlots(room)

\* Whatever was bought and kept, every team can still pay the minimum for each
\* slot it has to fill: nobody is ever priced out of finishing the draft
\* (maximumLegalBid and the keeper's own price floor of zero).
BudgetReserve == ReserveKept(room)

\* A team's used picks and its roster always have the same size: no pick is
\* used without a player, and no player arrives without a pick.
PicksMatchRosters == PicksFilled(room)

\* The current high bid can be turned into the sale it promises, unless a keeper
\* took the player off the market while it was on the block.
HighBidHonourable ==
  room.bidder # NoTeam /\ room.onBlock \notin Drafted(room) =>
    CanSell(room, Action("AUCTION_PLAYER_SOLD", room.bidder, room.onBlock, room.bid))

\* Only an acquisition recorded while the bidding is open (a keeper: a sale ends
\* the nomination) can make the high bid impossible to honour; no bid can
\* (the checks a bid shares with the sale that closes it).
OnlyKeepersBreakTheHighBid ==
  [][HighBidHonourable /\ room'.roster = room.roster => HighBidHonourable']_vars
=============================================================================
