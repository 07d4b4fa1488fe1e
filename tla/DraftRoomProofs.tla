--------------------------- MODULE DraftRoomProofs ---------------------------
(***************************************************************************)
(* What every reachable draft board satisfies, for every league: any       *)
(* number of teams and players, any roster rules, any pick order, any      *)
(* budgets and minimum bid that validateConfig accepts.                    *)
(*                                                                         *)
(* The argument is about the reducer, not the state machine: an action the *)
(* reducer accepts leaves a sound room sound (ApplyKeepsSound), and every  *)
(* step of this module is such an action.  The last section is about the   *)
(* matching by which the code decides whether a player fits (Feasible).    *)
(***************************************************************************)
EXTENDS RosterMatching, DraftReducerProofs

(***************************************************************************)
(* The parts of SoundRoom need each other: that a buyer keeps the reserve  *)
(* of its open slots needs an open slot, which comes from the matching;    *)
(* that picks and rosters keep pace needs finite rosters without repeats.  *)
(***************************************************************************)
RoomInv == SoundRoom(room) /\ room.legal = TRUE

\* Every action of the room applies one admissible event to it.
LEMMA StepIsApply ==
  ASSUME Next
  PROVE  \E e : IsAction(e) /\ Admissible(room, e) /\ room' = Apply(room, e)
<1>1. PICK t \in Teams, p \in Players :
        \/ AuctionNominationStarted(t, p)
        \/ \E n \in Amounts :
             \/ SnakeKeeperAssigned(t, p, n)
             \/ SnakePlayerSelected(t, p, n)
             \/ AuctionKeeperAssigned(t, p, n)
             \/ AuctionBidPlaced(t, p, n)
             \/ AuctionPlayerSold(t, p, n)
  BY DEF Next
<1>2. \A type \in SnakeTypes \union AuctionTypes, n \in Nat : IsAction(Action(type, t, p, n))
  BY DEF IsAction, Action
<1>3. CASE AuctionNominationStarted(t, p)
  <2> DEFINE e == Action("AUCTION_NOMINATION_STARTED", t, p, 1)
  <2>1. e.type = "AUCTION_NOMINATION_STARTED" /\ IsAction(e)
    BY <1>2 DEF Action, AuctionTypes
  <2>2. CanNominate(room, e) /\ room' = Nominate(room, e)
    BY <1>3 DEF AuctionNominationStarted
  <2> HIDE DEF e
  <2>3. QED
    BY <2>1, <2>2 DEF Admissible, Apply, SnakeTypes
<1>4. ASSUME NEW n \in Amounts, AuctionBidPlaced(t, p, n)
      PROVE  \E e : IsAction(e) /\ Admissible(room, e) /\ room' = Apply(room, e)
  <2> DEFINE e == Action("AUCTION_BID_PLACED", t, p, n)
  <2>1. e.type = "AUCTION_BID_PLACED" /\ IsAction(e)
    BY <1>2, AmountsAssumption DEF Action, AuctionTypes
  <2>2. CanBid(room, e) /\ room' = Bid(room, e)
    BY <1>4 DEF AuctionBidPlaced
  <2> HIDE DEF e
  <2>3. QED
    BY <2>1, <2>2 DEF Admissible, Apply, SnakeTypes
<1>5. ASSUME NEW n \in Amounts, NEW type \in SnakeTypes,
             CanPick(room, Action(type, t, p, n)), room' = Pick(room, Action(type, t, p, n))
      PROVE  \E e : IsAction(e) /\ Admissible(room, e) /\ room' = Apply(room, e)
  <2> DEFINE e == Action(type, t, p, n)
  <2>1. e.type \in SnakeTypes /\ IsAction(e)
    BY <1>2, AmountsAssumption DEF Action
  <2> HIDE DEF e
  <2>2. CanPick(room, e) /\ room' = Pick(room, e)
    BY <1>5 DEF e
  <2>3. Admissible(room, e) /\ Apply(room, e) = Pick(room, e)
    BY <2>1, <2>2 DEF Admissible, Apply, SnakeTypes
  <2>4. QED
    BY <2>1, <2>2, <2>3
<1>6. ASSUME NEW n \in Amounts, AuctionKeeperAssigned(t, p, n)
      PROVE  \E e : IsAction(e) /\ Admissible(room, e) /\ room' = Apply(room, e)
  <2> DEFINE e == Action("AUCTION_KEEPER_ASSIGNED", t, p, n)
  <2>1. e.type = "AUCTION_KEEPER_ASSIGNED" /\ IsAction(e)
    BY <1>2, AmountsAssumption DEF Action, AuctionTypes
  <2>2. CanKeep(room, e) /\ room' = Buy(room, e)
    BY <1>6 DEF AuctionKeeperAssigned
  <2> HIDE DEF e
  <2>3. QED
    BY <2>1, <2>2 DEF Admissible, Apply, SnakeTypes
<1>7. ASSUME NEW n \in Amounts, AuctionPlayerSold(t, p, n)
      PROVE  \E e : IsAction(e) /\ Admissible(room, e) /\ room' = Apply(room, e)
  <2> DEFINE e == Action("AUCTION_PLAYER_SOLD", t, p, n)
  <2>1. e.type = "AUCTION_PLAYER_SOLD" /\ IsAction(e)
    BY <1>2, AmountsAssumption DEF Action, AuctionTypes
  <2>2. CanSell(room, e) /\ room' = ClearNomination(Buy(room, e))
    BY <1>7 DEF AuctionPlayerSold
  <2> HIDE DEF e
  <2>3. QED
    BY <2>1, <2>2 DEF Admissible, Apply, SnakeTypes
<1>8. QED
  BY <1>1, <1>3, <1>4, <1>5, <1>6, <1>7
     DEF SnakeKeeperAssigned, SnakePlayerSelected, SnakeTypes

\* A new room satisfies the invariant.
LEMMA RoomInvInit == Init => RoomInv
BY EmptyRoomIsSound DEF Init, RoomInv

\* Every action of the room keeps the invariant.
LEMMA RoomInvStep == RoomInv /\ [Next]_vars => RoomInv'
<1> SUFFICES ASSUME RoomInv, [Next]_vars PROVE RoomInv'
  OBVIOUS
<1>1. CASE Next
  <2>1. PICK e : IsAction(e) /\ Admissible(room, e) /\ room' = Apply(room, e)
    BY <1>1, StepIsApply
  <2>2. SoundRoom(Apply(room, e)) /\ Apply(room, e).legal = TRUE
    BY <2>1, ApplyKeepsSound DEF RoomInv
  <2>3. QED
    BY <2>1, <2>2 DEF RoomInv
<1>2. CASE UNCHANGED vars
  BY <1>2 DEF vars, RoomInv
<1>3. QED
  BY <1>1, <1>2

\* The invariant holds in every state of the room.
THEOREM RoomInvariant == Spec => []RoomInv
BY RoomInvInit, RoomInvStep, PTL DEF Spec

\* The room keeps its shape, and no accepted event makes the log illegal.
THEOREM TypeCorrect == Spec => []TypeOK
<1>1. RoomInv => TypeOK
  BY DEF RoomInv, SoundRoom, TypeOK
<1>2. QED
  BY <1>1, RoomInvariant, PTL

\* No player is ever on two rosters.
THEOREM NoSharedPlayer == Spec => []OneOwner
<1>1. RoomInv => OneOwner
  BY DEF RoomInv, SoundRoom, OneOwner
<1>2. QED
  BY <1>1, RoomInvariant, PTL

\* Every roster can be laid out in its team's slots all at once.
THEOREM RostersAlwaysFit == Spec => []EveryRosterFits
<1>1. RoomInv => EveryRosterFits
  BY DEF RoomInv, SoundRoom, EveryRosterFits
<1>2. QED
  BY <1>1, RoomInvariant, PTL

\* No roster ever holds more players than its team has slots.
THEOREM RostersBounded == Spec => []RosterBounded
<1>1. RoomInv => RosterBounded
  BY DEF RoomInv, SoundRoom, RosterBounded
<1>2. QED
  BY <1>1, RoomInvariant, PTL

\* Every team can always fund the minimum for each slot it has left to fill.
THEOREM NobodyPricedOut == Spec => []BudgetReserve
<1>1. RoomInv => BudgetReserve
  BY DEF RoomInv, SoundRoom, BudgetReserve
<1>2. QED
  BY <1>1, RoomInvariant, PTL

\* A team has used as many picks as it has players.
THEOREM PicksAlwaysMatch == Spec => []PicksMatchRosters
<1>1. RoomInv => PicksMatchRosters
  BY DEF RoomInv, SoundRoom, PicksMatchRosters
<1>2. QED
  BY <1>1, RoomInvariant, PTL

-----------------------------------------------------------------------------
\* A step that leaves the rosters alone is a nomination, which has no bid yet,
\* or a bid, which passed every test of the sale that would close it.
THEOREM BidsStayHonourable == Spec => OnlyKeepersBreakTheHighBid
<1> DEFINE Kept == HighBidHonourable /\ room'.roster = room.roster => HighBidHonourable'
<1>1. ASSUME RoomInv, Next, room'.roster = room.roster
      PROVE  HighBidHonourable'
  <2>1. PICK e : IsAction(e) /\ Admissible(room, e) /\ room' = Apply(room, e)
    BY <1>1, StepIsApply
  <2>2. Talks(room, room') \/ Picks(room, room', e) \/ Buys(room, room', e)
    BY <1>1, <2>1, ApplyKinds DEF RoomInv, SoundRoom
  <2>3. ~Acquires(room, room', e.team, e.player)
    <3> DEFINE t == e.team
               p == e.player
    <3>1. t \in Teams /\ p \in Players
      BY <2>1 DEF IsAction
    <3> HIDE DEF t, p
    <3>2. ASSUME Acquires(room, room', t, p) PROVE FALSE
      <4>1. room \in Rooms /\ p \notin room.roster[t] /\ room'.roster[t] = room.roster[t] \union {p}
        BY <1>1, <3>1, <3>2, AcquisitionSlots DEF RoomInv, SoundRoom
      <4>2. QED
        BY <1>1, <4>1
    <3>3. QED
      BY <3>2 DEF t, p
  <2>4. Talks(room, room')
    BY <2>2, <2>3 DEF Picks, Buys
  <2>5. CASE CanNominate(room, e)
    <3>1. room'.bidder = NoTeam
      BY <1>1, <2>1, <2>5 DEF CanNominate, Apply, Nominate, SnakeTypes, RoomInv, SoundRoom, Rooms
    <3>2. QED
      BY <3>1 DEF HighBidHonourable
  <2>6. CASE CanBid(room, e)
    <3>1. /\ room'.bidder = e.team /\ room'.bid = e.number /\ room'.onBlock = e.player
      BY <1>1, <2>1, <2>6 DEF CanBid, Apply, Bid, SnakeTypes, RoomInv, SoundRoom, Rooms
    <3>2. /\ Mode = "AUCTION" /\ e.number >= MinimumBid
          /\ e.number <= LegalMaximum(room', e.team)
          /\ CanRoster(room', e.team, e.player)
      BY <2>4, <2>6 DEF CanBid, Talks, LegalMaximum, Remaining, OpenSlots, CanRoster
    <3> DEFINE sale == Action("AUCTION_PLAYER_SOLD", room'.bidder, room'.onBlock, room'.bid)
    <3>3. /\ sale.type = "AUCTION_PLAYER_SOLD" /\ sale.team = room'.bidder
          /\ sale.player = room'.onBlock /\ sale.number = room'.bid
      BY DEF Action
    <3> HIDE DEF sale
    <3>4. ASSUME room'.onBlock \notin Drafted(room') PROVE CanSell(room', sale)
      <4>1. MatchesNomination(room', sale)
        BY <3>3 DEF MatchesNomination
      <4>2. CanBuy(room', sale, MinimumBid)
        BY <3>1, <3>2, <3>3, <3>4 DEF CanBuy, CanAdd
      <4>3. QED
        BY <3>3, <4>1, <4>2 DEF CanSell
    <3>5. QED
      BY <3>4 DEF HighBidHonourable, sale
  <2>7. CASE CanPick(room, e) \/ CanKeep(room, e) \/ CanSell(room, e)
    <3>1. Acquires(room, room', e.team, e.player)
      <4>1. CanAdd(room, e.team, e.player)
        BY <2>7 DEF CanPick, CanKeep, CanSell, CanBuy
      <4>2. room'.roster = [room.roster EXCEPT ![e.team] = @ \union {e.player}]
        BY <1>1, <2>1, <2>7 DEF CanPick, CanKeep, CanSell, Apply, Pick, Buy, ClearNomination,
             SnakeTypes, RoomInv, SoundRoom, Rooms
      <4>3. QED
        BY <4>1, <4>2 DEF Acquires
    <3>2. QED
      BY <2>3, <3>1
  <2>8. QED
    BY <2>1, <2>5, <2>6, <2>7 DEF Admissible
<1>2. ASSUME UNCHANGED vars PROVE Kept
  BY <1>2 DEF vars, HighBidHonourable
<1>3. RoomInv /\ [Next]_vars => [Kept]_vars
  BY <1>1, <1>2
<1>4. QED
  BY <1>3, RoomInvariant, PTL DEF Spec, OnlyKeepersBreakTheHighBid

-----------------------------------------------------------------------------
(***************************************************************************)
(* The matching decides what CanRoster says.  It computes with functions   *)
(* defined by recursion on a number, so first: there are such functions,   *)
(* and every stage of them is a state of the matching.                     *)
(***************************************************************************)
Runs(so, init, next, n) ==
  so = [k \in 0 .. n |-> IF k = 0 THEN init ELSE next[<<so[k - 1], k>>]]

\* A recursion that stays in a set has its results there, up to any number.
LEMMA RunExists ==
  ASSUME NEW S, NEW init \in S, NEW n \in Nat, NEW next \in [S \X (1 .. n) -> S]
  PROVE  \E so \in [0 .. n -> S] : Runs(so, init, next, n)
<1> DEFINE Goes(so, k) == IF k = 0 THEN init ELSE next[<<so[k - 1], k>>]
           GoesOn(m, so) == so \in [0 .. m -> S] /\ \A k \in 0 .. m : so[k] = Goes(so, k)
           Possible == {m \in 0 .. n : \E so : GoesOn(m, so)}
<1>1. 0 \in Possible
  <2>1. GoesOn(0, [k \in 0 .. 0 |-> init])
    OBVIOUS
  <2> HIDE DEF GoesOn
  <2>2. QED
    BY <2>1
<1>2. ASSUME NEW m \in 0 .. n - 1, m \in Possible PROVE m + 1 \in Possible
  <2>1. PICK so : GoesOn(m, so)
    BY <1>2
  <2> DEFINE step == next[<<so[m], m + 1>>]
             longer == [k \in 0 .. m + 1 |-> IF k = m + 1 THEN step ELSE so[k]]
  <2>2. step \in S /\ m + 1 \in 0 .. n
    <3>1. so[m] \in S /\ m + 1 \in 1 .. n
      BY <1>2, <2>1
    <3>2. QED
      BY <3>1
  <2>3. longer \in [0 .. m + 1 -> S] /\ \A k \in 0 .. m : longer[k] = so[k]
    <3> HIDE DEF step
    <3>1. QED
      BY <1>2, <2>1, <2>2
  <2>4. ASSUME NEW k \in 0 .. m + 1 PROVE longer[k] = Goes(longer, k)
    <3>1. CASE k = m + 1
      <4>1. k # 0 /\ k - 1 = m /\ m \in 0 .. m /\ longer[k] = step
        BY <1>2, <3>1
      <4> HIDE DEF longer
      <4>2. QED
        BY <2>3, <3>1, <4>1
    <3>2. CASE k # m + 1
      <4>1. k \in 0 .. m /\ (k # 0 => k - 1 \in 0 .. m)
        BY <1>2, <3>2
      <4> HIDE DEF longer
      <4>2. QED
        BY <2>1, <2>3, <4>1
    <3>3. QED
      BY <3>1, <3>2
  <2> HIDE DEF longer, Goes
  <2>5. GoesOn(m + 1, longer)
    BY <2>3, <2>4
  <2> HIDE DEF GoesOn
  <2>6. QED
    BY <2>2, <2>5
<1> HIDE DEF Possible
<1>3. n \in Possible
  <2>1. 0 .. n \subseteq Possible
    BY <1>1, <1>2, InductionOnNat
  <2>2. QED
    BY <2>1
<1>4. PICK so : GoesOn(n, so)
  BY <1>3 DEF Possible
<1>5. so = [k \in 0 .. n |-> IF k = 0 THEN init ELSE next[<<so[k - 1], k>>]]
  BY <1>4
<1>6. QED
  BY <1>4, <1>5 DEF Runs

-----------------------------------------------------------------------------
\* What the two updates of the matching do to its fields.
LEMMA VisitFields ==
  ASSUME NEW slots, NEW m \in Searches(slots), NEW s \in ToSet(slots)
  PROVE  /\ Visit(m, s) \in Searches(slots)
         /\ Visit(m, s).playerBySlot = m.playerBySlot /\ Visit(m, s).found = m.found
         /\ Visit(m, s).visited = m.visited \union {s}
BY DEF Searches, Visit

LEMMA PlaceFields ==
  ASSUME NEW slots, NEW m \in Searches(slots), NEW s \in ToSet(slots), NEW p \in Players
  PROVE  /\ Place(m, s, p) \in Searches(slots)
         /\ Place(m, s, p).playerBySlot = [m.playerBySlot EXCEPT ![s] = p]
         /\ Place(m, s, p).found = TRUE /\ Place(m, s, p).visited = m.visited
BY DEF Searches, Place

\* One turn of the loop over the slots leaves a state of the matching.
LEMMA ProbeTyped ==
  ASSUME NEW slots, NEW ask \in [Players \X Searches(slots) -> Searches(slots)],
         NEW p \in Players, NEW m \in Searches(slots), NEW s \in ToSet(slots)
  PROVE  Probe(ask, p, m, s) \in Searches(slots)
<1>1. CASE m.found \/ s \in m.visited \/ s \notin Eligible[p]
  BY <1>1 DEF Probe
<1>2. CASE /\ ~(m.found \/ s \in m.visited \/ s \notin Eligible[p])
           /\ m.playerBySlot[s] = NoPlayer
  BY <1>2, VisitFields, PlaceFields DEF Probe
<1>3. CASE /\ ~(m.found \/ s \in m.visited \/ s \notin Eligible[p])
           /\ m.playerBySlot[s] # NoPlayer
  <2> DEFINE moved == ask[<<m.playerBySlot[s], Visit(m, s)>>]
  <2>1. moved \in Searches(slots)
    <3>1. m.playerBySlot[s] \in Players
      BY <1>3 DEF Searches
    <3>2. QED
      BY <3>1, VisitFields
  <2>2. Probe(ask, p, m, s) = IF moved.found THEN Place(moved, s, p) ELSE moved
    BY <1>3 DEF Probe
  <2> HIDE DEF moved
  <2>3. CASE moved.found
    <3>1. Place(moved, s, p) \in Searches(slots)
      BY <2>1, PlaceFields
    <3>2. QED
      BY <2>2, <2>3, <3>1
  <2>4. QED
    BY <2>1, <2>2, <2>3
<1>4. QED
  BY <1>1, <1>2, <1>3

\* so is what TrySlots computes, turn by turn.
TriesBy(so, ask, p, m, slots) ==
  so = [k \in 0 .. Len(slots) |->
          IF k = 0 THEN [m EXCEPT !.found = FALSE] ELSE Probe(ask, p, so[k - 1], slots[k])]

\* The loop over the slots has its turns, and its result is the last.
LEMMA TrySlotsIsLast ==
  ASSUME NEW X, NEW slots \in Seq(X),
         NEW ask \in [Players \X Searches(slots) -> Searches(slots)],
         NEW p \in Players, NEW m \in Searches(slots)
  PROVE  \E so \in [0 .. Len(slots) -> Searches(slots)] :
            TriesBy(so, ask, p, m, slots) /\ TrySlots(ask, p, m, slots) = so[Len(slots)]
<1> DEFINE init == [m EXCEPT !.found = FALSE]
           steps == Searches(slots) \X (1 .. Len(slots))
           next == [c \in steps |-> Probe(ask, p, c[1], slots[c[2]])]
           chosen == CHOOSE so : TriesBy(so, ask, p, m, slots)
<1>1. Len(slots) \in Nat /\ \A k \in 1 .. Len(slots) : slots[k] \in ToSet(slots)
  BY DEF ToSet
<1>2. init \in Searches(slots)
  BY DEF Searches
<1>3. next \in [steps -> Searches(slots)]
  <2>1. ASSUME NEW c \in steps PROVE Probe(ask, p, c[1], slots[c[2]]) \in Searches(slots)
    BY <1>1, ProbeTyped
  <2>2. QED
    BY <2>1
<1>4. PICK so \in [0 .. Len(slots) -> Searches(slots)] : Runs(so, init, next, Len(slots))
  <2> HIDE DEF init, next
  <2>1. QED
    BY <1>1, <1>2, <1>3, RunExists
<1>5. TriesBy(so, ask, p, m, slots)
  <2>1. ASSUME NEW k \in 0 .. Len(slots)
        PROVE  so[k] = IF k = 0 THEN init ELSE Probe(ask, p, so[k - 1], slots[k])
    <3>1. so[k] = IF k = 0 THEN init ELSE next[<<so[k - 1], k>>]
      <4> HIDE DEF init, next
      <4>1. QED
        BY <1>4 DEF Runs
    <3>2. k # 0 => <<so[k - 1], k>> \in steps
      BY <1>1
    <3>3. QED
      BY <3>1, <3>2
  <2> HIDE DEF init, next
  <2>2. so = [k \in 0 .. Len(slots) |->
                IF k = 0 THEN init ELSE Probe(ask, p, so[k - 1], slots[k])]
    BY <2>1
  <2>3. QED
    BY <2>2 DEF TriesBy, init
<1>6. TriesBy(chosen, ask, p, m, slots)
  <2> HIDE DEF init, next
  <2>1. QED
    BY <1>5
<1>7. chosen \in [0 .. Len(slots) -> Searches(slots)]
  <2> DEFINE typed == {k \in 0 .. Len(slots) : chosen[k] \in Searches(slots)}
  <2> HIDE DEF chosen, init, next
  <2>0. \A k \in 0 .. Len(slots) :
          chosen[k] = IF k = 0 THEN init ELSE Probe(ask, p, chosen[k - 1], slots[k])
    BY <1>6 DEF TriesBy, init
  <2>1. 0 \in typed
    BY <1>1, <1>2, <2>0
  <2>2. ASSUME NEW k \in 0 .. Len(slots) - 1, k \in typed PROVE k + 1 \in typed
    <3>1. k + 1 \in 1 .. Len(slots) /\ k + 1 \in 0 .. Len(slots) /\ k + 1 # 0 /\ (k + 1) - 1 = k
      BY <1>1
    <3>2. chosen[k + 1] = Probe(ask, p, chosen[k], slots[k + 1])
      BY <2>0, <3>1
    <3>3. chosen[k] \in Searches(slots) /\ slots[k + 1] \in ToSet(slots)
      BY <1>1, <2>2, <3>1
    <3>4. Probe(ask, p, chosen[k], slots[k + 1]) \in Searches(slots)
      BY <3>3, ProbeTyped
    <3>5. QED
      BY <3>1, <3>2, <3>4
  <2> HIDE DEF typed
  <2>3. 0 .. Len(slots) \subseteq typed
    BY <1>1, <2>1, <2>2, InductionOnNat
  <2>4. DOMAIN chosen = 0 .. Len(slots) /\ chosen = [k \in 0 .. Len(slots) |-> chosen[k]]
    BY <1>6 DEF TriesBy
  <2>5. QED
    BY <2>3, <2>4 DEF typed
<1>8. TrySlots(ask, p, m, slots) = chosen[Len(slots)]
  BY DEF TrySlots, TriesBy
<1>9. QED
  <2> HIDE DEF chosen, init, next
  <2>1. QED
    BY <1>6, <1>7, <1>8

\* So it is a state of the matching.
LEMMA TrySlotsTyped ==
  ASSUME NEW X, NEW slots \in Seq(X),
         NEW ask \in [Players \X Searches(slots) -> Searches(slots)],
         NEW p \in Players, NEW m \in Searches(slots)
  PROVE  TrySlots(ask, p, m, slots) \in Searches(slots)
<1>1. PICK so \in [0 .. Len(slots) -> Searches(slots)] :
        TrySlots(ask, p, m, slots) = so[Len(slots)]
  BY TrySlotsIsLast
<1>2. QED
  BY <1>1

\* ask is what TryAssign computes, call by call.
AsksBy(ask, slots) ==
  ask = [n \in 0 .. Len(slots) |->
           [c \in Players \X Searches(slots) |->
              IF n = 0 THEN [c[2] EXCEPT !.found = FALSE]
              ELSE TrySlots(ask[n - 1], c[1], c[2], slots)]]

\* The calls of tryAssign, by the slots they have left to visit.
LEMMA TryAssignAsks ==
  ASSUME NEW X, NEW slots \in Seq(X)
  PROVE  \E ask \in [0 .. Len(slots) -> [Players \X Searches(slots) -> Searches(slots)]] :
            /\ \A n \in 1 .. Len(slots), p \in Players, m \in Searches(slots) :
                  ask[n][<<p, m>>] = TrySlots(ask[n - 1], p, m, slots)
            /\ \A p, m : TryAssign(p, m, slots) = TrySlots(ask[Len(slots)], p, m, slots)
<1> DEFINE calls == Players \X Searches(slots)
           answers == [calls -> Searches(slots)]
           init == [c \in calls |-> [c[2] EXCEPT !.found = FALSE]]
           stages == answers \X (1 .. Len(slots))
           after(b) == [c \in calls |-> TrySlots(b, c[1], c[2], slots)]
           next == [d \in stages |-> after(d[1])]
           chosen == CHOOSE ask : AsksBy(ask, slots)
<1>1. Len(slots) \in Nat
  OBVIOUS
<1>2. init \in answers
  <2>1. ASSUME NEW c \in calls PROVE [c[2] EXCEPT !.found = FALSE] \in Searches(slots)
    BY DEF Searches
  <2>2. QED
    BY <2>1
<1>3. ASSUME NEW b \in answers PROVE after(b) \in answers
  <2>1. ASSUME NEW c \in calls PROVE TrySlots(b, c[1], c[2], slots) \in Searches(slots)
    BY TrySlotsTyped
  <2>2. QED
    BY <2>1
<1> HIDE DEF init, after, answers
<1>4. PICK ask \in [0 .. Len(slots) -> answers] : Runs(ask, init, next, Len(slots))
  <2>1. next \in [stages -> answers]
    BY <1>3
  <2> HIDE DEF next
  <2>2. QED
    BY <1>1, <1>2, <2>1, RunExists
<1>5. AsksBy(ask, slots)
  <2>1. ASSUME NEW n \in 0 .. Len(slots)
        PROVE  ask[n] = [c \in calls |-> IF n = 0 THEN [c[2] EXCEPT !.found = FALSE]
                                         ELSE TrySlots(ask[n - 1], c[1], c[2], slots)]
    <3>1. ask[n] = IF n = 0 THEN init ELSE next[<<ask[n - 1], n>>]
      <4> HIDE DEF next
      <4>1. QED
        BY <1>4 DEF Runs
    <3>2. CASE n = 0
      BY <3>1, <3>2 DEF init
    <3>3. CASE n # 0
      <4>1. <<ask[n - 1], n>> \in stages
        BY <1>1, <3>3
      <4>2. ask[n] = after(ask[n - 1])
        BY <3>1, <3>3, <4>1
      <4>3. QED
        BY <3>3, <4>2 DEF after
    <3>4. QED
      BY <3>2, <3>3
  <2>2. QED
    BY <2>1 DEF AsksBy
<1>6. AsksBy(chosen, slots)
  BY <1>5
<1>7. \A p, m : TryAssign(p, m, slots) = TrySlots(chosen[Len(slots)], p, m, slots)
  BY DEF TryAssign, AsksBy
<1> HIDE DEF chosen
<1>8. \A n \in 0 .. Len(slots) :
        chosen[n] = IF n = 0 THEN init ELSE after(chosen[n - 1])
  <2>1. ASSUME NEW n \in 0 .. Len(slots)
        PROVE  chosen[n] = [c \in calls |-> IF n = 0 THEN [c[2] EXCEPT !.found = FALSE]
                                            ELSE TrySlots(chosen[n - 1], c[1], c[2], slots)]
    BY <1>6 DEF AsksBy
  <2>2. QED
    BY <2>1 DEF init, after
<1>9. chosen \in [0 .. Len(slots) -> answers]
  <2> DEFINE typed == {n \in 0 .. Len(slots) : chosen[n] \in answers}
  <2>1. 0 \in typed
    BY <1>1, <1>2, <1>8
  <2>2. ASSUME NEW n \in 0 .. Len(slots) - 1, n \in typed PROVE n + 1 \in typed
    <3>1. n + 1 \in 0 .. Len(slots) /\ n + 1 # 0 /\ (n + 1) - 1 = n
      BY <1>1
    <3>2. chosen[n + 1] = after(chosen[n]) /\ chosen[n] \in answers
      BY <1>8, <2>2, <3>1
    <3>3. QED
      BY <1>3, <3>1, <3>2
  <2> HIDE DEF typed
  <2>3. 0 .. Len(slots) \subseteq typed
    BY <1>1, <2>1, <2>2, InductionOnNat
  <2>4. chosen = [n \in 0 .. Len(slots) |-> chosen[n]]
    BY <1>6 DEF AsksBy
  <2>5. QED
    BY <2>3, <2>4 DEF typed
<1>10. ASSUME NEW n \in 1 .. Len(slots), NEW p \in Players, NEW m \in Searches(slots)
       PROVE  chosen[n][<<p, m>>] = TrySlots(chosen[n - 1], p, m, slots)
  <2>1. n \in 0 .. Len(slots) /\ n # 0
    OBVIOUS
  <2>2. chosen[n] = after(chosen[n - 1])
    BY <1>8, <2>1
  <2>3. QED
    BY <2>2 DEF after
<1>11. QED
  BY <1>7, <1>9, <1>10 DEF answers
-----------------------------------------------------------------------------
(***************************************************************************)
(* What a search promises.  The players are numbered, for one may be there *)
(* twice: who[i] is a player and I the numbers of those that have a slot.  *)
(***************************************************************************)
\* seatOf gives each number of I a slot its player holds and may hold.
Seats(held, seatOf, who, I) ==
  /\ \A i, j \in I : seatOf[i] = seatOf[j] => i = j
  /\ \A i \in I : held[seatOf[i]] = who[i] /\ seatOf[i] \in Eligible[who[i]]

\* The slots that are held are those of the players of I, one each.
Seated(S, held, who, I) ==
  \E seatOf \in [I -> S] :
    /\ Seats(held, seatOf, who, I)
    /\ \A s \in S : held[s] # NoPlayer => \E i \in I : seatOf[i] = s

\* The same, with one slot more, which q has.
SeatedAnd(S, held, who, I, q) ==
  \E seatOf \in [I -> S], x \in S \intersect Eligible[q] :
    /\ Seats(held, seatOf, who, I)
    /\ held[x] = q /\ \A i \in I : seatOf[i] # x
    /\ \A s \in S : held[s] # NoPlayer => s = x \/ \E i \in I : seatOf[i] = s

\* Whoever holds a slot visited since m has no slot that was not visited.
Stuck(S, m, r) ==
  /\ r.playerBySlot = m.playerBySlot
  /\ \A s \in r.visited \ m.visited :
       /\ r.playerBySlot[s] # NoPlayer
       /\ S \intersect Eligible[r.playerBySlot[s]] \subseteq r.visited

\* r is what a search for q that began in m has come to with the slots of tried.
Answers(S, q, m, r, who, I, tried) ==
  /\ m.visited \subseteq r.visited
  /\ \A s \in m.visited : r.playerBySlot[s] = m.playerBySlot[s]
  /\ r.found => SeatedAnd(S, r.playerBySlot, who, I, q)
  /\ ~r.found => Stuck(S, m, r) /\ tried \intersect Eligible[q] \subseteq r.visited

\* ask answers those who have fewer than n slots left to visit.
Reliable(ask, n, who, I, slots) ==
  \A q \in Players, m \in Searches(slots) :
    /\ Seated(ToSet(slots), m.playerBySlot, who, I)
    /\ Cardinality(ToSet(slots) \ m.visited) < n
    => Answers(ToSet(slots), q, m, ask[<<q, m>>], who, I, ToSet(slots))

\* A player takes a slot that nobody holds.
LEMMA TakesFreeSlot ==
  ASSUME NEW S, NEW held \in [S -> Players \union {NoPlayer}], NEW I, NEW who,
         \A i \in I : who[i] \in Players,
         NEW q \in Players, NEW s \in S, s \in Eligible[q], held[s] = NoPlayer,
         Seated(S, held, who, I)
  PROVE  SeatedAnd(S, [held EXCEPT ![s] = q], who, I, q)
<1>1. PICK seatOf \in [I -> S] :
        /\ Seats(held, seatOf, who, I)
        /\ \A r \in S : held[r] # NoPlayer => \E i \in I : seatOf[i] = r
  BY DEF Seated
<1> DEFINE after == [held EXCEPT ![s] = q]
<1>2. \A i \in I : seatOf[i] # s
  BY <1>1, SentinelAssumption DEF Seats
<1>3. Seats(after, seatOf, who, I)
  BY <1>1, <1>2 DEF Seats
<1>4. after[s] = q /\ \A r \in S : r # s => after[r] = held[r]
  OBVIOUS
<1> HIDE DEF after
<1>5. QED
  BY <1>1, <1>2, <1>3, <1>4 DEF SeatedAnd, after

\* A player takes the slot of another who moved to a slot of its own.
LEMMA TakesTheSlotOfAnother ==
  ASSUME NEW S, NEW held \in [S -> Players \union {NoPlayer}], NEW I, NEW who,
         \A i \in I : who[i] \in Players,
         NEW q \in Players, NEW s \in S, s \in Eligible[q],
         held[s] \in Players, SeatedAnd(S, held, who, I, held[s])
  PROVE  SeatedAnd(S, [held EXCEPT ![s] = q], who, I, q)
<1> DEFINE h == held[s]
           after == [held EXCEPT ![s] = q]
<1>1. PICK seatOf \in [I -> S], x \in S \intersect Eligible[h] :
        /\ Seats(held, seatOf, who, I)
        /\ held[x] = h /\ \A i \in I : seatOf[i] # x
        /\ \A r \in S : held[r] # NoPlayer => r = x \/ \E i \in I : seatOf[i] = r
  BY DEF SeatedAnd
<1>2. after[s] = q /\ \A r \in S : r # s => after[r] = held[r]
  OBVIOUS
<1> HIDE DEF after
<1>3. CASE s = x
  <2>1. Seats(after, seatOf, who, I)
    BY <1>1, <1>2, <1>3 DEF Seats
  <2>2. QED
    BY <1>1, <1>2, <1>3, <2>1 DEF SeatedAnd, after
<1>4. CASE s # x
  <2>1. PICK i \in I : seatOf[i] = s
    BY <1>1, <1>4, SentinelAssumption
  <2> DEFINE moved == [seatOf EXCEPT ![i] = x]
  <2>2. moved \in [I -> S] /\ moved[i] = x /\ \A j \in I : j # i => moved[j] = seatOf[j]
    OBVIOUS
  <2> HIDE DEF moved
  <2>3. \A j \in I : j # i => seatOf[j] # s
    BY <1>1, <2>1 DEF Seats
  <2>4. who[i] = h /\ after[x] = h
    BY <1>1, <1>2, <1>4, <2>1 DEF Seats
  <2>5. Seats(after, moved, who, I)
    BY <1>1, <1>2, <2>2, <2>3, <2>4 DEF Seats
  <2>6. \A j \in I : moved[j] # s
    BY <1>4, <2>2, <2>3
  <2>7. ASSUME NEW r \in S, after[r] # NoPlayer, r # s PROVE \E j \in I : moved[j] = r
    BY <1>1, <1>2, <2>1, <2>2, <2>7
  <2>8. QED
    BY <1>2, <2>2, <2>5, <2>6, <2>7 DEF SeatedAnd, after
<1>5. QED
  BY <1>3, <1>4

\* One turn of the loop keeps what the search promises, with one slot more tried.
LEMMA ProbeAnswers ==
  ASSUME NEW slots, IsFiniteSet(ToSet(slots)), NEW I, NEW who,
         \A i \in I : who[i] \in Players,
         NEW ask \in [Players \X Searches(slots) -> Searches(slots)],
         NEW n \in Nat, Reliable(ask, n, who, I, slots),
         NEW q \in Players, NEW m \in Searches(slots), NEW u \in Searches(slots),
         Seated(ToSet(slots), m.playerBySlot, who, I),
         Cardinality(ToSet(slots) \ m.visited) <= n,
         NEW tried, Answers(ToSet(slots), q, m, u, who, I, tried),
         NEW s \in ToSet(slots)
  PROVE  Answers(ToSet(slots), q, m, Probe(ask, q, u, s), who, I, tried \union {s})
<1> DEFINE S == ToSet(slots)
           v == Visit(u, s)
           r == Probe(ask, q, u, s)
           more == tried \union {s}
<1> SUFFICES Answers(S, q, m, r, who, I, more)
  OBVIOUS
<1> HIDE DEF r, more
<1>1. CASE u.found \/ s \in u.visited \/ s \notin Eligible[q]
  <2>1. r = u
    BY <1>1 DEF Probe, r
  <2>2. ~u.found => more \intersect Eligible[q] \subseteq u.visited
    BY <1>1 DEF Answers, more
  <2>3. QED
    BY <2>1, <2>2 DEF Answers
<1>2. ASSUME ~(u.found \/ s \in u.visited \/ s \notin Eligible[q])
      PROVE  /\ Stuck(S, m, u) /\ tried \intersect Eligible[q] \subseteq u.visited
             /\ u.playerBySlot = m.playerBySlot /\ s \notin m.visited
  BY <1>2 DEF Answers, Stuck
<1>3. /\ v \in Searches(slots) /\ v.playerBySlot = u.playerBySlot
      /\ v.found = u.found /\ v.visited = u.visited \union {s}
  BY VisitFields
<1>4. /\ u.playerBySlot \in [S -> Players \union {NoPlayer}]
      /\ u.visited \subseteq S /\ m.visited \subseteq S
  BY DEF Searches
<1>5. m.visited \subseteq u.visited
  BY DEF Answers
<1> HIDE DEF v
<1>6. CASE /\ ~(u.found \/ s \in u.visited \/ s \notin Eligible[q])
           /\ u.playerBySlot[s] = NoPlayer
  <2>1. r = Place(v, s, q)
    BY <1>6 DEF Probe, r, v
  <2>2. /\ r.playerBySlot = [u.playerBySlot EXCEPT ![s] = q]
        /\ r.found = TRUE /\ r.visited = u.visited \union {s}
    <3>1. /\ Place(v, s, q).playerBySlot = [v.playerBySlot EXCEPT ![s] = q]
          /\ Place(v, s, q).found = TRUE /\ Place(v, s, q).visited = v.visited
      BY <1>3 DEF Place, Searches
    <3>2. QED
      BY <1>3, <2>1, <3>1
  <2>3. SeatedAnd(S, r.playerBySlot, who, I, q)
    BY <1>2, <1>4, <1>6, <2>2, TakesFreeSlot
  <2>4. \A o \in m.visited : r.playerBySlot[o] = m.playerBySlot[o]
    BY <1>2, <1>4, <1>6, <2>2
  <2>5. QED
    BY <1>5, <2>2, <2>3, <2>4 DEF Answers
<1>7. CASE /\ ~(u.found \/ s \in u.visited \/ s \notin Eligible[q])
           /\ u.playerBySlot[s] # NoPlayer
  <2> DEFINE h == u.playerBySlot[s]
             moved == ask[<<h, v>>]
  <2>1. h \in Players /\ moved \in Searches(slots)
    BY <1>3, <1>4, <1>7
  <2>2. r = IF moved.found THEN Place(moved, s, q) ELSE moved
    BY <1>7 DEF Probe, r, v
  <2>3. Answers(S, h, v, moved, who, I, S)
    <3>1. Cardinality(S \ v.visited) < n
      <4>1. IsFiniteSet(S \ m.visited) /\ Cardinality(S \ m.visited) \in Nat
        BY FS_Subset, FS_CardinalityType
      <4>2. S \ v.visited \in SUBSET ((S \ m.visited) \ {s}) /\ s \in S \ m.visited
        BY <1>2, <1>3, <1>5, <1>7
      <4>3. /\ IsFiniteSet((S \ m.visited) \ {s})
            /\ Cardinality((S \ m.visited) \ {s}) = Cardinality(S \ m.visited) - 1
        BY <4>1, <4>2, FS_RemoveElement
      <4>4. /\ Cardinality(S \ v.visited) <= Cardinality((S \ m.visited) \ {s})
            /\ IsFiniteSet(S \ v.visited)
        BY <4>2, <4>3, FS_Subset
      <4>5. Cardinality(S \ v.visited) \in Nat
        BY <4>4, FS_CardinalityType
      <4>6. QED
        BY <4>1, <4>3, <4>4, <4>5
    <3>2. Seated(S, v.playerBySlot, who, I)
      BY <1>2, <1>3, <1>7
    <3>3. QED
      BY <1>3, <2>1, <3>1, <3>2 DEF Reliable
  <2>4. /\ moved.playerBySlot \in [S -> Players \union {NoPlayer}]
        /\ moved.playerBySlot[s] = h
    BY <1>3, <2>1, <2>3 DEF Answers, Searches
  <2>5. /\ m.visited \subseteq moved.visited /\ s \in moved.visited
        /\ u.visited \subseteq moved.visited
    BY <1>3, <1>5, <2>3 DEF Answers
  <2>6. \A o \in m.visited : moved.playerBySlot[o] = m.playerBySlot[o]
    BY <1>2, <1>3, <1>5, <1>7, <2>3 DEF Answers
  <2>7. CASE moved.found
    <3> HIDE DEF h, moved
    <3>1. /\ r.playerBySlot = [moved.playerBySlot EXCEPT ![s] = q]
          /\ r.found = TRUE /\ r.visited = moved.visited
      <4>1. /\ Place(moved, s, q).playerBySlot = [moved.playerBySlot EXCEPT ![s] = q]
            /\ Place(moved, s, q).found = TRUE /\ Place(moved, s, q).visited = moved.visited
        BY <2>1 DEF Place, Searches
      <4>2. QED
        BY <2>2, <2>7, <4>1
    <3>2. SeatedAnd(S, moved.playerBySlot, who, I, h)
      BY <2>3, <2>7 DEF Answers
    <3>3. SeatedAnd(S, r.playerBySlot, who, I, q)
      <4>1. s \in Eligible[q]
        BY <1>7
      <4>2. moved.playerBySlot[s] \in Players
        BY <2>1, <2>4
      <4>3. SeatedAnd(S, moved.playerBySlot, who, I, moved.playerBySlot[s])
        BY <2>4, <3>2
      <4> DEFINE held == moved.playerBySlot
      <4>4. held \in [S -> Players \union {NoPlayer}]
        BY <2>4
      <4>5. r.playerBySlot = [held EXCEPT ![s] = q]
        BY <3>1
      <4> HIDE DEF held, S
      <4>6. s \in S
        BY DEF S
      <4>7. SeatedAnd(S, [held EXCEPT ![s] = q], who, I, q)
        BY <4>1, <4>2, <4>3, <4>4, <4>6, TakesTheSlotOfAnother DEF held
      <4>8. QED
        BY <4>5, <4>7
    <3>4. \A o \in m.visited : r.playerBySlot[o] = m.playerBySlot[o]
      BY <1>2, <1>7, <2>4, <2>6, <3>1
    <3>5. QED
      BY <2>5, <3>1, <3>3, <3>4 DEF Answers
  <2>8. CASE ~moved.found
    <3>1. r = moved
      BY <2>2, <2>8
    <3>2. Stuck(S, v, moved) /\ S \intersect Eligible[h] \subseteq moved.visited
      BY <2>3, <2>8 DEF Answers
    <3>3. moved.playerBySlot = m.playerBySlot /\ moved.playerBySlot = u.playerBySlot
      BY <1>2, <1>3, <1>7, <3>2 DEF Stuck
    <3>4. ASSUME NEW o \in moved.visited \ m.visited
          PROVE  /\ moved.playerBySlot[o] # NoPlayer
                 /\ S \intersect Eligible[moved.playerBySlot[o]] \subseteq moved.visited
      <4>1. CASE o \in u.visited
        BY <1>2, <1>7, <2>5, <3>3, <4>1 DEF Stuck
      <4>2. CASE o = s
        BY <1>7, <2>4, <3>2, <4>2
      <4>3. CASE o \notin u.visited /\ o # s
        BY <1>3, <3>2, <4>3 DEF Stuck
      <4>4. QED
        BY <4>1, <4>2, <4>3
    <3>5. Stuck(S, m, moved)
      BY <3>3, <3>4 DEF Stuck
    <3>6. more \intersect Eligible[q] \subseteq moved.visited
      BY <1>2, <1>7, <2>5 DEF more
    <3> HIDE DEF moved
    <3>7. QED
      BY <2>5, <2>6, <2>8, <3>1, <3>5, <3>6 DEF Answers
  <2>9. QED
    BY <2>7, <2>8
<1>8. QED
  BY <1>1, <1>6, <1>7 DEF r

\* So does the whole loop, and then every slot was tried.
LEMMA TrySlotsAnswers ==
  ASSUME NEW X, NEW slots \in Seq(X), IsFiniteSet(ToSet(slots)),
         NEW I, NEW who,
         \A i \in I : who[i] \in Players,
         NEW ask \in [Players \X Searches(slots) -> Searches(slots)],
         NEW n \in Nat, Reliable(ask, n, who, I, slots),
         NEW q \in Players, NEW m \in Searches(slots),
         Seated(ToSet(slots), m.playerBySlot, who, I),
         Cardinality(ToSet(slots) \ m.visited) <= n
  PROVE  Answers(ToSet(slots), q, m, TrySlots(ask, q, m, slots), who, I, ToSet(slots))
<1> DEFINE S == ToSet(slots)
           first(k) == {slots[j] : j \in 1 .. k}
<1>1. PICK so \in [0 .. Len(slots) -> Searches(slots)] :
        TriesBy(so, ask, q, m, slots) /\ TrySlots(ask, q, m, slots) = so[Len(slots)]
  BY TrySlotsIsLast
<1>2. Len(slots) \in Nat /\ first(Len(slots)) = S /\ \A k \in 1 .. Len(slots) : slots[k] \in S
  BY DEF ToSet
<1> DEFINE kept == {k \in 0 .. Len(slots) : Answers(S, q, m, so[k], who, I, first(k))}
<1> HIDE DEF S
<1>3. 0 \in kept
  <2>1. /\ so[0].visited = m.visited /\ so[0].playerBySlot = m.playerBySlot
        /\ so[0].found = FALSE
    <3>1. so[0] = [m EXCEPT !.found = FALSE]
      BY <1>1, <1>2, 0 \in 0 .. Len(slots) DEF TriesBy
    <3>2. QED
      BY <3>1 DEF Searches
  <2>2. Answers(S, q, m, so[0], who, I, first(0))
    BY <2>1 DEF Answers, Stuck
  <2> HIDE DEF first
  <2>3. 0 \in 0 .. Len(slots)
    BY <1>2
  <2>4. QED
    BY <2>2, <2>3
<1>4. ASSUME NEW k \in 0 .. Len(slots) - 1, k \in kept PROVE k + 1 \in kept
  <2>1. k + 1 \in 1 .. Len(slots) /\ k + 1 \in 0 .. Len(slots) /\ k + 1 # 0 /\ (k + 1) - 1 = k
    BY <1>2
  <2>2. so[k + 1] = Probe(ask, q, so[k], slots[k + 1]) /\ so[k] \in Searches(slots)
    <3>1. so[k + 1] = Probe(ask, q, so[(k + 1) - 1], slots[k + 1])
      <4> HIDE DEF first
      <4>1. QED
        BY <1>1, <2>1 DEF TriesBy
    <3>2. QED
      BY <2>1, <3>1
  <2>3. first(k + 1) = first(k) \union {slots[k + 1]}
    BY <2>1
  <2> HIDE DEF first
  <2>4. Answers(S, q, m, so[k], who, I, first(k)) /\ slots[k + 1] \in S
    BY <1>2, <1>4, <2>1
  <2>5. Answers(S, q, m, Probe(ask, q, so[k], slots[k + 1]), who, I, first(k) \union {slots[k + 1]})
    BY <2>2, <2>4, ProbeAnswers DEF S
  <2>6. QED
    BY <2>1, <2>2, <2>3, <2>5
<1> HIDE DEF kept
<1>5. 0 .. Len(slots) \subseteq kept
  BY <1>2, <1>3, <1>4, InductionOnNat
<1>6. Answers(S, q, m, so[Len(slots)], who, I, first(Len(slots)))
  BY <1>2, <1>5 DEF kept
<1>7. QED
  BY <1>1, <1>2, <1>6 DEF S
\* No chain of players asked to move is longer than the slots: TryAssign answers.
LEMMA TryAssignAnswers ==
  ASSUME NEW X, NEW slots \in Seq(X), IsFiniteSet(ToSet(slots)),
         Cardinality(ToSet(slots)) <= Len(slots),
         NEW I, NEW who,
         \A i \in I : who[i] \in Players,
         NEW q \in Players, NEW m \in Searches(slots),
         Seated(ToSet(slots), m.playerBySlot, who, I)
  PROVE  /\ TryAssign(q, m, slots) \in Searches(slots)
         /\ Answers(ToSet(slots), q, m, TryAssign(q, m, slots), who, I, ToSet(slots))
<1> DEFINE S == ToSet(slots)
           calls == Players \X Searches(slots)
<1>1. PICK ask \in [0 .. Len(slots) -> [calls -> Searches(slots)]] :
        /\ \A n \in 1 .. Len(slots), p \in Players, o \in Searches(slots) :
              ask[n][<<p, o>>] = TrySlots(ask[n - 1], p, o, slots)
        /\ \A p, o : TryAssign(p, o, slots) = TrySlots(ask[Len(slots)], p, o, slots)
  BY TryAssignAsks
<1>2. Len(slots) \in Nat
  OBVIOUS
<1>3. \A o \in Searches(slots) :
        Cardinality(S \ o.visited) \in Nat /\ Cardinality(S \ o.visited) <= Len(slots)
  <2> TAKE o \in Searches(slots)
  <2>1. S \ o.visited \in SUBSET S
    OBVIOUS
  <2>2. IsFiniteSet(S \ o.visited) /\ Cardinality(S \ o.visited) <= Cardinality(S)
    BY <2>1, FS_Subset
  <2>3. Cardinality(S \ o.visited) \in Nat /\ Cardinality(S) \in Nat
    BY <2>2, FS_CardinalityType
  <2>4. QED
    BY <1>2, <2>2, <2>3
<1> DEFINE good == {n \in 0 .. Len(slots) : Reliable(ask[n], n, who, I, slots)}
<1>4. 0 \in good
  BY <1>2, <1>3 DEF Reliable
<1>5. ASSUME NEW n \in 0 .. Len(slots) - 1, n \in good PROVE n + 1 \in good
  <2>1. /\ n \in Nat /\ n + 1 \in 1 .. Len(slots) /\ n + 1 \in 0 .. Len(slots)
        /\ (n + 1) - 1 = n /\ n \in 0 .. Len(slots)
    BY <1>2
  <2>2. ask[n] \in [calls -> Searches(slots)] /\ Reliable(ask[n], n, who, I, slots)
    BY <1>5, <2>1
  <2>3. ASSUME NEW p \in Players, NEW o \in Searches(slots),
               Seated(S, o.playerBySlot, who, I), Cardinality(S \ o.visited) < n + 1
        PROVE  Answers(S, p, o, ask[n + 1][<<p, o>>], who, I, S)
    <3>1. Cardinality(S \ o.visited) <= n
      BY <1>3, <2>1, <2>3
    <3>2. Answers(S, p, o, TrySlots(ask[n], p, o, slots), who, I, S)
      BY <2>1, <2>2, <2>3, <3>1, TrySlotsAnswers
    <3>3. ask[n + 1][<<p, o>>] = TrySlots(ask[n], p, o, slots)
      BY <1>1, <2>1
    <3>4. QED
      BY <3>2, <3>3
  <2>4. Reliable(ask[n + 1], n + 1, who, I, slots)
    BY <2>3 DEF Reliable
  <2>5. QED
    BY <2>1, <2>4
<1> HIDE DEF good
<1>6. 0 .. Len(slots) \subseteq good
  BY <1>2, <1>4, <1>5, InductionOnNat
<1>7. /\ ask[Len(slots)] \in [calls -> Searches(slots)]
      /\ Reliable(ask[Len(slots)], Len(slots), who, I, slots)
  <2>1. Len(slots) \in 0 .. Len(slots)
    BY <1>2
  <2>2. Len(slots) \in good
    BY <1>6, <2>1
  <2>3. QED
    BY <2>1, <2>2 DEF good
<1>8. Answers(S, q, m, TrySlots(ask[Len(slots)], q, m, slots), who, I, S)
  BY <1>2, <1>3, <1>7, TrySlotsAnswers
<1>9. TrySlots(ask[Len(slots)], q, m, slots) \in Searches(slots)
  BY <1>7, TrySlotsTyped
<1>10. QED
  BY <1>1, <1>8, <1>9

-----------------------------------------------------------------------------
(***************************************************************************)
(* What a refusal means.  The players of the visited slots, and the one    *)
(* that was refused, are eligible for no other slot: they are one more     *)
(* than those slots.                                                       *)
(***************************************************************************)
\* There is a place for the first n players.
Fits(S, who, n) ==
  \E slotOf \in [1 .. n -> S] :
    /\ \A i, j \in 1 .. n : slotOf[i] = slotOf[j] => i = j
    /\ \A i \in 1 .. n : slotOf[i] \in Eligible[who[i]]

\* A player refused with the others seated has no place beside them.
LEMMA RefusedDoesNotFit ==
  ASSUME NEW S, IsFiniteSet(S), NEW n \in Nat, NEW who, \A i \in 1 .. n + 1 : who[i] \in Players,
         NEW held \in [S -> Players \union {NoPlayer}], Seated(S, held, who, 1 .. n),
         NEW visited \in SUBSET S,
         \A s \in visited :
            held[s] # NoPlayer /\ S \intersect Eligible[held[s]] \subseteq visited,
         S \intersect Eligible[who[n + 1]] \subseteq visited
  PROVE  ~ Fits(S, who, n + 1)
<1> SUFFICES ASSUME Fits(S, who, n + 1) PROVE FALSE
  OBVIOUS
<1>1. PICK slotOf \in [1 .. n + 1 -> S] :
        /\ \A i, j \in 1 .. n + 1 : slotOf[i] = slotOf[j] => i = j
        /\ \A i \in 1 .. n + 1 : slotOf[i] \in Eligible[who[i]]
  BY DEF Fits
<1>2. PICK seatOf \in [1 .. n -> S] :
        /\ Seats(held, seatOf, who, 1 .. n)
        /\ \A s \in S : held[s] # NoPlayer => \E i \in 1 .. n : seatOf[i] = s
  BY DEF Seated
<1> DEFINE Inside == {i \in 1 .. n : seatOf[i] \in visited}
           Wanting == Inside \union {n + 1}
           to == [i \in Wanting |-> slotOf[i]]
           from == [i \in Inside |-> seatOf[i]]
<1>3. IsFiniteSet(visited) /\ Cardinality(visited) \in Nat
  BY FS_Subset, FS_CardinalityType
<1>4. IsFiniteSet(Inside) /\ Cardinality(Inside) \in Nat
  <2>1. IsFiniteSet(1 .. n) /\ Inside \in SUBSET (1 .. n)
    BY FS_Interval
  <2>2. IsFiniteSet(Inside)
    BY <2>1, FS_Subset
  <2>3. QED
    BY <2>2, FS_CardinalityType
<1>5. Cardinality(Wanting) = Cardinality(Inside) + 1
  <2>1. n + 1 \notin Inside
    OBVIOUS
  <2> HIDE DEF Inside
  <2>2. QED
    BY <1>4, <2>1, FS_AddElement
<1>6. Cardinality(visited) <= Cardinality(Inside)
  <2>1. \A s \in visited : \E i \in Inside : from[i] = s
    BY <1>2
  <2>2. from \in [Inside -> visited]
    OBVIOUS
  <2> HIDE DEF Inside, from
  <2>3. from \in Surjection(Inside, visited)
    BY <2>1, <2>2 DEF Surjection
  <2>4. QED
    BY <1>4, <2>3, FS_Surjection
<1>7. Cardinality(Wanting) <= Cardinality(visited)
  <2>1. ASSUME NEW i \in Wanting PROVE slotOf[i] \in visited /\ i \in 1 .. n + 1
    <3>1. CASE i = n + 1
      BY <1>1, <3>1
    <3>2. CASE i \in Inside
      <4>1. i \in 1 .. n + 1 /\ slotOf[i] \in S \intersect Eligible[who[i]]
        BY <1>1, <3>2
      <4>2. seatOf[i] \in visited /\ held[seatOf[i]] = who[i]
        BY <1>2, <3>2 DEF Seats
      <4>3. QED
        BY <4>1, <4>2
    <3>3. QED
      BY <3>1, <3>2
  <2>2. to \in [Wanting -> visited]
    BY <2>1
  <2>3. \A i, j \in Wanting : to[i] = to[j] => i = j
    BY <1>1, <2>1
  <2> HIDE DEF Wanting, to
  <2>4. to \in Injection(Wanting, visited)
    BY <2>2, <2>3 DEF Injection, IsInjective
  <2>5. QED
    BY <1>3, <2>4, FS_Injection
<1>8. QED
  <2> HIDE DEF Wanting, Inside
  <2>1. QED
    BY <1>3, <1>4, <1>5, <1>6, <1>7
-----------------------------------------------------------------------------
(***************************************************************************)
(* The loop over the players.                                              *)
(***************************************************************************)
\* so is what Feasible computes, player by player.
PlacesBy(so, players, slots) ==
  so = [k \in 0 .. Len(players) |->
          IF k = 0 THEN NothingAssigned(slots)
          ELSE LET tried == TryAssign(players[k], [so[k - 1] EXCEPT !.visited = {}], slots)
               IN  [tried EXCEPT !.found = @ /\ so[k - 1].found]]

\* A list of slots that names each of them, none more often than it is long.
Listed(slots) == IsFiniteSet(ToSet(slots)) /\ Cardinality(ToSet(slots)) <= Len(slots)

\* A search leaves a state of the matching.
LEMMA TryAssignTyped ==
  ASSUME NEW X, NEW slots \in Seq(X), NEW q \in Players, NEW m \in Searches(slots)
  PROVE  TryAssign(q, m, slots) \in Searches(slots)
<1>1. PICK ask \in [0 .. Len(slots) -> [Players \X Searches(slots) -> Searches(slots)]] :
        TryAssign(q, m, slots) = TrySlots(ask[Len(slots)], q, m, slots)
  BY TryAssignAsks
<1>2. Len(slots) \in 0 .. Len(slots)
  OBVIOUS
<1>3. ask[Len(slots)] \in [Players \X Searches(slots) -> Searches(slots)]
  BY <1>2
<1>4. TrySlots(ask[Len(slots)], q, m, slots) \in Searches(slots)
  BY <1>3, TrySlotsTyped
<1>5. QED
  BY <1>1, <1>4

\* The loop over the players has its turns, and its answer is the last.
LEMMA FeasibleIsLast ==
  ASSUME NEW X, NEW slots \in Seq(X), NEW players \in Seq(Players)
  PROVE  \E so \in [0 .. Len(players) -> Searches(slots)] :
            PlacesBy(so, players, slots) /\ Feasible(players, slots) = so[Len(players)].found
<1> DEFINE tried(m, k) == TryAssign(players[k], [m EXCEPT !.visited = {}], slots)
           turn(m, k) == [tried(m, k) EXCEPT !.found = @ /\ m.found]
           init == NothingAssigned(slots)
           steps == Searches(slots) \X (1 .. Len(players))
           next == [c \in steps |-> turn(c[1], c[2])]
           chosen == CHOOSE so : PlacesBy(so, players, slots)
<1>1. Len(players) \in Nat /\ \A k \in 1 .. Len(players) : players[k] \in Players
  OBVIOUS
<1>2. init \in Searches(slots)
  BY DEF Searches, NothingAssigned
<1>3. ASSUME NEW m \in Searches(slots), NEW k \in 1 .. Len(players)
      PROVE  turn(m, k) \in Searches(slots)
  <2>1. [m EXCEPT !.visited = {}] \in Searches(slots)
    BY DEF Searches
  <2>2. tried(m, k) \in Searches(slots)
    BY <1>1, <2>1, TryAssignTyped
  <2> HIDE DEF tried
  <2>3. QED
    BY <2>2 DEF Searches
<1> HIDE DEF init, turn
<1>4. PICK so \in [0 .. Len(players) -> Searches(slots)] : Runs(so, init, next, Len(players))
  <2>1. next \in [steps -> Searches(slots)]
    BY <1>3
  <2> HIDE DEF next
  <2>2. QED
    BY <1>1, <1>2, <2>1, RunExists
<1>5. PlacesBy(so, players, slots)
  <2>1. ASSUME NEW k \in 0 .. Len(players)
        PROVE  so[k] = IF k = 0 THEN init ELSE turn(so[k - 1], k)
    <3>1. so[k] = IF k = 0 THEN init ELSE next[<<so[k - 1], k>>]
      <4> HIDE DEF next
      <4>1. QED
        BY <1>4 DEF Runs
    <3>2. ASSUME k # 0 PROVE next[<<so[k - 1], k>>] = turn(so[k - 1], k)
      <4> DEFINE c == <<so[k - 1], k>>
      <4>1. c \in steps /\ c[1] = so[k - 1] /\ c[2] = k
        <5> HIDE DEF next
        <5>1. k \in 1 .. Len(players) /\ k - 1 \in 0 .. Len(players)
          BY <1>1, <3>2
        <5>2. so[k - 1] \in Searches(slots)
          BY <5>1
        <5>3. QED
          BY <5>1, <5>2
      <4> HIDE DEF c, steps
      <4>2. next[c] = turn(c[1], c[2])
        BY <4>1
      <4>3. QED
        BY <4>1, <4>2 DEF c
    <3> HIDE DEF next
    <3>3. QED
      BY <3>1, <3>2
  <2>2. so = [k \in 0 .. Len(players) |-> IF k = 0 THEN init ELSE turn(so[k - 1], k)]
    BY <2>1
  <2>3. QED
    BY <2>2 DEF PlacesBy, init, turn
<1>6. PlacesBy(chosen, players, slots)
  BY <1>5
<1>7. Feasible(players, slots) = chosen[Len(players)].found
  BY SMTT(30) DEF Feasible, PlacesBy
<1> HIDE DEF chosen
<1>8. \A k \in 0 .. Len(players) :
        chosen[k] = IF k = 0 THEN init ELSE turn(chosen[k - 1], k)
  BY <1>6 DEF PlacesBy, init, turn
<1>9. chosen \in [0 .. Len(players) -> Searches(slots)]
  <2> DEFINE typed == {k \in 0 .. Len(players) : chosen[k] \in Searches(slots)}
  <2>1. 0 \in typed
    BY <1>1, <1>2, <1>8
  <2>2. ASSUME NEW k \in 0 .. Len(players) - 1, k \in typed PROVE k + 1 \in typed
    <3>1. k + 1 \in 0 .. Len(players) /\ k + 1 # 0 /\ (k + 1) - 1 = k /\ k + 1 \in 1 .. Len(players)
      BY <1>1
    <3>2. chosen[k + 1] = turn(chosen[k], k + 1) /\ chosen[k] \in Searches(slots)
      BY <1>8, <2>2, <3>1
    <3>3. QED
      BY <1>3, <3>1, <3>2
  <2> HIDE DEF typed
  <2>3. 0 .. Len(players) \subseteq typed
    BY <1>1, <2>1, <2>2, InductionOnNat
  <2>4. chosen = [k \in 0 .. Len(players) |-> chosen[k]]
    BY <1>6 DEF PlacesBy
  <2>5. QED
    BY <2>3, <2>4 DEF typed
<1>10. QED
  BY <1>6, <1>7, <1>9

\* Every player found a place exactly when there is one for all of them.
LEMMA FeasibleFits ==
  ASSUME NEW X, NEW slots \in Seq(X), Listed(slots), NEW players \in Seq(Players)
  PROVE  Feasible(players, slots) <=> Fits(ToSet(slots), players, Len(players))
<1> DEFINE S == ToSet(slots)
           N == Len(players)
<1>1. PICK so \in [0 .. N -> Searches(slots)] :
        PlacesBy(so, players, slots) /\ Feasible(players, slots) = so[N].found
  BY FeasibleIsLast
<1>2. N \in Nat /\ \A k \in 1 .. N : players[k] \in Players
  OBVIOUS
<1>3. \A m \in Searches(slots) :
        m.playerBySlot \in [S -> Players \union {NoPlayer}] /\ m.found \in BOOLEAN
  BY DEF Searches
<1> DEFINE Right(k) ==
             /\ so[k].found => Seated(S, so[k].playerBySlot, players, 1 .. k)
             /\ ~ so[k].found => ~ Fits(S, players, N)
           right == {k \in 0 .. N : Right(k)}
<1>4. 0 \in right
  <2>1. so[0] = NothingAssigned(slots)
    BY <1>1, <1>2, 0 \in 0 .. N DEF PlacesBy
  <2>2. so[0].found = TRUE /\ \A s \in S : so[0].playerBySlot[s] = NoPlayer
    BY <2>1 DEF NothingAssigned
  <2> DEFINE nobody == [i \in 1 .. 0 |-> NoPlayer]
  <2>3. nobody \in [1 .. 0 -> S] /\ Seats(so[0].playerBySlot, nobody, players, 1 .. 0)
    BY DEF Seats
  <2> HIDE DEF nobody
  <2>4. Seated(S, so[0].playerBySlot, players, 1 .. 0)
    BY <2>2, <2>3 DEF Seated
  <2>5. QED
    BY <1>2, <2>2, <2>4
<1>5. ASSUME NEW k \in 0 .. N - 1, k \in right PROVE k + 1 \in right
  <2>1. /\ k \in Nat /\ k + 1 \in 1 .. N /\ k + 1 \in 0 .. N /\ k + 1 # 0 /\ (k + 1) - 1 = k
        /\ k \in 0 .. N /\ players[k + 1] \in Players
    BY <1>2
  <2> DEFINE q == players[k + 1]
             m == [so[k] EXCEPT !.visited = {}]
             tried == TryAssign(q, m, slots)
  <2>2. so[k + 1] = [tried EXCEPT !.found = @ /\ so[k].found]
    <3>1. so[k + 1] = LET t == TryAssign(q, [so[(k + 1) - 1] EXCEPT !.visited = {}], slots)
                      IN  [t EXCEPT !.found = @ /\ so[(k + 1) - 1].found]
      BY <1>1, <2>1 DEF PlacesBy
    <3>2. QED
      BY <2>1, <3>1
  <2>3. /\ so[k] \in Searches(slots) /\ m \in Searches(slots) /\ m.visited = {}
        /\ m.playerBySlot = so[k].playerBySlot
    BY <2>1 DEF Searches
  <2>4. tried \in Searches(slots)
    BY <2>1, <2>3, TryAssignTyped
  <2> HIDE DEF m, tried
  <2>5. /\ so[k + 1].found = (tried.found /\ so[k].found)
        /\ so[k + 1].playerBySlot = tried.playerBySlot
    BY <2>2, <2>4 DEF Searches
  <2>6. Right(k)
    BY <1>5
  <2>7. CASE ~ so[k].found
    BY <2>1, <2>5, <2>6, <2>7
  <2>8. CASE so[k].found
    <3>1. Seated(S, m.playerBySlot, players, 1 .. k) /\ \A i \in 1 .. k : players[i] \in Players
      BY <1>2, <2>1, <2>3, <2>6, <2>8
    <3>2. Answers(S, q, m, tried, players, 1 .. k, S)
      BY <2>1, <2>3, <3>1, TryAssignAnswers DEF Listed, tried
    <3>3. CASE tried.found
      <4>1. PICK seatOf \in [1 .. k -> S], x \in S \intersect Eligible[q] :
              /\ Seats(tried.playerBySlot, seatOf, players, 1 .. k)
              /\ tried.playerBySlot[x] = q /\ \A i \in 1 .. k : seatOf[i] # x
              /\ \A s \in S : tried.playerBySlot[s] # NoPlayer =>
                    s = x \/ \E i \in 1 .. k : seatOf[i] = s
        BY <3>2, <3>3 DEF Answers, SeatedAnd
      <4> DEFINE both == [i \in 1 .. k + 1 |-> IF i = k + 1 THEN x ELSE seatOf[i]]
      <4>2. /\ both \in [1 .. k + 1 -> S] /\ both[k + 1] = x
            /\ \A i \in 1 .. k : both[i] = seatOf[i] /\ i \in 1 .. k + 1
            /\ \A i \in 1 .. k + 1 : i \in 1 .. k \/ i = k + 1
        BY <2>1
      <4>2a. k + 1 \in 1 .. k + 1
        BY <2>1
      <4> HIDE DEF both
      <4>3. Seats(tried.playerBySlot, both, players, 1 .. k + 1)
        <5>1. ASSUME NEW i \in 1 .. k + 1, NEW j \in 1 .. k + 1, both[i] = both[j]
              PROVE  i = j
          <6>1. CASE i = k + 1 \/ j = k + 1
            BY <4>1, <4>2, <5>1, <6>1
          <6>2. CASE i \in 1 .. k /\ j \in 1 .. k
            <7>1. seatOf[i] = seatOf[j]
              BY <4>2, <5>1, <6>2
            <7>2. QED
              BY Zenon, <4>1, <6>2, <7>1 DEF Seats
          <6>3. QED
            BY <4>2, <6>1, <6>2
        <5>2. ASSUME NEW i \in 1 .. k + 1
              PROVE  tried.playerBySlot[both[i]] = players[i] /\ both[i] \in Eligible[players[i]]
          BY <4>1, <4>2 DEF Seats
        <5>3. QED
          BY <5>1, <5>2 DEF Seats
      <4>4. \A s \in S : tried.playerBySlot[s] # NoPlayer => \E i \in 1 .. k + 1 : both[i] = s
        <5>1. ASSUME NEW s \in S, tried.playerBySlot[s] # NoPlayer
              PROVE  s = both[k + 1] \/ \E i \in 1 .. k : both[i] = s
          BY <4>1, <4>2, <5>1
        <5>2. QED
          BY <4>2, <4>2a, <5>1
      <4>5. Seated(S, tried.playerBySlot, players, 1 .. k + 1)
        BY <4>2, <4>3, <4>4 DEF Seated
      <4>6. QED
        BY <2>1, <2>5, <2>8, <3>3, <4>5
    <3>4. CASE ~ tried.found
      <4>1. /\ tried.playerBySlot = m.playerBySlot /\ tried.visited \in SUBSET S
            /\ S \intersect Eligible[q] \subseteq tried.visited
            /\ \A s \in tried.visited :
                  /\ tried.playerBySlot[s] # NoPlayer
                  /\ S \intersect Eligible[tried.playerBySlot[s]] \subseteq tried.visited
        BY <2>3, <2>4, <3>2, <3>4 DEF Answers, Stuck, Searches
      <4>2. ~ Fits(S, players, k + 1)
        <5> DEFINE held == m.playerBySlot
                   visited == tried.visited
        <5>1. /\ held \in [S -> Players \union {NoPlayer}] /\ Seated(S, held, players, 1 .. k)
              /\ \A i \in 1 .. k + 1 : players[i] \in Players
          BY <1>2, <1>3, <2>1, <2>3, <3>1
        <5>2. /\ visited \in SUBSET S /\ S \intersect Eligible[players[k + 1]] \subseteq visited
              /\ \A s \in visited :
                    held[s] # NoPlayer /\ S \intersect Eligible[held[s]] \subseteq visited
          BY <4>1
        <5> HIDE DEF held, visited
        <5>3. QED
          BY <2>1, <5>1, <5>2, RefusedDoesNotFit DEF Listed
      <4>3. Fits(S, players, N) => Fits(S, players, k + 1)
        <5> SUFFICES ASSUME Fits(S, players, N) PROVE Fits(S, players, k + 1)
          OBVIOUS
        <5>1. PICK slotOf \in [1 .. N -> S] :
                /\ \A i, j \in 1 .. N : slotOf[i] = slotOf[j] => i = j
                /\ \A i \in 1 .. N : slotOf[i] \in Eligible[players[i]]
          BY DEF Fits
        <5> DEFINE some == [i \in 1 .. k + 1 |-> slotOf[i]]
        <5>2. \A i \in 1 .. k + 1 : i \in 1 .. N
          BY <1>2, <2>1
        <5>3. some \in [1 .. k + 1 -> S] /\ \A i \in 1 .. k + 1 : some[i] = slotOf[i]
          BY <5>2
        <5> HIDE DEF some, S
        <5>4. \A i, j \in 1 .. k + 1 : some[i] = some[j] => i = j
          BY <5>1, <5>2, <5>3
        <5>5. \A i \in 1 .. k + 1 : some[i] \in Eligible[players[i]]
          BY <5>1, <5>2, <5>3
        <5>6. QED
          BY <5>3, <5>4, <5>5 DEF Fits
      <4>4. QED
        BY <2>1, <2>5, <3>4, <4>2, <4>3
    <3>5. QED
      BY <3>3, <3>4
  <2>9. QED
    BY <2>7, <2>8
<1> HIDE DEF right
<1>6. Right(N)
  <2>1. N \in 0 .. N
    BY <1>2
  <2>2. 0 .. N \subseteq right
    <3> HIDE DEF N
    <3>1. QED
      BY <1>2, <1>4, <1>5, InductionOnNat
  <2>3. N \in right
    BY <2>1, <2>2
  <2>4. QED
    BY <2>3 DEF right
<1>7. Seated(S, so[N].playerBySlot, players, 1 .. N) => Fits(S, players, N)
  BY DEF Seated, Seats, Fits
<1>8. so[N].found \in BOOLEAN
  BY <1>2, <1>3
<1>9. QED
  BY <1>1, <1>6, <1>7, <1>8
-----------------------------------------------------------------------------
(***************************************************************************)
(* The matching and the rule it decides.                                   *)
(***************************************************************************)

\* SetToSeqs lists every element, once.
LEMMA SetToSeqsLists ==
  ASSUME NEW S, IsFiniteSet(S), NEW f \in SetToSeqs(S)
  PROVE  /\ f \in Seq(S) /\ Len(f) = Cardinality(S) /\ Len(f) \in Nat
         /\ \A i, j \in 1 .. Len(f) : f[i] = f[j] => i = j
         /\ \A s \in S : \E i \in 1 .. Len(f) : f[i] = s
<1> DEFINE n == Cardinality(S)
<1>1. n \in Nat
  BY FS_CardinalityType
<1> HIDE DEF n
<1>2. f \in [1 .. n -> S] /\ \A i, j \in 1 .. n : i # j => f[i] # f[j]
  BY DEF SetToSeqs, n
<1>3. f \in Seq(S) /\ Len(f) = n
  <2>1. f \in Seq(S)
    BY <1>1, <1>2, SeqDef
  <2>2. DOMAIN f = 1 .. n /\ DOMAIN f = 1 .. Len(f) /\ Len(f) \in Nat
    BY <1>2, <2>1, LenProperties
  <2>3. QED
    BY <1>1, <2>1, <2>2
<1>4. f \in Injection(1 .. n, S)
  BY <1>2 DEF Injection, IsInjective
<1>5. Cardinality(1 .. n) = Cardinality(S)
  BY <1>1, FS_Interval DEF n
<1>6. f \in Surjection(1 .. n, S)
  BY <1>4, <1>5, FS_Injection
<1>7. QED
  BY <1>1, <1>2, <1>3, <1>6 DEF Surjection, n

\* players is R and p once more, which is number j.
ListedWith(players, R, p) ==
  \E j \in 1 .. Len(players) :
    /\ players[j] = p
    /\ \A i \in 1 .. Len(players) : i # j => players[i] \in R
    /\ \A i, k \in 1 .. Len(players) : i # j /\ k # j /\ players[i] = players[k] => i = k
    /\ \A r \in R : \E i \in 1 .. Len(players) : i # j /\ players[i] = r

\* players is others with again put in after number n.
IsInserted(players, others, again, n) ==
  /\ Len(players) = Len(others) + Len(again)
  /\ \A i \in 1 .. Len(others) + Len(again) :
       players[i] = IF i <= n THEN others[i]
                    ELSE IF i <= n + Len(again) THEN again[i - n] ELSE others[i - Len(again)]

\* Cutting others after number n puts again in there.
LEMMA Inserted ==
  ASSUME NEW S, NEW others \in Seq(S), NEW again \in Seq(S), NEW n \in 0 .. Len(others)
  PROVE  LET players == SubSeq(others, 1, n) \o again \o SubSeq(others, n + 1, Len(others))
         IN  IsInserted(players, others, again, n) /\ players \in Seq(S)
<1> DEFINE M == Len(others)
           L == Len(again)
           players == SubSeq(others, 1, n) \o again \o SubSeq(others, n + 1, Len(others))
           first == SubSeq(others, 1, n)
           rest == SubSeq(others, n + 1, M)
           front == first \o again
<1>1. M \in Nat /\ L \in Nat /\ n \in Nat /\ n <= M /\ \A i \in 1 .. M : others[i] \in S
  OBVIOUS
<1>2. /\ first \in Seq(S) /\ Len(first) = n
      /\ \A i \in 1 .. n : first[i] = others[i]
  <2>1. n \in Int /\ 1 \in Int /\ \A i \in 1 .. n : others[i] \in S
    BY <1>1
  <2>2. /\ first \in Seq(S) /\ Len(first) = IF 1 <= n THEN n - 1 + 1 ELSE 0
        /\ \A i \in 1 .. n - 1 + 1 : first[i] = others[1 + i - 1]
    BY <2>1, SubSeqProperties
  <2>3. \A i \in 1 .. n : i \in 1 .. n - 1 + 1 /\ 1 + i - 1 = i
    BY <1>1
  <2> HIDE DEF first
  <2>4. QED
    BY <1>1, <2>2, <2>3
<1>3. /\ rest \in Seq(S) /\ Len(rest) = M - n
      /\ \A i \in 1 .. M - n : rest[i] = others[n + i]
  <2>1. n + 1 \in Int /\ M \in Int /\ \A i \in n + 1 .. M : others[i] \in S
    BY <1>1
  <2>2. /\ rest \in Seq(S) /\ Len(rest) = IF n + 1 <= M THEN M - (n + 1) + 1 ELSE 0
        /\ \A i \in 1 .. M - (n + 1) + 1 : rest[i] = others[n + 1 + i - 1]
    BY <2>1, SubSeqProperties
  <2>3. \A i \in 1 .. M - n : i \in 1 .. M - (n + 1) + 1 /\ n + 1 + i - 1 = n + i
    BY <1>1
  <2> HIDE DEF rest
  <2>4. QED
    BY <1>1, <2>2, <2>3
<1> HIDE DEF first, rest, M, L
<1>4. /\ front \in Seq(S) /\ Len(front) = n + L
      /\ \A i \in 1 .. n + L : front[i] = IF i <= n THEN first[i] ELSE again[i - n]
  BY <1>2, ConcatProperties DEF L
<1> HIDE DEF front
<1>5. players = front \o rest
  BY DEF front, first, rest, M
<1> HIDE DEF players
<1>6. /\ front \o rest \in Seq(S) /\ Len(front \o rest) = (n + L) + (M - n)
      /\ \A i \in 1 .. (n + L) + (M - n) :
           (front \o rest)[i] = IF i <= n + L THEN front[i] ELSE rest[i - (n + L)]
  <2>1. /\ front \o rest \in Seq(S) /\ Len(front \o rest) = Len(front) + Len(rest)
        /\ \A i \in 1 .. Len(front) + Len(rest) :
             (front \o rest)[i] = IF i <= Len(front) THEN front[i] ELSE rest[i - Len(front)]
    BY <1>3, <1>4, ConcatProperties
  <2>2. Len(front) = n + L /\ Len(rest) = M - n
    BY <1>3, <1>4
  <2>3. QED
    BY <2>1, <2>2
<1>7. (n + L) + (M - n) = M + L
  BY <1>1
<1>8. ASSUME NEW i \in 1 .. M + L
      PROVE  players[i] = IF i <= n THEN others[i]
                          ELSE IF i <= n + L THEN again[i - n] ELSE others[i - L]
  <2>1. players[i] = IF i <= n + L THEN front[i] ELSE rest[i - (n + L)]
    BY <1>5, <1>6, <1>7
  <2>2. CASE i <= n + L
    <3>1. i \in 1 .. n + L /\ (i <= n => i \in 1 .. n)
      BY <1>1, <2>2
    <3>2. QED
      BY <1>2, <1>4, <2>1, <2>2, <3>1
  <2>3. CASE ~(i <= n + L)
    <3>1. i - (n + L) \in 1 .. M - n /\ n + (i - (n + L)) = i - L /\ ~(i <= n)
      BY <1>1, <2>3
    <3>2. QED
      BY <1>3, <2>1, <2>3, <3>1
  <2>4. QED
    BY <2>2, <2>3
<1>9. IsInserted(players, others, again, n) /\ players \in Seq(S)
  BY <1>5, <1>6, <1>7, <1>8 DEF IsInserted, M, L
<1>10. QED
  BY <1>9 DEF players

\* f lists the elements of S, once each.
Lists(f, S, n) ==
  /\ \A i \in 1 .. n : f[i] \in S
  /\ \A i, k \in 1 .. n : f[i] = f[k] => i = k
  /\ \A s \in S : \E i \in 1 .. n : f[i] = s

\* So is a list of R without p, with p once or twice in some place of it.
LEMMA ListedOnce ==
  ASSUME NEW R, NEW p, NEW others, Lists(others, R \ {p}, Len(others)), Len(others) \in Nat,
         NEW n \in 0 .. Len(others), NEW again, again = IF p \in R THEN <<p, p>> ELSE <<p>>,
         NEW players, IsInserted(players, others, again, n)
  PROVE  ListedWith(players, R, p)
<1> DEFINE M == Len(others)
           L == Len(again)
           j == n + 1
<1>1. /\ M \in Nat /\ n \in 0 .. M /\ L \in {1, 2} /\ (L = 2 <=> p \in R)
      /\ Lists(others, R \ {p}, M) /\ \A i \in 1 .. L : again[i] = p
  OBVIOUS
<1>2. /\ Len(players) = M + L
      /\ \A i \in 1 .. M + L :
            players[i] = IF i <= n THEN others[i]
                         ELSE IF i <= n + L THEN again[i - n] ELSE others[i - L]
  BY DEF IsInserted
<1> HIDE DEF M, L
<1>3. ASSUME NEW i \in 1 .. M + L
      PROVE  players[i] = IF i <= n THEN others[i] ELSE IF i <= n + L THEN p ELSE others[i - L]
  <2>1. ~(i <= n) /\ i <= n + L => i - n \in 1 .. L
    BY <1>1
  <2>2. QED
    BY <1>1, <1>2, <2>1
<1>4. /\ \A i \in 1 .. M : others[i] \in R \ {p}
      /\ \A i, k \in 1 .. M : others[i] = others[k] => i = k
      /\ \A s \in R \ {p} : \E i \in 1 .. M : others[i] = s
  BY <1>1 DEF Lists
<1>5. n \in Nat /\ n <= M /\ M \in Nat /\ L \in Nat /\ L >= 1 /\ L <= 2
  BY <1>1
<1>6. j \in 1 .. M + L /\ players[j] = p
  <2>1. j \in 1 .. M + L /\ ~(j <= n) /\ j <= n + L
    BY <1>5
  <2>2. QED
    BY <1>3, <2>1
<1>7. ASSUME NEW i \in 1 .. M + L, i # j
      PROVE  \/ i <= n /\ i \in 1 .. M /\ players[i] = others[i]
             \/ L = 2 /\ i = n + 2 /\ players[i] = p
             \/ i > n + L /\ i - L \in 1 .. M /\ players[i] = others[i - L]
  <2>1. CASE i <= n
    BY <1>3, <1>5, <2>1
  <2>2. CASE ~(i <= n) /\ i <= n + L
    <3>1. players[i] = p
      BY <1>3, <2>2
    <3>2. L = 2 /\ i = n + 2
      BY <1>1, <1>5, <1>7, <2>2
    <3>3. QED
      BY <3>1, <3>2
  <2>3. CASE ~(i <= n) /\ ~(i <= n + L)
    <3>1. players[i] = others[i - L]
      BY <1>3, <2>3
    <3>2. i > n + L /\ i - L \in 1 .. M
      BY <1>5, <2>3
    <3>3. QED
      BY <3>1, <3>2
  <2>4. QED
    BY <2>1, <2>2, <2>3
<1>8. \A i \in 1 .. M + L : i # j => players[i] \in R
  <2> TAKE i \in 1 .. M + L
  <2> HAVE i # j
  <2>1. CASE i <= n /\ i \in 1 .. M /\ players[i] = others[i]
    BY <1>4, <2>1
  <2>2. CASE L = 2 /\ players[i] = p
    BY <1>1, <2>2
  <2>3. CASE i - L \in 1 .. M /\ players[i] = others[i - L]
    <3> DEFINE a == i - L
    <3>1. a \in 1 .. M /\ players[i] = others[a]
      BY <2>3
    <3> HIDE DEF a
    <3>2. QED
      BY <1>4, <3>1
  <2>4. QED
    BY <1>7, <2>1, <2>2, <2>3
<1>9. ASSUME NEW i \in 1 .. M + L, NEW k \in 1 .. M + L, i # j, k # j, players[i] = players[k]
      PROVE  i = k
  <2>0. \A a, b \in 1 .. M : others[a] = others[b] => a = b
    BY <1>4
  <2>1. \/ i <= n /\ i \in 1 .. M /\ players[i] = others[i]
        \/ L = 2 /\ i = n + 2 /\ players[i] = p
        \/ i > n + L /\ i - L \in 1 .. M /\ players[i] = others[i - L]
    BY <1>7, <1>9
  <2>2. \/ k <= n /\ k \in 1 .. M /\ players[k] = others[k]
        \/ L = 2 /\ k = n + 2 /\ players[k] = p
        \/ k > n + L /\ k - L \in 1 .. M /\ players[k] = others[k - L]
    BY <1>7, <1>9
  <2>3. CASE players[i] = p
    BY <1>4, <1>9, <2>1, <2>2, <2>3
  <2>4. CASE i <= n /\ i \in 1 .. M /\ players[i] = others[i] /\ players[i] # p
    <3>1. CASE k <= n /\ k \in 1 .. M /\ players[k] = others[k]
      BY <1>9, <2>0, <2>4, <3>1
    <3>2. CASE k > n + L /\ k - L \in 1 .. M /\ players[k] = others[k - L]
      <4> DEFINE b == k - L
      <4>0. b \in 1 .. M /\ others[i] = others[b]
        BY <1>9, <2>4, <3>2
      <4> HIDE DEF b
      <4>1. i = b
        BY Zenon, <2>0, <2>4, <4>0
      <4>2. QED
        BY <1>5, <2>4, <3>2, <4>1 DEF b
    <3>3. QED
      BY <1>9, <2>2, <2>4, <3>1, <3>2
  <2>5. CASE i > n + L /\ i - L \in 1 .. M /\ players[i] = others[i - L] /\ players[i] # p
    <3>1. CASE k <= n /\ k \in 1 .. M /\ players[k] = others[k]
      <4> DEFINE a == i - L
      <4>0. a \in 1 .. M /\ others[a] = others[k]
        BY <1>9, <2>5, <3>1
      <4> HIDE DEF a
      <4>1. k = a
        BY Zenon, <2>0, <3>1, <4>0
      <4>2. QED
        BY <1>5, <2>5, <3>1, <4>1 DEF a
    <3>2. CASE k > n + L /\ k - L \in 1 .. M /\ players[k] = others[k - L]
      <4> DEFINE a == i - L
                 b == k - L
      <4>0. a \in 1 .. M /\ b \in 1 .. M /\ others[a] = others[b]
        BY <1>9, <2>5, <3>2
      <4> HIDE DEF a, b
      <4>1. a = b
        BY Zenon, <2>0, <4>0
      <4>2. QED
        BY <1>5, <4>1 DEF a, b
    <3>3. QED
      BY <1>9, <2>2, <2>5, <3>1, <3>2
  <2>6. QED
    BY <2>1, <2>3, <2>4, <2>5
<1>10. ASSUME NEW r \in R PROVE \E i \in 1 .. M + L : i # j /\ players[i] = r
  <2>1. CASE r = p
    <3>1. L = 2 /\ n + 2 \in 1 .. M + L /\ n + 2 # j /\ ~(n + 2 <= n) /\ n + 2 <= n + L
      BY <1>1, <1>5, <2>1
    <3>2. players[n + 2] = p
      BY <1>3, <3>1
    <3>3. QED
      BY <2>1, <3>1, <3>2
  <2>2. CASE r # p
    <3>1. PICK a \in 1 .. M : others[a] = r
      BY <1>4, <2>2
    <3>2. CASE a <= n
      <4>1. a \in 1 .. M + L /\ a # j
        BY <1>5, <3>2
      <4>2. players[a] = r
        BY <1>3, <3>1, <3>2, <4>1
      <4>3. QED
        BY <4>1, <4>2
    <3>3. CASE ~(a <= n)
      <4>1. /\ a + L \in 1 .. M + L /\ a + L # j /\ ~(a + L <= n) /\ ~(a + L <= n + L)
            /\ (a + L) - L = a
        BY <1>5, <3>3
      <4>2. players[a + L] = r
        BY <1>3, <3>1, <4>1
      <4>3. QED
        BY <4>1, <4>2
    <3>4. QED
      BY <3>2, <3>3
  <2>3. QED
    BY <2>1, <2>2
<1> HIDE DEF j
<1> DEFINE K == Len(players)
<1>11. K = M + L
  BY <1>2
<1> HIDE DEF K
<1>12. /\ j \in 1 .. K /\ players[j] = p
       /\ \A i \in 1 .. K : i # j => players[i] \in R
       /\ \A i, k \in 1 .. K : i # j /\ k # j /\ players[i] = players[k] => i = k
       /\ \A r \in R : \E i \in 1 .. K : i # j /\ players[i] = r
  BY <1>6, <1>8, <1>9, <1>10, <1>11
<1>13. QED
  BY Zenon, <1>12 DEF ListedWith, K

\* Every roster the matching is asked about is the team's own and p once more.
LEMMA RosterListed ==
  ASSUME NEW t \in Teams, NEW p \in Players, room.roster[t] \subseteq Players,
         IsFiniteSet(room.roster[t]), NEW players \in Rosters(t, p)
  PROVE  players \in Seq(Players) /\ ListedWith(players, room.roster[t], p)
<1>1. PICK others \in SetToSeqs(room.roster[t] \ {p}) :
        players \in Inserts(others, Again(t, p))
  <2> DEFINE L == SetToSeqs(room.roster[t] \ {p})
  <2>1. players \in UNION {Inserts(others, Again(t, p)) : others \in L}
    BY DEF Rosters
  <2> HIDE DEF L
  <2>2. PICK inserts \in {Inserts(others, Again(t, p)) : others \in L} : players \in inserts
    BY <2>1
  <2>3. \E others \in L : inserts = Inserts(others, Again(t, p))
    BY <2>2
  <2>4. QED
    BY <2>2, <2>3 DEF L
<1>2. PICK n \in 0 .. Len(others) :
        players = SubSeq(others, 1, n) \o Again(t, p) \o SubSeq(others, n + 1, Len(others))
  BY <1>1 DEF Inserts
<1> DEFINE R == room.roster[t]
           again == Again(t, p)
<1>3. IsFiniteSet(R \ {p})
  BY FS_Subset, R \ {p} \in SUBSET R
<1>4. /\ others \in Seq(R \ {p}) /\ Len(others) = Cardinality(R \ {p}) /\ Len(others) \in Nat
      /\ \A i, k \in 1 .. Len(others) : others[i] = others[k] => i = k
      /\ \A s \in R \ {p} : \E i \in 1 .. Len(others) : others[i] = s
  <2> DEFINE rest == R \ {p}
  <2>1. others \in SetToSeqs(rest) /\ IsFiniteSet(rest)
    BY <1>3
  <2> HIDE DEF rest
  <2>2. /\ others \in Seq(rest) /\ Len(others) = Cardinality(rest) /\ Len(others) \in Nat
        /\ \A i, k \in 1 .. Len(others) : others[i] = others[k] => i = k
        /\ \A s \in rest : \E i \in 1 .. Len(others) : others[i] = s
    BY <2>1, SetToSeqsLists
  <2>3. QED
    BY <2>2 DEF rest
<1>5. others \in Seq(Players) /\ \A i \in 1 .. Len(others) : others[i] \in R \ {p}
  <2>1. others \in Seq(Players)
    <3> DEFINE rest == R \ {p}
    <3>1. rest \subseteq Players /\ others \in Seq(rest)
      BY <1>4
    <3> HIDE DEF rest
    <3>2. QED
      BY <3>1, SeqMonotonic
  <2>2. ASSUME NEW i \in 1 .. Len(others) PROVE others[i] \in R \ {p}
    <3> DEFINE rest == R \ {p}
    <3>1. others \in Seq(rest)
      BY <1>4
    <3> HIDE DEF rest
    <3>2. QED
      BY <3>1 DEF rest
  <2>3. QED
    BY <2>1, <2>2
<1>6. again \in Seq(Players) /\ again = IF p \in R THEN <<p, p>> ELSE <<p>>
  BY DEF Again
<1>7. players = SubSeq(others, 1, n) \o again \o SubSeq(others, n + 1, Len(others))
  BY <1>2
<1> HIDE DEF again, R
<1>8. IsInserted(players, others, again, n) /\ players \in Seq(Players)
  BY <1>5, <1>6, <1>7, Inserted
<1>9. Lists(others, R \ {p}, Len(others))
  BY <1>4, <1>5 DEF Lists
<1>10. ListedWith(players, R, p)
  BY <1>4, <1>5, <1>6, <1>8, <1>9, ListedOnce
<1>11. QED
  BY <1>8, <1>10 DEF R

\* A place for everybody on the list is a roster with room for p.
LEMMA FitsCanRoster ==
  ASSUME NEW t \in Teams, NEW p \in Players, NEW players \in Seq(Players),
         ListedWith(players, room.roster[t], p)
  PROVE  Fits(RosterSlots[t], players, Len(players)) <=> CanRoster(room, t, p)
<1> DEFINE R == room.roster[t]
           S == RosterSlots[t]
           K == Len(players)
<1>1. PICK j \in 1 .. K :
        /\ players[j] = p
        /\ \A i \in 1 .. K : i # j => players[i] \in R
        /\ \A i, k \in 1 .. K : i # j /\ k # j /\ players[i] = players[k] => i = k
        /\ \A r \in R : \E i \in 1 .. K : i # j /\ players[i] = r
  BY DEF ListedWith
<1>2. ASSUME Fits(S, players, K) PROVE CanRoster(room, t, p)
  <2>1. PICK f \in [1 .. K -> S] :
          /\ \A i, k \in 1 .. K : f[i] = f[k] => i = k
          /\ \A i \in 1 .. K : f[i] \in Eligible[players[i]]
    BY <1>2 DEF Fits
  <2> DEFINE at == [r \in R |-> CHOOSE i \in 1 .. K : i # j /\ players[i] = r]
             slotOf == [r \in R |-> f[at[r]]]
  <2>2. \A r \in R : at[r] \in 1 .. K /\ at[r] # j /\ players[at[r]] = r
    BY <1>1
  <2> HIDE DEF at
  <2>3. slotOf \in [R -> S] /\ \A r \in R : slotOf[r] = f[at[r]]
    BY <2>2
  <2> HIDE DEF slotOf
  <2>4. IsAssignment(slotOf, R)
    <3>1. ASSUME NEW q \in R, NEW r \in R, slotOf[q] = slotOf[r] PROVE q = r
      <4>1. f[at[q]] = f[at[r]]
        BY <2>3, <3>1
      <4>2. at[q] = at[r]
        BY Zenon, <2>1, <2>2, <4>1
      <4>3. QED
        BY <2>2, <4>2
    <3>2. \A q \in R : slotOf[q] \in Eligible[q]
      BY <2>1, <2>2, <2>3
    <3>3. QED
      BY <3>1, <3>2 DEF IsAssignment
  <2>5. f[j] \in S \intersect Eligible[p] /\ \A q \in R : slotOf[q] # f[j]
    BY SMTT(15), <1>1, <2>1, <2>2, <2>3
  <2>6. QED
    BY <2>3, <2>4, <2>5 DEF CanRoster
<1>3. ASSUME CanRoster(room, t, p) PROVE Fits(S, players, K)
  <2>1. PICK slotOf \in [R -> S], s \in S \intersect Eligible[p] :
          IsAssignment(slotOf, R) /\ \A q \in R : slotOf[q] # s
    BY <1>3 DEF CanRoster
  <2> DEFINE f == [i \in 1 .. K |-> IF i = j THEN s ELSE slotOf[players[i]]]
  <2>2. f \in [1 .. K -> S] /\ f[j] = s /\ \A i \in 1 .. K : i # j => f[i] = slotOf[players[i]]
    BY <1>1, <2>1
  <2> HIDE DEF f
  <2>3. \A i \in 1 .. K : f[i] \in Eligible[players[i]]
    BY <1>1, <2>1, <2>2 DEF IsAssignment
  <2>4. ASSUME NEW i \in 1 .. K, NEW k \in 1 .. K, f[i] = f[k] PROVE i = k
    <3>1. CASE i = j \/ k = j
      <4>1. \A a \in 1 .. K : a # j => f[a] # s
        BY SMTT(15), <1>1, <2>1, <2>2
      <4>2. QED
        BY <2>2, <2>4, <3>1, <4>1
    <3>2. CASE i # j /\ k # j
      <4>1. players[i] = players[k]
        BY <1>1, <2>1, <2>2, <2>4, <3>2 DEF IsAssignment
      <4>2. QED
        BY <1>1, <3>2, <4>1
    <3>3. QED
      BY <3>1, <3>2
  <2>5. QED
    BY <2>2, <2>3, <2>4 DEF Fits
<1>4. CanRoster(room, t, p) \in BOOLEAN /\ Fits(S, players, K) \in BOOLEAN
  BY DEF CanRoster, Fits
<1>5. QED
  BY <1>2, <1>3

\* In a sound room the matching decides what CanRoster says.
LEMMA SoundRoomDecides == RoomInv => MatchingDecidesFit
<1> SUFFICES ASSUME RoomInv, NEW t \in Teams, NEW p \in Players,
                    NEW slots \in SetToSeqs(RosterSlots[t]), NEW players \in Rosters(t, p)
             PROVE  Feasible(players, slots) <=> CanRoster(room, t, p)
  BY DEF MatchingDecidesFit
<1>1. IsFiniteSet(RosterSlots[t])
  BY ConfigAssumption DEF ValidConfig
<1>2. /\ slots \in Seq(RosterSlots[t]) /\ Len(slots) = Cardinality(RosterSlots[t])
      /\ Len(slots) \in Nat
      /\ \A s \in RosterSlots[t] : \E i \in 1 .. Len(slots) : slots[i] = s
  BY <1>1, SetToSeqsLists
<1>3. ToSet(slots) = RosterSlots[t]
  BY <1>2 DEF ToSet
<1>4. Listed(slots)
  BY <1>1, <1>2, <1>3 DEF Listed
<1>5. room.roster[t] \subseteq Players /\ IsFiniteSet(room.roster[t])
  BY DEF RoomInv, SoundRoom, Rooms, WithinSlots
<1>6. players \in Seq(Players) /\ ListedWith(players, room.roster[t], p)
  BY <1>5, RosterListed
<1>7. Feasible(players, slots) <=> Fits(RosterSlots[t], players, Len(players))
  BY <1>2, <1>3, <1>4, <1>6, FeasibleFits
<1>8. QED
  BY <1>6, <1>7, FitsCanRoster

\* The matching the code computes, whatever the order of the slots and the players,
\* agrees with the rule that a roster fits: in every state of every room.
THEOREM MatchingIsExact == Spec => []MatchingDecidesFit
BY RoomInvariant, SoundRoomDecides, PTL
=============================================================================
