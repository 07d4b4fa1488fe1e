---------------------------- MODULE MCEspnHybrid ----------------------------
(***************************************************************************)
(* One page and two overlapping server polls, with commissioners and a     *)
(* switch of manual backup: the two channels of ESPN reconcile different   *)
(* boards with one ledger, rolled back and forth and finished.             *)
(***************************************************************************)
EXTENDS EspnLiveRoom

CONSTANTS t1, t2, p1, p2, p3

MCRosterSlots == [t \in Teams |-> {"FLEX"}]
MCEligible == [p \in Players |-> {"FLEX"}]
MCPickOrder == <<t1, t2>>
MCBudget == [t \in Teams |-> 0]

Pick1(p) == [type |-> "SNAKE_PLAYER_SELECTED", team |-> t1, player |-> p, number |-> 1]
Keeper2(p) == [type |-> "SNAKE_KEEPER_ASSIGNED", team |-> t2, player |-> p, number |-> 2]

Board(state, picks) == [state |-> state, picks |-> picks]

\* The polls are shown a pick, another one in its place, and the finished draft with a
\* keeper; the page shows the finished draft.
BoardA == Board("live", <<Pick1(p1)>>)
BoardB == Board("live", <<Pick1(p2)>>)
BoardC == Board("complete", <<Pick1(p1), Keeper2(p2)>>)

MCScreens == {<<BoardC>>}
MCResults == {BoardA, BoardB, BoardC}
\* A keeper of a third player is legal beside either of the first two.
MCManualActions == {Keeper2(p3)}

MCSymmetry == Permutations(Polls)
=============================================================================
