---------------------------- MODULE MCEspnBrowser ----------------------------
(***************************************************************************)
(* Two pages and two uploads at once, no polls: takeovers, late and        *)
(* repeated posts, rewrites, manual entries and switches of manual backup. *)
(***************************************************************************)
EXTENDS EspnLiveRoom

CONSTANTS t1, t2, p1, p2, p3, g1, g2

MCRosterSlots == [t \in Teams |-> {"FLEX"}]
MCEligible == [p \in Players |-> {"FLEX"}]
MCPickOrder == <<t1, t2>>
MCBudget == [t \in Teams |-> 0]

Pick1(p) == [type |-> "SNAKE_PLAYER_SELECTED", team |-> t1, player |-> p, number |-> 1]
Keeper2(p) == [type |-> "SNAKE_KEEPER_ASSIGNED", team |-> t2, player |-> p, number |-> 2]

Board(state, picks) == [state |-> state, picks |-> picks]

\* A page shows a pick, then, mid-render or after a rollback, another history.
BoardA == Board("live", <<Pick1(p1)>>)
BoardB == Board("live", <<Pick1(p2)>>)

MCScreens == {<<BoardA, BoardB>>}
MCResults == {}
\* A keeper of a third player is legal beside either history.
MCManualActions == {Keeper2(p3)}

MCSymmetry == Permutations(Uploads) \union Permutations(Pages)
=============================================================================
