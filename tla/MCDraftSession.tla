---------------------------- MODULE MCDraftSession -----------------------------
(***************************************************************************)
(* Two handlers and three requests in a snake room of two teams with one   *)
(* pick each: picks, undos, corrections.                                   *)
(***************************************************************************)
EXTENDS DraftSession

CONSTANTS t1, t2, p1, p2

MCRosterSlots == [t \in Teams |-> {"FLEX"}]
MCEligible == [p \in Players |-> {"FLEX"}]
MCPickOrder == <<t1, t2>>
MCBudget == [t \in Teams |-> 0]

MCPick(t, p, n) == [type |-> "SNAKE_PLAYER_SELECTED", team |-> t, player |-> p, number |-> n]
MCActions == {MCPick(t1, p1, 1), MCPick(t1, p2, 1), MCPick(t2, p2, 2)}

MCSymmetry == Permutations(Keys) \union Permutations(Handlers)
=============================================================================
