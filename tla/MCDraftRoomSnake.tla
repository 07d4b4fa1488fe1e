--------------------------- MODULE MCDraftRoomSnake ---------------------------
(***************************************************************************)
(* A snake draft of two teams with a slot for a running back, one for a    *)
(* receiver and one for anybody.  One player fits the first two, one the   *)
(* last two, one only the last: who comes may need a chain of others to    *)
(* move aside, and of some three none can.  Keepers may use any pick out   *)
(* of turn.                                                                *)
(***************************************************************************)
EXTENDS RosterMatching

CONSTANTS t1, t2, rb1, rb2, wr1, rw1, qb1

MCRosterSlots == [t \in Teams |-> {"RB", "WR", "FLEX"}]
MCEligible ==
  [p \in Players |-> CASE p = qb1 -> {"FLEX"}
                       [] p = wr1 -> {"WR", "FLEX"}
                       [] p = rw1 -> {"RB", "WR"}
                       [] OTHER   -> {"RB", "FLEX"}]
MCPickOrder == <<t1, t2, t2, t1, t1>>
MCBudget == [t \in Teams |-> 0]
=============================================================================
