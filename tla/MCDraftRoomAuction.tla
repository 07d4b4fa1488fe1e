-------------------------- MODULE MCDraftRoomAuction --------------------------
(***************************************************************************)
(* An auction of two teams, two running backs and two quarterbacks.  Each  *)
(* team has a slot only a running back fills and one anybody fills.  t1    *)
(* has one unit above the reserve of one unit for each slot and t2 has     *)
(* two, so that every bid is close to the limit.                           *)
(***************************************************************************)
EXTENDS DraftRoom

CONSTANTS t1, t2, rb1, rb2, qb1, qb2

MCRosterSlots == [t \in Teams |-> {"RB", "FLEX"}]
MCEligible == [p \in Players |-> IF p \in {qb1, qb2} THEN {"FLEX"} ELSE {"RB", "FLEX"}]
MCPickOrder == <<>>
MCBudget == [t \in Teams |-> IF t = t1 THEN 3 ELSE 4]
=============================================================================
