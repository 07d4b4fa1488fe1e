-------------------------- MODULE MCYahooDraftRoom --------------------------
(***************************************************************************)
(* Two polls of a snake draft of two picks, while commissioners write too. *)
(***************************************************************************)
EXTENDS YahooDraftRoom

CONSTANTS t1, t2, p1, p2, p3

MCRosterSlots == [t \in Teams |-> {"FLEX"}]
MCEligible == [p \in Players |-> {"FLEX"}]
MCPickOrder == <<t1, t2>>
MCBudget == [t \in Teams |-> 0]

First(p) == [team |-> t1, player |-> p, number |-> 1]
Second(p) == [team |-> t2, player |-> p, number |-> 2]
Board(status, picks) == [status |-> status, usable |-> TRUE, picks |-> picks]

\* A draft that fills the room; one that is rolled back, shows a status the code
\* does not know and ends with a player nobody can identify.
MCDrafts ==
  {<<Board("drafting", <<First(p1)>>),
     Board("postdraft", <<First(p1), Second(p2)>>)>>,
   <<Board("drafting", <<First(p2)>>),
     Board("unknown", <<>>),
     Board("postdraft", <<First(p1), Second(p3)>>)>>}

\* A pick the second of these drafts shows for a while, and the first one never.
MCManualActions ==
  {[type |-> "SNAKE_PLAYER_SELECTED", team |-> t1, player |-> p2, number |-> 1]}
=============================================================================
