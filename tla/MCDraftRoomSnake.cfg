SPECIFICATION Spec
CONSTANTS
  Mode = "SNAKE"
  t1 = t1
  t2 = t2
  rb1 = rb1
  rb2 = rb2
  wr1 = wr1
  rw1 = rw1
  qb1 = qb1
  Teams = {t1, t2}
  Players = {rb1, rb2, wr1, rw1, qb1}
  NoPlayer = NoPlayer
  NoTeam = NoTeam
  RosterSlots <- MCRosterSlots
  Eligible <- MCEligible
  PickOrder <- MCPickOrder
  Budget <- MCBudget
  MinimumBid = 0
  Amounts = {0, 1, 2, 3, 4, 5, 6}
\* A finished draft has no next action.
INVARIANTS EveryRosterFits PicksMatchRosters MatchingDecidesFit
CHECK_DEADLOCK FALSE
