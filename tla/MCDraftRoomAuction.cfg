SPECIFICATION Spec
CONSTANTS
  Mode = "AUCTION"
  t1 = t1
  t2 = t2
  rb1 = rb1
  rb2 = rb2
  qb1 = qb1
  qb2 = qb2
  Teams = {t1, t2}
  Players = {rb1, rb2, qb1, qb2}
  NoPlayer = NoPlayer
  NoTeam = NoTeam
  RosterSlots <- MCRosterSlots
  Eligible <- MCEligible
  PickOrder <- MCPickOrder
  Budget <- MCBudget
  MinimumBid = 1
  Amounts = {0, 1, 2, 3, 4}
\* A finished auction, or a player on the block nobody can roster, has no next
\* action: the way out is an undo, which belongs to the ledger.
INVARIANTS TypeOK BudgetReserve
PROPERTIES OnlyKeepersBreakTheHighBid
CHECK_DEADLOCK FALSE
