SPECIFICATION Spec
CONSTANTS
  Mode = "SNAKE"
  t1 = t1
  t2 = t2
  p1 = p1
  p2 = p2
  p3 = p3
  Teams = {t1, t2}
  Players = {p1, p2, p3}
  NoPlayer = NoPlayer
  NoTeam = NoTeam
  RosterSlots <- MCRosterSlots
  Eligible <- MCEligible
  PickOrder <- MCPickOrder
  Budget <- MCBudget
  MinimumBid = 0
  Pages = {}
  Uploads = {}
  Polls = {q1, q2}
  Screens <- MCScreens
  Results <- MCResults
  ManualActions <- MCManualActions
  NoPage = NoPage
  NoBoard = NoBoard
  MaxLog = 5
  MaxManual = 1
  MaxFreezes = 2
  MaxTakeovers = 0
  MaxPolls = 5
SYMMETRY MCSymmetry
INVARIANT RewritesReEarned
CHECK_DEADLOCK FALSE
