SPECIFICATION Spec
CONSTANTS
  Mode = "SNAKE"
  t1 = t1
  t2 = t2
  p1 = p1
  p2 = p2
  p3 = p3
  g1 = g1
  g2 = g2
  Teams = {t1, t2}
  Players = {p1, p2, p3}
  NoPlayer = NoPlayer
  NoTeam = NoTeam
  RosterSlots <- MCRosterSlots
  Eligible <- MCEligible
  PickOrder <- MCPickOrder
  Budget <- MCBudget
  MinimumBid = 0
  Pages = {g1, g2}
  Uploads = {u1, u2}
  Polls = {}
  Screens <- MCScreens
  Results <- MCResults
  ManualActions <- MCManualActions
  NoPage = NoPage
  NoBoard = NoBoard
  MaxLog = 3
  MaxManual = 1
  MaxFreezes = 2
  MaxTakeovers = 2
  MaxPolls = 0
SYMMETRY MCSymmetry
INVARIANTS TypeOK BrowserRewritesReEarned
PROPERTIES CursorOnlyAdvances
CHECK_DEADLOCK FALSE
