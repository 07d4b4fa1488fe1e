SPECIFICATION Spec
CONSTANTS
  Mode = "SNAKE"
  t1 = t1
  t2 = t2
  p1 = p1
  p2 = p2
  p3 = p3
  Teams = {t1, t2}
  Players = {p1, p2, p3}
  NoPlayer = NoPlayer
  NoTeam = NoTeam
  RosterSlots <- MCRosterSlots
  Eligible <- MCEligible
  PickOrder <- MCPickOrder
  Budget <- MCBudget
  MinimumBid = 0
  Pages = {g1}
  Uploads = {u1}
  Polls = {q1, q2}
  Screens <- MCScreens
  Results <- MCResults
  ManualActions <- MCManualActions
  NoPage = NoPage
  NoBoard = NoBoard
  MaxLog = 4
  MaxManual = 1
  MaxFreezes = 1
  MaxTakeovers = 1
  MaxPolls = 4
SYMMETRY MCSymmetry
INVARIANTS HistoryIsSound KeysAreFresh RewritesSeenTwice
PROPERTIES ImplementsLedger FrozenMeansManual
CHECK_DEADLOCK FALSE
