SPECIFICATION FairSpec
CONSTANTS
  Mode = "SNAKE"
  t1 = t1
  t2 = t2
  p1 = p1
  p2 = p2
  p3 = p3
  Teams = {t1, t2}
  Players = {p1, p2, p3}
  NoPlayer = NoPlayer
  NoTeam = NoTeam
  RosterSlots <- MCRosterSlots
  Eligible <- MCEligible
  PickOrder <- MCPickOrder
  Budget <- MCBudget
  MinimumBid = 0
  Polls = {q1, q2}
  Drafts <- MCDrafts
  Resolvable = {p1, p2}
  PageSize = 1
  ManualActions <- MCManualActions
  Nobody = Nobody
  NoBoard = NoBoard
  MaxManual = 1
INVARIANTS TypeOK VerifiedMatchesYahoo TakenBackStays
PROPERTIES ImplementsLedger SettlesOnTheFinalBoard
