SPECIFICATION Spec
CONSTANTS
  Mode = "SNAKE"
  t1 = t1
  t2 = t2
  p1 = p1
  p2 = p2
  Teams = {t1, t2}
  Players = {p1, p2}
  NoPlayer = NoPlayer
  NoTeam = NoTeam
  RosterSlots <- MCRosterSlots
  Eligible <- MCEligible
  PickOrder <- MCPickOrder
  Budget <- MCBudget
  MinimumBid = 0
  Keys = {k1, k2, k3}
  Handlers = {h1, h2}
  Actions <- MCActions
  NoRequest = NoRequest
  MaxLog = 3
SYMMETRY MCSymmetry
INVARIANTS TypeOK StateMatchesLog WholeAndOnce AnswersAreTrue UndoIsSound
PROPERTIES ImplementsLedger
CHECK_DEADLOCK FALSE
