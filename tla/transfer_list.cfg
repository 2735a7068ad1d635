\* One job the user sends, with two progress events.
SPECIFICATION ListSpec
CONSTANTS
  Transfers = {j1}
  MaxProgress = 2
  MaxCalls = 2
INVARIANTS
  ListTypeOK
  OutcomeIsShown
CHECK_DEADLOCK FALSE
