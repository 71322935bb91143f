SPECIFICATION Spec
CONSTANTS
  a1 = a1
  a2 = a2
  b1 = b1
  openai = openai
  anthropic = anthropic
  lower = lower
  upper = upper
  other = other
  Users = {u1}
  Limits = {0, 2}
  DefaultLimit = 1
  NoUser = NoUser
  NoWindow = NoWindow
  Table <- MCTable
  TypeOf <- MCTypeOf
  Labels = {lower, upper, other}
  LabelType <- MCLabelType
  Wishes <- MCWishes
  RefereeModels = {openai, anthropic}
  Settings <- MCSettings
  Requests = {r1, r2}
  Bodies <- MCBodies
  MaxEdits = 1
  MaxTokens = 2
  NoVerdict = NoVerdict
INVARIANTS
  WindowHonoursLimits
  ConsensusIsMet
PROPERTIES
  EveryRequestEnds
CHECK_DEADLOCK FALSE
