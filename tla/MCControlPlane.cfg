SPECIFICATION Spec
CONSTANTS
  plain = plain
  broken = broken
  twin = twin
  off = off
  m1 = m1
  m2 = m2
  Rows = {plain, broken, twin, off}
  RuleOf <- MCRuleOf
  Strings = {m1, m2}
  Queries <- MCQueries
  Names = {s1, s2}
  Secrets = {k}
  NoSecret = NoSecret
  CryptKeys = {c1, c2}
  NoCrypt = NoCrypt
  Loaders = {l1, l2}
  NoRow = NoRow
  NoForm = NoForm
  FirstRows = {off}
  MaxEdits = 3
  MaxRestarts = 1
SYMMETRY Symmetry
INVARIANTS
  LoneLoadSettles
  KeysComeBack
  RoutedByPriority
CHECK_DEADLOCK FALSE
