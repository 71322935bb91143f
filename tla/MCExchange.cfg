SPECIFICATION Spec
CONSTANTS
  ProviderTypes = {"anthropic", "google", "ollama", "custom"}
  Conversations <- MCConversations
  Streamed <- MCStreamed
  Answers <- MCAnswers
  Refusals = {400, 429}
  Capacity = 2
  MaxLines = 3
INVARIANTS
  TranslationKeeps
  StreamIsWhole
PROPERTIES
  StreamEnds
CHECK_DEADLOCK FALSE
