CONSTANT Conversations <- MCConversations
SPECIFICATION Spec
INVARIANTS  ClaudeAlternates AnswersKeepTheirCalls
CHECK_DEADLOCK FALSE
