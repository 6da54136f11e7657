SPECIFICATION Spec
CONSTANT AnswerItems = 3
INVARIANTS ConversationsSent CommentsOnEvidence ChangesReviewed FilesReviewed RulesHeld SessionsReadAlike
CHECK_DEADLOCK FALSE
