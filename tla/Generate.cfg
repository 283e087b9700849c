CONSTANTS
    Conversations <- AllConversations
    Streams <- AllStreams
SPECIFICATION Spec
CHECK_DEADLOCK FALSE
INVARIANTS
    TypeOK ConversationArrives FailuresAreReported GapsDoNotEscape
    CodexAnswerIsWhole
