CONSTANTS
    Conversations <- OneConversation
    Streams <- OneLine
SPECIFICATION Spec
CHECK_DEADLOCK FALSE
INVARIANT ErrorsAreProblems
