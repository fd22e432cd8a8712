\* Two streams of different topics; a channel of two messages and twice as many sent.
SPECIFICATION FairSpec
CONSTANTS
    Subscribers <- MCSubscribers
    Topics   = {"new_block", "swaps"}
    TopicOf  <- MCTopicOf
    Capacity = 2
    MaxMessages = 4
INVARIANTS
    TypeOK
    NoSilentGap
    NothingBypasses
PROPERTIES
    Delivered
CHECK_DEADLOCK FALSE
