SPECIFICATION ServicesFairSpec
CONSTANTS
    PostRequest = {1, 2, 3, 4}
    PostThreads = 2
    PostId = {1, 2}
    NoPost = NoPost
    Ask = {1, 2, 3}
    MaxEra = 1
    Adder = {w1, w2, w3}
    Capacity = 4
    Browser = {p, q}
    MaxSend = 2
    HubBuffer = 2
INVARIANTS
    PostsSafe
    CounterSafe
    WidgetsSafe
    ChatSafe
    OneConversation
PROPERTIES
    BreakerNeedsThree
    TasksEnd
    EveryoneHears
CHECK_DEADLOCK FALSE
