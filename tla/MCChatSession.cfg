SPECIFICATION FairSpec
CONSTANTS
    window = window
    peer = peer
    network = network
    Nobody = Nobody
    Callers = {window, peer, network}
    Calls <- MCCalls
    MaxCalls = 2
INVARIANT IInv SentAsShown
PROPERTY ImplementsOutbox EveryMessageTaken
