SPECIFICATION Spec
CONSTANTS
    Msgs = {"m1", "m2", "m3", "m4"}
    Peers = {"ann", "bob"}
    Peer <- TwoPeers
    Time <- OneTie
    Mine = {"m2"}
    BatchSize = 2
INVARIANT TypeOK
INVARIANT CountExact
INVARIANT EveryMessageListed
INVARIANT LastIsNewest
INVARIANT SessionsHaveMessages
CONSTRAINT Bounded
