SPECIFICATION FairSpec
CONSTANTS
    Netname = "ICECREAM"
    Reply <- MCReply
    PeerVersion = {20, 21, 45}
    Messages <- MCMessages
    Revised <- MCRevised
    MaxSaid = 2
    NoPeer = NoPeer
INVARIANTS
    TypeOK
    VersionsAgree
PROPERTIES
    ImplementsMessageChannel
    EveryAttemptEnds
