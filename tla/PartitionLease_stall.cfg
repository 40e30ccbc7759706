CONSTANTS
    LeaseDuration = 3
    RenewAt = 2
    Faults = {"stall"}
SPECIFICATION LeaseSpec
INVARIANTS HostedOnlyByOwner
