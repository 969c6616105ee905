\* Every path of every handler: two concurrent requests of an authorized
\* and an unauthorized user over all request kinds, valid and invalid, with
\* every failure of every call.  The 3-byte cache holds one 2-byte entry,
\* so a Set of another fingerprint evicts.
CONSTANTS
    Users = {"alice", "mallory"}
    Authorized = {"alice"}
    Reqs = {1, 2}
    Keys = {"slice", "fence", "attr", "meta", "sched", "badwin", "baddir",
            "badbody"}
    KindOf <- MCKind
    Invalid <- MCInvalid
    Size <- MCSize
    Cap = 3
    ConnOutcomes = {"ok", "bad_request"}
    CallOutcomes = {"ok", "runtime", "bad_request"}
    NoEntry = NoEntry
SPECIFICATION Spec
INVARIANTS
    TypeOK
    OnlyAuthorizedRead
    NoPartialResponses
    InvalidRequestsRejected
    NoHandleLeak
PROPERTIES
    EveryRequestAnswered
CHECK_DEADLOCK FALSE
