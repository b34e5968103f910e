SPECIFICATION ServerSpec
CONSTANTS
    Users = {u1}
    Jobs = {j1, j2}
    Requests = {r1}
    MaxUpdates = 2
    Visitors = {v1, v2}
    MaxVersions = 3
    Senders = {s1, s2}
    HourLimit = 2
    Askers = {a1, a2}
    Guessers = {g1, g2}
    Providers = 2
    MaxTries = 2
    MaxFails = 2
    MaxCrashes = 2
INVARIANTS
    TypeOK
    BannedRefused
    MailsBounded
    TransmitAlone
    GuessesBounded
    LateGuesses
PROPERTIES
    DavServed
    EventuallyFresh
    NothingElseMissing
    StartsAgain
