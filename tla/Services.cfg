SPECIFICATION Spec
CONSTANTS
    h1 = h1
    h2 = h2
    c1 = c1
    c2 = c2
    s1 = s1
    s2 = s2
    MaxEvents = 2
    FirstSize = 1
    MaxChanges = 1
    MaxTime = 2
    Handlers <- MCHandlers
    MaxRequests = 3
    Clients <- MCClients
    Pieces = {"*", "a", "c"}
    Digests <- MCDigests
    PerMinute = 1
    WindowMs = 2
    OpenTtl = 1
    ClosedTtl = 2
    MaxEntries = 1
    Ids <- MCIds
    MaxSessions = 1
    Ttl = 0
    Instances = {"old", "new"}
    Known <- MCKnown
    Statements = 2
    MaxStarts = 4
INVARIANTS
EachItsOwnDigest
DigestsFresh
SessionsBounded
CompletedByReport
SchemaInStep
PROPERTIES
RateKept
SYMMETRY MCSymmetry
CHECK_DEADLOCK FALSE
