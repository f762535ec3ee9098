CONSTANTS
    h1 = h1
    h2 = h2
    w1 = w1
    dk = dk
    tr = tr
    Handlers = {h1, h2}
    Readers = {w1}
    Cli = Cli
    Country <- CountryOfPoint
    NoCountry = NoCountry
    MaxSessions = 2
    MaxPoints = 2
    MaxFaults = 2
    MaxCommands = 1
SPECIFICATION Spec
SYMMETRY HandlerSymmetry
INVARIANTS TypeOK PointsKept ReadComplete ActiveHasBuffer CountriesListed LiveSessionsKeep
PROPERTIES OrphanOrigins FaultsLoseOnlyClosing ImplementsTripStore
CHECK_DEADLOCK FALSE
CONSTRAINTS FewEvents QuietReaders
