CONSTANTS
    w1 = w1
    w2 = w2
    r1 = r1
    r2 = r2
    Words <- MCWords
    Readers <- MCReaders
    Values <- MCValues
    Quotes <- MCQuotes
    DefaultQuote <- MCDefaultQuote
    VersionModulus = 4
    MaxWrites = 3
SPECIFICATION Spec
INVARIANT SnapshotIsOneWrite
PROPERTY RegisterSpec
