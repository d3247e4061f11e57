SPECIFICATION Spec
CONSTANTS
    g1 = g1
    g2 = g2
    Gets <- TwoGets
    Pages <- OnePage
    Markdown <- OnePage
    Versions <- SomeVersions
    Hosts <- SomeHosts
    Segments <- PathSegments
    CURRENT_HOST <- Here
    Links <- SomeLinks
    NoLink = NoLink
    MaxCommits = 1
INVARIANTS
    FoundElsewhereIsServed
CHECK_DEADLOCK FALSE
