CONSTANTS
    c1 = c1
    Requests = {c1}
    Volumes = {1}
SPECIFICATION FairSpec
INVARIANTS TypeOK ShownWindowIsOpen
PROPERTIES WindowCloses MediaFollowsPhone
