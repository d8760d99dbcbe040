SPECIFICATION Spec
CONSTANTS
    Session = {uow, raw}
    Uow = {uow}
    Row = {r1, r2}
    Link = {l1, l2}
    NoLink = NoLink
    Absent = Absent
    Untouched = Untouched
    Dialect = "postgresql"
    InMemory = FALSE
    MaxDepth = 1
PROPERTY
    CommitIsDurable
