SPECIFICATION FairSpec
CONSTANTS
    Requests = {r1, r2}
    Pages = {p1}
    Editions = {e1}
    Profiles = {f1}
    Fields = {q1, q2}
    Drafts = {common}
    Timely = TRUE
    NoOne = noOne
INVARIANTS TypeOK OneCall AskedOnce
PROPERTIES LedgerImplemented PreparationConcludes
CHECK_DEADLOCK FALSE
