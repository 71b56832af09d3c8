SPECIFICATION Spec
CONSTANTS
    Requests = {r1}
    Pages = {p1}
    Editions = {e1, e2}
    Profiles = {f1}
    Fields = {q1}
    Drafts = {common}
    Timely = TRUE
    NoOne = noOne
PROPERTY CurrentReport
CHECK_DEADLOCK FALSE
