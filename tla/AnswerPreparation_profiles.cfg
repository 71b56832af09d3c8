SPECIFICATION Spec
CONSTANTS
    Requests = {r1, r2}
    Pages = {p1}
    Editions = {e1, e2}
    Profiles = {f1, f2}
    Fields = {q1, q2}
    Drafts = {}
    Timely = TRUE
    NoOne = noOne
SYMMETRY Interchangeable
INVARIANT SharedVerified
PROPERTY SharedGrows
CONSTRAINT TwoAsked
CHECK_DEADLOCK FALSE
