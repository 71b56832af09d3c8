SPECIFICATION Spec
CONSTANTS
    Requests = {r1, r2, r3}
    r1 = r1
    r2 = r2
    r3 = r3
    Texts = {t1}
    t1 = t1
    Pdfs = {p1}
    p1 = p1
    Channels = {c1}
    c1 = c1
    Contacts = {k1, k2}
    k1 = k1
    k2 = k2
    Nothing = Nothing
    MayCrash = {}
SYMMETRY Symmetry
PROPERTY ContactChangeInvalidatesReview
