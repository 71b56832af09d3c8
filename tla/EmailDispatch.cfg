SPECIFICATION FairSpec
CONSTANTS
    Requests = {r1, r2, r3, r4}
    r1 = r1
    r2 = r2
    r3 = r3
    r4 = r4
    Texts = {t1, t2}
    t1 = t1
    t2 = t2
    Pdfs = {p1}
    p1 = p1
    Channels = {c1}
    c1 = c1
    Contacts = {k1, k2}
    k1 = k1
    k2 = k2
    Nothing = Nothing
    MayCrash = {r1, r2, r3, r4}
INVARIANT TypeOK
INVARIANT DeliveredAsShown
PROPERTY ClaimedUnderCurrentPolicy
PROPERTY FrozenOnceClaimed
PROPERTY DispatchSpec
PROPERTY DispatchConcludes
