SPECIFICATION Spec
CONSTANTS
    Threads = {w1, w2, w3}
    w1 = w1
    w2 = w2
    w3 = w3
    Fields = {f1, f2}
    f1 = f1
    f2 = f2
    Required = {f1}
    Texts = {x}
    x = x
    NoRow = NoRow
INVARIANT TypeOK
INVARIANT Stamped
INVARIANT AnswersComplete
PROPERTY RecordKept
CHECK_DEADLOCK FALSE
