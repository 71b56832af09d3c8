SPECIFICATION Spec
CONSTANTS
    Threads = {w1, w2}
    w1 = w1
    w2 = w2
    Fields = {f1}
    f1 = f1
    Required = {f1}
    Texts = {x}
    x = x
    NoRow = NoRow
PROPERTY TerminalFinal
CHECK_DEADLOCK FALSE
