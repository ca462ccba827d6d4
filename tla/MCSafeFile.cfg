SPECIFICATION Spec
CONSTANTS
    w1 = w1
    w2 = w2
    w3 = w3
    s1 = s1
    s2 = s2
    t1 = t1
    t2 = t2
    e = e
    d1 = d1
    Writer = {w1, w2, w3}
    Stage = {s1, s2}
    StageOf <- MCStageOf
    Target = {t1, t2}
    Data = {e, d1}
    Empty = e
    NoFile = NoFile
    Torn = Torn
    None = None
INVARIANTS FilesSafe
PROPERTIES Refinement
