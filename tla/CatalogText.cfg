SPECIFICATION Spec
CONSTANTS
    r = r
    c = c
    s = s
    n = n
    o = o
    link = link
    p = p
    red = red
    blue = blue
    short = short
    long = long
    k = k
    none = none
    Ids <- MCIds
    Labels = {red, blue}
    Contents = {short, long}
    Keys = {k}
    NoKey = none
    Length <- MCLength
    Decoded <- MCCoerced
    Submitted <- MCSubmitted
    MaxSeq = 4
    MaxOpens = 2

INVARIANT Reopens
