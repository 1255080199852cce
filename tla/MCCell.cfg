\* A coupler with three getters, so that one is woken, one barges in and one
\* stays behind.
CONSTANTS
    Getters = {g1, g2, g3}
    Extras = {second}
    Val = {v1, v2, v3}
    NoVal = NoVal
SPECIFICATION FairSpec
INVARIANTS
    TypeOK
    NoLostValue
PROPERTIES
    ExtrasStayCoupled
    ValueIsTaken
