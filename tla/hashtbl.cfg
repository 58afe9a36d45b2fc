SPECIFICATION Spec
CONSTANTS
    Objects <- FourObjects
    Keys <- ThreeKeys
    NULL = "NULL"
    KeyOf <- SomeKeyOf
    Seeds <- TwoSeeds
    XXH32 <- SomeXXH32
    Nodes <- SomeNodes
INVARIANTS
    EachFreedOnce
    SearchFindsOldest
