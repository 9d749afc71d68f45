SPECIFICATION MCSpec
CONSTANTS
    Sources = {s1, s2}
    Holders = {h1, h2, h3}
    Operations = {o1, o2}
    BlockIds = {b1}
    NoOperation = NoOperation
    NoLease = NoLease
    MaxGeneration = 2
PROPERTIES
    GenerationWitnessesMutation
    GateImplementsUse
