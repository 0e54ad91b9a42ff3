CONSTANTS
    Short = short
    Long = long
    Slave = {z1, z2, z3}
    StackPages = 3
    ShortPages = 2
    LongPages = 3
    SlavePages = 7
    h1 = h1
    h2 = h2
    h3 = h3
    k1 = k1
    k2 = k2
    Entry = {h1, h2, h3}
    KeyOf <- MCKeyOf
    HashOf <- MCHashOf
    Cap = 2
    PolicyOf <- MCPolicyOf
    None = none
SPECIFICATION HintsSpec
SYMMETRY Symmetry
INVARIANTS StacksAccounted SlavesListed
PROPERTY ImplementsDirectory
CHECK_DEADLOCK FALSE
