CONSTANTS
    Count = 10
    Few = 6
    Node <- MCNode
    KeyOf <- MCKeyOf
    Nil = nil
    NoNode = none
SPECIFICATION MCSpec
INVARIANTS SearchTree RedBlack LookupsAgree
PROPERTY RoundsClimb
