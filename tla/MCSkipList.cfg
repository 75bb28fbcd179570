CONSTANTS
    Nodes = {n1, n2, n3, n4, n5}
    Header = Header
    Nil = Nil
    Keys = {1, 2, 3, 4, 5, 6, 7, 8, 9, 10, 11, 12, 13}
    Epsilon = 2
    MaxHeight = 3
    Reverse = TRUE
SYMMETRY NodeSymmetry
SPECIFICATION Spec
INVARIANTS
    SInv
    PricesApart
    LevelsThreadTheList
    SearchFinds
PROPERTIES
    OperationsOfASet
