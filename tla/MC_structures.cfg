SPECIFICATION Spec
CONSTANTS
    Lists = {a, b}
    Things = {x, y}
    k1 = k1
    k2 = k2
    k3 = k3
    Keys = {k1, k2, k3}
    Nodes = {n1, n2, n3, n4}
    HASHSIZE = 2
    Hash <- MCHash
    Null = Null
SYMMETRY SomeNode
INVARIANT TypeOK
INVARIANT NodesOwned
INVARIANT LoadBounded
PROPERTY ImplementsCollections
