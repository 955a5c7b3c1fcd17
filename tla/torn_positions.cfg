CONSTANTS
    Kinds = {"account", "positions", "orders"}
    Sizes <- SomeRows
    MaxQueries = 3
    MaxVersion = 1
    MaxDrops = 1
SPECIFICATION Spec
INVARIANTS
    PositionsAreTheAccount
