SPECIFICATION Spec
CONSTANTS
    Members = {1, 2}
    Lists = {a, b}
    MaxElements = 4
INVARIANTS TypeOK PositionsAgree ElementsHaveOneOwner
PROPERTIES ImplementsSequences OnlyJoiningUnlinks
