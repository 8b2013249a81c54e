\* Expectations that are empty arrays.
CONSTANTS
    KeyOrder <- MCKeyOrder
    Expectations <- MCExpectations
    Incomings <- MCIncomings
    ArrayFilters <- MCArrayFilters
    Depth = 2
SPECIFICATION Spec
INVARIANTS ValuesAreCompared
