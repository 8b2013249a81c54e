\* Every filter and every kind of value, and objects in objects.
CONSTANTS
    KeyOrder <- MCKeyOrder
    Expectations <- MCExpectations
    Incomings <- MCIncomings
    ArrayFilters <- MCArrayFilters
    Depth = 2
SPECIFICATION Spec
INVARIANTS TypeOK IssuesAreTheMismatches VerdictIsRight SpecifiedIsReceived
