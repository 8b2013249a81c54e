CONSTANTS
    Names <- MCNames
    Dotted <- MCDotted
    Contents <- MCContents
    Filters <- MCFilters
SPECIFICATION Spec
INVARIANTS TypeOK OutcomeIsDetermined Announced
