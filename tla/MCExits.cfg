\* Every nesting of three blocks of MCFunctions, in a function that returns a
\* value and in one that does not, by both back ends; the first five conditions
\* of a run are free.
CONSTANTS
    Functions <- MCFunctions
    MaxTests = 5
SPECIFICATION ExitsSpec
INVARIANTS
    RunsAsMeant
    InStep
\* A compiled function ends.
CHECK_DEADLOCK FALSE
