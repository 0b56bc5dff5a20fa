\* Documents of up to six elements, nested or side by side.
CONSTANTS
    Elements <- MCElements
    MaxElements = 6
    UINT_MAX = 3
SPECIFICATION Spec
INVARIANTS StacksInStep AcceptedWithoutErrors DDSIsTheDocument
\* A parse ends.
CHECK_DEADLOCK FALSE
