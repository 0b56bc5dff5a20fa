\* The clock runs up to the last time an int holds; of the dates in headers, 5 is
\* after the last one parse_time accepts.
CONSTANTS
    MaxTime = 5
    LastDate = 4
    INT_MAX = 6
    NO_LM_EXPIRATION = 2
    MAX_LM_EXPIRATION = 4
    LM_PART = 2
    Dates = {1, 4, 5}
    Deltas = {2}
    Delays = {1}
SPECIFICATION Spec
  
PROPERTY InvalidStaysInvalid
