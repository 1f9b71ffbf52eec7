\* Nothing keeps two columns from having one index.
SPECIFICATION Spec
CONSTANTS
    Names = {1, 2, 3}
    MaxIndex = 2
    Limit = 1
INVARIANT
    ShowsWhatStays
