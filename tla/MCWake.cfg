CONSTANTS
    c1 = c1
    c2 = c2
    Calls <- MCCalls
    Events = {"high", "other", "low"}
    Eligible = {"high", "other"}
    Timed = {"high", "low"}
    Cursors = {0}
    Lease = 1
    MaxSeq = 2
    MaxNow = 1
SPECIFICATION Spec
SYMMETRY CallsSymmetric
INVARIANT PendingIsCovered
INVARIANT RowsNameTheirMessage
INVARIANT RetryDoesNotDuplicate
