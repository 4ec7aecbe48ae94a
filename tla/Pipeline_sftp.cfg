\* One upload to an sftp server that falls silent or whose connection breaks. Both are
\* violated; the one to be shown is to stand without its comment mark.
SPECIFICATION Spec
CONSTANTS
    r1 = r1
    r2 = r2
    k1 = k1
    k2 = k2
    None = None
    Runs = {r1, r2}
    Keys = {k1, k2}
    MaxCancels = 1
    Plans <- SftpAlone
INVARIANT BrokenUploadLeavesNothing
\* PROPERTY CancelledRunReturns
CHECK_DEADLOCK FALSE
