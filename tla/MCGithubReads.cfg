SPECIFICATION Spec
CONSTANTS
    Bodies = {body}
    Length <- MCLength
    Pages = 2
    None = None
INVARIANT ReadsOnlyRead
CHECK_DEADLOCK FALSE
