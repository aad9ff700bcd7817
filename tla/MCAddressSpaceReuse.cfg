\* Fork and exit workload: spaces are also cleaned (map_clean) and their
\* roots freed (map_free), so freed frames are handed out again.
CONSTANTS
    NFrames = 9
    UserPages = {0, 1}
    MaxSpaces = 3
    Teardown = TRUE
    UserFrames = {0}
SPECIFICATION Spec
PROPERTY CloneMirrorsParent
\* the kernel halts on frame exhaustion
CHECK_DEADLOCK FALSE
