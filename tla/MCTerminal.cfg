CONSTANTS
    WIDTH = 4
    HEIGHT = 2
    TAB = 2
    Printable = {x}
    MaxReq = 2
SPECIFICATION Spec
INVARIANT LineBaseBehindCursor
