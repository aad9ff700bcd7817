\* Clients that zero their packet: the path is followed by NULs only.
CONSTANTS
    MaxLen = 3
    MaxAdds = 1
    TailBytes = {"NUL"}
SPECIFICATION Spec
INVARIANT FindAfterAdd
