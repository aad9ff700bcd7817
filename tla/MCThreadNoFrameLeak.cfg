CONSTANTS
    Procs = {1, 2}
    Blocks = {1, 2, 3}
    NSlots = 1
    NFrames = 5
    Sigs = {1, 2}
    Handle = {1}
    MaxMail = 2
    Policy <- MCPolicy
SPECIFICATION Spec
INVARIANT NoFrameLeak
\* A panic halts the kernel, and the last runnable thread is never dropped:
\* such states have no successor.
CHECK_DEADLOCK FALSE
