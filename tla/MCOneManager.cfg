SPECIFICATION Spec
CONSTANTS
    m1 = m1
    m2 = m2
    m3 = m3
    u1 = u1
    u2 = u2
    Manager <- MCManager
    User <- MCUser
    None = None
INVARIANT OneManager
\* After the shutdown of the server nothing happens any more.
CHECK_DEADLOCK FALSE
