\* Three launches: a window, a launch that meets it, and one more.
SPECIFICATION FairSpec
CONSTANTS
    Procs = {p1, p2, p3}
    None = None
INVARIANTS
    WindowIsFound
    SoleWindow
    AckedLinkIsOpened
PROPERTY LaunchSettles
\* Every process may have ended.
CHECK_DEADLOCK FALSE
