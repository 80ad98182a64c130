\* Two installs at once, two releases, one restart.
SPECIFICATION Spec
CONSTANTS
    Installs = {i1, i2}
    MaxRelease = 2
    MaxChecks = 1
    MaxLaunches = 1
    None = None
SYMMETRY Symmetry
INVARIANTS
    KeepsAnExecutable
    RunnableByName
    UpdatedIsInstalled
\* A program stopped for good stays stopped.
CHECK_DEADLOCK FALSE
