\* A watcher started before anything was installed.
CONSTANTS
    Runtimes = {"python", "free-threaded", "node"}
    Callers = {c1, c2}
    Watcher = w
    STAGED = 4
    MaxEdits = 1
    MaxCalls = 3
    Refreshers = {t1, t2}
    NoThread = nobody
    MaxKeys = 2
    MaxRefreshes = 3
SPECIFICATION SuiteSpec
CHECK_DEADLOCK FALSE
INVARIANT InstallsAreBumped
