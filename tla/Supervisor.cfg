SPECIFICATION FairSpec
CONSTANTS
    r1 = r1
    r2 = r2
    Runs = {r1, r2}
    None = None
    MaxAttempts = 1
    Platforms = {"nt", "posix"}
    Faults = {"write", "log", "popen", "reject", "kill", "death", "reuse"}
    MaxFaults = 2
INVARIANTS OwnedOrFound
PROPERTIES DecisionsHold BackoffServed
