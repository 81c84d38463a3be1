SPECIFICATION FairSpec
CONSTANTS
    s1 = s1
    c1 = c1
    MaxJobs = 3
    Sources = {s1}
    Callers = {c1}
    BatchSize = 2
    ListLimit = 3
    Threads = 1
    MaxCrashes = 1
    Inputs = {"cancel", "startfail"}
  
PROPERTIES OutcomeFinal ImportsEnd 
CHECK_DEADLOCK FALSE
