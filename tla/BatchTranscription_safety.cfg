\* One session, two runs, one stop command, one progress event per run.
SPECIFICATION Spec
CONSTANTS
    Sessions = {s1}
    Runs = {r1, r2}
    MaxStops = 1
    MaxNews = 1
    None = None
CHECK_DEADLOCK FALSE

    
    
PROPERTIES
    Settles
