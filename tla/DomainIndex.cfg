SPECIFICATION SpecDomain
CONSTANTS
    Step = 2
    Capacity = 4
    Absent = Absent
    MaxVirtual = 4
    Shared = {2, 3}
    MaxIBD = 0
    MaxStops = 0
    Envs = {"quiet"}
CHECK_DEADLOCK FALSE
INVARIANT IndexEntriesExact
