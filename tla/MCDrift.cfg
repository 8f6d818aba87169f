SPECIFICATION Spec
CONSTANTS
    Objects = {o1, o2}
    VirtualServices <- MCVirtualServices
    Labels = {"", "a.com", "b.com"}
    Absent = Absent
    Malformed = Malformed
    Wildcards = {"*.a.com"}
    ShortNames = {"a", ""}
    ClusterNames = {"a.cluster.local"}
    MaxChanges = 2
SYMMETRY Interchangeable
CHECK_DEADLOCK FALSE
INVARIANTS CleanIsEarned DriftIsReal FailureHasCause
