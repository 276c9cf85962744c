\* The same instance; assignment_cleanup.rs says that old ended assignments are deleted.
SPECIFICATION Spec
CONSTANTS
    r1 = r1
    None = None
    Mc = {m1, m2}
    Region = {r1}
    Task = {t1, t2}
    RegionOf <- MCRegionOf
    Staleness = 1
    Retries = 3
    Reports <- AllWell
SYMMETRY Symmetry
INVARIANT PurgesEnded
