\* Any client, any request, any order: the invariants of the bare registry, and
\* its nodes refine the directory.
CONSTANTS
    u1 = u1
    u2 = u2
    s1 = s1
    s2 = s2
    Garbage = Garbage
    Urls = {u1, u2}
    Services = {s1, s2}
    Loads = {"ok", "bad_field", "unparsed", "no_entry"}
    UrlReads = {"exact", "overrun"}
    Capacity = 3
    MaxConfigs = 3
    SizeMax = 4
SPECIFICATION Spec
SYMMETRY Symmetry
INVARIANTS TypeOK ListParallel CounterTracksList NoOrphanAgent ListInOrder
PROPERTIES DirectorySpec
