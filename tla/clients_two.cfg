\* Two slots: a registry with at most two assets at a time serves them.
CONSTANTS
    u1 = u1
    u2 = u2
    s1 = s1
    s2 = s2
    Garbage = Garbage
    Urls = {u1, u2}
    Services = {s1, s2}
    Loads = {"ok"}
    UrlReads = {"exact"}
    Capacity = 2
    MaxConfigs = 3
    SizeMax = 3
SPECIFICATION ClientSpec
INVARIANTS ListMirrorsClients NodesMirrorClients NeverUndefined
PROPERTIES EnrolledIsDrained
