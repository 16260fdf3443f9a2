\* A client unregisters a server that is not registered.
CONSTANTS
    u1 = u1
    u2 = u2
    s1 = s1
    Garbage = Garbage
    Urls = {u1, u2}
    Services = {s1}
    Loads = {"ok"}
    UrlReads = {"exact"}
    Capacity = 2
    MaxConfigs = 2
    SizeMax = 3
SPECIFICATION Spec
PROPERTIES RemovalSparesOthers
