\* Three slots: after the first of three assets is unregistered, the last one is
\* never synchronized again.
CONSTANTS
    u1 = u1
    u2 = u2
    u3 = u3
    s1 = s1
    Garbage = Garbage
    Urls = {u1, u2, u3}
    Services = {s1}
    Loads = {"ok"}
    UrlReads = {"exact"}
    Capacity = 3
    MaxConfigs = 3
    SizeMax = 4
SPECIFICATION ClientSpec
PROPERTIES EnrolledIsDrained
