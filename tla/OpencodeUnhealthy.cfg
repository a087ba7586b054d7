SPECIFICATION Spec
CONSTANTS
    c1 = c1
    c2 = c2
    s1 = s1
    s2 = s2
    p1 = p1
    p2 = p2
    Clients = {c1, c2}
    Servers = {s1, s2}
    LongEntries = {s1}
    Ports = {p1, p2}
    Kinds = {"opencode"}
PROPERTIES
    ReusedServerIsHealthy
