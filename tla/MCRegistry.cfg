SPECIFICATION Spec
CONSTANTS
    p1 = p1
    p2 = p2
    c1 = c1
    Pods <- MCPods2
    Clients <- MCClients
    EtcdFails = TRUE
    MaxLeases = 2
SYMMETRY PodSymmetry
INVARIANTS HealthySeen DeadPodHung UnregisteredGone
