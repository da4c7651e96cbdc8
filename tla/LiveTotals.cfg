CONSTANTS
    Scopes = {day, week}
    Writers = {w1, w2}
    Here = {w1}
    Readers = {r}
    Sockets = {s}
    Ttl = 2
    MaxCompute = 1
    Capacity = 1
    MaxWrites = 2
SPECIFICATION Spec
INVARIANTS StaleAtMostTtl ToldMeansCleared NeverSilentlyMissed
