SPECIFICATION FairSpec
CONSTANTS
    Units = {e1}
    Passes = {p1}
    Consumers = {c1, c2}
    Nobody = Nobody
    MaxRetries = 1
    MaxFaults = 2
    MaxLapses = 1
INVARIANTS WaitsForRunner NoPhantom EffectsBounded
PROPERTIES MarkedIsHandled RelayEnds
