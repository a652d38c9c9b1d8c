CONSTANTS
    r1 = r1
    z1 = z1
    e1 = e1
    e2 = e2
    e3 = e3
    A1 = A1
    A2 = A2
    Session = {r1, e1, e2, e3}
    Agent = {A1}
    Null = Null
    Unconditional = Unconditional
    ProviderOf <- MCProviderOf
    MaxClock = 0
    HookLag = 0
    Lease = 1
    ZcodeLease = 1
    Expiry = 1
    BgGrace = 1
    PaseoPasses = {}
SYMMETRY TreeSymmetry
SPECIFICATION TreeSpec
INVARIANTS SchemaConstraints NativeForest SlotsReused
