CONSTANTS
    r1 = r1
    z1 = z1
    x1 = x1
    A1 = A1
    A2 = A2
    A3 = A3
    Session = {r1, z1, x1}
    Agent = {A1, A2, A3}
    Null = Null
    Unconditional = Unconditional
    ProviderOf <- MCProviderOf
    MaxClock = 1
    HookLag = 0
    Lease = 0
    ZcodeLease = 0
    Expiry = 0
    BgGrace = 1
    PaseoPasses <- MCPasses
SPECIFICATION LineageSpec
INVARIANTS ProjectionNeverThrows NewsOnExactlyOneCard CarriedStatusIsSubtreeMax GesturesCoverTheCard
PROPERTIES PruneSparesUnviewed RotationLeavesOneClaimant
