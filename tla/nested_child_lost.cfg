SPECIFICATION NestedSpec
CONSTANTS
    root = root
    child = child
    grandchild = grandchild
    Null = Null
    Unconditional = Unconditional
    Session = {root, child, grandchild}
    Agent = {}
    ProviderOf <- MCProviderOf
    ParentOf <- MCParentOf
    MaxChanges = 2
    MaxFaults = 0
PROPERTIES RefreshIsAuthoritative
