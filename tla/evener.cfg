SPECIFICATION Spec
CONSTANTS
    root = root
    child = child
    grandchild = grandchild
    Null = Null
    Unconditional = Unconditional
    Session = {root, child}
    Agent = {}
    ProviderOf <- MCProviderOf
    ParentOf <- MCParentOf
    MaxChanges = 2
    MaxFaults = 1
INVARIANTS IndexIsCurrent
PROPERTIES RefreshPutsRight RowsCatchUp
