SPECIFICATION Spec
CONSTANTS
    Selections = {partsA, partsB}
    NoSelection = NoSelection
    Regions = {saudi, emirates}
    DefaultRegion = saudi
    Targets = {gaming, office}
    DefaultTarget = gaming
    None = None
INVARIANTS
    VerdictIsCurrent
PROPERTIES
    RegionArrives
