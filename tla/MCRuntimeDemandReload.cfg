SPECIFICATION ReconcilingSpec
CONSTANTS
    storage = storage
    plugin = plugin
    c1 = c1
    c2 = c2
    None = None
    Units = {storage, plugin}
    Calls = {c1, c2}
    Closure <- ClosureDef
    Target <- TargetDef
    Prepared = {storage}
    MaxOwners <- TwoOwners
PROPERTIES
    PreparationFailureKeepsService
CHECK_DEADLOCK FALSE
