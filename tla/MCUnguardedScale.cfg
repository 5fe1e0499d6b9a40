SPECIFICATION Spec
CONSTANTS
    Groups <- MCGroups
    Planes <- MCPlanes
    GroupOf <- MCGroupOf
    Layers <- MCLayers
    MixedLayers <- MCMixedLayers
    Stacks <- MCStacks
    Scales <- MCScales
    InputScales <- MCInputScales
    LayerOf <- MCLayerOf
    Attested <- MCAttested
    Replicated <- MCReplicated
    Degree = 2
    Rank = 1
    Depth = 1
    Wire <- GoodWire
    MaxCalls = 1
INVARIANT ServedInitialized
