SPECIFICATION Spec
CONSTANTS
    Keys = {"a", "b"}
    Scalars = {"x"}
    ArrayGrowthLimit = 2
    SurfaceIds = {"s", "s-2"}
    ComponentIds = {"root", "c"}
    ComponentTypes = {"Text", "Box", "Chart"}
    CatalogIds = {"basic", "other"}
    None = None
    CatalogOf <- MCCatalogOf
    Root = "root"
    MaxDepth = 5
    MaxCallDepth = 5
    Names <- MCNames
    Responses <- MCResponses
    MaxAttempts = 2
    Version = "v0.9"
    Contract = "basic"
    EchoPolicy = None
    CarefulHost = FALSE
    MaxEntries = 2
CHECK_DEADLOCK FALSE
PROPERTY FailuresContributeNothing
