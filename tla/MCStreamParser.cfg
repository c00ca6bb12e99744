SPECIFICATION Spec
CONSTANTS
    Keys = {"a", "b"}
    Scalars = {"x"}
    ArrayGrowthLimit = 2
    SurfaceIds = {"s", "s-2"}
    ComponentIds = {"root", "a", "b", "c"}
    ComponentTypes = {"Text", "Card", "Row", "List", "Chart"}
    CatalogIds = {"basic", "rowless"}
    None = None
    CatalogOf <- MCCatalogOf
    Root = "root"
    MaxDepth = 6
    MaxCallDepth = 5
    Responses <- MCResponses
    Catalogs = {"basic", "rowless"}
CHECK_DEADLOCK FALSE
INVARIANT DrawnWhole
INVARIANT RenderedIsReplayed
INVARIANT FailsOnlyOnBad
INVARIANT ReadsLoosely
INVARIANT AgreesOnContracts
