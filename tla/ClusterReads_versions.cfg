SPECIFICATION Spec
CONSTANTS
    MaxName = 3
    MaxNodes = 2
    MaxChanges <- MCMaxChanges
    Hash <- MCHash
    ProdNames <- MCProdNames
    NumberOf <- MCNumberOf
    Catalog <- MCCatalog
    MinDeployments = 2
    ManyCapabilities = 3
    Capability <- MCCapability
INVARIANT DocumentedVersionsAreStored
