SPECIFICATION SearchSpec
CONSTANTS
    Names <- MCNames
    Versions <- MCVersions
    Prereleases <- MCPrereleases
    Extras <- MCExtras
    Registries <- MCRegistries
INVARIANTS
    SelectionIsRight
    ConflictIsReal
PROPERTIES
    SearchEnds
CHECK_DEADLOCK FALSE
