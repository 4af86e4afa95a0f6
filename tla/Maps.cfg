SPECIFICATION Spec
CONSTANTS
    PageSize = 2
    Limit = 6
    MaxRegions = 3
    NoPath = NoPath
    vvar = vvar
    lib = lib
    Paths = {NoPath, vvar, lib}
    ExcludePaths = {vvar}
    Permissions <- MCPermissions
    Arguments <- MCArguments
    MaxFilters = 2
INVARIANTS
    TouchesTheSelection
    SelectionIsTheUnion
    AddressAgreesWithGetMap
    RowsTellTheScan
