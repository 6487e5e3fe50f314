SPECIFICATION Spec
CONSTANTS
    Features = {f1, f2, f3}
    Undrawable = {f2}
    NoShape = NoShape
    Queries <- MCQueries
    FaultKinds = {"add", "share", "null", "fail", "reissue"}
    MaxResults = 4
    MaxRows = 3
    Drivers = {"postgis", "ogr", "mssql", "oracle"}
    ARRAY_SIZE = 2
INVARIANTS
    StyleOfShape
    ReadsInsideBuffer
PROPERTIES
    ContractSpec
    ReissueIsRight
