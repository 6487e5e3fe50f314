SPECIFICATION Spec
CONSTANTS
    Maps = {m1}
    Images = {i1}
    Handles = {o1}
    NULL = NULL
    Defaults <- MCDefaults
    UserNames = {"mixed", "svg", "jpeg"}
    Mime <- MCMime
    Keys = {"png", "image/png", "svg", "tiff", "mixed", "jpeg"}
    Unavailable = {"tiff"}
    Vector = {"svg"}
    Mixed = {"mixed"}
    Jpeg = {"jpeg"}
    OPAQUE_FORMAT = "png"
    TRANSPARENT_FORMAT = "png"
    Draws <- MCDraws
    Careless = {"remove"}
    MaxFormats = 3
    MaxList = 3
PROPERTY
    RemovedExactly
