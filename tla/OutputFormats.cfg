SPECIFICATION Spec
CONSTANTS
    Maps = {m1}
    Images = {i1}
    Handles = {o1}
    NULL = NULL
    Defaults <- MCDefaults
    UserNames = {"mixed", "svg", "jpeg"}
    Mime <- MCMime
    Keys = {"image/png", "svg", "tiff", "jpeg"}
    Unavailable = {"tiff"}
    Vector = {"svg"}
    Mixed = {"mixed"}
    Jpeg = {"jpeg"}
    OPAQUE_FORMAT = "jpeg"
    TRANSPARENT_FORMAT = "png"
    Draws <- MCDraws
    Careless = {}
    MaxFormats = 3
    MaxList = 2
VIEW ApartFromAddresses
INVARIANT
    HeldWhileReferenced
PROPERTY
    SettingsKept
