SPECIFICATION Spec
CONSTANTS
    Dir = Dir
    Opaque = Opaque
    Whiteout = Whiteout
    None = None
    narrow = narrow
    wide = wide
    Suffixed <- MCSuffixed
    Names <- MCNames
    Data = {1, 2}
    Blank = 0
    Modes <- MCModes
    Shipped <- MCShipped
    Releases <- MCReleases
    EditBound = 2
    CommandBound = 2
PROPERTY EveryDeployCarriesTheEdits
CHECK_DEADLOCK FALSE
