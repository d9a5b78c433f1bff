SPECIFICATION Spec
CONSTANTS
    Dir = Dir
    Opaque = Opaque
    Whiteout = Whiteout
    None = None
    narrow = narrow
    wide = wide
    Suffixed <- MCSuffixed
    Names <- MCNames
    Data = {1, 2}
    Blank = 0
    Modes <- MCModes
    Shipped <- MCShipped
    Releases <- MCReleases
    EditBound = 3
    CommandBound = 2
PROPERTY ConflictFilesArrive
CHECK_DEADLOCK FALSE
