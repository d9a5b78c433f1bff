SPECIFICATION Spec
CONSTANTS
    Dir = Dir
    Opaque = Opaque
    Whiteout = Whiteout
    None = None
    Nobody = Nobody
    mode = mode
    Suffixed <- MCSuffixed
    Archives <- MCArchives
    Genesis <- MCGenesis
    UserFiles <- MCUserFiles
    ConfigPaths <- MCConfigPaths
    DbDir <- MCDbDir
    DbName = "packages"
    Before <- MCBefore
    CommandBound = 3
INVARIANT TypeOK
INVARIANT RowsAreTheArchives
PROPERTY OthersKeepTheirRows
PROPERTY UserFilesStay
INVARIANT EveryFileIsListed
PROPERTY DiffExplainsUninstall
CHECK_DEADLOCK FALSE
