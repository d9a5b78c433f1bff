SPECIFICATION Spec
CONSTANTS
    Dir = Dir
    Opaque = Opaque
    Whiteout = Whiteout
    None = None
    Nobody = Nobody
    mode = mode
    Suffixed <- MCSuffixed
    Archives <- MCArchives
    Genesis <- MCGenesis
    UserFiles <- MCUserFiles
    ConfigPaths <- MCConfigPaths
    DbDir <- MCDbDir
    DbName = "packages"
    Before <- MCBefore
    CommandBound = 3
PROPERTY InstallKeepsTheRest
CHECK_DEADLOCK FALSE
