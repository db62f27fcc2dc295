SPECIFICATION Spec
CONSTANTS
    Upper <- MCUpper
    OptLimit = 2
    Texts <- MCTexts
    Seeks <- MCSeeks
    Replacements <- MCReplacements
    Starts = {0, 1, 2, 3}
    Counts <- MCCounts
    Sources <- MCSources
    Destinations <- MCDestinations
    Byte = 4
    Pairs <- MCPairs
    Lists <- MCLists
    Names <- MCNames
    ManagementNames <- MCManagementNames
    ArrayLengths = {1, 2, 3, 30}
    MaxPairs = 40
    BindPaths <- MCBindPaths
    InetAddr <- MCInetAddr
    Ntoa <- MCNtoa
    ClientLists <- MCClientLists
INVARIANTS
    StrTranReplaces
    StrReplaceSubstitutes
    ParamsAreThose
    WritesFit
    AgreeOnEndpoint
    OnlyListedClients
\* A behaviour is one call.
CHECK_DEADLOCK FALSE
