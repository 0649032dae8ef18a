SPECIFICATION SuiteSpec
CONSTANTS
    Captures <- MCCaptures
    MaxFrames = 4
    MaxTags = 2
    MaxExts = 3
    Traffic <- MCTraffic
    MaxFaults = 1
    MaxFlows = 9
    MaxTimes = 3
    StitchCap = 9
    MaxNames = 5
    MaxRecords = 9
    MaxKept = 5
    BeaconPackets = 3
    ScanPorts = 2
    SweepHosts = 2
    ExfilBytes = 9
    TunnelBytes = 4
    TunnelQueries = 2
    TunnelRate = 1
    DgaNames = 2
    IcmpBytes = 4
    IcmpPackets = 2
    NxResponses = 2
    KnownBad = {}
    Shown = 9
    Logs <- MCLogs
    HeaderSize = 24
    ChunkSize = 192
    MaxEvents = 7
    MaxChunks = 3
    MaxFields = 6
    MaxValues = 3
    SprayUsers = 2
    BruteFails = 2
    RarePorts = 2
    Lockouts = 2
    NtlmLogons = 2
    MaxChunk = 24
    MaxText = 90
    Words <- MCWords
    Dense = 9
    Present = 1
    MaxZipEntries = 5
    MaxMember = 4
    MaxBlobs = 3
    Documents <- MCDocuments
    MaxSectors = 16
    MaxEntries = 8
    MaxStream = 9
    MaxDepth = 5
    MaxSections = 7
    MaxLibs = 4
    MaxSymbols = 8
    MinBulk = 5
    Apis <- MCApis
    PeFiles <- MCPeFiles
    Flag = 1000
    MaxDebug = 3
    MaxLeaves = 6
    MaxData = 3
    ElfFiles <- MCElfFiles
    MaxNotes = 3
    MaxShnames = 6
    MaxStrings = 8
    MaxNoteSize = 19
    MaxSampled = 6
    MachFiles <- MCMachFiles
    Unprefixed <- MCUnprefixed
    MaxSlices = 3
    MaxBlobCount = 4
    MaxStrtab = 8
    Batches <- MCBatches
    Askers = {1, 2, 3}
    Refresh = 3
    MaxFlight = 2
    MaxTime = 9
    Messages <- MCMessages
    Scanned <- MCScanned
    Lowered <- MCLowered
    MaxBody = 9
    MaxAttachment = 6
    Calls <- MCCalls
    Configurable <- MCConfigurable
    EnvFiles <- MCEnvFiles
    Entries = {"", " ", "new"}
INVARIANTS
    FramesOfSections
    HeadsWhole
    InterleavingIrrelevant
    RecordsFound
    EncodingIrrelevant
    DocumentRead
    PeRead
    UnixImageRead
    BadNewsCounts
    RelationsHold
    TorListRecent
    MessageRead
    ExitCodeHonest
    KeysKept
PROPERTIES
    EvidenceAccumulates
CHECK_DEADLOCK FALSE
