SPECIFICATION FairSpec
CONSTANTS
    Routines <- AllRoutines
    MaxLines = 5
    ToolLines <- MCToolLines
    DecoderItems <- MCDecoderItems
    MaxItems = 3
    Bits = 4
    BufferSizes = {0, 1, 8, 12}
    ReadLoops <- MCReadLoops
    MaxTable = 8
    MaxLength = 9
    MaxInterrupts = 1
    DirScans <- MCDirScans
    DirNames = {1, 2, 3, 4}
    PlainFiles = {3}
    MaxHotplug = 1
    KernelWords = {1, 2, 3, 4, 128}
    MaxWords = 3
    MaxChanges = 2
    MaxOutput = 2
    DmiTables <- MCDmiTables
    MaxProcessors = 1
    MaxMemdevs = 1
INVARIANTS
    BlocksKeepTheirLines NumaNodesComplete EthtoolAsPrinted SensorsAddUp HintIsTheOneSwitch
    CpulistReadAlike TopologyMultiplies NeedTellsTruncation
    WholeOrRefused SteadyDevicesReported OneAnswerOfTheKernel SuccessIsWhole
    WalkIsTheTable DecodedFromItsOwn
PROPERTIES LoopsEnd RunReturns
CHECK_DEADLOCK FALSE
