\* Radarcape, Trimble and TB parsers: buffers of a few bytes, streams of up to
\* three pieces in any cut; connections fail at any time and begin again.
SPECIFICATION Spec
CONSTANTS
    BufSize = 4
    HeaderLen = 2
    PayloadLen <- MCPayloadLen
    RawSize = 10
    RcStreams <- MCRcStreams
    PacketSize = 10
    PositionLen = 9
    TrStreams <- MCTrStreams
    TbSize = 8
    Processors <- MCProcessors
    TbStreams <- MCTbStreams
INVARIANTS
    BuffersSuffice
    ParsesStream
    RoundTrip
    CommitsWanted
    NothingBeforeTime
    TrParsesStream
    PositionOfThisConnection
    ExecutesCommands
