SPECIFICATION Spec
CONSTANTS
    Elements <- MCElements
    Scalars <- MCScalars
    Factors <- MCFactors
    Moduli <- MCModuli
    PublicKeys <- MCPublicKeys
    Secrets <- MCSecrets
    Nonces <- MCNonces
    Challenges <- MCNonces
    Responses <- MCNonces
    sha_256 <- MCsha_256
    sha_512 <- MCsha_512
    Stream <- MCStream
    Piece <- MCPiece
    Plaintexts <- MCPlaintexts
    Associated <- MCAssociated
    MacKeys <- MCMacKeys
    MacMessages <- MCMacMessages
    PeerLists <- MCPeerLists
    BYTE = 2
    KEY = 2
    SIG = 4
    NONCE = 1
    TAG = 2
    KSBLOCK = 4
    COUNTERS = 8
    PAD = 2
    IP = 1
    Blobs <- MCBlobs
    Keys <- MCKeys
    Signatures <- MCSignatures
    FrameNonces <- MCFrameNonces
INVARIANTS
    FieldsComputeModP
    ScalarsComputeModL
    ExchangeAgrees
    SignedVerifies
    HashPads
    OpenUndoesSeal
    FramesRoundTrip
CHECK_DEADLOCK FALSE
