\* Sums of points, single signatures, signatures of several parties.
SPECIFICATION Spec
CONSTANTS
    P = 43
    N = 31
    Gx = 2
    Gy = 12
    Beta = 6
    NegLambda = 26
    NegB1 = 1
    NegB2 = 25
    Z1 = 198
    Z2 = 33
    Shift = 10
    ByteBits = 2
    ZValues = {1, 2, 5}
    Operands <- MCOperands
    AnyZ = 2
    WireBits = 4
    Width = 2
    SequenceID = 3
    IntegerID = 2
    MagicOffset = 3
    Hashes = {0, 40}
    Candidates = {0, 4, 11, 17, 31}
    MaxStream = 3
    Keys = {0, 9, 30, 31}
    Altered = {0, 1, 2, 3, 6, 7, 8, 15}
    MaxAltered = 1
    ChallengeHash <- MCChallengeHash
    CoefHash <- MCCoefHash
    BlindHash <- MCBlindHash
    TapHash <- MCTapHash
    Nonce <- MCNonce
    Scenarios <- MCScenarios
    Messages = {1, 2}
INVARIANTS
    PointIsSum
    MultiplesAreRight
    SignaturesHold
    ReadExactly
    PartiesAgree
    FinalIsValid
    NonceUsedOnce
CHECK_DEADLOCK FALSE
