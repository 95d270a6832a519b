\* Field elements, scalars and the chains, by the calls made on them.
SPECIFICATION Spec
CONSTANTS
    NWords = 4
    FieldBase = 6
    MSBBits = 4
    Overflow = 3
    C0 = 3
    C1 = 2
    CallerMax = 6
    MulMax = 2
    NegateMax = 3
    CarrySlack = 19
    ByteBits = 2
    Inputs <- MCInputs
    Operands <- MCOperands
    SmallInts = {0, 2, 3}
    MaxCalls = 3
    ScalarLen = 4
    ScalarBase = 8
    Complement <- MCComplement
    ScalarInputs <- MCScalarInputs
    ScalarOperands <- MCScalarOperands
    Digits = 26
    DigitBase = 1024
INVARIANTS
    ValueKept
    ReducedExactly
    ChainsEndRight
CHECK_DEADLOCK FALSE
