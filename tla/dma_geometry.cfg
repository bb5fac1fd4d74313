CONSTANTS
  MemBytes = 32
  DramBytes = 64
  MemAddrs <- SomeMemAddrs
  DramAddrs <- SomeDramAddrs
  LengthWords <- SomeLengths
SPECIFICATION Spec
INVARIANTS BlockArrives SingleRowStaysInside RoundTrip
