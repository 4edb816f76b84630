SPECIFICATION Spec
CONSTANTS
  Cap = 3
  Byte = {0, 1}
  MaxLen = 3
INVARIANTS TypeOK NoDataRace TransfersFit
PROPERTY FifoSpec
