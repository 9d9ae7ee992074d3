SPECIFICATION UnitSpec
CONSTANT WordSize = 4
CONSTANT AmountBits = 3
CONSTANT Regs <- MCRegs
CONSTANT StartValues <- MCValues
CONSTANT StartFlags <- MCFlags
CONSTANT Instructions <- MCInstructions
CONSTANT MaxInstructions = 2
INVARIANTS FlagsDecide CyclesExact
PROPERTIES ArithmeticSpec
CHECK_DEADLOCK FALSE
