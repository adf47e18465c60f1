CONSTANTS
    Capacity = 4
    CounterModulus = 8
    a = a
    b = b
    Item <- MCItem
    Raw = Raw
    MayThrow = TRUE
SPECIFICATION PollSpec
INVARIANTS LiveSlots SlotHandover
PROPERTIES ImplementsFifo
