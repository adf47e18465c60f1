CONSTANTS
    Capacity = 2
    MaxEvents = 7
    c1 = c1
    c2 = c2
    Consumers <- MCConsumers
    Unwritten = Unwritten
SPECIFICATION ProducerSpec
CHECK_DEADLOCK FALSE
INVARIANTS HandedInOrder
PROPERTIES HeldSlotStill StallsOnlyWhenFull EventsDelivered
