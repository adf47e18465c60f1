CONSTANTS
    Capacity = 2
    a = a
    b = b
    p1 = p1
    p2 = p2
    Item <- MCItem
    Producers <- MCProducers
    Raw = Raw
    Nobody = Nobody
    Lost = Lost
    MayThrow = TRUE
    MaxPushes = 4
SPECIFICATION FairSpec
INVARIANTS ExclusiveSlots
PROPERTIES RefusedOnlyWhenFull ImplementsTickets ClaimedDelivered
