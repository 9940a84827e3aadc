\* Two drivers that hold interrupts off around their calls; a slave IRQ.
SPECIFICATION FairSpec
CONSTANTS
    d1 = d1
    d2 = d2
    Nobody = Nobody
    Drivers = {d1, d2}
    UsesCli = {d1, d2}
    IRQs = {0, 1, 2, 9}
    KeyOf <- MCKeyOf
    Offered <- MCOffered
    CountWidth = 2
INVARIANTS TypeOK ExclusiveWatch OpenLineHasGate WatchStateAgrees
PROPERTIES ImplementsTable ReachableRequestIsDelivered
