\* An IRQ of the second PIC: nothing unmasks the cascade input.
SPECIFICATION FairSpec
CONSTANTS
    d1 = d1
    d2 = d2
    Nobody = Nobody
    Drivers = {d1}
    UsesCli = {d1}
    IRQs = {0, 2, 9}
    KeyOf <- MCKeyOf
    Offered <- MCOffered
    CountWidth = 2
PROPERTIES RequestIsDelivered
