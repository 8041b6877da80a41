\* Two producers, three consumers, five values.
CONSTANTS
    Producers = {p1, p2}
    Consumers = {c1, c2, c3}
    MaxPush = 5
SPECIFICATION FairSpec
INVARIANTS NoLostWakeup
PROPERTIES FifoSpec ConsumersServed
