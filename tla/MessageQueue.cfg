\* Two consumers, where the system has one, so that a wakeup can be stolen.
CONSTANTS
    trainer = trainer
    other = other
    Consumers <- MCConsumers
    MaxQueueSize = 2
    MaxProduced = 5
SPECIFICATION Spec
INVARIANTS
    TypeOK
    CountersAddUp
    DeliveredInOrder
    NoLostWakeup
PROPERTIES
    FeedSpec
CHECK_DEADLOCK FALSE
