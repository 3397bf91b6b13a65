SPECIFICATION BarrierSpec
CONSTANTS
    BarrierAwaiters = {a1}
    Producer = Producer
    W = 8
    Ahead = 1
    MaxPublished = 2
    MaxWaits = 1
CHECK_DEADLOCK FALSE
PROPERTIES
    PublishedIsResumed
