\* Two check threads besides the event loop; everything is turned on.
CONSTANTS
    loop = loop
    w1 = w1
    w2 = w2
    k1 = k1
    k2 = k2
    k3 = k3
    Nobody = Nobody
    NoConsumer = NoConsumer
    Loop = loop
    Workers <- TwoWorkers
    Consumers <- ThreeConsumers
    TurnedOn <- Switches
SPECIFICATION ConsumerFairSpec
INVARIANTS
    ConsumerTypeOK
    OneConsumer
    OptionsPreserved
    WaitsEnd
PROPERTIES
    OptionsSteady
    CallsReturn
    ListenerReturns
    StoppedConsumersEnd
