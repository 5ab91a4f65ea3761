\* Two limiters in a row, their cleanups and two clients.
SPECIFICATION FairSpec
CONSTANTS
    Client = {c1, c2}
    APILimit = 2
    AuthLimit = 1
    Window = 2
    InFlight = 1
PROPERTIES
    ImplementsSlidingWindow
    IdleClientsForgotten
