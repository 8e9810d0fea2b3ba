SPECIFICATION EmbeddedSpec
CONSTANTS
    Dials = {d1}
    Talkers = {d1}
    MaxRequests = 1
PROPERTY ServeConnReturns
