SPECIFICATION Spec
CONSTANTS
    Size = 5
    Reserve = 2
    MaxKeyText = 4
    VisibleSize = 3
    CharSize = 4
    Builds = {TRUE}
INVARIANT SubmitsWhatWasTyped
