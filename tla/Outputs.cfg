SPECIFICATION Spec
CONSTANTS
    Sizes <- MCSizes
    Crtcs = 2
    Rects = {r1, r2}
    Off = off
    Garbage = garbage
    Extensions = {"1.5", "1.4", "xinerama"}
    MaxChanges = 2
INVARIANTS
    WindowCoversRoot
    OutputsFollowServer
