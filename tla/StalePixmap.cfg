SPECIFICATION Spec
CONSTANTS
    Sizes <- MCSizes
    Crtcs = 2
    Rects = {r1, r2}
    Off = off
    Garbage = garbage
    Extensions = {"1.5"}
    MaxChanges = 2
INVARIANT PixmapFollowsResolution
