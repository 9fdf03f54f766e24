SPECIFICATION Spec
CONSTANTS
    Partials <- MCPartials
    Segment <- MCSegment
    Liquids <- MCLiquids
    Context <- MCContext
    Pages <- MCPages
    Sources <- MCSources
    Bodies <- MCBodies
    MaxNested = 2
INVARIANTS
    NoSentinelIsShown
