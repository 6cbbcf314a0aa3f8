SPECIFICATION FairSpec
CONSTANTS
    MaxQueued = 2
    MaxArrivals = 4
    Resetters = {http, clearer}
INVARIANTS QueueBounded
PROPERTIES PictureWhole EndedNeverTaken PayloadLeaves
