SPECIFICATION Spec
CONSTANTS
    rack1 = rack1
    rack2 = rack2
    image1 = image1
    image2 = image2
    Racks <- TwoRacks
    Letters = {letter}
    MaxVersion = 2
    Images <- TwoImages
    ImagesOf <- SomeImages
    Concurrent = 1
    NumResources = 4
    Processes = {p1, p2}
    Idle = Idle
    InitialRacks = {rack2}
    MaxChanges = 2
    MaxMishaps = 2
SYMMETRY ProcessSymmetry
INVARIANTS Safety PageOpens
CHECK_DEADLOCK FALSE
