SPECIFICATION Spec
CONSTANTS
    Bytes = {0, 90, 255}
    Size = 8
    FirstPictures <- Uniform
    sBufferSize = 12
    Word = 3061
    Pictures = 2
INVARIANTS
    InBounds
    SumFits
    ColoursAreNearest
    SumIsDistance
CHECK_DEADLOCK FALSE
