SPECIFICATION Spec
CONSTANTS
    Bytes = {0, 90, 255}
    Size = 4
    FirstPictures <- Uniform
    sBufferSize = 6
    Word = 1531
    Pictures = 2
INVARIANTS
    SumIsOfGreyPixels
CHECK_DEADLOCK FALSE
