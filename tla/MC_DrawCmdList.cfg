\* Three ops fit in a Parcel of 8 items unless all three carry a payload
\* (3 + 3 * 2 = 9), so both a full Parcel and every mix of kinds occur.
CONSTANTS
    Classes <- MC_Classes
    Values = {1, 2}
    Dims = {0, 1, 2}
    FrameDims = {1, 2, 3}
    MaxOps = 3
    ParcelCapacity = 8
SPECIFICATION Spec
INVARIANT TypeOK RoundTrip FrameFollowsGravity
