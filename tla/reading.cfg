\* Files of 2 lines, lists of 2 frames, 9 bits in words of 2 to 4, two cards and
\* up to two AUX devices.
SPECIFICATION Spec
CONSTANTS
    Text <- Texts
    IntOf <- Integral
    FloatOf <- Numeric
    CodeOf <- Codes
    Remark <- Comment
    Files <- SmallFiles
    FrameLists <- SmallFrameLists
    KeyMax = 8
    Widths = {2, 3, 4}
    Machines <- SmallMachines
INVARIANTS
    ConfigIsHonest
    ExtraFramesAreOurs
    ButtonsReadBack
    AuxDeviceIsOurs
