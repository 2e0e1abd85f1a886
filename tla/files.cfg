\* Every name of up to four characters, cut off at three, which is also the file system's limit; pictures of up to six by six pixels in a box of three.
CONSTANTS
    MaxFilenameLength = 3
    MaxSize = 3
    HashLength = 1
    ThumbLength = 1
    NameMax = 3
    MaxRaw = 4
    MaxSide = 6
    Names <- MCNames
    Pictures <- MCPictures
    AName <- MCName
    APicture <- MCPicture
SPECIFICATION Spec
INVARIANTS
    SafeName
    LettersKept
    ShortNamesGoThrough
    FitsBox
    ChannelsApart
CHECK_DEADLOCK FALSE
