SPECIFICATION Spec
CONSTANTS
    Variables <- SomeVariables
    Home <- SomeHome
    NameChars <- SomeNameChars
    IMG_EXTS <- SomeExtensions
    cover_directory <- InCovers
    music_directory <- InMusic
    Songs <- SomeSongs
    Alphabet <- Letters
    MaxLength <- Lengths
    MaxFiles = 3
INVARIANTS AckParsed AckErrorPlaced PathExpanded CoverFound
CHECK_DEADLOCK FALSE
