SPECIFICATION Spec
CONSTANTS
    N = 3
    Configurations <- SomeConfigurations
    Passing = "reference"
    Contents <- SomeContents
    InitialContent = polygons
    MaxAddress = 9
    MaxObjects = 2
    MaxFailures = 1
    Equal <- ObjectEquals
    ContentHash <- ObjectHash
    Combine <- HashCombineValue
    Word = 256
    Magic = 185
    StdHash <- OneByteHash
    polygons = polygons  doubled = doubled  image = image  moved = moved
    Free = Free  None = None
INVARIANT Transparent
