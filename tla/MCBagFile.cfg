SPECIFICATION FairSpec
CONSTANTS
    VersionLen = 2
    IntLen = 2
    HeaderLen = 17
    NameLens <- Names12
    FirstLens <- Lens11
    LastLens <- Lens21
    WordLen = 2
    TopicLens = {1, 2}
    BodyLens = {0, 1, 3, 30}
    MaxRecords = 3
INVARIANTS
    TypeOK
    ReadsWholeRecords
    LosesAtMostTheLast
    RefusedOnlyIfTorn
PROPERTIES
    OpenEnds
