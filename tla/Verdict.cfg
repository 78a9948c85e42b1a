SPECIFICATION FairCommandSpec
CONSTANTS
    nothing = nothing
    Nothing = nothing
    Contents <- States
    LastFacet = 2
    LastRule = 2
    Findings <- Wrong
INVARIANTS
    ResultIsOfOneMoment
    DriftWasThere
    VerifyExitAgrees
PROPERTY
    RunEnds
