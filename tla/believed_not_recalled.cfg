CONSTANTS
    home = home
    noHome = noHome
    oslo = oslo
    osloEast = osloEast
    rome = rome
    robin = robin
    Pointer = Pointer
    Topics = {home, noHome}
    Canon <- MCCanon
    Claims = {oslo, osloEast, rome, robin}
    Machinery = {robin}
    Similar <- MCSimilar
    Near = {}
    Paraphrases <- MCSimilar
    Rephrasings = {}
    Cands = {1, 2}
    Drafts <- MCDrafts
    Sayings <- MCSayings
    Amendments <- MCAmendments
    Legacy <- MCLegacy
    Passes = {"dream", "cli"}
    PromoteAge = 0
    ExpiryAge = 1
    ConflictAge = 1
    MaxJudged = 1
    MaxInputs = 3
    MaxFaults = 1
SPECIFICATION Spec
PROPERTIES
    BelievedIsRecalled
