SPECIFICATION Spec
CONSTANTS
    Table <- MCTable
    Texts <- MCTexts
    Users = {"matti"}
    Orgs = {"csc"}
    Keys = {"", "k"}
    DayLength = 4
    MaxValues = 3
    None = None
INVARIANTS
    StatsTypeOK
    CountsWhatIsAsked
    StatsNeedKey
