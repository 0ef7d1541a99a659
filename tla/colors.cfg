SPECIFICATION FairSpec
CONSTANTS
    MaxSlots = 3
    BotSlots = {0, 1}
    HumanSlots = {2}
    PlayedTeams = {2, 3}
    ColorCount = 2
    MaxForceWrites = 1
    BadReads = {0}
    BadWrites = {1}
    Repainted = {0}
    Preferences <- MCPreferences
    MaxFaults = 1
    MaxJoins <- MCJoins
INVARIANT TypeOK
PROPERTIES PassSeparates PassServes WritesEnd ColorsSettle
