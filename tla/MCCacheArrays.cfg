SPECIFICATION ArraysSpec
CONSTANTS
    Configs <- MCConfigs
    ScoreValues = 21    \* as few as ScoresFit allows
    MissPeriod = 1
INVARIANTS LinesFound CareCountsLines
PROPERTY GoodVictim
CHECK_DEADLOCK FALSE
