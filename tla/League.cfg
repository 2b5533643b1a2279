CONSTANTS
    None = None
    NoDay = NoDay
    config <- MCConfig
    Inputs = {"nothing","all"}
    Facts <- MCFacts
    Points <- MCPoints
    Missions <- MCMissions
    Users = {1,2}
    Categories = {c1}
    LastWeek = 1
    Capacity = 2
    Promotion = 34
    Relegation = 34
    Tx = {t1}
    MaxChanges = 2
    MaxFaults = 1
SPECIFICATION FairSpec
INVARIANTS TypeOK StandingsFinal FinalWeekScored
PROPERTIES EventuallyClosed
CHECK_DEADLOCK FALSE
