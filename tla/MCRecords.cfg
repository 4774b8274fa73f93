SPECIFICATION RecordsSpec
CONSTANTS
    Codes = {k1}
    None = None
    Retentions = {0, 2}
    Window = 2
    MaxClock = 5
INVARIANTS
    RetentionKeepsEpisodes
    EpisodesAreSpells
    UptimeIsTimeBuyable
CHECK_DEADLOCK FALSE
