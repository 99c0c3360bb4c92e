\* Channels fail and are lost, the container stops and starts, scripts end or outlive their channel.
SPECIFICATION Spec
CONSTANTS
    s1 = s1
    s2 = s2
    s3 = s3
    None = None
    Slots <- MCSlots
    HistorySize = 2
    MaxBackoff = 2
    MaxFaults = 3
INVARIANTS TypeOK OneFollower StatusTruthful NoticesMatchStatus OneScriptAtATime
PROPERTIES FollowsAgain ScriptsEnd
