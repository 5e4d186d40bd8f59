SPECIFICATION NetworkSpec
CONSTANTS
    Sites = {"s", "t"}
    Texts = {"a", "b"}
    MaxEditCalls = 2
    NoSite = "none"
    MadeUp = {"a"}
    NoFile = "nofile"
    Zones = {"a", "b"}
    Movable = {"b"}
    MaxDnsCalls = 2
    NoZone = "none"
    Modes = {"off", "full"}
    Records = {x, y}
    Rows = {r1, r2, r3}
    MaxRequests = 3
    NoRecord = norecord
    NoRow = norow
    MaxCfCalls = 3
    NoMode = "nomode"
SYMMETRY MCSymmetry
INVARIANTS
    CleanEditorShowsTheFile
    CopyAgrees
    RecordsMatchTheirZone
    ControlsShowTheMode
