SPECIFICATION ActionSpec
CONSTANTS
    UserIds = {1, 2, 3}
    Root = 1
    Sites = {"s"}
    MaxUserCalls = 2
    NoUser = 0
    Sections = {"services", "storage", "system logs"}
    Services = {"proxy", "docklite"}
    MaxServerCalls = 3
    NoService = "none"
    Machines = {"m"}
    Domains = {"d", "e"}
    MaxListings = 2
    NoMachine = "none"
    DirNames = {"d"}
    FileNames = {"f", "g"}
    Listings <- SmallListings
    MinPath <- TopDirectory
    IsAdmin = TRUE
    MaxDepth = 1
    MaxFileCalls = 2
    None = None
    Tables = {"a", "b"}
    First = "a"
    MaxDbCalls = 2
    NoTable = "none"
    MaxBackupCalls = 3
    BackupFiles = {"a", "b", "c"}
    Usable = {"a", "b"}
    MaxInspections = 2
    NoFile = "none"
    Jobs <- TwoJobs
    FormHours = {12}
    FormCopies = {3}
    MaxFormCalls = 2
INVARIANTS
    SitesHaveOwners
    SuperAdminRemains
    LogsMatchTheirTitle
    OneSiteEach
    ActsOnWhatWasListed
    SavesItsOwnText
    UpdatesNameTheirTable
    ExportsWithinRights
    RestoresWhatItTold
    ChangesOnlyWhatIsEdited
    OwnSchedulesSurviveEditing
CHECK_DEADLOCK FALSE
