SPECIFICATION LiveSpec
CONSTANTS
    Databases = {"p"}
    Tabular = {"p"}
    MaxListCalls = 2
    NoDatabase = "none"
    DockerOrder <- OneContainer
    Kind <- AllSites
    Folders = {"Default", "f"}
    Default = "Default"
    MaxContainerCalls = 2
    NoContainer = "none"
    LogLines = {50, 100}
    DefaultLines = 100
    MaxDetailCalls = 3
    MaxUpdateCalls = 2
    CertDomains = {"a"}
    MaxCertCalls = 2
    NoCert = "none"
PROPERTIES
    ListCatchesUp
    CardsCatchUp
    LogsFollowTheChoice
    OutcomeIsShown
    ListShowsTheCertificates
CHECK_DEADLOCK FALSE
