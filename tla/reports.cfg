SPECIFICATION Spec
CONSTANTS
    Containers = {"web", "api"}
    Images = {"v1", "v2"}
    Scanners = {"trivy", "grype"}
    Shown = "web"
    First = "v1"
    Global = "trivy"
    Staging = "trivy"
    Questions = {1, 2}
    Scenarios <- MCScenarios
INVARIANTS TypeOK NoFalseAllClear ShownIsAsked AlertsNotLost
PROPERTIES ScanEnds EveryImageScanned
CHECK_DEADLOCK FALSE
