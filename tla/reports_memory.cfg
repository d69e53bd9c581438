SPECIFICATION Spec
CONSTANTS
    Containers = {"web", "api"}
    Images = {"v1", "v2"}
    Scanners = {"trivy", "grype"}
    Shown = "web"
    First = "v1"
    Global = "trivy"
    Staging = "trivy"
    Questions = {1, 2}
    Scenarios <- MCMemory
PROPERTY PurgedIsGone
CHECK_DEADLOCK FALSE
