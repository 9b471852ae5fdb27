SPECIFICATION SearchSpec
CONSTANTS
    Reports <- McReports
    Deployments <- McDeployments
    Tenants <- McTenants
    Older <- McOlder
    MaxSaves = 2
    MaxOutages = 1
PROPERTY RecognizesItself
PROPERTY SkippedIsStored
CHECK_DEADLOCK FALSE
