CONSTANTS
    Versions <- MCVersions
    FactoryVer = 1
    Settings <- MCSettings
SPECIFICATION FairSpec
INVARIANTS NeverBricked RunsNewestAccepted LoaderIntact OneNewerIfRetired
PROPERTIES BootsEventually UpgradeDecided
