SPECIFICATION FairSpec
CONSTANTS
    Specs <- UpgradeSpecs
    Manifest <- Services
    MaxVersions = 2
    Limit <- EditFaultCrash
INVARIANTS PluginTypeOK EnabledComplete PluginStatusTruthful
PROPERTIES UpgradeKeepsRunning PluginsConverge ImplementsPluginLifecycle
