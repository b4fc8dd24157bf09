SPECIFICATION FairSpec
CONSTANTS
    Specs <- ThreeVersions
    Manifest <- Services
    MaxVersions = 2
    Limit <- TwoEditsFault
PROPERTIES PluginsConverge
