SPECIFICATION Spec
CONSTANTS
    Specs <- DistinctSpecs
    Manifest <- Services
    MaxVersions = 2
    Limit <- Calm
INVARIANTS PluginStatusTruthful
