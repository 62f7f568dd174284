SPECIFICATION RegistrySpec
CONSTANTS
    Catalogs <- SmallCatalogs
    ProviderSets <- SmallProviderSets
    Calls <- SmallCalls
INVARIANTS
    PrivacyFailsClosed
    PremiumLast
    NobodyForgotten
PROPERTIES
    TighteningOnlyRemoves
CHECK_DEADLOCK FALSE
