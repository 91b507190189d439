SPECIFICATION Spec
CONSTANTS
    GroupNames <- MCGroups
    Users <- MCUsers
    Lists <- MCLists
    ServiceNames <- MCServices
    Keys <- MCKeys
    Values <- MCValues
    Checksums <- MCChecksums
    BadChecksums <- MCBadChecksums
    Transactions <- MCTransactions
    Patches <- MCPatches
    Resolves <- MCResolves
    ForeignFiles <- MCForeignFiles
    MaxEdits = 2
    Missing = Missing
    Broken = Broken
    Nil = Nil
    None = None
PROPERTY ReloadPublishesValidFile
