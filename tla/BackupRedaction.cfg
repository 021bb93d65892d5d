\* Every document of MCRedaction, any number of redactions.
CONSTANTS
    Names <- MCNames
    TopSecrets = {"uuid"}
    TopText = {"addonName"}
    Suspicious = {"apiToken", "credentials"}
    FreeText = {"script"}
    Sensitive = {"apiToken", "credentials"}
    Index = Index
    Documents <- MCDocuments
    NoFile = NoFile
SPECIFICATION Spec
INVARIANTS TypeOK ShapeKept NothingLeftToMask CollectionRedacted
PROPERTY RedactedOnce
