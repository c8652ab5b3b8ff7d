SPECIFICATION ManifestSpec
CONSTANTS
    Lines <- MCLines
    Unchanged = 3
    BlockIds = {"A", "B"}
    Locators <- MCLocators
    Resolves <- MCResolves
    Elements = {"E-1", "E-2"}
    Marked = {"E-2"}
    Paths = {"p"}
    Cap = 4
INVARIANTS
    ToolIsAccepted
    IdentityBindsTable
CHECK_DEADLOCK FALSE
