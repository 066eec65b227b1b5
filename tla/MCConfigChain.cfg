\* Bundles that load and one that does not, at two paths.
CONSTANTS
    None = None
    MaxDurationMs = 1000000
    Names <- Words
    Documents <- SomeNames
    Content <- Some
    Paths = {"installed", "updated"}
SPECIFICATION Spec
INVARIANTS ProfileStays ChainWorks OnlyPlanned
