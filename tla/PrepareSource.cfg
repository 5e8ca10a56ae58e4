SPECIFICATION MCSpec
CONSTANTS
    Managed <- MCManaged
    Upstream = {"upstream.js", "template.html"}
    Untouched = {"template.html"}
    Migrated = {"upstream.js"}
    MaxEdited = 1
    Releases = {r3, r4}
    Texts = {old, new}
    Versions = {1, 2}
    Histories <- MCHistories
    MaxChanges = 2
SYMMETRY Symmetry
INVARIANTS
    AllOrNothing
    SuccessIsComplete
    UnknownEditsSurvive
    PackageIsCurrent
    CatalogIsSound
PROPERTIES
    RerunIsAccepted
