SPECIFICATION Spec
CONSTANTS
    MaxOut = 3
    UpIds = {"a", "b"}
    Typed <- MCTyped
    UpScenarios <- MCUpScenarios
    Upstreams <- MCUpstreams
    GroupIds = {"g", "h"}
    GroupEntries <- MCGroupEntries
    GroupNames = {"n2", " "}
    Referenced = {"b", "h"}
    OtherFilters <- MCOtherFilters
    GroupScenarios <- MCGroupScenarios
    KeyIds = {"k", "l"}
    KeyGroups <- MCKeyGroups
    KeyEntries <- MCKeyEntries
    KeyTyped <- MCKeyTyped
    OtherLists <- MCOtherLists
    KeyScenarios <- MCKeyScenarios
INVARIANTS WarnedBeforeLoss OwnDialog PanelsDescribe FormBelongsToRow HeldWhileOut CatalogueIsThisDialogs NoSilentOverwrite ConfirmAsked RulesReadAlike
CHECK_DEADLOCK FALSE
