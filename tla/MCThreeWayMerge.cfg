CONSTANTS
    Texts <- MCTexts
    Inputs <- MCInputs
    MaxEdits = 2
SPECIFICATION EditorSpec
INVARIANT MergeTakesAll
INVARIANT ResolutionsAreTrue
INVARIANT DriftFollowsText
INVARIANT TextIsDocument
CHECK_DEADLOCK FALSE
