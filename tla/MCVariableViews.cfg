CONSTANTS
    Beyond = 2
    Variables <- MCVariables
    Objects <- MCObjects
    Initial <- MCInitial
    Imported <- MCImported
    Bindable <- MCBindable
    Changed <- MCChanged
    Promised = {"vector"}
    Texts = {"a", "c"}
    Numbers = {0, 7}
    MaxSteps = 3
SPECIFICATION VSpec
INVARIANTS VTypeOK ViewsFollowVariables CellsInside EachElementOnce
PROPERTIES EditIsExact
