CONSTANTS
    Nodes = {0, 1, 2, 3, 4}
    Marks = {m}
    Cramped = {3}
SPECIFICATION Spec
INVARIANTS Inv CurrentNodeInTree
PROPERTIES DeletesWhatIsShown DeletedNodesGo
