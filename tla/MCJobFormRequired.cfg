CONSTANTS
    None = "None"
    CustomExpression = "CustomExpression"
    Types = {"None", "CustomExpression", "Trim"}
    NeedParameter = {"CustomExpression"}
    Blank = ""
    Texts = {"", "code"}
    Nodes = {n1, n2}
    NoNode = NoNode
    NoClosure = NoClosure
    NoEditor = NoEditor
    MaxRows = 1
SPECIFICATION Spec
INVARIANT
    RequiredIsStored
