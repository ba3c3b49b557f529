CONSTANTS
    r1 = r1
    r2 = r2
    n1 = n1
    n2 = n2
    q1 = q1
    a = a
    b = b
    NoNode = NoNode
    Idle = Idle
    RackIds = {r1, r2}
    NodeIds = {n1, n2}
    Requests = {q1}
    Names = {a, b}
    MaxHeight = 3
    RackLimit = 2
    DeviceLimit = 2
    Serial = TRUE
    TemplateIds = {"blade", "server"}
    TemplateHeight <- MCTemplateHeight
    TemplateDepth <- MCTemplateDepth
SYMMETRY Symmetry
SPECIFICATION Spec
INVARIANTS FitsRack NoSharedStart NamesUnique
PROPERTIES ImplementsRegistry
