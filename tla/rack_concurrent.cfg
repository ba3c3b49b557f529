CONSTANTS
    r1 = r1
    r2 = r2
    n1 = n1
    n2 = n2
    n3 = n3
    q1 = q1
    q2 = q2
    a = a
    NoNode = NoNode
    Idle = Idle
    RackIds = {r1, r2}
    NodeIds = {n1, n2, n3}
    Requests = {q1, q2}
    Names = {a}
    MaxHeight = 2
    RackLimit = 1
    DeviceLimit = 1
    Serial = FALSE
    TemplateIds = {"blade"}
    TemplateHeight <- MCTemplateHeight
    TemplateDepth <- MCTemplateDepth
SYMMETRY Symmetry
SPECIFICATION Spec
INVARIANTS TypeOK ReferencesHold LicenceRespected
PROPERTIES ChangesAnnounced
