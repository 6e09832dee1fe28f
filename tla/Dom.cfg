SPECIFICATION Spec
CONSTANTS
    None = None
    Document = Document
    a = a
    b = b
    s = s
    t = t
    x = x
    y = y
    Element = {a, b}
    Script = {s, t}
    Spare = {x, y}
    Veiled = {b}
    Page <- Pages
INVARIANTS
    HandlersKept
PROPERTIES
    EventsArrive
    DataKept
    LooksReturn
    ScriptsRunOnce
    QueuesRun
CHECK_DEADLOCK FALSE
