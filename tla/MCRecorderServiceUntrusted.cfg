CONSTANTS
    o1 = o1
    o2 = o2
    Unused = Unused
    MaxVersion = 2
    Options = {o1}
SPECIFICATION Spec
PROPERTIES CompletedIsTrusted
