SPECIFICATION Spec
CONSTANTS
    a = a
    b = b
    Element <- MCElement
    MaxChanges = 3
    MaxEnables = 2
    MaxGI = 1
CHECK_DEADLOCK FALSE
INVARIANT BufferedValueTaken
