SPECIFICATION Spec
CONSTANTS
    RbLen = 4
    Bytes = {0, 1}
    MaxReq = 5
PROPERTIES IsFifo
