SPECIFICATION Spec
CONSTANTS
    HeadLen = 2
    MaxFileLen = 4
    BufSize = 3
    Window = 3
INVARIANT RecvFileSucceed
