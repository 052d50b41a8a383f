CONSTANTS
    ch1 = ch1
    ch2 = ch2
    ch3 = ch3
    fd1 = fd1
    fd2 = fd2
    fd3 = fd3
    Channels = {ch1, ch2, ch3}
    Fds = {fd1, fd2, fd3}
    None = None
SPECIFICATION Spec
SYMMETRY Symmetry
INVARIANTS TypeOK KernelAgrees NoDanglingPointer RecordsAgree
CHECK_DEADLOCK FALSE
