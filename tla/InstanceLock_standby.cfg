\* Two run.sh loops, the second one the automatic standby of ARCHITECTURE.md.
SPECIFICATION Spec
CONSTANTS
    loop1 = loop1
    loop2 = loop2
    Loops <- TwoLoops
    MaxFiles = 2
INVARIANT
    OneInstance
CHECK_DEADLOCK FALSE
