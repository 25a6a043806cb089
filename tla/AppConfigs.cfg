SPECIFICATION ConfigSpec
CONSTANTS
    t1 = t1
    t2 = t2
    t3 = t3
    t4 = t4
    Texts = {t1, t2, t3, t4}
    NoFile = NoFile
    Modes = {"dir", "file", "ssh-include"}
    Careful = TRUE
SYMMETRY Symmetry
INVARIANTS
    NothingLost
PROPERTIES
    LinkHasTarget
    LinksAgree
