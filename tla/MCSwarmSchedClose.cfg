\* Two peers, either of which may close its connection.
SPECIFICATION FairSpec
CONSTANTS
    Full = {f1, f2}
    Ecnx = {}
    NbBlock <- OneTwo
    ReqNbMax = 2
    Wanted = {}
    DoPiecehash = TRUE
    Adversity = {"close"}
PROPERTIES
    Progress
