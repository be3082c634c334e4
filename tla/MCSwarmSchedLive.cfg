\* Two peers that withdraw and give their authorization.
SPECIFICATION FairSpec
CONSTANTS
    Full = {f1, f2}
    Ecnx = {}
    NbBlock <- OneTwo
    ReqNbMax = 2
    Wanted = {}
    DoPiecehash = TRUE
    Adversity = {"unauth"}
PROPERTIES
    Progress
