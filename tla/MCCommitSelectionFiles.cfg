SPECIFICATION Spec
CONSTANTS
    s1 = s1
    s2 = s2
    s3 = s3
    f1 = f1
    f2 = f2
    Selection = {s1,s2,s3}
    Diffable = {s1,s2}
    File = {f1,f2}
    Files <- MCFiles
    MaxLoads = 3
    None = None
INVARIANT FilesAreOfSelection
CHECK_DEADLOCK FALSE
