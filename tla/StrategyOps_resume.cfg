SPECIFICATION Spec
CONSTANTS
    Inst = {i1}
    Sid = {s1, s2, s3}
    None = None
    Mishaps = {"slow"}
    MaxMishaps = 1
    Commands = {"create", "runtime", "verify", "close"}
    ByTheBook = TRUE
PROPERTY CreateResumes
