SPECIFICATION Spec
CONSTANT Markets = {m1, m2, m3}
INVARIANT TypeOK
PROPERTIES VerifiedMeansFlat FailedStaysArmed
SYMMETRY Symmetry
