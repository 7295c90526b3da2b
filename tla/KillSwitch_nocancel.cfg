SPECIFICATION Spec
CONSTANT Markets = {m1, m2}
INVARIANT CancelTakes
SYMMETRY Symmetry
