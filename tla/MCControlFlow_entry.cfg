\* A loop whose body starts with a construct that control passes by.
SPECIFICATION Spec
CONSTANT Programs <- BlindBodies
INVARIANT LoopBackToBodyEntry
