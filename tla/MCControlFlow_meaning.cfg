\* Constructs in contexts of two constructs.
SPECIFICATION Spec
CONSTANT Programs <- OrdinaryPrograms
INVARIANT GraphIsMeaning
