CONSTANT N = 3
SPECIFICATION FairSpec
INVARIANTS TypeOK ChangeExcludes OverlappedIsDirty IInv
PROPERTIES ImplementsSpec RetryEnds SomeChangeStarts
