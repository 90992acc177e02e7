SPECIFICATION Spec
CONSTANT MaxFrames = 5
INVARIANT LookBackIsExact
