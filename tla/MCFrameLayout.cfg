SPECIFICATION LayoutSpec
CONSTANT Functions <- MCFunctions
CHECK_DEADLOCK FALSE
INVARIANTS LayoutTyped LayoutSound SlotsAreThePushes OffsetsAligned
