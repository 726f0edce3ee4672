SPECIFICATION Spec
CONSTANTS
    Problems <- Sound
    Prompt <- Early
INVARIANTS OperandsArrived NoLdsRace EachProductOnce LayoutRight
PROPERTY KernelEnds
