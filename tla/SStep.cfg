SPECIFICATION SStepSpec
CONSTANTS
  MaxInsns = 20
  Signals = {"SIGSEGV"}
INVARIANT NothingUnstepped
PROPERTY StepperEnds
