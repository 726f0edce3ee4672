SPECIFICATION Spec
CONSTANT Kernels <- MCKernels
INVARIANT LoweredRight
PROPERTY KernelsReturn
