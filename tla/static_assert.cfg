\* Every capacity from 0 to 9, in a std::size_t narrowed to 16 bits (the
\* test only looks at N & (N - 1), whose low bits do not depend on the width).
CONSTANTS
  Capacities = {0, 1, 2, 3, 4, 5, 6, 7, 8, 9}
  SizeWidth = 16
  DefinedMacros = {"__cpp_lib_hardware_interference_size"}
  hardware_destructive_interference_size = 64
SPECIFICATION Spec
INVARIANT PowerOfTwoEnforced
