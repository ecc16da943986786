\* Capacities on both sides of the 512 KiB threshold (4096 slots of 128 bytes).
CONSTANTS
  Capacities = {2, 1024, 4096, 8192}
  SizeWidth = 16
  DefinedMacros = {"__cpp_lib_hardware_interference_size"}
  hardware_destructive_interference_size = 64
SPECIFICATION Spec
INVARIANT HeapExactlyWhenLarge
