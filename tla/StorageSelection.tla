--------------------------- MODULE StorageSelection ---------------------------
(***************************************************************************)
(* Where spsc_queue<T, N> keeps its slots (src/include/spsc_queue.h lines   *)
(* 9, 26-27, 210-232): storage_bytes = 2 * N * cacheLineSize, use_heap =    *)
(* storage_bytes > STACK_BYTES, and items_ is a queue_storage<AlignedData,  *)
(* N, use_heap>, whose specialisation for `true` is an inline std::array    *)
(* and for `false` a std::unique_ptr<U[]> from make_unique.                 *)
(*                                                                         *)
(* The choice is made once per instantiation, so the model's one variable  *)
(* is the capacity N of the instance under consideration.                  *)
(***************************************************************************)
EXTENDS Naturals, Bitwise

CONSTANTS
  Capacities,     \* the template arguments N to consider
  SizeWidth,      \* the width of std::size_t in bits
  DefinedMacros,  \* the feature-test macros the standard library defines
  hardware_destructive_interference_size  \* the platform's value

\* details::cacheLineSize (lines 15-19): the platform's interference size
\* when the macro the header tests is defined, 64 otherwise.  The header
\* tests _cpp_lib_hardware_interference_size, with one leading underscore.
cacheLineSize ==
  IF "_cpp_lib_hardware_interference_size" \in DefinedMacros
    THEN hardware_destructive_interference_size
    ELSE 64

\* mask_ = N - 1 (line 213) in std::size_t, which wraps for N = 0.
mask(N) == (N + 2^SizeWidth - 1) % 2^SizeWidth

\* static_assert((N & (N - 1)) == 0, "N must be a power of two") (line 25).
StaticAssert(N) == (N & mask(N)) = 0

VARIABLE n

\* constexpr std::size_t STACK_BYTES = 524'288 (line 9).
STACK_BYTES == 524288

\* storage_bytes: each AlignedData is alignas(2 * cacheLineSize) (line 211).
storage_bytes(N) == 2 * N * cacheLineSize

use_heap(N) == storage_bytes(N) > STACK_BYTES

\* The specialisation of queue_storage that items_ selects: <U, SIZE, true>
\* holds std::array<U, SIZE>, <U, SIZE, false> allocates with make_unique.
Placement(N) == IF use_heap(N) THEN "inline" ELSE "heap"

Init == n \in Capacities

Next == UNCHANGED n

Spec == Init /\ [][Next]_n

(* The slots go on the heap exactly when they take more than 512 KiB      *)
(* (spec section 4.1, README "Automatic stack allocation for small queues  *)
(* (<=512KB), heap for larger").                                           *)
HeapExactlyWhenLarge ==
  Placement(n) = "heap" <=> storage_bytes(n) > STACK_BYTES

(* The compile-time check accepts exactly the powers of two (spec section  *)
(* 7: an invalid capacity must be rejected at compile time).  A capacity   *)
(* it lets through that is not one gives a mask_ that does not wrap the    *)
(* indices into the ring: for N = 0, mask_ is SIZE_MAX and emplace writes  *)
(* items_[0] of an empty array.                                            *)
PowerOfTwoEnforced ==
  StaticAssert(n) <=> n \in {2^k : k \in 0..SizeWidth - 1}
=============================================================================
