------------------------------ MODULE Allocator ------------------------------
(***************************************************************************)
(* The size-class arithmetic of memory/allocator.hpp: SizeClass::          *)
(* get_size_class and ThreadCache::get_index, as operators over size_t     *)
(* kept to Width bits, which hold every size in Sizes with its rounding.   *)
(* Allocator::allocate passes get_size_class(size) to ThreadCache::        *)
(* allocate, which applies get_size_class again and indexes free_lists_    *)
(* with get_index; ThreadCache::deallocate does the same with the size it  *)
(* is given.                                                               *)
(***************************************************************************)
EXTENDS Naturals, Bitwise

CONSTANTS
  Sizes,   \* the sizes passed to allocate and deallocate
  Width    \* bits of size_t kept

TINY_MAX == 256
SMALL_MAX == 4096
MEDIUM_MAX == 65536
NUM_SIZE_CLASSES == 32

ASSUME \A s \in Sizes : s + 4095 < 2^Width

\* ~m of a size_t.
Compl(m) == 2^Width - 1 - m

\* Mutant: the tiny band rounds with + 16.
GetSizeClassPlus16(size) ==
  CASE size <= TINY_MAX   -> (size + 16) & Compl(15)
    [] size <= SMALL_MAX  -> (size + 127) & Compl(127)
    [] size <= MEDIUM_MAX -> (size + 4095) & Compl(4095)
    [] OTHER              -> size

\* SizeClass::get_size_class.
GetSizeClass(size) ==
  CASE size <= TINY_MAX   -> (size + 15) & Compl(15)
    [] size <= SMALL_MAX  -> (size + 127) & Compl(127)
    [] size <= MEDIUM_MAX -> (size + 4095) & Compl(4095)
    [] OTHER              -> size

\* ThreadCache::get_index: (size_class / 16) - 1 in size_t.
GetIndex(sizeClass) == (sizeClass \div 16 + 2^Width - 1) % 2^Width

\* Reference: the least multiple of the band's granule that holds size.
Granule(size) ==
  CASE size <= TINY_MAX -> 16 [] size <= SMALL_MAX -> 128
    [] size <= MEDIUM_MAX -> 4096 [] OTHER -> 1
RoundUp(size) == LET g == Granule(size) IN ((size + g - 1) \div g) * g

-----------------------------------------------------------------------------
(* Properties                                                              *)

\* get_size_class returns the least multiple of its band's granule that
\* holds the size, and applying it again changes nothing: Allocator::
\* allocate and ThreadCache::allocate both apply it, and deallocate applies
\* it to the size alone, so all three must name the same free list.
SizeClassCorrect ==
  \A s \in Sizes :
    /\ GetSizeClass(s) = RoundUp(s)
    /\ GetSizeClass(GetSizeClass(s)) = GetSizeClass(s)

\* Every size the thread cache serves (up to MEDIUM_MAX) indexes one of the
\* NUM_SIZE_CLASSES free lists.  It does not hold: size 0 gives class 0 and
\* index SIZE_MAX, and a size above 512 gives an index above 31.
IndexInRange ==
  \A s \in Sizes : s <= MEDIUM_MAX => GetIndex(GetSizeClass(s)) < NUM_SIZE_CLASSES
=============================================================================
