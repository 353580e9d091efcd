---------------------------- MODULE BrickSizing ----------------------------
(***************************************************************************)
(* The arithmetic of brick sizes: from the size a client asks for to the   *)
(* number and size of bricks (BrickSizeGenerator), and from the size of a  *)
(* brick to the space its thin pool takes on a device (NewBrickEntry). All *)
(* sizes are unsigned numbers of Width bits that count kilobytes; a        *)
(* request is a number of GB.                                              *)
(*                                                                         *)
(* A snapshot factor is a number of FactorUnits: a float32 is an integer   *)
(* times a power of two. float64 holds the products exactly as long as     *)
(* they have at most 53 bits, and the conversion back cuts off the rest.   *)
(***************************************************************************)
EXTENDS Naturals

CONSTANTS
  Width,            \* bits of an unsigned number
  GB,               \* kilobytes in the unit of a request
  BrickMinSize, BrickMaxSize,
  Data,             \* data bricks per set, 1 unless dispersed
  ExtentSize,       \* of the volume groups
  MetadataShare,    \* a pool has one part in so many of metadata
  MaxPoolMetadata,
  FactorUnit

ASSUME BrickSizingAssumption ==
  /\ {Width, GB, Data, ExtentSize, MetadataShare, FactorUnit} \subseteq Nat \ {0}
  /\ {BrickMinSize, BrickMaxSize, MaxPoolMetadata} \subseteq Nat
  /\ 0 < BrickMinSize /\ BrickMinSize <= BrickMaxSize

Unsigned(n) == n % 2^Width

(* uint64(gbsize) * GB.                                                    *)
RequestSize(gbsize) == Unsigned(gbsize * GB)

-----------------------------------------------------------------------------
(* BrickSizeGenerator                                                      *)

(* Mutant: the number of sets is counted twice.                            *)
BrickSizeOfHalf(size, sets) == (size \div (2 * sets)) \div Data

BrickSize(size, sets) == (size \div sets) \div Data

(* Mutant: the generator starts over every time.                           *)
SetsOfFirstTry(sets, size) ==
  IF BrickSize(size, 2) < BrickMinSize THEN 0 ELSE 2

(* The number of sets doubles until a brick is not too large any more; 0   *)
(* when it is too small then. Width doublings bring any size down to 0.    *)
NextSets(sets, size) ==
  LET tries == {sets * 2^j : j \in 1..Width}
      k     == CHOOSE k \in tries :
                 /\ BrickSize(size, k) <= BrickMaxSize
                 /\ \A i \in tries : i < k => BrickSize(size, i) > BrickMaxSize
  IN  IF BrickSize(size, k) < BrickMinSize THEN 0 ELSE k

-----------------------------------------------------------------------------
(* DeviceEntry.NewBrickEntry                                               *)

(* Mutant: sizes are not rounded up.                                       *)
NotAligned(n) == n

(* Rounded up to whole extents.                                            *)
Aligned(n) ==
  IF n % ExtentSize = 0 THEN n ELSE Unsigned(n + ExtentSize - (n % ExtentSize))

(* The thin pool of a brick.                                               *)
TpSize(amount, factor) == Aligned(Unsigned((amount * factor) \div FactorUnit))

(* poolMetadataSize, and its alignment.                                    *)
PoolMetadataSize(tpsize) ==
  LET p == tpsize \div MetadataShare
  IN  Aligned(IF p > MaxPoolMetadata THEN MaxPoolMetadata ELSE p)
=============================================================================
