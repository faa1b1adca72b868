--------------------------------- MODULE Disk ---------------------------------
(***************************************************************************)
(* internal/disk: the sizes of the four partitions.  Sizes are in sectors  *)
(* of 512 bytes.  The GPT library is external: it keeps the head of the    *)
(* disk (the protective MBR, the table, and what aligning the first        *)
(* partition takes) and the copy of the table at the tail out of every     *)
(* partition.                                                              *)
(***************************************************************************)
EXTENDS Integers

CONSTANTS GptHead, GptTail

MiB == 2048

espSize    == 320 * MiB
metaSize   == 1 * MiB
stateSize  == 512 * MiB
xfsMinSize == 300 * MiB

MinimumDiskSize == espSize + metaSize + stateSize + xfsMinSize

\* Less than the least DATA, so that there is always something left for DATA.
ASSUME DiskAssumption ==
  GptHead \in Nat \ {0} /\ GptTail \in Nat \ {0} /\ GptHead + GptTail < xfsMinSize

TooSmall(size) == size < MinimumDiskSize

\* table.LargestContiguousAllocatable once the other three are in the new table.
Taken == GptHead + espSize + metaSize + stateSize + GptTail
DataSize(size) == size - Taken

\* mkfs.xfs refuses anything smaller.
DataFits(size) == DataSize(size) >= xfsMinSize

===============================================================================
