------------------------------ MODULE LoadOption ------------------------------
(***************************************************************************)
(* internal/efi: the bytes of the two firmware variables.  buildLoadOption *)
(* writes an EFI_LOAD_OPTION by hand, loadOptionHeader reads the beginning *)
(* of one that anybody may have written, bootOrder is the list of numbers. *)
(* Bytes are numbers below 256; a string is a sequence of UTF-16 units     *)
(* without surrogates.  Numbers stay below 2^31, so the upper half of a    *)
(* 64-bit field is zero.                                                   *)
(***************************************************************************)
EXTENDS Naturals, Sequences, SequencesExt, FiniteSetsExt

\* binary.Write and binary.Read, little-endian; bytes are counted from 0.
LE(n, width) == [i \in 1..width |-> IF i > 4 THEN 0 ELSE (n \div 256^(i-1)) % 256]
Byte(b, i) == b[i + 1]
Uint16(b, i) == Byte(b, i) + 256 * Byte(b, i + 1)
Uint32(b, i) == Uint16(b, i) + 65536 * Uint16(b, i + 2)
From(b, i) == SubSeq(b, i + 1, Len(b))

MarshalUtf16Var(s) == FlattenSeq([i \in DOMAIN s |-> LE(s[i], 2)]) \o LE(0, 2)

\* Between the byte order of the uuid package and the mixed one of UEFI.
swapGUIDEndian(g) ==
  <<g[4], g[3], g[2], g[1], g[6], g[5], g[8], g[7]>> \o SubSeq(g, 9, 16)

MediaPath == 4
EndPath   == 127

\* Partition number, start, size, signature, "GPT", "the signature is a GUID".
HardDriveOffByOne(part, guid, first, last) ==
  <<MediaPath, 1>> \o LE(42, 2) \o LE(part, 4) \o LE(first, 8) \o LE(last - first, 8)
    \o swapGUIDEndian(guid) \o <<2, 2>>

HardDriveNode(part, guid, first, last) ==
  <<MediaPath, 1>> \o LE(42, 2) \o LE(part, 4) \o LE(first, 8) \o LE(last - first + 1, 8)
    \o swapGUIDEndian(guid) \o <<2, 2>>

FilePathNode(path) ==
  LET bytes == MarshalUtf16Var(path)
  IN  <<MediaPath, 4>> \o LE(4 + Len(bytes), 2) \o bytes

EndNode == <<EndPath, 255>> \o LE(4, 2)

buildLoadOption(label, part, guid, first, last, path) ==
  LET devicePath == HardDriveNode(part, guid, first, last) \o FilePathNode(path) \o EndNode
  IN  LE(1, 4) \o LE(Len(devicePath), 2) \o MarshalUtf16Var(label) \o devicePath

\* The string ends at the first whole unit that is zero; without one it does
\* not decode.
Terminators(b) == {i \in 0 .. Len(b) \div 2 - 1 : Uint16(b, 2 * i) = 0}
decodeUTF16Z(b) == [i \in 1..Min(Terminators(b)) |-> Uint16(b, 2 * (i - 1))]

Decodes(b) == Len(b) >= 6 /\ Terminators(From(b, 6)) # {}

Unmarshal(b) ==
  [Attributes |-> Uint32(b, 0), FilePathListLength |-> Uint16(b, 4),
   Description |-> decodeUTF16Z(From(b, 6))]

OrderBytes(nums) == FlattenSeq([i \in DOMAIN nums |-> LE(nums[i], 2)])

\* Only of an even number of bytes.
bootOrder(b) == [i \in 1 .. Len(b) \div 2 |-> Uint16(b, 2 * (i - 1))]

-------------------------------------------------------------------------------
(***************************************************************************)
(* The firmware's side, from the UEFI specification (3.1.3 and 10.3): it   *)
(* finds the device path behind the description by its length, and walks   *)
(* it from node to node up to the end node.                                *)
(***************************************************************************)
Broken == [type |-> 0, data |-> <<>>]

Walk(path) ==
  LET nodes[o \in 0..Len(path)] ==
        IF Len(path) - o < 4 \/ ~Uint16(path, o + 2) \in 4 .. Len(path) - o
        THEN <<Broken>>
        ELSE LET next == o + Uint16(path, o + 2)
                 node == [type |-> Byte(path, o), data |-> SubSeq(path, o + 5, next)]
             IN  IF node.type = EndPath THEN <<node>> ELSE <<node>> \o nodes[next]
  IN  nodes[0]

PathOf(b) == Walk(From(b, Len(b) - Uint16(b, 4)))

\* A description, a partition and a file, and nothing left over.
Bootable(b) ==
  /\ Decodes(b) /\ Uint16(b, 4) < Len(b)
  /\ 6 + 2 * (Min(Terminators(From(b, 6))) + 1) = Len(b) - Uint16(b, 4)
  /\ [i \in DOMAIN PathOf(b) |-> PathOf(b)[i].type] = <<MediaPath, MediaPath, EndPath>>
  /\ Len(PathOf(b)[1].data) = 38

\* What the firmware boots from a load option.
Booted(b) ==
  LET disk == PathOf(b)[1].data
      file == PathOf(b)[2].data
  IN  [part |-> Uint32(disk, 0), first |-> Uint32(disk, 4), size |-> Uint32(disk, 12),
       guid |-> SubSeq(disk, 21, 36), format |-> SubSeq(disk, 37, 38),
       file |-> decodeUTF16Z(file)]

===============================================================================
