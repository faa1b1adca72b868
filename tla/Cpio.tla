--------------------------------- MODULE Cpio ---------------------------------
(***************************************************************************)
(* internal/initramfs: where WriteCPIO puts things in a newc archive, and  *)
(* where the kernel looks for them.  An entry is the length of its name,   *)
(* the size Lstat gives and the number of bytes io.Copy finds in it later: *)
(* the same for a directory (0) and a symbolic link.  Sizes are written in *)
(* fields of 32 bits.                                                      *)
(***************************************************************************)
EXTENDS Naturals, Sequences

CONSTANT Uint32   \* 2^32, or a smaller multiple of 4 in its place

ASSUME CpioAssumption == Uint32 \in Nat \ {0} /\ Uint32 % 4 = 0

HeaderLength == 6 + 13 * 8

Trailer == [name |-> 10, size |-> 0, copied |-> 0]

\* The two fields of an entry's header that say where it ends.
NameSize(e) == e.name + 1
FileSize(e) == e.size % Uint32

\* writeHeader and writeEntry count the padding from the beginning of the entry.
PadToFour(n) == (4 - (n % 4)) % 4

DataOffsetNameOnly(e) == HeaderLength + NameSize(e) + PadToFour(NameSize(e))

DataOffset(e) ==
  HeaderLength + NameSize(e) + PadToFour((HeaderLength + NameSize(e)) % Uint32)

EntryLength(e) == DataOffset(e) + e.copied + PadToFour(FileSize(e))

\* "file size changed while archiving".
Accepted(e) == e.copied % Uint32 = FileSize(e)

\* Where the header of each entry of a list is in the archive.
Offset(entries) ==
  LET at[i \in DOMAIN entries] ==
        IF i = 1 THEN 0 ELSE at[i - 1] + EntryLength(entries[i - 1])
  IN  at

-------------------------------------------------------------------------------
(***************************************************************************)
(* init/initramfs.c of the kernel: from the header at an offset it knows   *)
(* the beginning of the data and of the next header, both aligned in the   *)
(* archive.                                                                *)
(***************************************************************************)
Aligned(n) == ((n + 3) \div 4) * 4
DataAt(o, e) == Aligned(o + HeaderLength + NameSize(e))
NextAt(o, e) == Aligned(DataAt(o, e) + FileSize(e))

\* It finds every header, and behind it the data.
Unpacks(entries) ==
  LET o == Offset(entries)
  IN  \A i \in DOMAIN entries :
        /\ DataAt(o[i], entries[i]) = o[i] + DataOffset(entries[i])
        /\ i < Len(entries) => NextAt(o[i], entries[i]) = o[i + 1]

===============================================================================
