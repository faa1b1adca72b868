------------------------------- MODULE MCInstall -------------------------------
(***************************************************************************)
(* Install on a disk that CheckMinimumSize refuses, on the smallest it     *)
(* lets pass and on the smallest that DATA fits on; and the load options   *)
(* of module LoadOption on bounded strings and numbers.                    *)
(***************************************************************************)
EXTENDS Install, LoadOption

MCSizes == {MinimumDiskSize - 1, MinimumDiskSize, Taken + xfsMinSize}

Guid    == [i \in 1..16 |-> 16 * i - 1]
Strings == BoundedSeq({1, 92, 256, 65535}, 2)
Places  == {<<1, 1>>, <<2048, 657407>>, <<255, 16777216>>}
Label   == <<1, 256>>

\* What is written can be read back: the firmware finds in a load option the
\* partition and the file it was made for, and findByLabel its label
\* (efi.go:148-160).
OptionReadsBack ==
  \A label, file \in Strings, part \in {1, 256}, place \in Places :
    LET b == buildLoadOption(label, part, Guid, place[1], place[2], file)
        boot == Booted(b)
    IN  /\ Bootable(b)
        /\ boot.part = part /\ boot.file = file /\ boot.format = <<2, 2>>
        /\ boot.first = place[1] /\ boot.first + boot.size - 1 = place[2]
        \* the first three fields of a GUID are numbers, the rest are bytes
        /\ Reverse(SubSeq(boot.guid, 1, 4)) = SubSeq(Guid, 1, 4)
        /\ Reverse(SubSeq(boot.guid, 5, 6)) = SubSeq(Guid, 5, 6)
        /\ Reverse(SubSeq(boot.guid, 7, 8)) = SubSeq(Guid, 7, 8)
        /\ SubSeq(boot.guid, 9, 16) = SubSeq(Guid, 9, 16)
        /\ Unmarshal(b).Attributes = 1 /\ Unmarshal(b).Description = label

\* Whatever bytes somebody else's entry has, it is taken for ours only if its
\* description is our label and nothing more (efi.go:330-334).
OnlyOursMatches ==
  \A rest \in BoundedSeq({0, 1}, 7) :
    LET b == LE(1, 6) \o rest
    IN  Decodes(b) /\ Unmarshal(b).Description = Label
          <=> IsPrefix(MarshalUtf16Var(Label), rest)

OrderReadsBack == \A o \in BoundedSeq({0, 1, 256, 65534}, 3) : bootOrder(OrderBytes(o)) = o

BytesReadBack == OptionReadsBack /\ OnlyOursMatches /\ OrderReadsBack

\* After EnsureBootEntry has written an entry and BootOrder, whatever their values,
\* the firmware and the next install read back what was meant.
LoadOptionReadsBack == ensure = "done" => BytesReadBack

===============================================================================
