---------------------------------- MODULE Pe ----------------------------------
(***************************************************************************)
(* internal/uki: where AssembleNative puts the sections of a UKI, in the   *)
(* file and in memory.  It takes the sections of systemd's stub and adds   *)
(* the files it is given.  A section is its address, its virtual size and  *)
(* its size in the file; that the stub's own are laid out as the PE format *)
(* demands is assumed of it (external).                                    *)
(***************************************************************************)
EXTENDS Naturals, Sequences, SequencesExt

CONSTANTS FileAlignment, SectionAlignment

ASSUME PeAssumption ==
  /\ FileAlignment \in Nat /\ FileAlignment > 0 /\ FileAlignment % 8 = 0
  /\ SectionAlignment \in Nat /\ SectionAlignment > 0

\* (n + (a - 1)) &^ (a - 1), for a power of two.
AlignUp(n, a) == ((n + a - 1) \div a) * a

\* DOS header and its padding, "PE\0\0", file header, optional header, sections.
DosHeaders == 128
HeadersEnd(n) == DosHeaders + 4 + 20 + 240 + 40 * n

WithoutDosHeaders(n) == AlignUp(20 + 240 + 40 * n, FileAlignment)

\* The code leaves out the four bytes of the signature.
SizeOfHeaders(n) == AlignUp(DosHeaders + 20 + 240 + 40 * n, FileAlignment)

Behind(section) == AlignUp(section.address + section.virtual, SectionAlignment)

\* The files are added one behind the other.
Append1(sections, file) ==
  Append(sections,
    [address |-> Behind(Last(sections)), virtual |-> file, size |-> AlignUp(file, FileAlignment)])

Sections(stub, files) ==
  LET added[i \in 0..Len(files)] ==
        IF i = 0 THEN stub ELSE Append1(added[i - 1], files[i])
  IN  added[Len(files)]

\* sectionOffset, in the order of the sections.
Pointer(sections) ==
  LET at[i \in DOMAIN sections] ==
        IF i = 1 THEN SizeOfHeaders(Len(sections)) ELSE at[i - 1] + sections[i - 1].size
  IN  at

SizeOfImage(sections) == Behind(Last(sections))

-------------------------------------------------------------------------------
\* What a loader of PE files relies on: headers and sections do not overlap in
\* the file, nor the sections in memory, everything is aligned, and no file is
\* longer in memory than what is loaded of it.
Ordered(begin, end) ==
  \A i, j \in DOMAIN begin : i < j => end[i] <= begin[j]

InFile(sections) ==
  LET begin == Pointer(sections)
      end   == [i \in DOMAIN sections |-> begin[i] + sections[i].size]
  IN  /\ HeadersEnd(Len(sections)) <= begin[1]
      /\ Ordered(begin, end)
      /\ \A i \in DOMAIN begin : begin[i] % FileAlignment = 0

InMemory(sections) ==
  LET begin == [i \in DOMAIN sections |-> sections[i].address]
      end   == [i \in DOMAIN sections |-> sections[i].address + sections[i].virtual]
  IN  /\ Ordered(begin, end)
      /\ \A i \in DOMAIN sections :
           begin[i] % SectionAlignment = 0 /\ end[i] <= SizeOfImage(sections)
      /\ SizeOfImage(sections) % SectionAlignment = 0

===============================================================================
