-------------------------------- MODULE MCBuild --------------------------------
(***************************************************************************)
(* Builds one after the other, and the two formats a build writes by hand  *)
(* on bounded inputs.                                                      *)
(***************************************************************************)
EXTENDS Build, Cpio, Pe

Entries == [name : 1..4, size : 0..5, copied : 0..6]

\* The kernel finds every entry of an archive that WriteCPIO calls written, with
\* its data, although the padding is counted from the beginning of each entry,
\* and although a file may change between Lstat and Copy (cpio.go:195-200); for
\* files of less than 4 GiB.
EveryArchiveUnpacks ==
  \A a, b \in Entries :
    Accepted(a) /\ Accepted(b) /\ {a.size, a.copied, b.size, b.copied} \subseteq 0..Uint32-1
      => Unpacks(<<a, b, Trailer>>)

Stub(n) ==
  [i \in 1..n |-> [address |-> i * SectionAlignment,
                   virtual |-> (77 * i) % SectionAlignment, size |-> FileAlignment]]

Lengths == {0, 1, 511, 512, 513, 4096, 4097}

\* Every part of a UKI is loaded whole and on its own, whatever the sizes of the
\* files and the number of sections of the stub: the headers end before the first
\* section although SizeOfHeaders forgets the PE signature (native.go:166), and no
\* section reaches into the next one.
AllSectionsLoad ==
  \A n \in 1..16 : \A cmdline, osrel \in {1, 511, 512, 513} : \A initrd, linux \in Lengths :
    LET sections == Sections(Stub(n), <<cmdline, osrel, initrd, linux>>)
    IN  /\ InFile(sections) /\ InMemory(sections)
        /\ \A i \in n+1..n+4 : sections[i].virtual <= sections[i].size

\* The initramfs is readable by the kernel when a build goes on from writing it
\* (cpio.go:195-200).
ArchiveUnpacks == step = "uki" => EveryArchiveUnpacks

\* The UKI is loadable by the firmware when a build pushes it (native.go:154).
SectionsLoad == step = "push" => AllSectionsLoad

===============================================================================
