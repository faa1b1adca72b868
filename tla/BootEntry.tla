------------------------------- MODULE BootEntry -------------------------------
(***************************************************************************)
(* internal/efi: EnsureBootEntry on the firmware's NVRAM, a Boot####       *)
(* variable per entry and the list BootOrder.  Each variable is written    *)
(* atomically by the firmware; the machine may stop between two writes.    *)
(***************************************************************************)
EXTENDS Naturals, Sequences, SequencesExt, FiniteSetsExt, SeqWithout

CONSTANTS
  Num,      \* the numbers firstFreeNum tries, 0 up to 0xFFFE
  Target,   \* the partition GUIDs an entry labelled "invarios" can point at
  Vendor,   \* an entry that is not ours, or cannot be decoded
  Missing,  \* no such variable
  None

VARIABLES
  entry,    \* the Boot#### variables
  order,    \* BootOrder; << >> also stands for a BootOrder that does not exist
  ensure,   \* where EnsureBootEntry is
  seen,     \* the order it read
  unread,   \* the listed entries of ours that it could not read
  num,      \* the number it chose
  target    \* the partition its entry is to point at

nvram   == <<entry, order>>
locals  == <<ensure, seen, unread, num, target>>
vars    == <<nvram, locals>>

Orders(k) == {o \in BoundedSeq(Num, k) : IsInjective(o)}

TypeOK ==
  /\ entry \in [Num -> Target \cup {Vendor, Missing}]
  /\ order \in Orders(Cardinality(Num))
  /\ ensure \in {"idle", "write", "order", "done", "failed"}
  /\ seen \in Orders(Cardinality(Num))
  /\ unread \in SUBSET Num
  /\ num \in Num \cup {None}
  /\ target \in Target \cup {None}

NotCalled == ensure = "idle" /\ seen = <<>> /\ unread = {} /\ num = None /\ target = None

\* NVRAM as a vendor ships it: entries it lists, entries it does not list, and
\* numbers it lists whose entry is gone.
Init ==
  /\ entry \in [Num -> {Vendor, Missing}]
  /\ order \in Orders(2)
  /\ NotCalled

Ours(n) == entry[n] \in Target

-------------------------------------------------------------------------------
OursListed == {n \in ToSet(order) : Ours(n)}

LabelledNever(o, u) == {}

\* findByLabel looks only at the numbers in the order it is given, and skips an
\* entry that it cannot read, u, even if it is ours.
Labelled(o, u) == {i \in DOMAIN o : Ours(o[i]) /\ o[i] \notin u}

FreeIgnoringEntries(o) == Num \ ToSet(o)

\* firstFreeNum: neither listed nor present.
Free(o) == {n \in Num : entry[n] = Missing} \ ToSet(o)

\* getBootOrder, findByLabel, firstFreeNum: they only read.
Choose(t, u) ==
  /\ ensure = "idle"
  /\ target' = t /\ seen' = order /\ unread' = u
  /\ \/ /\ Labelled(order, u) # {}
        /\ num' = order[Min(Labelled(order, u))] /\ ensure' = "write"
     \/ /\ Labelled(order, u) = {} /\ Free(order) # {}
        /\ num' = Min(Free(order)) /\ ensure' = "write"
     \/ /\ Labelled(order, u) = {} /\ Free(order) = {}
        /\ ensure' = "failed" /\ UNCHANGED num
  /\ UNCHANGED nvram

WriteEntry ==
  /\ ensure = "write"
  /\ entry' = [entry EXCEPT ![num] = target]
  /\ ensure' = "order"
  /\ UNCHANGED <<order, seen, unread, num, target>>

NewOrder == <<num>> \o Without(seen, {num})

WriteOrder ==
  /\ ensure = "order"
  /\ order' = NewOrder
  /\ ensure' = "done"
  /\ UNCHANGED <<entry, seen, unread, num, target>>

\* BootOrder that cannot be read, a number that cannot be probed, or a variable
\* that cannot be written; an entry that cannot be read does not end the call.
Fails ==
  /\ ensure \in {"idle", "write", "order"}
  /\ ensure' = "failed"
  /\ UNCHANGED <<nvram, seen, unread, num, target>>

\* The call returns, or the machine stops in the middle of it.
Return ==
  /\ ensure # "idle"
  /\ ensure' = "idle" /\ seen' = <<>> /\ unread' = {} /\ num' = None /\ target' = None
  /\ UNCHANGED nvram

Next ==
  \/ \E t \in Target, u \in SUBSET OursListed : Choose(t, u)
  \/ WriteEntry \/ WriteOrder \/ Fails \/ Return

Spec == Init /\ [][Next]_vars

-------------------------------------------------------------------------------
\* What belongs to others stays: no entry of theirs is ever overwritten, listed
\* in BootOrder or not (efi.go:353-360), and BootOrder lists the same numbers
\* besides ours, in the same order, even one whose entry is gone
\* (efi.go:266-273, 432-436).
Foreign(o) == Without(o, {n \in Num : Ours(n)})
VendorsUntouched ==
  [][/\ \A n \in Num : entry[n] = Vendor => entry'[n] = Vendor
     /\ Foreign(order)' = Foreign(order)]_vars

\* Success means the firmware boots us first, from the partition asked for, and
\* BootOrder repeats no number.  However often the call was interrupted before, the
\* one number of ours that joins those that BootOrder lists does so only when it lists
\* none, or none that could be read (efi.go:341-343): an earlier installation's entry is otherwise
\* written over and not something the firmware falls back to (efi.go:326-329, 413-436).
OursFirstOnce ==
  [][/\ ensure' = "done" => order' # <<>> /\ Head(order') = num' /\ entry'[num'] = target'
     /\ IsInjective(order')
     /\ \/ OursListed' \subseteq OursListed
        \/ OursListed \subseteq unread /\ OursListed' \subseteq OursListed \cup {num}]_vars

===============================================================================
