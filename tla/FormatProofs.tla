----------------------------- MODULE FormatProofs -----------------------------
(***************************************************************************)
(* What modules Disk and LoadOption compute, for all sizes, labels and     *)
(* files.                                                                  *)
(***************************************************************************)
EXTENDS MCInstall, SeqProofs

-------------------------------------------------------------------------------
(***************************************************************************)
(* internal/disk.                                                          *)
(***************************************************************************)

\* Partition's DATA can be formatted exactly from the size on that counts what the
\* table takes: MinimumDiskSize leaves it out (disk.go:63-67).
THEOREM DataFitsFrom ==
  ASSUME NEW n \in Nat
  PROVE  DataFits(n) <=> n >= MinimumDiskSize + GptHead + GptTail
BY DiskAssumption DEF DataFits, DataSize, Taken, MinimumDiskSize, MiB, espSize, metaSize,
   stateSize, xfsMinSize

\* Whatever the table takes, the smallest disk that CheckMinimumSize lets pass is
\* partitioned and then found to be too small by mkfs.xfs (disk.go:69-77).
THEOREM SmallestDiskFails ==
  ~TooSmall(MinimumDiskSize) /\ DataSize(MinimumDiskSize) > 0 /\ ~DataFits(MinimumDiskSize)
BY DiskAssumption DEF TooSmall, DataFits, DataSize, Taken, MinimumDiskSize, MiB, espSize,
   metaSize, stateSize, xfsMinSize

-------------------------------------------------------------------------------
(***************************************************************************)
(* internal/efi: the bytes of the two variables.  Numbers in little-endian *)
(* order, lists of 16-bit numbers, strings, the device path as the         *)
(* firmware walks it, and last the load option as a whole.                 *)
(***************************************************************************)

\* The unit of a string, and a number of 31 bits.
Char == {n \in Nat : n > 0 /\ n < 65536}
Word == {n \in Nat : n < 2147483648}

\* Four bytes make the number they were made of.
LEMMA Digits ==
  ASSUME NEW n \in Word
  PROVE  /\ n % 256 \in 0..255 /\ (n \div 256) % 256 \in 0..255
         /\ (n \div 65536) % 256 \in 0..255 /\ (n \div 16777216) % 256 \in 0..255
         /\ (n % 256) + 256 * ((n \div 256) % 256)
              + 65536 * (((n \div 65536) % 256) + 256 * ((n \div 16777216) % 256)) = n
         /\ n < 65536 => (n % 256) + 256 * ((n \div 256) % 256) = n
<1> DEFINE q1 == n \div 256
           r0 == n % 256
           q2 == q1 \div 256
           r1 == q1 % 256
           q3 == q2 \div 256
           r2 == q2 % 256
<1>1. n \in Nat /\ n < 2147483648
  BY SMT DEF Word
<1>2. q1 \in Nat /\ r0 \in 0..255 /\ n = 256 * q1 + r0
  BY <1>1
<1>3. q2 \in Nat /\ r1 \in 0..255 /\ q1 = 256 * q2 + r1
  <2> HIDE DEF q1
  <2> QED
    BY <1>2
<1>4. q3 \in Nat /\ r2 \in 0..255 /\ q2 = 256 * q3 + r2
  <2> HIDE DEF q2
  <2> QED
    BY <1>3
<1> HIDE DEF q1, q2, q3, r0, r1, r2
<1>5. n = 65536 * q2 + 256 * r1 + r0 /\ n = 16777216 * q3 + 65536 * r2 + 256 * r1 + r0
  BY SMT, <1>2, <1>3, <1>4
<1>6. n \div 65536 = q2
  BY SMT, <1>1, <1>2, <1>3, <1>5
<1>7. n \div 16777216 = q3
  BY SMT, <1>1, <1>2, <1>3, <1>4, <1>5
<1>8. q3 \in 0..255 /\ q3 % 256 = q3
  BY SMT, <1>1, <1>2, <1>3, <1>4, <1>5
<1>9. /\ r0 = n % 256 /\ r1 = (n \div 256) % 256
      /\ r2 = (n \div 65536) % 256 /\ q3 = (n \div 16777216) % 256
  BY SMT, <1>6, <1>7, <1>8 DEF r0, r1, r2, q1
<1>10. n < 65536 => r0 + 256 * r1 = n
  BY SMT, <1>2, <1>3, <1>4, <1>5
<1>11. r0 + 256 * r1 + 65536 * (r2 + 256 * q3) = n
  BY SMT, <1>2, <1>3, <1>4, <1>5
<1>12. r0 \in 0..255 /\ r1 \in 0..255 /\ r2 \in 0..255 /\ q3 \in 0..255
  BY <1>2, <1>3, <1>4, <1>8
<1> QED
  BY <1>9, <1>10, <1>11, <1>12

\* The bytes of a little-endian number.
LEMMA LEIs ==
  ASSUME NEW n \in Word, NEW w \in Nat
  PROVE  /\ LE(n, w) \in Seq(Nat) /\ Len(LE(n, w)) = w
         /\ w >= 1 => LE(n, w)[1] = n % 256
         /\ w >= 2 => LE(n, w)[2] = (n \div 256) % 256
         /\ w >= 4 => /\ LE(n, w)[3] = (n \div 65536) % 256
                      /\ LE(n, w)[4] = (n \div 16777216) % 256
<1> DEFINE digit(i) == IF i > 4 THEN 0 ELSE (n \div 256^(i-1)) % 256
<1>1. /\ digit(1) = n % 256 /\ digit(2) = (n \div 256) % 256
      /\ digit(3) = (n \div 65536) % 256 /\ digit(4) = (n \div 16777216) % 256
  <2>1. 256^(1-1) = 1 /\ 256^(2-1) = 256 /\ 256^(3-1) = 65536 /\ 256^(4-1) = 16777216
    BY SMT
  <2>2. n \div 1 = n
    BY SMT DEF Word
  <2> QED
    BY <2>1, <2>2
<1>2. \A i \in 1..w : digit(i) \in Nat
  <2> SUFFICES ASSUME NEW i \in 1..w PROVE digit(i) \in Nat
    OBVIOUS
  <2>1. i > 4 \/ i = 1 \/ i = 2 \/ i = 3 \/ i = 4
    OBVIOUS
  <2>2. i > 4 => digit(i) = 0
    OBVIOUS
  <2> HIDE DEF digit
  <2> QED
    BY <1>1, <2>1, <2>2, Digits
<1>3. LE(n, w) = [i \in 1..w |-> digit(i)]
  BY DEF LE
<1> HIDE DEF digit
<1>4. LE(n, w) \in Seq(Nat) /\ Len(LE(n, w)) = w /\ \A i \in 1..w : LE(n, w)[i] = digit(i)
  BY <1>2, <1>3
<1> QED
  BY <1>1, <1>4

\* Lists of pairs of bytes, and the recursive function of FlattenSeq on them.
Pairs(n) == [1..n -> {p \in Seq(Nat) : Len(p) = 2}]
Flatten(seqs) ==
  CHOOSE flatten : flatten = [i \in 1..Len(seqs) |->
    IF i = 1 THEN seqs[i] ELSE flatten[i - 1] \o seqs[i]]

\* FlattenSeq by that function.
LEMMA FlattenSeqIs ==
  \A seqs : FlattenSeq(seqs) = IF Len(seqs) = 0 THEN seqs ELSE Flatten(seqs)[Len(seqs)]
BY DEF FlattenSeq, Flatten

\* One behind the other they are the members of a list, two for each.
PairsOf(f, seqs, k) ==
  /\ f \in Seq(Nat) /\ Len(f) = 2 * k
  /\ \A i \in 1..k : f[2 * i - 1] = seqs[i][1] /\ f[2 * i] = seqs[i][2]

\* One more pair behind them.
LEMMA PairBehind ==
  ASSUME NEW n \in Nat, NEW seqs \in Pairs(n), NEW k \in Nat, k < n, NEW f, PairsOf(f, seqs, k)
  PROVE  PairsOf(f \o seqs[k + 1], seqs, k + 1)
<1> DEFINE p == seqs[k + 1]
           g == f \o p
<1>1. p \in Seq(Nat) /\ Len(p) = 2 /\ f \in Seq(Nat) /\ Len(f) = 2 * k
  BY DEF Pairs, PairsOf
<1> HIDE DEF p
<1>2. /\ g \in Seq(Nat) /\ Len(g) = 2 * k + 2
      /\ \A i \in 1..2 * k + 2 : g[i] = IF i <= 2 * k THEN f[i] ELSE p[i - 2 * k]
  <2>1. /\ g \in Seq(Nat) /\ Len(g) = Len(f) + Len(p)
        /\ \A i \in 1..Len(f) + Len(p) : g[i] = IF i <= Len(f) THEN f[i] ELSE p[i - Len(f)]
    BY <1>1, ConcatProperties
  <2> HIDE DEF g
  <2> QED
    BY <1>1, <2>1
<1> HIDE DEF g
<1>3. ASSUME NEW i \in 1..k + 1
      PROVE  g[2 * i - 1] = seqs[i][1] /\ g[2 * i] = seqs[i][2]
  <2>1. CASE i \in 1..k
    <3>1. /\ 2 * i - 1 \in 1..2 * k + 2 /\ 2 * i \in 1..2 * k + 2
          /\ 2 * i - 1 <= 2 * k /\ 2 * i <= 2 * k
      BY <2>1
    <3> QED
      BY <1>2, <2>1, <3>1 DEF PairsOf
  <2>2. CASE i = k + 1
    <3>1. 2 * i - 1 = 2 * k + 1 /\ 2 * i = 2 * k + 2
      BY <2>2
    <3>2. 2 * k + 1 \in 1..2 * k + 2 /\ 2 * k + 2 \in 1..2 * k + 2
          /\ ~(2 * k + 1 <= 2 * k) /\ ~(2 * k + 2 <= 2 * k)
          /\ 2 * k + 1 - 2 * k = 1 /\ 2 * k + 2 - 2 * k = 2
      OBVIOUS
    <3>3. g[2 * k + 1] = p[1] /\ g[2 * k + 2] = p[2]
      BY <1>2, <3>2
    <3> QED
      BY <2>2, <3>1, <3>3 DEF p
  <2> QED
    BY <2>1, <2>2
<1>4. 2 * (k + 1) = 2 * k + 2
  OBVIOUS
<1>5. PairsOf(g, seqs, k + 1)
  BY <1>2, <1>3, <1>4 DEF PairsOf
<1> QED
  BY <1>5 DEF g, p

\* So FlattenSeq puts pairs one behind the other.
LEMMA FlattenPairs ==
  ASSUME NEW n \in Nat, NEW seqs \in Pairs(n)
  PROVE  PairsOf(FlattenSeq(seqs), seqs, n)
<1>0. /\ Len(seqs) = n /\ DOMAIN seqs = 1..n
      /\ \A i \in 1..n : seqs[i] \in Seq(Nat) /\ Len(seqs[i]) = 2
  BY DEF Pairs
<1>1. CASE n = 0
  <2>1. FlattenSeq(seqs) = seqs
    BY <1>0, <1>1, FlattenSeqIs
  <2>2. seqs \in Seq(Nat) /\ Len(seqs) = 2 * n
    BY <1>1, <1>0 DEF Pairs
  <2> QED
    BY <1>1, <2>1, <2>2 DEF PairsOf
<1>2. CASE n > 0
  <2> DEFINE m == n - 1
             next(f, i) == f \o seqs[i + 1]
             g == [x \in Seq(Nat) \X (1..m) |-> next(x[1], x[2])]
             fl == Flatten(seqs)
  <2>1. m \in Nat /\ n = m + 1 /\ seqs[1] \in Seq(Nat) /\ \A i \in 1..m : i + 1 \in 1..n
    BY <1>0, <1>2
  <2>2. \A f \in Seq(Nat), i \in 1..m : next(f, i) \in Seq(Nat)
    BY <1>0, <2>1
  <2> HIDE DEF next
  <2>3. /\ g \in [Seq(Nat) \X (1..m) -> Seq(Nat)]
        /\ \A f \in Seq(Nat), i \in 1..m : g[f, i] = next(f, i)
    <3>1. \A x \in Seq(Nat) \X (1..m) : x[1] \in Seq(Nat) /\ x[2] \in 1..m
      OBVIOUS
    <3>2. \A x \in Seq(Nat) \X (1..m) : next(x[1], x[2]) \in Seq(Nat)
      BY <2>2, <3>1, Zenon
    <3>3. g \in [Seq(Nat) \X (1..m) -> Seq(Nat)]
      BY <3>2, Zenon
    <3>4. ASSUME NEW f \in Seq(Nat), NEW i \in 1..m PROVE g[f, i] = next(f, i)
      <4>1. <<f, i>> \in Seq(Nat) \X (1..m) /\ <<f, i>>[1] = f /\ <<f, i>>[2] = i
        OBVIOUS
      <4>2. g[<<f, i>>] = next(<<f, i>>[1], <<f, i>>[2])
        BY <4>1, Zenon
      <4> QED
        BY <4>1, <4>2
    <3> QED
      BY <3>3, <3>4
  <2>4. g \in Steps(Seq(Nat), m)
    BY <2>3 DEF Steps
  <2> HIDE DEF g, m
  <2>5. PICK f : Solves(f, Seq(Nat), m, seqs[1], g)
    BY <2>1, <2>4, Recursion
  <2>6. /\ f \in [0..m -> Seq(Nat)] /\ f[0] = seqs[1]
        /\ \A i \in 1..m : f[i] = f[i - 1] \o seqs[i + 1]
    <3>1. \A i \in 1..m : i - 1 \in 0..m
      BY <2>1
    <3> QED
      BY <2>3, <2>5, <3>1 DEF Solves, next
  <2> DEFINE h == [i \in 1..n |-> f[i - 1]]
             alt(i) == IF i = 1 THEN seqs[i] ELSE h[i - 1] \o seqs[i]
  <2>7. ASSUME NEW i \in 1..n PROVE f[i - 1] = alt(i)
    <3>1. CASE i = 1
      BY <2>6, <3>1
    <3>2. CASE i # 1
      <4>1. i - 1 \in 1..m /\ i - 1 \in 1..n /\ (i - 1) + 1 = i
        BY <2>1, <3>2
      <4>2. h[i - 1] = f[(i - 1) - 1]
        BY <4>1
      <4> HIDE DEF h
      <4> QED
        BY <2>6, <3>2, <4>1, <4>2
    <3> HIDE DEF alt
    <3> QED
      BY <3>1, <3>2
  <2>8. h = [i \in 1..n |-> alt(i)]
    <3> HIDE DEF alt
    <3> QED
      BY <2>7
  <2> HIDE DEF h
  <2>9. h = [i \in 1..Len(seqs) |-> IF i = 1 THEN seqs[i] ELSE h[i - 1] \o seqs[i]]
    BY <1>0, <2>8
  <2>10. fl = [i \in 1..Len(seqs) |-> IF i = 1 THEN seqs[i] ELSE fl[i - 1] \o seqs[i]]
    BY <2>9 DEF Flatten
  <2> HIDE DEF fl
  <2>11. fl[1] = seqs[1] /\ \A i \in 1..m : fl[i + 1] = fl[(i + 1) - 1] \o seqs[i + 1]
    <3>1. 1 \in 1..n /\ \A i \in 1..m : i + 1 # 1
      BY <2>1
    <3> QED
      BY <1>0, <2>1, <2>10, <3>1
  <2> DEFINE T == {k \in 0..m : PairsOf(fl[k + 1], seqs, k + 1)}
  <2>12. 0 \in T
    <3>1. PairsOf(seqs[1], seqs, 1)
      <4>1. \A i \in 1..1 : i = 1
        OBVIOUS
      <4>2. Len(seqs[1]) = 2 * 1 /\ 2 * 1 - 1 = 1 /\ 2 * 1 = 2
        BY <1>0, <1>2
      <4> QED
        BY <2>1, <4>1, <4>2 DEF PairsOf
    <3> QED
      BY <2>1, <2>11, <3>1
  <2>13. ASSUME NEW k \in 0..m, k \in T, k < m PROVE k + 1 \in T
    <3>1. /\ k + 1 \in 1..m /\ k + 1 \in 0..m /\ k + 1 \in Nat /\ k + 1 < n
          /\ PairsOf(fl[k + 1], seqs, k + 1)
      BY <2>1, <2>13
    <3>2. fl[(k + 1) + 1] = fl[k + 1] \o seqs[(k + 1) + 1]
      <4>1. fl[(k + 1) + 1] = fl[((k + 1) + 1) - 1] \o seqs[(k + 1) + 1]
        BY <2>11, <3>1
      <4>2. ((k + 1) + 1) - 1 = k + 1
        OBVIOUS
      <4> QED
        BY <4>1, <4>2
    <3>3. PairsOf(fl[k + 1] \o seqs[(k + 1) + 1], seqs, (k + 1) + 1)
      BY <3>1, PairBehind
    <3> QED
      BY <3>1, <3>2, <3>3
  <2>14. 0..m \subseteq T
    <3> HIDE DEF T
    <3> QED
      BY <2>1, <2>12, <2>13, UpTo
  <2>15. PairsOf(fl[m + 1], seqs, m + 1)
    <3>1. m \in 0..m
      BY <2>1
    <3> QED
      BY <2>14, <3>1
  <2> QED
    BY <1>0, <1>2, <2>1, <2>15, FlattenSeqIs DEF fl
<1> QED
  BY <1>1, <1>2

\* A number of 16 bits.
Half == {n \in Nat : n < 65536}

\* What it is to be one.
LEMMA HalfFacts ==
  ASSUME NEW n \in Half
  PROVE  n \in Word /\ n < 65536 /\ n \in Nat
BY SMT DEF Half, Word

\* Its two bytes.
LEMMA LE2 ==
  ASSUME NEW n \in Half
  PROVE  /\ LE(n, 2) \in Seq(Nat) /\ Len(LE(n, 2)) = 2
         /\ LE(n, 2)[1] = n % 256 /\ LE(n, 2)[2] = (n \div 256) % 256
<1>1. n \in Word
  BY HalfFacts
<1>2. \A w \in Nat : /\ LE(n, w) \in Seq(Nat) /\ Len(LE(n, w)) = w
                     /\ w >= 1 => LE(n, w)[1] = n % 256
                     /\ w >= 2 => LE(n, w)[2] = (n \div 256) % 256
  BY <1>1, LEIs
<1>3. 2 \in Nat /\ 2 >= 1 /\ 2 >= 2
  OBVIOUS
<1> QED
  BY <1>2, <1>3, ZenonT(30)

\* Two bytes are the number that was written there.
LEMMA Uint16Is ==
  ASSUME NEW b, NEW o, NEW n \in Half, b[o + 1] = n % 256, b[o + 1 + 1] = (n \div 256) % 256
  PROVE  Uint16(b, o) = n
<1>1. n \in Word /\ n < 65536
  BY HalfFacts
<1> QED
  BY <1>1, Digits DEF Uint16, Byte

\* A list of numbers of 16 bits, in bytes.
Bytes2(s) == [i \in DOMAIN s |-> LE(s[i], 2)]

\* Their bytes, two for each number.
LEMMA Bytes2Read ==
  ASSUME NEW s \in Seq(Half)
  PROVE  /\ FlattenSeq(Bytes2(s)) \in Seq(Nat) /\ Len(FlattenSeq(Bytes2(s))) = 2 * Len(s)
         /\ \A i \in 1..Len(s) : /\ FlattenSeq(Bytes2(s))[2 * i - 1] = s[i] % 256
                                 /\ FlattenSeq(Bytes2(s))[2 * i] = (s[i] \div 256) % 256
<1> DEFINE n == Len(s)
           f == FlattenSeq(Bytes2(s))
<1>1. n \in Nat /\ DOMAIN s = 1..n /\ \A i \in 1..n : s[i] \in Half
  OBVIOUS
<1>2. \A i \in 1..n : /\ LE(s[i], 2) \in Seq(Nat) /\ Len(LE(s[i], 2)) = 2
                      /\ LE(s[i], 2)[1] = s[i] % 256 /\ LE(s[i], 2)[2] = (s[i] \div 256) % 256
  <2> SUFFICES ASSUME NEW i \in 1..n
               PROVE  /\ LE(s[i], 2) \in Seq(Nat) /\ Len(LE(s[i], 2)) = 2
                      /\ LE(s[i], 2)[1] = s[i] % 256 /\ LE(s[i], 2)[2] = (s[i] \div 256) % 256
    OBVIOUS
  <2>1. s[i] \in Half
    BY <1>1
  <2> QED
    BY <2>1, LE2
<1>3. Bytes2(s) \in Pairs(n)
  BY <1>1, <1>2 DEF Bytes2, Pairs
<1> HIDE DEF f, n
<1>4. PairsOf(f, Bytes2(s), n)
  BY <1>1, <1>3, FlattenPairs DEF f
<1>5. \A i \in 1..n : Bytes2(s)[i] = LE(s[i], 2)
  BY <1>1 DEF Bytes2
<1> HIDE DEF n, f
<1>6. /\ f \in Seq(Nat) /\ Len(f) = 2 * n
      /\ \A i \in 1..n : f[2 * i - 1] = Bytes2(s)[i][1] /\ f[2 * i] = Bytes2(s)[i][2]
  BY <1>4 DEF PairsOf
<1>7. ASSUME NEW i \in 1..n
      PROVE  f[2 * i - 1] = s[i] % 256 /\ f[2 * i] = (s[i] \div 256) % 256
  <2> DEFINE g == f[2 * i - 1]
             h == f[2 * i]
  <2>1. g = Bytes2(s)[i][1] /\ h = Bytes2(s)[i][2]
    BY <1>6
  <2> HIDE DEF g, h
  <2>2. g = s[i] % 256 /\ h = (s[i] \div 256) % 256
    BY <1>2, <1>5, <2>1
  <2> QED
    BY <2>2 DEF g, h
<1> QED
  BY <1>6, <1>7 DEF n, f

\* BootOrder is read as it was written, however many entries it has.
THEOREM OrderIsReadBack ==
  ASSUME NEW o \in Seq(Half)
  PROVE  bootOrder(OrderBytes(o)) = o
<1> DEFINE n == Len(o)
           f == OrderBytes(o)
<1>1. /\ n \in Nat /\ o = [i \in 1..n |-> o[i]] /\ \A i \in 1..n : o[i] \in Half
  OBVIOUS
<1>2. /\ f \in Seq(Nat) /\ Len(f) = 2 * n
      /\ \A i \in 1..n : f[2 * i - 1] = o[i] % 256 /\ f[2 * i] = (o[i] \div 256) % 256
  BY Bytes2Read, ZenonT(30) DEF OrderBytes, Bytes2
<1> HIDE DEF n, f
<1>3. ASSUME NEW i \in 1..n PROVE Uint16(f, 2 * (i - 1)) = o[i]
  <2> DEFINE p == 2 * (i - 1)
  <2>1. p + 1 = 2 * i - 1 /\ p + 1 + 1 = 2 * i
    BY <1>1
  <2> HIDE DEF p
  <2>2. f[p + 1] = o[i] % 256 /\ f[p + 1 + 1] = (o[i] \div 256) % 256 /\ o[i] \in Half
    BY <1>1, <1>2, <2>1, SMTT(30)
  <2>3. Uint16(f, p) = o[i]
    BY <2>2, Uint16Is
  <2> QED
    BY <2>3 DEF p
<1>4. Len(f) \div 2 = n
  BY <1>1, <1>2
<1> QED
  BY <1>1, <1>3, <1>4 DEF bootOrder, f

\* Bytes that begin with a string and the zero behind it.
Begins(x, s) ==
  /\ x \in Seq(Nat) /\ Len(x) >= 2 * Len(s) + 2
  /\ \A i \in 1..Len(s) : Uint16(x, 2 * (i - 1)) = s[i]
  /\ Uint16(x, 2 * Len(s)) = 0

\* The least of a set of numbers.
LEMMA MinIs ==
  ASSUME NEW T, T \subseteq Nat, T # {}
  PROVE  Min(T) \in T /\ \A k \in T : Min(T) <= k
BY Least DEF Min

\* They decode to that string, whatever is behind it.
LEMMA BeginsDecodes ==
  ASSUME NEW s \in Seq(Char), NEW x, Begins(x, s)
  PROVE  Terminators(x) # {} /\ Min(Terminators(x)) = Len(s) /\ decodeUTF16Z(x) = s
<1> DEFINE n == Len(s)
           T == Terminators(x)
<1>1. /\ n \in Nat /\ s = [i \in 1..n |-> s[i]]
      /\ \A i \in 1..n : s[i] \in Nat /\ s[i] # 0
  <2>1. n \in Nat /\ s = [i \in 1..n |-> s[i]] /\ \A i \in 1..n : s[i] \in Char
    OBVIOUS
  <2>2. \A u \in Char : u \in Nat /\ u # 0
    BY DEF Char
  <2> QED
    BY <2>1, <2>2
<1>2. /\ x \in Seq(Nat) /\ Len(x) \in Nat /\ Len(x) >= 2 * n + 2
      /\ \A i \in 1..n : Uint16(x, 2 * (i - 1)) = s[i]
      /\ Uint16(x, 2 * n) = 0
  BY DEF Begins
<1> HIDE DEF n
<1>3. n \in T /\ T \subseteq Nat
  BY <1>1, <1>2 DEF Terminators
<1>4. ASSUME NEW k \in T PROVE n <= k
  <2> SUFFICES ASSUME k < n PROVE FALSE
    BY <1>1, <1>3
  <2>1. k + 1 \in 1..n /\ (k + 1) - 1 = k
    BY <1>1, <1>3
  <2>2. Uint16(x, 2 * k) = 0
    BY DEF Terminators
  <2>3. Uint16(x, 2 * ((k + 1) - 1)) = s[k + 1]
    BY <1>2, <2>1
  <2> QED
    BY <1>1, <2>1, <2>2, <2>3
<1> HIDE DEF T
<1>5. Min(T) \in T /\ \A k \in T : Min(T) <= k
  BY <1>3, MinIs
<1>6. Min(T) = n
  BY <1>1, <1>3, <1>4, <1>5
<1>7. decodeUTF16Z(x) = [i \in 1..n |-> Uint16(x, 2 * (i - 1))]
  BY <1>6 DEF decodeUTF16Z, T
<1>8. decodeUTF16Z(x) = s
  BY <1>1, <1>2, <1>7
<1> QED
  BY <1>3, <1>6, <1>8 DEF T, n

\* A string as MarshalUtf16Var writes it.
LEMMA MarshalIs ==
  ASSUME NEW s \in Seq(Half)
  PROVE  /\ MarshalUtf16Var(s) \in Seq(Nat) /\ Len(MarshalUtf16Var(s)) = 2 * Len(s) + 2
         /\ \A i \in 1..Len(s) : /\ MarshalUtf16Var(s)[2 * i - 1] = s[i] % 256
                                 /\ MarshalUtf16Var(s)[2 * i] = (s[i] \div 256) % 256
         /\ MarshalUtf16Var(s)[2 * Len(s) + 1] = 0 /\ MarshalUtf16Var(s)[2 * Len(s) + 2] = 0
<1> DEFINE n == Len(s)
           f == FlattenSeq(Bytes2(s))
           z == LE(0, 2)
           m == f \o z
<1>1. /\ n \in Nat /\ f \in Seq(Nat) /\ Len(f) = 2 * n
      /\ \A i \in 1..n : f[2 * i - 1] = s[i] % 256 /\ f[2 * i] = (s[i] \div 256) % 256
  BY Bytes2Read
<1>2. z \in Seq(Nat) /\ Len(z) = 2 /\ z[1] = 0 /\ z[2] = 0
  <2>1. 0 \in Half /\ 0 % 256 = 0 /\ (0 \div 256) % 256 = 0
    BY SMT DEF Half
  <2>2. LE(0, 2)[1] = 0 % 256 /\ LE(0, 2)[2] = (0 \div 256) % 256
    BY <2>1, LE2
  <2> QED
    BY <2>1, <2>2, LE2
<1>3. MarshalUtf16Var(s) = m
  BY DEF MarshalUtf16Var, Bytes2
<1> HIDE DEF n, f, z
<1>4. /\ m \in Seq(Nat) /\ Len(m) = 2 * n + 2
      /\ \A i \in 1..2 * n + 2 : m[i] = IF i <= 2 * n THEN f[i] ELSE z[i - 2 * n]
  <2>1. /\ m \in Seq(Nat) /\ Len(m) = Len(f) + Len(z)
        /\ \A i \in 1..Len(f) + Len(z) : m[i] = IF i <= Len(f) THEN f[i] ELSE z[i - Len(f)]
    <3>1. f \in Seq(Nat) /\ z \in Seq(Nat)
      BY <1>1, <1>2
    <3> QED
      BY <3>1, ConcatProperties
  <2> HIDE DEF m
  <2> QED
    BY <1>1, <1>2, <2>1
<1> HIDE DEF m
<1>5. \A i \in 1..n : m[2 * i - 1] = f[2 * i - 1] /\ m[2 * i] = f[2 * i]
  <2>1. \A i \in 1..n : /\ 2 * i - 1 \in 1..2 * n + 2 /\ 2 * i \in 1..2 * n + 2
                        /\ 2 * i - 1 <= 2 * n /\ 2 * i <= 2 * n
    BY <1>1
  <2>2. \A j \in 1..2 * n + 2 : j <= 2 * n => m[j] = f[j]
    BY <1>4
  <2> QED
    BY <2>1, <2>2
<1>6. m[2 * n + 1] = 0 /\ m[2 * n + 2] = 0
  <2> DEFINE a == 2 * n + 1
             b == 2 * n + 2
  <2>1. /\ a \in 1..2 * n + 2 /\ b \in 1..2 * n + 2
        /\ ~(a <= 2 * n) /\ ~(b <= 2 * n) /\ a - 2 * n = 1 /\ b - 2 * n = 2
    BY <1>1
  <2> HIDE DEF a, b
  <2>2. m[a] = z[a - 2 * n] /\ m[b] = z[b - 2 * n]
    BY <1>4, <2>1
  <2> QED
    BY <1>2, <2>1, <2>2 DEF a, b
<1> QED
  BY <1>1, <1>3, <1>4, <1>5, <1>6 DEF n

\* Whatever has these bytes at its beginning begins with the string.
LEMMA MarshalBegins ==
  ASSUME NEW s \in Seq(Half), NEW x \in Seq(Nat), Len(x) >= 2 * Len(s) + 2,
         \A i \in 1..2 * Len(s) + 2 : x[i] = MarshalUtf16Var(s)[i]
  PROVE  Begins(x, s)
<1> DEFINE n == Len(s)
           m == MarshalUtf16Var(s)
<1>1. /\ n \in Nat /\ \A i \in 1..n : s[i] \in Half
      /\ \A i \in 1..n : m[2 * i - 1] = s[i] % 256 /\ m[2 * i] = (s[i] \div 256) % 256
      /\ m[2 * n + 1] = 0 /\ m[2 * n + 2] = 0
  BY MarshalIs, SMTT(30)
<1> HIDE DEF m, n
<1>2. ASSUME NEW i \in 1..n PROVE Uint16(x, 2 * (i - 1)) = s[i]
  <2> DEFINE p == 2 * (i - 1)
  <2>0. n \in Nat /\ i \in 1..n
    BY <1>1
  <2>1. /\ p + 1 = 2 * i - 1 /\ p + 1 + 1 = 2 * i
        /\ 2 * i - 1 \in 1..2 * n + 2 /\ 2 * i \in 1..2 * n + 2
    BY <2>0
  <2> HIDE DEF p
  <2>2. x[2 * i - 1] = m[2 * i - 1] /\ x[2 * i] = m[2 * i]
    BY <2>1 DEF m, n
  <2>3. x[p + 1] = s[i] % 256 /\ x[p + 1 + 1] = (s[i] \div 256) % 256 /\ s[i] \in Half
    BY <1>1, <2>1, <2>2, SMTT(30)
  <2>4. Uint16(x, p) = s[i]
    BY <2>3, Uint16Is
  <2> QED
    BY <2>4 DEF p
<1>3. Uint16(x, 2 * n) = 0
  <2>1. 2 * n + 1 \in 1..2 * n + 2 /\ 2 * n + 1 + 1 = 2 * n + 2 /\ 2 * n + 2 \in 1..2 * n + 2
    BY <1>1
  <2>2. x[2 * n + 1] = 0 /\ x[2 * n + 1 + 1] = 0
    BY <1>1, <2>1, ZenonT(30) DEF m, n
  <2> QED
    BY <2>2 DEF Uint16, Byte
<1> QED
  BY <1>2, <1>3 DEF Begins, n

\* What is behind the first k members.
LEMMA FromIs ==
  ASSUME NEW h \in Seq(Nat), NEW x \in Seq(Nat)
  PROVE  /\ From(h \o x, Len(h)) = x
         /\ h \o x \in Seq(Nat) /\ Len(h \o x) = Len(h) + Len(x)
         /\ \A i \in 1..Len(h) : (h \o x)[i] = h[i]
         /\ \A i \in 1..Len(x) : (h \o x)[Len(h) + i] = x[i]
<1> DEFINE b == h \o x
           k == Len(h)
           n == Len(x)
<1>1. k \in Nat /\ n \in Nat /\ x = [i \in 1..n |-> x[i]]
  OBVIOUS
<1>2. /\ b \in Seq(Nat) /\ Len(b) = k + n
      /\ \A i \in 1..k + n : b[i] = IF i <= k THEN h[i] ELSE x[i - k]
  BY ConcatProperties
<1> HIDE DEF b, k, n
<1>3. \A i \in 1..k : b[i] = h[i]
  <2>1. \A i \in 1..k : i \in 1..k + n /\ i <= k
    BY <1>1
  <2> QED
    BY <1>2, <2>1
<1>4. ASSUME NEW i \in 1..n PROVE b[k + i] = x[i]
  <2> DEFINE j == k + i
  <2>1. j \in 1..k + n /\ ~(j <= k) /\ j - k = i
    BY <1>1
  <2> HIDE DEF j
  <2>2. b[j] = x[j - k]
    BY <1>2, <2>1
  <2> QED
    BY <2>1, <2>2 DEF j
<1>5. From(b, k) = x
  <2> DEFINE f == SubSeq(b, k + 1, k + n)
  <2>1. k + 1 \in Int /\ k + n \in Int /\ \A i \in k + 1..k + n : b[i] \in Nat
    BY <1>1, <1>2
  <2>2. /\ f \in Seq(Nat)
        /\ Len(f) = IF k + 1 <= k + n THEN (k + n) - (k + 1) + 1 ELSE 0
        /\ \A i \in 1..(k + n) - (k + 1) + 1 : f[i] = b[(k + 1) + i - 1]
    BY <2>1, SubSeqProperties
  <2> HIDE DEF f
  <2>3. Len(f) = n /\ (k + n) - (k + 1) + 1 = n
    BY <1>1, <2>2
  <2>4. ASSUME NEW i \in 1..n PROVE f[i] = x[i]
    <3>1. f[i] = b[(k + 1) + i - 1] /\ (k + 1) + i - 1 = k + i
      BY <1>1, <2>2, <2>3, SMTT(30)
    <3> QED
      BY <1>4, <3>1
  <2>5. f = [i \in 1..n |-> f[i]]
    BY <2>2, <2>3
  <2>6. f = x
    BY <1>1, <2>4, <2>5
  <2> QED
    BY <1>2, <2>6 DEF From, f
<1> QED
  BY <1>2, <1>3, <1>4, <1>5 DEF b, k, n

\* A byte.
Octet == {n \in Nat : n < 256}

\* Two bytes below 256 make a number in one way.
LEMMA TwoBytes ==
  ASSUME NEW p \in Octet, NEW q \in Octet, NEW n \in Half, p + 256 * q = n
  PROVE  p = n % 256 /\ q = (n \div 256) % 256
BY SMT DEF Octet, Half

\* What decodes to a string begins with the bytes that MarshalUtf16Var writes for it.
LEMMA DecodedBegins ==
  ASSUME NEW s \in Seq(Char), NEW x \in Seq(Octet), Terminators(x) # {}, decodeUTF16Z(x) = s
  PROVE  /\ Len(x) >= 2 * Len(s) + 2
         /\ \A i \in 1..2 * Len(s) + 2 : x[i] = MarshalUtf16Var(s)[i]
<1> DEFINE n == Len(s)
           m == MarshalUtf16Var(s)
           T == Terminators(x)
           l == Min(T)
<1>1. n \in Nat /\ Len(x) \in Nat /\ \A i \in 1..Len(x) : x[i] \in Octet
  OBVIOUS
<1>2. T \subseteq Nat
  BY <1>1 DEF Terminators
<1>3. l \in T
  BY <1>2, MinIs
<1>4. l \in 0 .. Len(x) \div 2 - 1 /\ Uint16(x, 2 * l) = 0
  BY <1>3 DEF Terminators
<1> HIDE DEF T, l
<1>5. s = [i \in 1..l |-> Uint16(x, 2 * (i - 1))]
  BY DEF decodeUTF16Z, T, l
<1>6. n = l /\ \A i \in 1..n : s[i] = Uint16(x, 2 * (i - 1)) /\ s[i] \in Char
  BY <1>4, <1>5
<1>7. Len(x) >= 2 * n + 2
  BY <1>1, <1>4, <1>6
<1>8. s \in Seq(Half) /\ \A i \in 1..n : s[i] \in Half
  BY DEF Char, Half
<1>9. /\ \A i \in 1..n : m[2 * i - 1] = s[i] % 256 /\ m[2 * i] = (s[i] \div 256) % 256
      /\ m[2 * n + 1] = 0 /\ m[2 * n + 2] = 0
  BY <1>8, MarshalIs
<1> HIDE DEF n, m
<1>10. ASSUME NEW i \in 1..n PROVE x[2 * i - 1] = m[2 * i - 1] /\ x[2 * i] = m[2 * i]
  <2>1. 2 * (i - 1) + 1 = 2 * i - 1 /\ 2 * (i - 1) + 1 + 1 = 2 * i
        /\ 2 * i - 1 \in 1..Len(x) /\ 2 * i \in 1..Len(x)
    BY <1>1, <1>7
  <2>2. x[2 * i - 1] \in Octet /\ x[2 * i] \in Octet /\ s[i] \in Half
    BY <1>1, <1>8, <2>1
  <2>3. s[i] = Uint16(x, 2 * (i - 1))
    BY <1>6
  <2>4. Uint16(x, 2 * (i - 1)) = x[2 * i - 1] + 256 * x[2 * i]
    BY <2>1 DEF Uint16, Byte
  <2>5. x[2 * i - 1] = s[i] % 256 /\ x[2 * i] = (s[i] \div 256) % 256
    BY <2>2, <2>3, <2>4, TwoBytes
  <2> QED
    BY <1>9, <2>5
<1>11. x[2 * n + 1] = 0 /\ x[2 * n + 2] = 0
  <2>1. 2 * n + 1 \in 1..Len(x) /\ 2 * n + 2 \in 1..Len(x) /\ 2 * n + 1 + 1 = 2 * n + 2
    BY <1>1, <1>7
  <2>2. x[2 * n + 1] \in Octet /\ x[2 * n + 2] \in Octet
    BY <1>1, <2>1
  <2>3. x[2 * n + 1] + 256 * x[2 * n + 2] = 0
    BY <1>4, <1>6, <2>1 DEF Uint16, Byte
  <2> QED
    BY <2>2, <2>3 DEF Octet
<1>12. ASSUME NEW i \in 1..2 * n + 2 PROVE x[i] = m[i]
  <2>1. \/ i = 2 * n + 1 \/ i = 2 * n + 2
        \/ \E j \in 1..n : i = 2 * j - 1 \/ i = 2 * j
    <3>1. CASE i <= 2 * n /\ i % 2 = 0
      <4>1. i \div 2 \in 1..n /\ i = 2 * (i \div 2)
        BY <1>1, <3>1
      <4> QED
        BY <4>1
    <3>2. CASE i <= 2 * n /\ i % 2 = 1
      <4>1. (i + 1) \div 2 \in 1..n /\ i = 2 * ((i + 1) \div 2) - 1
        BY <1>1, <3>2
      <4> QED
        BY <4>1
    <3>3. CASE i > 2 * n
      BY <1>1, <3>3
    <3> QED
      BY <1>1, <3>1, <3>2, <3>3
  <2>2. CASE i = 2 * n + 1
    <3>1. x[2 * n + 1] = m[2 * n + 1]
      BY <1>9, <1>11
    <3> QED
      BY <2>2, <3>1, ZenonT(30)
  <2>3. CASE i = 2 * n + 2
    <3>1. x[2 * n + 2] = m[2 * n + 2]
      BY <1>9, <1>11
    <3> QED
      BY <2>3, <3>1, ZenonT(30)
  <2>4. CASE \E j \in 1..n : i = 2 * j - 1 \/ i = 2 * j
    <3>1. PICK j \in 1..n : i = 2 * j - 1 \/ i = 2 * j
      BY <2>4
    <3> QED
      BY <1>9, <1>10, <3>1, ZenonT(30)
  <2> QED
    BY <2>1, <2>2, <2>3, <2>4
<1> QED
  BY <1>7, <1>12 DEF n, m

\* Whatever bytes somebody else's entry has, findByLabel takes it for ours only if its
\* description is our label and nothing more (efi.go:330-334), for every label.
THEOREM OnlyOursFound ==
  ASSUME NEW label \in Seq(Char), NEW rest \in Seq(Octet), NEW head \in Seq(Nat), Len(head) = 6
  PROVE  LET b == head \o rest
         IN  Decodes(b) /\ Unmarshal(b).Description = label
               <=> IsPrefix(MarshalUtf16Var(label), rest)
<1> DEFINE b == head \o rest
           m == MarshalUtf16Var(label)
           n == Len(label)
<1>1. rest \in Seq(Nat) /\ label \in Seq(Half) /\ n \in Nat /\ Len(rest) \in Nat
  <2>1. rest \in Seq(Nat)
    BY DEF Octet
  <2>2. label \in Seq(Half)
    BY DEF Char, Half
  <2> QED
    BY <2>1, <2>2
<1>2. From(b, 6) = rest /\ Len(b) >= 6
  <2>1. From(head \o rest, Len(head)) = rest /\ Len(head \o rest) = Len(head) + Len(rest)
    BY <1>1, FromIs
  <2> QED
    BY <1>1, <2>1
<1> HIDE DEF b
<1>3. Decodes(b) <=> Terminators(rest) # {}
  BY <1>2 DEF Decodes
<1>4. Unmarshal(b).Description = decodeUTF16Z(rest)
  BY <1>2 DEF Unmarshal
<1>5. m \in Seq(Nat) /\ Len(m) = 2 * n + 2
  BY <1>1, MarshalIs
<1>6. IsPrefix(m, rest) <=>
        /\ Len(rest) >= 2 * n + 2
        /\ \A i \in 1..2 * n + 2 : rest[i] = m[i]
  <2> DEFINE k == 2 * n + 2
  <2>1. k \in Nat /\ Len(m) = k
    BY <1>1, <1>5
  <2> HIDE DEF k, m
  <2>2. SubSeq(m, 1, k) = [i \in 1..k |-> m[i]] /\ SubSeq(rest, 1, k) = [i \in 1..k |-> rest[i]]
    <3>1. 1 + k - 1 = k /\ \A i \in 1..k : i + 1 - 1 = i
      BY <2>1
    <3>2. /\ SubSeq(m, 1, k) = [i \in 1..(1 + k - 1) |-> m[i + 1 - 1]]
          /\ SubSeq(rest, 1, k) = [i \in 1..(1 + k - 1) |-> rest[i + 1 - 1]]
      BY <2>1
    <3> QED
      BY <3>1, <3>2
  <2>3. [i \in 1..k |-> m[i]] = [i \in 1..k |-> rest[i]] <=> \A i \in 1..k : rest[i] = m[i]
    <3> DEFINE f == [i \in 1..k |-> m[i]]
               g == [i \in 1..k |-> rest[i]]
    <3>1. \A i \in 1..k : f[i] = m[i] /\ g[i] = rest[i]
      OBVIOUS
    <3>2. ASSUME f = g PROVE \A i \in 1..k : rest[i] = m[i]
      <4> HIDE DEF f, g
      <4> QED
        BY <3>1, <3>2
    <3>3. ASSUME \A i \in 1..k : rest[i] = m[i] PROVE f = g
      BY <3>3
    <3> QED
      BY <3>2, <3>3
  <2> QED
    BY <1>1, <2>1, <2>2, <2>3 DEF IsPrefix, k
<1>7. ASSUME Terminators(rest) # {}, decodeUTF16Z(rest) = label PROVE IsPrefix(m, rest)
  BY <1>6, <1>7, DecodedBegins
<1>8. ASSUME IsPrefix(m, rest) PROVE Terminators(rest) # {} /\ decodeUTF16Z(rest) = label
  <2>1. Begins(rest, label)
    BY <1>1, <1>6, <1>8, MarshalBegins
  <2> QED
    BY <2>1, BeginsDecodes
<1> QED
  BY <1>3, <1>4, <1>7, <1>8 DEF b, m

\* The bytes s are in b, behind the first o.
At(b, o, s) == o + Len(s) <= Len(b) /\ \A i \in 1..Len(s) : b[o + i] = s[i]

\* Joining two lists moves neither.
LEMMA Joined ==
  ASSUME NEW x \in Seq(Nat), NEW y \in Seq(Nat)
  PROVE  /\ x \o y \in Seq(Nat) /\ Len(x \o y) = Len(x) + Len(y)
         /\ At(x \o y, Len(x), y)
         /\ \A s \in Seq(Nat), o \in Nat : At(x, o, s) => At(x \o y, o, s)
<1> DEFINE b == x \o y
           k == Len(x)
<1>1. /\ b \in Seq(Nat) /\ Len(b) = k + Len(y) /\ k \in Nat /\ Len(y) \in Nat
      /\ \A i \in 1..k : b[i] = x[i]
      /\ \A i \in 1..Len(y) : b[k + i] = y[i]
  BY FromIs
<1> HIDE DEF b, k
<1>2. At(b, k, y)
  BY <1>1 DEF At
<1>3. ASSUME NEW s \in Seq(Nat), NEW o \in Nat, At(x, o, s) PROVE At(b, o, s)
  <2>1. Len(s) \in Nat /\ o + Len(s) <= k /\ \A i \in 1..Len(s) : x[o + i] = s[i]
    BY <1>3 DEF At, k
  <2>2. \A i \in 1..Len(s) : o + i \in 1..k
    BY <1>1, <2>1
  <2>3. \A i \in 1..Len(s) : b[o + i] = s[i]
    BY <1>1, <2>1, <2>2
  <2>4. o + Len(s) <= Len(b)
    BY <1>1, <2>1
  <2> QED
    BY <2>3, <2>4 DEF At
<1> QED
  BY <1>1, <1>2, <1>3 DEF b, k

\* A part of a part.
LEMMA AtAt ==
  ASSUME NEW b \in Seq(Nat), NEW x \in Seq(Nat), NEW s \in Seq(Nat),
         NEW o \in Nat, NEW p \in Nat,
         At(b, o, x), At(x, p, s)
  PROVE  At(b, o + p, s)
<1>1. Len(s) \in Nat /\ Len(x) \in Nat /\ Len(b) \in Nat
  OBVIOUS
<1>2. /\ o + Len(x) <= Len(b) /\ \A i \in 1..Len(x) : b[o + i] = x[i]
      /\ p + Len(s) <= Len(x) /\ \A i \in 1..Len(s) : x[p + i] = s[i]
  BY DEF At
<1>3. ASSUME NEW i \in 1..Len(s) PROVE b[(o + p) + i] = s[i]
  <2>1. p + i \in 1..Len(x) /\ (o + p) + i = o + (p + i)
    BY <1>1, <1>2
  <2>2. b[o + (p + i)] = x[p + i]
    BY <1>2, <2>1
  <2> QED
    BY <1>2, <2>1, <2>2
<1>4. (o + p) + Len(s) <= Len(b)
  BY <1>1, <1>2
<1> QED
  BY <1>3, <1>4 DEF At

\* What is cut out at a place is what is there.
LEMMA CutAt ==
  ASSUME NEW b \in Seq(Nat), NEW o \in Nat, NEW s \in Seq(Nat), At(b, o, s)
  PROVE  SubSeq(b, o + 1, o + Len(s)) = s
<1> DEFINE n == Len(s)
           f == SubSeq(b, o + 1, o + n)
<1>1. /\ n \in Nat /\ o + n <= Len(b) /\ Len(b) \in Nat /\ s = [i \in 1..n |-> s[i]]
      /\ \A i \in 1..n : b[o + i] = s[i]
  BY DEF At
<1>2. o + 1 \in Int /\ o + n \in Int /\ \A i \in o + 1..o + n : b[i] \in Nat
  BY <1>1
<1> HIDE DEF n
<1>3. /\ f \in Seq(Nat)
      /\ Len(f) = IF o + 1 <= o + n THEN (o + n) - (o + 1) + 1 ELSE 0
      /\ \A i \in 1..(o + n) - (o + 1) + 1 : f[i] = b[(o + 1) + i - 1]
  BY <1>2, SubSeqProperties
<1> HIDE DEF f
<1>4. Len(f) = n /\ (o + n) - (o + 1) + 1 = n
  BY <1>1, <1>3
<1>5. ASSUME NEW i \in 1..n PROVE f[i] = s[i]
  <2>0. i \in 1..(o + n) - (o + 1) + 1 /\ (o + 1) + i - 1 = o + i
    BY <1>4
  <2>1. f[i] = b[(o + 1) + i - 1] /\ (o + 1) + i - 1 = o + i
    BY <1>3, <2>0
  <2> QED
    BY <1>1, <2>1
<1>6. f = [i \in 1..n |-> f[i]]
  BY <1>3, <1>4
<1>7. f = s
  BY <1>1, <1>5, <1>6
<1> QED
  BY <1>7 DEF f, n

\* Numbers are read where they were written.
LEMMA ReadUint16 ==
  ASSUME NEW b, NEW o \in Nat, NEW n \in Half, At(b, o, LE(n, 2))
  PROVE  Uint16(b, o) = n
<1>1. Len(LE(n, 2)) = 2 /\ LE(n, 2)[1] = n % 256 /\ LE(n, 2)[2] = (n \div 256) % 256
  BY LE2
<1>2. b[o + 1] = LE(n, 2)[1] /\ b[o + 2] = LE(n, 2)[2]
  <2>1. 1 \in 1..2 /\ 2 \in 1..2
    OBVIOUS
  <2> QED
    BY <1>1, <2>1 DEF At
<1>3. o + 2 = o + 1 + 1
  OBVIOUS
<1>4. b[o + 1] = n % 256 /\ b[o + 1 + 1] = (n \div 256) % 256
  BY <1>1, <1>2, <1>3
<1> QED
  BY <1>4, Uint16Is

\* Four bytes are the number that was written there, and so are the first four of eight.
LEMMA ReadUint32 ==
  ASSUME NEW b, NEW o \in Nat, NEW n \in Word, NEW w \in Nat, w >= 4, At(b, o, LE(n, w))
  PROVE  Uint32(b, o) = n
<1> DEFINE x == LE(n, w)
<1>1. /\ Len(x) = w /\ x[1] = n % 256 /\ x[2] = (n \div 256) % 256
      /\ x[3] = (n \div 65536) % 256 /\ x[4] = (n \div 16777216) % 256
  <2>1. w >= 1 /\ w >= 2
    OBVIOUS
  <2> QED
    BY <2>1, LEIs
<1> HIDE DEF x
<1>2. b[o + 1] = x[1] /\ b[o + 2] = x[2] /\ b[o + 3] = x[3] /\ b[o + 4] = x[4]
  <2>1. 1 \in 1..w /\ 2 \in 1..w /\ 3 \in 1..w /\ 4 \in 1..w
    OBVIOUS
  <2>2. \A i \in 1..w : b[o + i] = x[i]
    BY <1>1 DEF At, x
  <2> QED
    BY <2>1, <2>2
<1>3. o + 1 + 1 = o + 2 /\ o + 2 + 1 = o + 3 /\ o + 2 + 1 + 1 = o + 4
  OBVIOUS
<1>4. Uint32(b, o) = b[o + 1] + 256 * b[o + 2] + 65536 * (b[o + 3] + 256 * b[o + 4])
  BY <1>3 DEF Uint32, Uint16, Byte
<1>5. (n % 256) + 256 * ((n \div 256) % 256)
        + 65536 * (((n \div 65536) % 256) + 256 * ((n \div 16777216) % 256)) = n
  BY Digits
<1> DEFINE d1 == n % 256
           d2 == (n \div 256) % 256
           d3 == (n \div 65536) % 256
           d4 == (n \div 16777216) % 256
<1> HIDE DEF d1, d2, d3, d4
<1>6. /\ x[1] = d1 /\ x[2] = d2 /\ x[3] = d3 /\ x[4] = d4
      /\ d1 + 256 * d2 + 65536 * (d3 + 256 * d4) = n
  BY <1>1, <1>5 DEF d1, d2, d3, d4
<1> QED
  BY <1>2, <1>4, <1>6

-------------------------------------------------------------------------------
\* The recursive function of Walk, named; it goes from each node to one further on.
NodeAt(path, o) ==
  [type |-> Byte(path, o), data |-> SubSeq(path, o + 5, o + Uint16(path, o + 2))]
TooShort(path, o) == Len(path) - o < 4 \/ ~(Uint16(path, o + 2) \in 4 .. Len(path) - o)
NodesFrom(path, nodes, o) ==
  IF TooShort(path, o) THEN <<Broken>>
  ELSE IF NodeAt(path, o).type = EndPath THEN <<NodeAt(path, o)>>
       ELSE <<NodeAt(path, o)>> \o nodes[o + Uint16(path, o + 2)]
Nodes(path) == CHOOSE nodes : nodes = [o \in 0..Len(path) |-> NodesFrom(path, nodes, o)]

\* The walk is that function at the beginning.
LEMMA WalkIsNodes == \A path : Walk(path) = Nodes(path)[0]
BY DEF Walk, Nodes, NodesFrom, NodeAt, TooShort

\* It is well defined: what is known from some place on can be extended by one place
\* before it.
LEMMA NodesDef ==
  ASSUME NEW path \in Seq(Nat), NEW o \in 0..Len(path)
  PROVE  Nodes(path)[o] = NodesFrom(path, Nodes(path), o)
<1> DEFINE L == Len(path)
           Known(f, k) == /\ DOMAIN f = 0..L /\ f = [p \in 0..L |-> f[p]]
                          /\ \A p \in 0..L : p > L - k => f[p] = NodesFrom(path, f, p)
           T == {k \in 0..L + 1 : \E f : Known(f, k)}
<1>1. L \in Nat /\ L + 1 \in Nat
  OBVIOUS
<1>2. ASSUME NEW p \in 0..L, NEW f, NEW g, \A q \in 0..L : q > p => f[q] = g[q]
      PROVE  NodesFrom(path, f, p) = NodesFrom(path, g, p)
  <2>1. CASE TooShort(path, p)
    BY <2>1 DEF NodesFrom
  <2>2. CASE ~TooShort(path, p)
    <3>1. p + Uint16(path, p + 2) \in 0..L /\ p + Uint16(path, p + 2) > p
      BY <1>1, <2>2, SMTT(30) DEF TooShort
    <3>2. f[p + Uint16(path, p + 2)] = g[p + Uint16(path, p + 2)]
      BY <1>2, <3>1
    <3> QED
      BY <3>2 DEF NodesFrom
  <2> QED
    BY <2>1, <2>2
<1>3. 0 \in T
  <2>1. Known([p \in 0..L |-> <<>>], 0)
    <3> DEFINE f == [p \in 0..L |-> <<>>]
    <3>1. \A p \in 0..L : ~(p > L - 0)
      BY <1>1
    <3>2. DOMAIN f = 0..L /\ f = [p \in 0..L |-> f[p]]
      OBVIOUS
    <3> HIDE DEF f
    <3>3. Known(f, 0)
      BY <3>1, <3>2
    <3> QED
      BY <3>3 DEF f
  <2> HIDE DEF Known
  <2> QED
    BY <1>1, <2>1
<1>4. ASSUME NEW k \in 0..L + 1, k \in T, k < L + 1 PROVE k + 1 \in T
  <2>1. PICK f : Known(f, k)
    BY <1>4
  <2> DEFINE p == L - k
             v == NodesFrom(path, f, p)
             g == [q \in 0..L |-> IF q = p THEN v ELSE f[q]]
  <2>2. p \in 0..L /\ p \in Int /\ k + 1 \in 0..L + 1 /\ L - (k + 1) = p - 1
    BY <1>1, <1>4
  <2> HIDE DEF v, p
  <2>3. /\ DOMAIN g = 0..L /\ g = [q \in 0..L |-> g[q]]
        /\ g[p] = v /\ \A q \in 0..L : q # p => g[q] = f[q]
    BY <2>2
  <2> HIDE DEF g
  <2>4. ASSUME NEW q \in 0..L, q > L - (k + 1) PROVE g[q] = NodesFrom(path, g, q)
    <3>1. q = p \/ q > p
      BY <2>2, <2>4
    <3>2. \A r \in 0..L : r > q => f[r] = g[r]
      BY <2>2, <2>3, <3>1
    <3>3. NodesFrom(path, f, q) = NodesFrom(path, g, q)
      BY <1>2, <3>2
    <3>4. CASE q = p
      BY <2>3, <3>3, <3>4 DEF v
    <3>5. CASE q > p
      <4>1. f[q] = NodesFrom(path, f, q)
        BY <2>1, <3>5 DEF p
      <4>2. g[q] = f[q]
        BY <2>2, <2>3, <3>5
      <4> QED
        BY <3>3, <4>1, <4>2
    <3> QED
      BY <3>1, <3>4, <3>5
  <2>5. Known(g, k + 1)
    BY <2>3, <2>4
  <2> HIDE DEF Known
  <2> QED
    BY <2>2, <2>5
<1>5. 0..L + 1 \subseteq T
  <2> HIDE DEF T, L
  <2> QED
    BY <1>1, <1>3, <1>4, UpTo
<1>6. PICK f : Known(f, L + 1)
  <2>1. L + 1 \in T
    BY <1>1, <1>5
  <2> HIDE DEF Known
  <2> QED
    BY <2>1
<1>7. f = [p \in 0..L |-> NodesFrom(path, f, p)]
  <2>1. \A p \in 0..L : p > L - (L + 1)
    BY <1>1
  <2>2. \A p \in 0..L : f[p] = NodesFrom(path, f, p)
    BY <1>6, <2>1
  <2>3. f = [p \in 0..L |-> f[p]]
    BY <1>6
  <2> QED
    BY <2>2, <2>3
<1>8. Nodes(path) = [p \in 0..Len(path) |-> NodesFrom(path, Nodes(path), p)]
  BY <1>7 DEF Nodes
<1> QED
  BY <1>8

\* The GUID has its first three fields turned round; turning them again gives it back.
Turned(g, guid) ==
  /\ Reverse(SubSeq(g, 1, 4)) = SubSeq(guid, 1, 4)
  /\ Reverse(SubSeq(g, 5, 6)) = SubSeq(guid, 5, 6)
  /\ Reverse(SubSeq(g, 7, 8)) = SubSeq(guid, 7, 8)
  /\ SubSeq(g, 9, 16) = SubSeq(guid, 9, 16)

\* A GUID of 16 bytes.
GUID == {g \in Seq(Nat) : Len(g) = 16}

\* Its bytes.
LEMMA GuidAt ==
  ASSUME NEW g \in GUID
  PROVE  \A i \in 1..16 : g[i] \in Nat
<1>1. g \in Seq(Nat) /\ Len(g) = 16
  BY DEF GUID
<1>2. \A i \in 1..Len(g) : g[i] \in Nat
  BY <1>1, ElementOfSeq
<1> QED
  BY <1>1, <1>2

\* A part of it.
LEMMA PartOf ==
  ASSUME NEW g \in GUID, NEW a \in 1..16, NEW z \in a..16
  PROVE  /\ SubSeq(g, a, z) \in Seq(Nat) /\ Len(SubSeq(g, a, z)) = z - a + 1
         /\ SubSeq(g, a, z) = [i \in 1..z - a + 1 |-> SubSeq(g, a, z)[i]]
         /\ \A i \in 1..z - a + 1 : SubSeq(g, a, z)[i] = g[a + i - 1]
<1>0. \A i \in a..z : i \in 1..16
  OBVIOUS
<1>1. a \in Int /\ z \in Int /\ \A i \in a..z : g[i] \in Nat
  BY <1>0, GuidAt
<1>2. /\ SubSeq(g, a, z) \in Seq(Nat)
      /\ Len(SubSeq(g, a, z)) = IF a <= z THEN z - a + 1 ELSE 0
      /\ \A i \in 1..z - a + 1 : SubSeq(g, a, z)[i] = g[a + i - 1]
  BY <1>1, SubSeqProperties
<1> QED
  BY <1>2

\* swapGUIDEndian turns the fields round.
LEMMA TurnedBack ==
  ASSUME NEW guid \in GUID
  PROVE  swapGUIDEndian(guid) \in GUID /\ Turned(swapGUIDEndian(guid), guid)
<1> DEFINE f == <<guid[4], guid[3], guid[2], guid[1], guid[6], guid[5], guid[8], guid[7]>>
           r == SubSeq(guid, 9, 16)
           g == swapGUIDEndian(guid)
<1>1. /\ guid[1] \in Nat /\ guid[2] \in Nat /\ guid[3] \in Nat /\ guid[4] \in Nat
      /\ guid[5] \in Nat /\ guid[6] \in Nat /\ guid[7] \in Nat /\ guid[8] \in Nat
  BY GuidAt
<1>2. /\ f \in Seq(Nat) /\ Len(f) = 8 /\ f[1] = guid[4] /\ f[2] = guid[3] /\ f[3] = guid[2]
      /\ f[4] = guid[1] /\ f[5] = guid[6] /\ f[6] = guid[5] /\ f[7] = guid[8] /\ f[8] = guid[7]
  BY <1>1
<1>3. r \in Seq(Nat) /\ Len(r) = 8 /\ \A i \in 1..8 : r[i] = guid[9 + i - 1]
  <2>1. 9 \in 1..16 /\ 16 \in 9..16 /\ 16 - 9 + 1 = 8
    OBVIOUS
  <2> QED
    BY <2>1, PartOf
<1>4. g = f \o r
  BY DEF swapGUIDEndian
<1> HIDE DEF f, r, g
<1>5. /\ g \in Seq(Nat) /\ Len(g) = 16
      /\ \A i \in 1..8 : g[i] = f[i] /\ g[8 + i] = r[i]
  <2>1. f \in Seq(Nat) /\ r \in Seq(Nat)
    BY <1>2, <1>3
  <2>2. /\ f \o r \in Seq(Nat) /\ Len(f \o r) = Len(f) + Len(r)
        /\ \A i \in 1..Len(f) : (f \o r)[i] = f[i]
        /\ \A i \in 1..Len(r) : (f \o r)[Len(f) + i] = r[i]
    BY <2>1, FromIs
  <2>3. Len(f) = 8 /\ Len(r) = 8
    BY <1>2, <1>3
  <2>4. /\ g \in Seq(Nat) /\ Len(g) = 8 + 8
        /\ \A i \in 1..8 : g[i] = f[i]
        /\ \A i \in 1..8 : g[8 + i] = r[i]
    BY <1>4, <2>2, <2>3, Zenon
  <2> QED
    BY <2>4
<1>6. g \in GUID
  BY <1>5 DEF GUID
<1>7. /\ g[1] = guid[4] /\ g[2] = guid[3] /\ g[3] = guid[2] /\ g[4] = guid[1]
      /\ g[5] = guid[6] /\ g[6] = guid[5] /\ g[7] = guid[8] /\ g[8] = guid[7]
  BY <1>2, <1>5, SMTT(30)
<1>8. ASSUME NEW i \in 9..16 PROVE g[i] = guid[i]
  <2>1. i - 8 \in 1..8 /\ 8 + (i - 8) = i /\ 9 + (i - 8) - 1 = i
    OBVIOUS
  <2>2. g[8 + (i - 8)] = r[i - 8] /\ r[i - 8] = guid[9 + (i - 8) - 1]
    BY <1>3, <1>5, <2>1
  <2> QED
    BY <2>1, <2>2
<1>9. ASSUME NEW a \in 1..16, NEW z \in a..16,
             \A i \in 1..z - a + 1 : g[a + ((z - a + 1) - i + 1) - 1] = guid[a + i - 1]
      PROVE  Reverse(SubSeq(g, a, z)) = SubSeq(guid, a, z)
  <2> DEFINE n == z - a + 1
             x == SubSeq(g, a, z)
             y == SubSeq(guid, a, z)
  <2>1. /\ n \in Nat /\ Len(x) = n /\ y = [i \in 1..n |-> y[i]]
        /\ \A i \in 1..n : x[i] = g[a + i - 1] /\ y[i] = guid[a + i - 1]
    BY <1>6, PartOf
  <2> HIDE DEF x, y
  <2>2. \A i \in 1..n : x[(n - i) + 1] = y[i]
    <3> SUFFICES ASSUME NEW i \in 1..n PROVE x[(n - i) + 1] = y[i]
      OBVIOUS
    <3>1. (n - i) + 1 \in 1..n
      BY <2>1
    <3>2. x[(n - i) + 1] = g[a + ((n - i) + 1) - 1]
      BY <2>1, <3>1
    <3> QED
      BY <1>9, <2>1, <3>2
  <2>3. Reverse(x) = [i \in 1..n |-> x[(n - i) + 1]]
    BY <2>1 DEF Reverse
  <2> HIDE DEF n
  <2>4. Reverse(x) = y
    BY <2>1, <2>2, <2>3
  <2> QED
    BY <2>4 DEF x, y
<1>10. Reverse(SubSeq(g, 1, 4)) = SubSeq(guid, 1, 4)
  <2>1. \A i \in 1..4 : i = 1 \/ i = 2 \/ i = 3 \/ i = 4
    OBVIOUS
  <2>2. \A i \in 1..4 - 1 + 1 : g[1 + ((4 - 1 + 1) - i + 1) - 1] = guid[1 + i - 1]
    BY <1>7, <2>1
  <2> QED
    BY <1>9, <2>2
<1>11. Reverse(SubSeq(g, 5, 6)) = SubSeq(guid, 5, 6)
  <2>1. \A i \in 1..6 - 5 + 1 : i = 1 \/ i = 2
    OBVIOUS
  <2>2. \A i \in 1..6 - 5 + 1 : g[5 + ((6 - 5 + 1) - i + 1) - 1] = guid[5 + i - 1]
    BY <1>7, <2>1
  <2> QED
    BY <1>9, <2>2
<1>12. Reverse(SubSeq(g, 7, 8)) = SubSeq(guid, 7, 8)
  <2>1. \A i \in 1..8 - 7 + 1 : i = 1 \/ i = 2
    OBVIOUS
  <2>2. \A i \in 1..8 - 7 + 1 : g[7 + ((8 - 7 + 1) - i + 1) - 1] = guid[7 + i - 1]
    BY <1>7, <2>1
  <2> QED
    BY <1>9, <2>2
<1>13. SubSeq(g, 9, 16) = SubSeq(guid, 9, 16)
  <2> DEFINE x == SubSeq(g, 9, 16)
             y == SubSeq(guid, 9, 16)
  <2>1. /\ x = [i \in 1..8 |-> x[i]] /\ y = [i \in 1..8 |-> y[i]]
        /\ \A i \in 1..8 : x[i] = g[9 + i - 1] /\ y[i] = guid[9 + i - 1]
    <3>1. 9 \in 1..16 /\ 16 \in 9..16 /\ 16 - 9 + 1 = 8
      OBVIOUS
    <3> QED
      BY <1>6, <3>1, PartOf
  <2>2. \A i \in 1..8 : 9 + i - 1 \in 9..16
    OBVIOUS
  <2> HIDE DEF x, y
  <2>3. \A i \in 1..8 : x[i] = y[i]
    BY <1>8, <2>1, <2>2
  <2>4. x = y
    BY <2>1, <2>3
  <2> QED
    BY <2>4 DEF x, y
<1> QED
  BY <1>6, <1>10, <1>11, <1>12, <1>13 DEF Turned, g

-------------------------------------------------------------------------------
\* What is behind the first k bytes is at its place, and with it what is further on.
LEMMA FromAt ==
  ASSUME NEW x \in Seq(Nat), NEW k \in Nat, k <= Len(x)
  PROVE  /\ From(x, k) \in Seq(Nat) /\ Len(From(x, k)) = Len(x) - k
         /\ At(x, k, From(x, k))
         /\ \A s \in Seq(Nat), o \in Nat : At(x, k + o, s) => At(From(x, k), o, s)
<1> DEFINE n == Len(x)
           f == From(x, k)
<1>1. n \in Nat /\ k <= n /\ k + 1 \in Int /\ n \in Int /\ \A i \in k + 1..n : x[i] \in Nat
  <2>1. n \in Nat /\ k <= n /\ k + 1 \in Int /\ n \in Int
    OBVIOUS
  <2>2. \A i \in 1..n : x[i] \in Nat
    BY ElementOfSeq
  <2>3. \A i \in k + 1..n : i \in 1..n
    BY <2>1
  <2> QED
    BY <2>1, <2>2, <2>3
<1>2. f = SubSeq(x, k + 1, n)
  BY DEF From
<1> HIDE DEF n
<1>3. /\ SubSeq(x, k + 1, n) \in Seq(Nat)
      /\ Len(SubSeq(x, k + 1, n)) = IF k + 1 <= n THEN n - (k + 1) + 1 ELSE 0
      /\ \A i \in 1..n - (k + 1) + 1 : SubSeq(x, k + 1, n)[i] = x[(k + 1) + i - 1]
  BY <1>1, SubSeqProperties
<1> HIDE DEF f
<1>4. /\ f \in Seq(Nat) /\ Len(f) = n - k
      /\ \A i \in 1..n - k : f[i] = x[k + i]
  <2>1. n - (k + 1) + 1 = n - k /\ (~(k + 1 <= n) => n - k = 0)
    BY <1>1
  <2>2. \A i \in 1..n - k : (k + 1) + i - 1 = k + i
    BY <1>1
  <2> QED
    BY <1>2, <1>3, <2>1, <2>2
<1>5. At(x, k, f)
  BY <1>1, <1>4 DEF At, n
<1>6. ASSUME NEW s \in Seq(Nat), NEW o \in Nat, At(x, k + o, s) PROVE At(f, o, s)
  <2>1. Len(s) \in Nat /\ (k + o) + Len(s) <= n /\ \A i \in 1..Len(s) : x[(k + o) + i] = s[i]
    BY <1>6 DEF At, n
  <2>2. ASSUME NEW i \in 1..Len(s) PROVE f[o + i] = s[i]
    <3>1. o + i \in 1..n - k /\ k + (o + i) = (k + o) + i
      BY <1>1, <2>1
    <3>2. f[o + i] = x[k + (o + i)]
      BY <1>4, <3>1
    <3> QED
      BY <2>1, <3>1, <3>2
  <2>3. o + Len(s) <= Len(f)
    BY <1>1, <1>4, <2>1
  <2> QED
    BY <2>2, <2>3 DEF At
<1> QED
  BY <1>4, <1>5, <1>6 DEF f, n

\* A whole list is at its own beginning.
LEMMA AtSelf ==
  ASSUME NEW x \in Seq(Nat)
  PROVE  At(x, 0, x)
<1>1. Len(x) \in Nat /\ 0 + Len(x) <= Len(x) /\ \A i \in 1..Len(x) : 0 + i = i
  OBVIOUS
<1> QED
  BY <1>1 DEF At

\* The beginning of a node of a device path: its type and its length.
LEMMA HeaderIs ==
  ASSUME NEW t \in Nat, NEW u \in Nat, NEW k \in Half
  PROVE  /\ <<t, u>> \o LE(k, 2) \in Seq(Nat) /\ Len(<<t, u>> \o LE(k, 2)) = 4
         /\ At(<<t, u>> \o LE(k, 2), 0, <<t, u>>)
         /\ At(<<t, u>> \o LE(k, 2), 2, LE(k, 2))
<1> DEFINE h == <<t, u>>
           l == LE(k, 2)
<1>1. h \in Seq(Nat) /\ Len(h) = 2 /\ l \in Seq(Nat) /\ Len(l) = 2 /\ 0 \in Nat
  BY LE2
<1>2. At(h, 0, h)
  BY <1>1, AtSelf
<1> HIDE DEF h, l
<1>3. /\ h \o l \in Seq(Nat) /\ Len(h \o l) = Len(h) + Len(l) /\ At(h \o l, Len(h), l)
      /\ At(h \o l, 0, h)
  BY <1>1, <1>2, Joined
<1>4. /\ h \o l \in Seq(Nat) /\ Len(h \o l) = 4 /\ At(h \o l, 2, l)
      /\ At(h \o l, 0, h)
  BY <1>1, <1>3
<1> QED
  BY <1>4 DEF h, l

\* The first byte of what begins with two given bytes.
LEMMA FirstAt ==
  ASSUME NEW x, NEW t \in Nat, NEW u \in Nat, At(x, 0, <<t, u>>)
  PROVE  x[1] = t
<1>1. <<t, u>>[1] = t /\ Len(<<t, u>>) = 2 /\ 1 \in 1..2 /\ 0 + 1 = 1
  OBVIOUS
<1>2. \A i \in 1..Len(<<t, u>>) : x[0 + i] = <<t, u>>[i]
  BY DEF At
<1> QED
  BY <1>1, <1>2

\* Adding at the end.
LEMMA AddAt ==
  ASSUME NEW x \in Seq(Nat), NEW y \in Seq(Nat), NEW k \in Nat, Len(x) = k
  PROVE  /\ x \o y \in Seq(Nat) /\ Len(x \o y) = k + Len(y) /\ At(x \o y, k, y)
         /\ \A s \in Seq(Nat), o \in Nat : At(x, o, s) => At(x \o y, o, s)
BY Joined

\* As many bytes as asked for.
LEMMA LEWidth ==
  ASSUME NEW n \in Word, NEW w \in Nat
  PROVE  LE(n, w) \in Seq(Nat) /\ Len(LE(n, w)) = w
BY LEIs

\* Where the fields of a hard drive node are.
LEMMA HardDriveIs ==
  ASSUME NEW part \in Word, NEW guid \in GUID, NEW first \in Word, NEW last \in Word,
         last - first + 1 \in Word
  PROVE  LET h == HardDriveNode(part, guid, first, last)
         IN  /\ h \in Seq(Nat) /\ Len(h) = 42
             /\ h[1] = MediaPath /\ At(h, 2, LE(42, 2))
             /\ At(h, 4, LE(part, 4)) /\ At(h, 8, LE(first, 8))
             /\ At(h, 16, LE(last - first + 1, 8))
             /\ At(h, 24, swapGUIDEndian(guid)) /\ At(h, 40, <<2, 2>>)
<1> DEFINE sz == last - first + 1
           s2 == LE(42, 2)
           s3 == LE(part, 4)
           s4 == LE(first, 8)
           s5 == LE(sz, 8)
           s6 == swapGUIDEndian(guid)
           s7 == <<2, 2>>
           s1 == <<MediaPath, 1>>
           x2 == s1 \o s2
           x3 == x2 \o s3
           x4 == x3 \o s4
           x5 == x4 \o s5
           x6 == x5 \o s6
           h == x6 \o s7
<1>1. /\ s3 \in Seq(Nat) /\ Len(s3) = 4 /\ s4 \in Seq(Nat) /\ Len(s4) = 8
      /\ s5 \in Seq(Nat) /\ Len(s5) = 8
  <2>1. 4 \in Nat /\ 8 \in Nat
    OBVIOUS
  <2> HIDE DEF sz
  <2>2. sz \in Word
    BY DEF sz
  <2>3. LE(part, 4) \in Seq(Nat) /\ Len(LE(part, 4)) = 4
    BY <2>1, LEWidth
  <2>4. LE(first, 8) \in Seq(Nat) /\ Len(LE(first, 8)) = 8
    BY <2>1, LEWidth
  <2>5. LE(sz, 8) \in Seq(Nat) /\ Len(LE(sz, 8)) = 8
    BY <2>1, <2>2, LEWidth
  <2> QED
    BY <2>3, <2>4, <2>5
<1>2. s6 \in Seq(Nat) /\ Len(s6) = 16
  BY TurnedBack DEF GUID
<1>3. s7 \in Seq(Nat) /\ Len(s7) = 2
  OBVIOUS
<1>4. 42 \in Half /\ MediaPath \in Nat /\ 1 \in Nat
  BY SMT DEF Half, MediaPath
<1>5. s1 \in Seq(Nat) /\ s2 \in Seq(Nat)
  BY <1>4, LE2
<1>6. HardDriveNode(part, guid, first, last) = h
  BY DEF HardDriveNode
<1>7. x2 \in Seq(Nat) /\ Len(x2) = 4 /\ At(x2, 0, s1) /\ At(x2, 2, s2)
  BY <1>4, HeaderIs
<1>n. 0 \in Nat /\ 2 \in Nat /\ 4 \in Nat /\ 8 \in Nat /\ 16 \in Nat /\ 24 \in Nat /\ 40 \in Nat
  OBVIOUS
<1> HIDE DEF s1, s2, s3, s4, s5, s6, s7, x2
<1>8. /\ x3 \in Seq(Nat) /\ Len(x3) = 4 + 4 /\ At(x3, 4, s3)
      /\ At(x3, 0, s1) /\ At(x3, 2, s2)
  <2>1. /\ x3 \in Seq(Nat) /\ Len(x3) = 4 + Len(s3) /\ At(x3, 4, s3)
        /\ \A s \in Seq(Nat), o \in Nat : At(x2, o, s) => At(x3, o, s)
    BY <1>1, <1>7, <1>n, AddAt
  <2> HIDE DEF x3
  <2> QED
    BY <1>1, <1>5, <1>7, <1>n, <2>1
<1> HIDE DEF x3
<1>9. /\ x4 \in Seq(Nat) /\ Len(x4) = 8 + 8 /\ At(x4, 8, s4)
      /\ At(x4, 0, s1) /\ At(x4, 2, s2) /\ At(x4, 4, s3)
  <2>0. Len(x3) = 8
    BY <1>8
  <2>1. /\ x4 \in Seq(Nat) /\ Len(x4) = 8 + Len(s4) /\ At(x4, 8, s4)
        /\ \A s \in Seq(Nat), o \in Nat : At(x3, o, s) => At(x4, o, s)
    BY <1>1, <1>8, <1>n, <2>0, AddAt
  <2> HIDE DEF x4
  <2> QED
    BY <1>1, <1>5, <1>8, <1>n, <2>1
<1> HIDE DEF x4
<1>10. /\ x5 \in Seq(Nat) /\ Len(x5) = 16 + 8 /\ At(x5, 16, s5)
       /\ At(x5, 0, s1) /\ At(x5, 2, s2) /\ At(x5, 4, s3) /\ At(x5, 8, s4)
  <2>0. Len(x4) = 16
    BY <1>9
  <2>1. /\ x5 \in Seq(Nat) /\ Len(x5) = 16 + Len(s5) /\ At(x5, 16, s5)
        /\ \A s \in Seq(Nat), o \in Nat : At(x4, o, s) => At(x5, o, s)
    BY <1>1, <1>9, <1>n, <2>0, AddAt
  <2> HIDE DEF x5
  <2> QED
    BY <1>1, <1>5, <1>9, <1>n, <2>1
<1> HIDE DEF x5
<1>11. /\ x6 \in Seq(Nat) /\ Len(x6) = 24 + 16 /\ At(x6, 24, s6) /\ At(x6, 0, s1)
       /\ At(x6, 2, s2) /\ At(x6, 4, s3) /\ At(x6, 8, s4) /\ At(x6, 16, s5)
  <2>0. Len(x5) = 24
    BY <1>10
  <2>1. /\ x6 \in Seq(Nat) /\ Len(x6) = 24 + Len(s6) /\ At(x6, 24, s6)
        /\ \A s \in Seq(Nat), o \in Nat : At(x5, o, s) => At(x6, o, s)
    BY <1>2, <1>10, <1>n, <2>0, AddAt
  <2> HIDE DEF x6
  <2> QED
    BY <1>1, <1>2, <1>5, <1>10, <1>n, <2>1
<1> HIDE DEF x6
<1>12. /\ h \in Seq(Nat) /\ Len(h) = 40 + 2 /\ At(h, 40, s7) /\ At(h, 0, s1) /\ At(h, 2, s2)
       /\ At(h, 4, s3) /\ At(h, 8, s4) /\ At(h, 16, s5) /\ At(h, 24, s6)
  <2>0. Len(x6) = 40
    BY <1>11
  <2>1. /\ h \in Seq(Nat) /\ Len(h) = 40 + Len(s7) /\ At(h, 40, s7)
        /\ \A s \in Seq(Nat), o \in Nat : At(x6, o, s) => At(h, o, s)
    BY <1>3, <1>11, <1>n, <2>0, AddAt
  <2> HIDE DEF h
  <2> QED
    BY <1>1, <1>2, <1>3, <1>5, <1>11, <1>n, <2>1
<1> HIDE DEF h
<1>13. h[1] = MediaPath
  BY <1>4, <1>12, FirstAt DEF s1
<1> QED
  BY <1>6, <1>12, <1>13 DEF s2, s3, s4, s5, s6, s7

\* Of a file path node, and of the end node.
LEMMA FilePathIs ==
  ASSUME NEW file \in Seq(Half), 2 * Len(file) + 6 < 65536
  PROVE  /\ FilePathNode(file) \in Seq(Nat) /\ Len(FilePathNode(file)) = 2 * Len(file) + 6
         /\ FilePathNode(file)[1] = MediaPath
         /\ At(FilePathNode(file), 2, LE(2 * Len(file) + 6, 2))
         /\ At(FilePathNode(file), 4, MarshalUtf16Var(file))
<1> DEFINE m == MarshalUtf16Var(file)
           k == 2 * Len(file) + 6
           x == <<MediaPath, 4>> \o LE(k, 2)
           s1 == <<MediaPath, 4>>
           s2 == LE(k, 2)
<1>1. m \in Seq(Nat) /\ Len(m) = 2 * Len(file) + 2
  BY MarshalIs
<1>2. k \in Half /\ 4 + Len(m) = k /\ MediaPath \in Nat /\ 4 \in Nat /\ 0 \in Nat /\ 2 \in Nat
  <2>1. Len(file) \in Nat
    OBVIOUS
  <2> HIDE DEF m
  <2> QED
    BY <1>1, <2>1, SMT DEF Half, MediaPath
<1>3. FilePathNode(file) = x \o m
  BY <1>2 DEF FilePathNode
<1> HIDE DEF m, k
<1>4. x \in Seq(Nat) /\ Len(x) = 4 /\ At(x, 0, s1) /\ At(x, 2, s2)
  BY <1>2, HeaderIs
<1>5. s1 \in Seq(Nat) /\ s2 \in Seq(Nat)
  BY <1>2, LE2
<1> HIDE DEF x, s1, s2
<1>6. /\ x \o m \in Seq(Nat) /\ Len(x \o m) = 4 + Len(m) /\ At(x \o m, 4, m)
      /\ \A s \in Seq(Nat), o \in Nat : At(x, o, s) => At(x \o m, o, s)
  <2>0. Len(x) = 4
    BY <1>4
  <2>1. x \in Seq(Nat) /\ m \in Seq(Nat)
    BY <1>1, <1>4
  <2>2. x \o m \in Seq(Nat) /\ Len(x \o m) = Len(x) + Len(m) /\ At(x \o m, Len(x), m)
    BY <2>1, Joined
  <2>3. ASSUME NEW s \in Seq(Nat), NEW o \in Nat, At(x, o, s) PROVE At(x \o m, o, s)
    BY <2>1, <2>3, Joined
  <2> QED
    BY <2>0, <2>2, <2>3
<1>7. At(x \o m, 0, s1) /\ At(x \o m, 2, s2)
  BY <1>2, <1>4, <1>5, <1>6
<1>8. Len(x \o m) = k
  BY <1>2, <1>6
<1>9. (x \o m)[1] = MediaPath
  <2> DEFINE y == x \o m
  <2>1. At(y, 0, s1) /\ MediaPath \in Nat /\ 4 \in Nat
    BY <1>2, <1>7
  <2> HIDE DEF y
  <2>2. y[1] = MediaPath
    BY <2>1, FirstAt DEF s1
  <2> QED
    BY <2>2 DEF y
<1> QED
  BY <1>3, <1>6, <1>7, <1>8, <1>9 DEF m, k, s2

\* Of the end node.
LEMMA EndNodeIs ==
  /\ EndNode \in Seq(Nat) /\ Len(EndNode) = 4
  /\ EndNode[1] = EndPath /\ At(EndNode, 2, LE(4, 2))
<1> DEFINE s == <<EndPath, 255>>
           e == s \o LE(4, 2)
<1>1. 4 \in Half /\ EndPath \in Nat /\ 255 \in Nat
  BY SMT DEF Half, EndPath
<1>2. e \in Seq(Nat) /\ Len(e) = 4 /\ At(e, 0, s) /\ At(e, 2, LE(4, 2))
  BY <1>1, HeaderIs
<1>3. e[1] = EndPath
  <2> HIDE DEF e
  <2> QED
    BY <1>1, <1>2, FirstAt
<1>4. EndNode = e
  BY DEF EndNode
<1> HIDE DEF e
<1> QED
  BY <1>2, <1>3, <1>4

\* What the firmware finds where a node was put.
LEMMA NodeIs ==
  ASSUME NEW path \in Seq(Nat), NEW o \in Nat, NEW x \in Seq(Nat), At(path, o, x),
         NEW t \in Nat, x[1] = t, Len(x) >= 4,
         Len(x) \in Half, At(x, 2, LE(Len(x), 2))
  PROVE  /\ o \in 0..Len(path) /\ ~TooShort(path, o) /\ Uint16(path, o + 2) = Len(x)
         /\ NodeAt(path, o) = [type |-> t, data |-> From(x, 4)]
<1> DEFINE k == Len(x)
<1>1. /\ k \in Nat /\ Len(path) \in Nat /\ o + k <= Len(path) /\ k >= 4 /\ k \in Half
      /\ \A i \in 1..k : path[o + i] = x[i]
  <2>1. o + k <= Len(path) /\ \A i \in 1..k : path[o + i] = x[i]
    BY DEF At
  <2>2. k \in Nat /\ Len(path) \in Nat
    OBVIOUS
  <2>3. k \in Half /\ k >= 4
    OBVIOUS
  <2> HIDE DEF k
  <2> QED
    BY <2>1, <2>2, <2>3
<1>2. Uint16(path, o + 2) = k
  <2>1. LE(k, 2) \in Seq(Nat) /\ 2 \in Nat /\ o + 2 \in Nat /\ k \in Half
    BY LE2
  <2>2. At(path, o + 2, LE(k, 2))
    BY <2>1, AtAt
  <2> HIDE DEF k
  <2> QED
    BY <2>1, <2>2, ReadUint16
<1>3. Byte(path, o) = t
  <2>1. x[1] = t
    OBVIOUS
  <2>2. 1 \in 1..k
    BY <1>1
  <2> QED
    BY <1>1, <2>1, <2>2 DEF Byte
<1>4. SubSeq(path, o + 5, o + k) = From(x, 4)
  <2> DEFINE f == From(x, 4)
  <2>1. f \in Seq(Nat) /\ Len(f) = k - 4 /\ At(x, 4, f)
    BY <1>1, FromAt
  <2> HIDE DEF f
  <2>2. At(path, o + 4, f)
    BY <2>1, AtAt
  <2>3. SubSeq(path, (o + 4) + 1, (o + 4) + Len(f)) = f
    BY <2>1, <2>2, CutAt, SMTT(30)
  <2>4. (o + 4) + 1 = o + 5 /\ (o + 4) + Len(f) = o + k
    BY <1>1, <2>1
  <2> QED
    BY <2>3, <2>4 DEF f
<1> HIDE DEF k
<1>5. ~TooShort(path, o)
  <2>1. k \in 4..Len(path) - o /\ ~(Len(path) - o < 4)
    BY <1>1
  <2> QED
    BY <1>2, <2>1 DEF TooShort
<1>6. o \in 0..Len(path)
  BY <1>1
<1>7. NodeAt(path, o) = [type |-> t, data |-> From(x, 4)]
  BY <1>2, <1>3, <1>4 DEF NodeAt
<1> QED
  BY <1>2, <1>5, <1>6, <1>7 DEF k

\* The bytes of one node: its type, its length, and what it holds.
IsNode(x, t) ==
  /\ x \in Seq(Nat) /\ Len(x) >= 4 /\ Len(x) \in Half
  /\ x[1] = t /\ At(x, 2, LE(Len(x), 2))
Held(x, t) == [type |-> t, data |-> From(x, 4)]

\* The walk takes a node, and goes on behind it unless it is the end node.
LEMMA WalkStep ==
  ASSUME NEW path \in Seq(Nat), NEW o \in Nat, NEW x, At(path, o, x),
         NEW t \in Nat, IsNode(x, t)
  PROVE  /\ t = EndPath => Nodes(path)[o] = <<Held(x, t)>>
         /\ t # EndPath => Nodes(path)[o] = <<Held(x, t)>> \o Nodes(path)[o + Len(x)]
<1>2. /\ x \in Seq(Nat) /\ Len(x) >= 4 /\ Len(x) \in Half
      /\ x[1] = t /\ At(x, 2, LE(Len(x), 2))
  BY DEF IsNode
<1>3. /\ o \in 0..Len(path) /\ ~TooShort(path, o) /\ Uint16(path, o + 2) = Len(x)
      /\ NodeAt(path, o) = Held(x, t)
  BY <1>2, NodeIs DEF Held
<1>4. Nodes(path)[o] = NodesFrom(path, Nodes(path), o)
  BY <1>3, NodesDef
<1>5. NodeAt(path, o).type = t
  BY <1>3 DEF Held
<1>6. Nodes(path)[o] = IF NodeAt(path, o).type = EndPath THEN <<NodeAt(path, o)>>
                       ELSE <<NodeAt(path, o)>> \o Nodes(path)[o + Uint16(path, o + 2)]
  BY <1>3, <1>4 DEF NodesFrom
<1>7. CASE t = EndPath
  BY <1>3, <1>5, <1>6, <1>7
<1>8. CASE t # EndPath
  BY <1>3, <1>5, <1>6, <1>8
<1> QED
  BY <1>7, <1>8

\* It finds three nodes in a row.
LEMMA WalkOfThree ==
  ASSUME NEW x, NEW y, NEW z, NEW t \in Nat, NEW u \in Nat,
         IsNode(x, t), IsNode(y, u), IsNode(z, EndPath), t # EndPath, u # EndPath
  PROVE  Walk((x \o y) \o z)
           = <<Held(x, t)>> \o (<<Held(y, u)>> \o <<Held(z, EndPath)>>)
<1> DEFINE xy == x \o y
           d == xy \o z
<1>1. x \in Seq(Nat) /\ y \in Seq(Nat) /\ z \in Seq(Nat) /\ EndPath \in Nat
  BY DEF IsNode, EndPath
<1>2. xy \in Seq(Nat) /\ Len(xy) = Len(x) + Len(y) /\ At(xy, Len(x), y) /\ At(xy, 0, x)
  <2>1. At(x, 0, x) /\ 0 \in Nat
    BY <1>1, AtSelf
  <2> QED
    BY <1>1, <2>1, Joined
<1> HIDE DEF xy
<1>3. d \in Seq(Nat) /\ At(d, Len(xy), z) /\ At(d, Len(x), y) /\ At(d, 0, x)
  <2>1. Len(x) \in Nat /\ 0 \in Nat
    BY <1>1
  <2>2. /\ d \in Seq(Nat) /\ At(d, Len(xy), z)
        /\ \A s \in Seq(Nat), o \in Nat : At(xy, o, s) => At(d, o, s)
    BY <1>1, <1>2, Joined
  <2> HIDE DEF d
  <2> QED
    BY <1>1, <1>2, <2>1, <2>2
<1> HIDE DEF d
<1>4. Nodes(d)[Len(xy)] = <<Held(z, EndPath)>>
  <2>1. Len(xy) \in Nat
    BY <1>2
  <2> QED
    BY <1>1, <1>3, <2>1, WalkStep, ZenonT(30)
<1>5. Nodes(d)[Len(x)] = <<Held(y, u)>> \o Nodes(d)[Len(xy)]
  <2>1. Len(x) \in Nat
    BY <1>1
  <2>2. Nodes(d)[Len(x)] = <<Held(y, u)>> \o Nodes(d)[Len(x) + Len(y)]
    BY <1>3, <2>1, WalkStep
  <2> QED
    BY <1>2, <2>2
<1>6. Nodes(d)[0] = <<Held(x, t)>> \o Nodes(d)[Len(x)]
  <2>1. 0 \in Nat /\ 0 + Len(x) = Len(x)
    BY <1>1
  <2>2. Nodes(d)[0] = <<Held(x, t)>> \o Nodes(d)[0 + Len(x)]
    BY <1>3, <2>1, WalkStep
  <2> QED
    BY <2>1, <2>2
<1> QED
  BY <1>4, <1>5, <1>6, WalkIsNodes DEF d, xy

\* A string that stands at the beginning is what decodes.
LEMMA StringAt ==
  ASSUME NEW s \in Seq(Char), NEW x \in Seq(Nat), At(x, 0, MarshalUtf16Var(s))
  PROVE  Terminators(x) # {} /\ Min(Terminators(x)) = Len(s) /\ decodeUTF16Z(x) = s
<1>1. s \in Seq(Half)
  BY DEF Char, Half
<1> DEFINE m == MarshalUtf16Var(s)
           n == 2 * Len(s) + 2
<1>2. Len(m) = n
  BY <1>1, MarshalIs
<1>3. 0 + Len(m) <= Len(x) /\ \A i \in 1..Len(m) : x[0 + i] = m[i]
  BY DEF At
<1> HIDE DEF m
<1>4. n \in Nat
  <2>1. Len(s) \in Nat
    OBVIOUS
  <2> QED
    BY <2>1
<1> HIDE DEF n
<1>5. Len(x) >= n /\ \A i \in 1..n : x[i] = m[i]
  <2>1. \A i \in 1..n : 0 + i = i
    BY <1>4
  <2>2. 0 + n = n /\ Len(x) \in Nat
    BY <1>4
  <2> QED
    BY <1>2, <1>3, <1>4, <2>1, <2>2
<1>6. Begins(x, s)
  BY <1>1, <1>5, MarshalBegins DEF m, n
<1> QED
  BY <1>6, BeginsDecodes

\* The nodes that buildLoadOption makes are nodes.
LEMMA NodesMade ==
  ASSUME NEW part \in Word, NEW guid \in GUID, NEW first \in Word, NEW last \in Word,
         last - first + 1 \in Word, NEW file \in Seq(Half), 2 * Len(file) + 6 < 65536
  PROVE  /\ IsNode(HardDriveNode(part, guid, first, last), MediaPath)
         /\ IsNode(FilePathNode(file), MediaPath)
         /\ IsNode(EndNode, EndPath)
<1>1. IsNode(HardDriveNode(part, guid, first, last), MediaPath)
  <2> DEFINE h == HardDriveNode(part, guid, first, last)
  <2>1. h \in Seq(Nat) /\ Len(h) = 42 /\ h[1] = MediaPath /\ At(h, 2, LE(42, 2))
    BY HardDriveIs
  <2>2. 42 \in Half /\ 42 >= 4
    BY SMT DEF Half
  <2> HIDE DEF h
  <2> QED
    BY <2>1, <2>2 DEF IsNode, h
<1>2. IsNode(FilePathNode(file), MediaPath)
  <2> DEFINE f == FilePathNode(file)
             k == 2 * Len(file) + 6
  <2>1. f \in Seq(Nat) /\ Len(f) = k /\ f[1] = MediaPath /\ At(f, 2, LE(k, 2))
    BY FilePathIs
  <2>2. k \in Half /\ k >= 4
    <3>1. Len(file) \in Nat
      OBVIOUS
    <3> QED
      BY <3>1, SMT DEF Half
  <2> HIDE DEF f, k
  <2> QED
    BY <2>1, <2>2 DEF IsNode, f
<1>3. IsNode(EndNode, EndPath)
  <2>1. 4 \in Half /\ 4 >= 4
    BY SMT DEF Half
  <2> QED
    BY <2>1, EndNodeIs DEF IsNode
<1> QED
  BY <1>1, <1>2, <1>3

\* What the firmware reads in a hard drive node.
LEMMA DiskRead ==
  ASSUME NEW part \in Word, NEW guid \in GUID, NEW first \in Word, NEW last \in Word,
         last - first + 1 \in Word
  PROVE  LET disk == From(HardDriveNode(part, guid, first, last), 4)
         IN  /\ Len(disk) = 38
             /\ Uint32(disk, 0) = part /\ Uint32(disk, 4) = first
             /\ Uint32(disk, 12) = last - first + 1
             /\ SubSeq(disk, 21, 36) = swapGUIDEndian(guid)
             /\ SubSeq(disk, 37, 38) = <<2, 2>>
<1> DEFINE h == HardDriveNode(part, guid, first, last)
           disk == From(h, 4)
           blocks == last - first + 1
           g == swapGUIDEndian(guid)
           s3 == LE(part, 4)
           s4 == LE(first, 8)
           s5 == LE(blocks, 8)
           s7 == <<2, 2>>
<1>1. /\ h \in Seq(Nat) /\ Len(h) = 42 /\ At(h, 4, s3) /\ At(h, 8, s4) /\ At(h, 16, s5)
      /\ At(h, 24, g) /\ At(h, 40, s7)
  BY HardDriveIs
<1>2. /\ 4 \in Nat /\ 8 \in Nat /\ 0 \in Nat /\ 12 \in Nat /\ 20 \in Nat /\ 36 \in Nat
      /\ 4 + 0 = 4 /\ 4 + 4 = 8 /\ 4 + 12 = 16 /\ 4 + 20 = 24 /\ 4 + 36 = 40
      /\ 4 >= 4 /\ 8 >= 4 /\ 4 <= 42 /\ 42 - 4 = 38
      /\ 20 + 1 = 21 /\ 20 + 16 = 36 /\ 36 + 1 = 37 /\ 36 + 2 = 38
  OBVIOUS
<1>3. g \in Seq(Nat) /\ Len(g) = 16 /\ s7 \in Seq(Nat) /\ Len(s7) = 2
  BY TurnedBack DEF GUID
<1>4. s3 \in Seq(Nat) /\ s4 \in Seq(Nat)
  BY <1>2, LEWidth
<1>5. s5 \in Seq(Nat) /\ blocks \in Word
  BY <1>2, LEWidth
<1> HIDE DEF h, g, s7
<1>6. /\ disk \in Seq(Nat) /\ Len(disk) = 38
      /\ \A s \in Seq(Nat), o \in Nat : At(h, 4 + o, s) => At(disk, o, s)
  <2>1. 4 <= Len(h)
    BY <1>1, <1>2
  <2>2. /\ disk \in Seq(Nat) /\ Len(disk) = Len(h) - 4
        /\ \A s \in Seq(Nat), o \in Nat : At(h, 4 + o, s) => At(disk, o, s)
    BY <1>1, <1>2, <2>1, FromAt
  <2> QED
    BY <1>1, <1>2, <2>2
<1> HIDE DEF disk, s3, s4, s5, blocks
<1>7. At(disk, 0, s3)
  BY <1>1, <1>2, <1>4, <1>6
<1>8. At(disk, 4, s4)
  BY <1>1, <1>2, <1>4, <1>6
<1>9. At(disk, 12, s5)
  BY <1>1, <1>2, <1>5, <1>6
<1>10. At(disk, 20, g)
  BY <1>1, <1>2, <1>3, <1>6
<1>11. At(disk, 36, s7)
  BY <1>1, <1>2, <1>3, <1>6
<1>12. Uint32(disk, 0) = part
  BY <1>2, <1>7, ReadUint32 DEF s3
<1>13. Uint32(disk, 4) = first
  BY <1>2, <1>8, ReadUint32 DEF s4
<1>14. Uint32(disk, 12) = blocks
  BY <1>2, <1>5, <1>9, ReadUint32 DEF s5
<1>15. SubSeq(disk, 21, 36) = g
  <2>1. SubSeq(disk, 20 + 1, 20 + Len(g)) = g
    BY <1>2, <1>3, <1>6, <1>10, CutAt, ZenonT(30)
  <2> QED
    BY <1>2, <1>3, <2>1
<1>16. SubSeq(disk, 37, 38) = s7
  <2>1. SubSeq(disk, 36 + 1, 36 + Len(s7)) = s7
    BY <1>2, <1>3, <1>6, <1>11, CutAt, ZenonT(30)
  <2> QED
    BY <1>2, <1>3, <2>1
<1> QED
  BY <1>6, <1>12, <1>13, <1>14, <1>15, <1>16 DEF disk, h, blocks, g, s7

\* And in a file path node.
LEMMA FileRead ==
  ASSUME NEW file \in Seq(Char), 2 * Len(file) + 6 < 65536
  PROVE  decodeUTF16Z(From(FilePathNode(file), 4)) = file
<1> DEFINE f == FilePathNode(file)
           m == MarshalUtf16Var(file)
           r == From(f, 4)
<1>0. file \in Seq(Half)
  BY DEF Char, Half
<1>1. f \in Seq(Nat) /\ Len(f) = 2 * Len(file) + 6 /\ At(f, 4, m)
  BY <1>0, FilePathIs
<1>2. m \in Seq(Nat) /\ 4 \in Nat /\ 0 \in Nat /\ 4 + 0 = 4
  BY <1>0, MarshalIs
<1>3. 4 <= Len(f)
  <2>1. Len(file) \in Nat
    OBVIOUS
  <2> HIDE DEF f
  <2> QED
    BY <1>1, <2>1
<1> HIDE DEF f, m
<1>4. r \in Seq(Nat) /\ \A s \in Seq(Nat), o \in Nat : At(f, 4 + o, s) => At(r, o, s)
  BY <1>1, <1>2, <1>3, FromAt
<1> HIDE DEF r
<1>5. At(r, 0, m)
  BY <1>1, <1>2, <1>4
<1>6. decodeUTF16Z(r) = file
  BY <1>4, <1>5, StringAt DEF m
<1> QED
  BY <1>6 DEF r, f

\* What is before a tail of known length, and the tail.
LEMMA Behind ==
  ASSUME NEW x \in Seq(Nat), NEW y \in Seq(Nat)
  PROVE  From(x \o y, Len(x \o y) - Len(y)) = y
<1>1. From(x \o y, Len(x)) = y /\ Len(x \o y) = Len(x) + Len(y)
  BY FromIs
<1>2. Len(x) \in Nat /\ Len(y) \in Nat
  OBVIOUS
<1>3. (Len(x) + Len(y)) - Len(y) = Len(x)
  BY <1>2
<1> QED
  BY <1>1, <1>3

\* A load option with the device path d.
OptionOf(label, d) == LE(1, 4) \o LE(Len(d), 2) \o MarshalUtf16Var(label) \o d

\* Where its parts are.
LEMMA OptionParts ==
  ASSUME NEW label \in Seq(Half), NEW d \in Seq(Nat), Len(d) \in Half
  PROVE  LET b == OptionOf(label, d)
         IN  /\ b \in Seq(Nat) /\ Len(b) = 2 * Len(label) + 8 + Len(d)
             /\ At(b, 0, LE(1, 4)) /\ At(b, 4, LE(Len(d), 2))
             /\ At(b, 6, MarshalUtf16Var(label))
             /\ From(b, Len(b) - Len(d)) = d
<1> DEFINE a == LE(1, 4)
           l == LE(Len(d), 2)
           m == MarshalUtf16Var(label)
           x == a \o l
           y == x \o m
           b == y \o d
           p == Len(d)
           n == Len(label)
<1>1. a \in Seq(Nat) /\ Len(a) = 4
  <2>1. 1 \in Word /\ 4 \in Nat
    BY SMT DEF Word
  <2> QED
    BY <2>1, LEWidth
<1>2. l \in Seq(Nat) /\ Len(l) = 2
  BY LE2
<1>3. m \in Seq(Nat) /\ Len(m) = 2 * n + 2
  BY MarshalIs
<1>4. n \in Nat /\ p \in Nat /\ 0 \in Nat /\ 4 \in Nat /\ 6 \in Nat
  OBVIOUS
<1>5. At(a, 0, a)
  BY <1>1, AtSelf
<1> HIDE DEF a, l, m, n
<1>6. x \in Seq(Nat) /\ Len(x) = 6 /\ At(x, 0, a) /\ At(x, 4, l)
  <2>1. /\ x \in Seq(Nat) /\ Len(x) = Len(a) + Len(l) /\ At(x, Len(a), l)
        /\ \A s \in Seq(Nat), o \in Nat : At(a, o, s) => At(x, o, s)
    BY <1>1, <1>2, Joined
  <2>2. At(x, 0, a)
    BY <1>1, <1>4, <1>5, <2>1
  <2> HIDE DEF x
  <2> QED
    BY <1>1, <1>2, <2>1, <2>2
<1> HIDE DEF x
<1>7. /\ y \in Seq(Nat) /\ Len(y) = 6 + (2 * n + 2)
      /\ At(y, 0, a) /\ At(y, 4, l) /\ At(y, 6, m)
  <2>1. /\ y \in Seq(Nat) /\ Len(y) = Len(x) + Len(m) /\ At(y, Len(x), m)
        /\ \A s \in Seq(Nat), o \in Nat : At(x, o, s) => At(y, o, s)
    BY <1>3, <1>6, Joined
  <2> HIDE DEF y
  <2>2. At(y, 0, a) /\ At(y, 4, l)
    BY <1>1, <1>2, <1>4, <1>6, <2>1
  <2> QED
    BY <1>3, <1>6, <2>1, <2>2
<1> HIDE DEF y
<1>8. /\ b \in Seq(Nat) /\ Len(b) = 6 + (2 * n + 2) + p
      /\ At(b, 0, a) /\ At(b, 4, l) /\ At(b, 6, m)
  <2>1. /\ b \in Seq(Nat) /\ Len(b) = Len(y) + Len(d)
        /\ \A s \in Seq(Nat), o \in Nat : At(y, o, s) => At(b, o, s)
    BY <1>7, Joined
  <2> HIDE DEF b
  <2> QED
    BY <1>1, <1>2, <1>3, <1>4, <1>7, <2>1
<1>9. From(b, Len(b) - Len(d)) = d
  BY <1>7, Behind
<1> HIDE DEF b
<1>10. 6 + (2 * n + 2) + p = 2 * n + 8 + p
  BY <1>4
<1>11. b = OptionOf(label, d)
  BY DEF OptionOf, b, y, x, a, l, m
<1> QED
  BY <1>8, <1>9, <1>10, <1>11 DEF a, l, m, n

\* Three nodes in a row.
LEMMA ThreeInRow ==
  ASSUME NEW S, NEW x \in S, NEW y \in S, NEW z \in S
  PROVE  LET w == <<x>> \o (<<y>> \o <<z>>)
         IN  DOMAIN w = 1..3 /\ w[1] = x /\ w[2] = y /\ w[3] = z
<1> DEFINE a == <<x>>
           b == <<y>>
           c == <<z>>
           v == b \o c
           w == a \o v
<1>1. /\ a \in Seq(S) /\ Len(a) = 1 /\ a[1] = x
      /\ b \in Seq(S) /\ Len(b) = 1 /\ b[1] = y
      /\ c \in Seq(S) /\ Len(c) = 1 /\ c[1] = z
  OBVIOUS
<1> HIDE DEF a, b, c
<1>2. /\ v \in Seq(S) /\ Len(v) = 2
      /\ \A i \in 1..Len(b) + Len(c) : v[i] = IF i <= Len(b) THEN b[i] ELSE c[i - Len(b)]
  <2>1. b \in Seq(S) /\ c \in Seq(S)
    BY <1>1
  <2>2. /\ v \in Seq(S) /\ Len(v) = Len(b) + Len(c)
        /\ \A i \in 1..Len(b) + Len(c) : v[i] = IF i <= Len(b) THEN b[i] ELSE c[i - Len(b)]
    BY <2>1, ConcatProperties
  <2> HIDE DEF v
  <2>3. Len(v) = 2
    BY <1>1, <2>2
  <2> QED
    BY <2>2, <2>3
<1> HIDE DEF v
<1>3. v[1] = y /\ v[2] = z
  BY <1>1, <1>2
<1>4. /\ w \in Seq(S) /\ Len(w) = 3
      /\ \A i \in 1..Len(a) + Len(v) : w[i] = IF i <= Len(a) THEN a[i] ELSE v[i - Len(a)]
  <2>1. a \in Seq(S) /\ v \in Seq(S)
    BY <1>1, <1>2
  <2>2. /\ w \in Seq(S) /\ Len(w) = Len(a) + Len(v)
        /\ \A i \in 1..Len(a) + Len(v) : w[i] = IF i <= Len(a) THEN a[i] ELSE v[i - Len(a)]
    BY <2>1, ConcatProperties
  <2> HIDE DEF w
  <2>3. Len(w) = 3
    BY <1>1, <1>2, <2>2
  <2> QED
    BY <2>2, <2>3
<1> HIDE DEF w
<1>5. w[1] = x /\ w[2] = y /\ w[3] = z
  BY <1>1, <1>2, <1>3, <1>4
<1>6. DOMAIN w = 1..3
  BY <1>4
<1> QED
  BY <1>5, <1>6 DEF w, v, a, b, c

\* What the firmware and findByLabel are to read in a load option b that was made of the rest.
ReadsBack(b, label, part, guid, first, last, file) ==
  LET boot == Booted(b)
  IN  /\ Bootable(b)
      /\ boot.part = part /\ boot.file = file /\ boot.format = <<2, 2>>
      /\ boot.first = first /\ boot.first + boot.size - 1 = last
      /\ Turned(boot.guid, guid)
      /\ Unmarshal(b).Attributes = 1 /\ Unmarshal(b).Description = label

\* They do: for every label and file of whole units, as long as the length of the device path
\* still fits into its 16 bits, every partition and every GUID.
THEOREM OptionIsReadBack ==
  ASSUME NEW label \in Seq(Char), NEW file \in Seq(Char), 2 * Len(file) + 52 \in Half,
         NEW part \in Word, NEW guid \in GUID, NEW first \in Word, NEW last \in Word,
         last - first + 1 \in Word
  PROVE  ReadsBack(buildLoadOption(label, part, guid, first, last, file),
                   label, part, guid, first, last, file)
<1> DEFINE h == HardDriveNode(part, guid, first, last)
           f == FilePathNode(file)
           d == (h \o f) \o EndNode
           m == MarshalUtf16Var(label)
           b == OptionOf(label, d)
           n == Len(label)
           k == Len(file)
           disk == From(h, 4)
           blocks == last - first + 1
<1>1. /\ label \in Seq(Half) /\ file \in Seq(Half)
      /\ n \in Nat /\ k \in Nat /\ 2 * k + 52 < 65536 /\ 2 * k + 6 < 65536
  <2>1. label \in Seq(Half) /\ file \in Seq(Half)
    BY DEF Char, Half
  <2>2. n \in Nat /\ k \in Nat
    OBVIOUS
  <2>3. 2 * k + 52 < 65536
    BY HalfFacts
  <2> HIDE DEF n, k
  <2>4. 2 * k + 6 < 65536
    BY <2>2, <2>3, SMT
  <2> QED
    BY <2>1, <2>2, <2>3, <2>4
<1>2. buildLoadOption(label, part, guid, first, last, file) = b
  BY DEF buildLoadOption, OptionOf
<1>3. h \in Seq(Nat) /\ Len(h) = 42
  BY HardDriveIs
<1>4. f \in Seq(Nat) /\ Len(f) = 2 * k + 6
  BY <1>1, FilePathIs
<1>5. EndNode \in Seq(Nat) /\ Len(EndNode) = 4
  BY EndNodeIs
<1>6. Walk(d) = <<Held(h, MediaPath)>> \o (<<Held(f, MediaPath)>> \o <<Held(EndNode, EndPath)>>)
  <2>1. /\ IsNode(h, MediaPath) /\ IsNode(f, MediaPath) /\ IsNode(EndNode, EndPath)
    BY <1>1, NodesMade
  <2>2. MediaPath \in Nat /\ EndPath \in Nat /\ MediaPath # EndPath
    BY DEF MediaPath, EndPath
  <2> HIDE DEF h, f
  <2> QED
    BY <2>1, <2>2, WalkOfThree
<1>7. /\ Len(disk) = 38 /\ Uint32(disk, 0) = part /\ Uint32(disk, 4) = first
      /\ Uint32(disk, 12) = blocks /\ Turned(SubSeq(disk, 21, 36), guid)
      /\ SubSeq(disk, 37, 38) = <<2, 2>>
  <2>1. Turned(swapGUIDEndian(guid), guid)
    BY TurnedBack
  <2>2. /\ Len(disk) = 38 /\ Uint32(disk, 0) = part /\ Uint32(disk, 4) = first
        /\ Uint32(disk, 12) = blocks /\ SubSeq(disk, 21, 36) = swapGUIDEndian(guid)
        /\ SubSeq(disk, 37, 38) = <<2, 2>>
    BY DiskRead
  <2> HIDE DEF disk, blocks
  <2> QED
    BY <2>1, <2>2
<1>8. decodeUTF16Z(From(f, 4)) = file
  BY <1>1, FileRead
<1> HIDE DEF h, f
<1>9. d \in Seq(Nat) /\ Len(d) \in Half /\ Len(d) = 2 * k + 52
  <2> DEFINE e == EndNode
             hf == h \o f
  <2>1. hf \in Seq(Nat) /\ Len(hf) = Len(h) + Len(f)
    BY <1>3, <1>4, Joined
  <2> HIDE DEF hf
  <2>2. hf \o EndNode \in Seq(Nat) /\ Len(hf \o EndNode) = Len(hf) + Len(EndNode)
    BY <1>5, <2>1, Joined
  <2>3. d = hf \o EndNode
    BY DEF hf
  <2> HIDE DEF d
  <2>4. Len(d) = 2 * k + 52
    BY <1>1, <1>3, <1>4, <1>5, <2>1, <2>2, <2>3
  <2> QED
    BY <1>1, <2>2, <2>3, <2>4
<1> HIDE DEF d
<1>10. /\ b \in Seq(Nat) /\ Len(b) = 2 * n + 8 + Len(d)
       /\ At(b, 0, LE(1, 4)) /\ At(b, 4, LE(Len(d), 2)) /\ At(b, 6, m)
       /\ From(b, Len(b) - Len(d)) = d
  <2>1. label \in Seq(Half) /\ d \in Seq(Nat) /\ Len(d) \in Half
    BY <1>1, <1>9
  <2> QED
    BY <2>1, OptionParts
<1> HIDE DEF b
<1>11. Uint32(b, 0) = 1 /\ Uint16(b, 4) = Len(d)
  <2>1. 1 \in Word /\ 4 \in Nat /\ 0 \in Nat /\ 4 >= 4
    BY SMT DEF Word
  <2>2. Uint32(b, 0) = 1
    BY <1>10, <2>1, ReadUint32
  <2>3. Uint16(b, 4) = Len(d)
    BY <1>9, <1>10, <2>1, ReadUint16
  <2> QED
    BY <2>2, <2>3
<1>12. /\ Terminators(From(b, 6)) # {} /\ Min(Terminators(From(b, 6))) = n
       /\ decodeUTF16Z(From(b, 6)) = label
  <2> DEFINE r == From(b, 6)
  <2>1. 6 \in Nat /\ 0 \in Nat /\ 6 + 0 = 6 /\ 6 <= Len(b)
    BY <1>1, <1>9, <1>10
  <2>2. m \in Seq(Nat)
    BY <1>1, MarshalIs
  <2> HIDE DEF m
  <2>3. r \in Seq(Nat) /\ \A s \in Seq(Nat), o \in Nat : At(b, 6 + o, s) => At(r, o, s)
    BY <1>10, <2>1, FromAt
  <2> HIDE DEF r
  <2>4. At(r, 0, m)
    BY <1>10, <2>1, <2>2, <2>3
  <2>5. Terminators(r) # {} /\ Min(Terminators(r)) = Len(label) /\ decodeUTF16Z(r) = label
    BY <2>3, <2>4, StringAt DEF m
  <2> QED
    BY <2>5 DEF r
<1>13. PathOf(b) = Walk(d)
  BY <1>10, <1>11 DEF PathOf
<1>14. /\ PathOf(b)[1] = Held(h, MediaPath) /\ PathOf(b)[2] = Held(f, MediaPath)
       /\ PathOf(b)[3] = Held(EndNode, EndPath) /\ DOMAIN PathOf(b) = 1..3
  <2> DEFINE n1 == Held(h, MediaPath)
             n2 == Held(f, MediaPath)
             n3 == Held(EndNode, EndPath)
             w == <<n1>> \o (<<n2>> \o <<n3>>)
             S == {n1, n2, n3}
  <2>1. PathOf(b) = w
    BY <1>6, <1>13
  <2> HIDE DEF n1, n2, n3
  <2>2. n1 \in S /\ n2 \in S /\ n3 \in S
    OBVIOUS
  <2> HIDE DEF S
  <2>3. w[1] = n1 /\ w[2] = n2 /\ w[3] = n3 /\ DOMAIN w = 1..3
    BY <2>2, ThreeInRow
  <2> HIDE DEF w
  <2> QED
    BY <2>1, <2>3 DEF n1, n2, n3
<1>15. /\ PathOf(b)[1].data = disk /\ PathOf(b)[2].data = From(f, 4)
       /\ PathOf(b)[1].type = MediaPath /\ PathOf(b)[2].type = MediaPath
       /\ PathOf(b)[3].type = EndPath
  BY <1>14 DEF Held, disk
<1>16. [i \in DOMAIN PathOf(b) |-> PathOf(b)[i].type] = <<MediaPath, MediaPath, EndPath>>
  <2> DEFINE t == [i \in DOMAIN PathOf(b) |-> PathOf(b)[i].type]
  <2>1. t = [i \in 1..3 |-> PathOf(b)[i].type]
    BY <1>14
  <2> HIDE DEF t
  <2> QED
    BY <1>15, <2>1 DEF t
<1> HIDE DEF disk, blocks
<1>17. Bootable(b)
  <2>1. Decodes(b)
    <3>1. Len(b) >= 6
      BY <1>1, <1>9, <1>10
    <3> QED
      BY <1>12, <3>1 DEF Decodes
  <2>2. Uint16(b, 4) < Len(b) /\ 6 + 2 * (n + 1) = Len(b) - Uint16(b, 4)
    <3> DEFINE p == Len(d)
               q == Len(b)
    <3>1. n \in Nat /\ k \in Nat /\ p = 2 * k + 52 /\ q = 2 * n + 8 + p
      BY <1>1, <1>9, <1>10
    <3>2. Uint16(b, 4) = p
      BY <1>11
    <3> HIDE DEF n, k, p, q
    <3>3. p < q /\ 6 + 2 * (n + 1) = q - p
      BY <3>1
    <3> QED
      BY <3>2, <3>3 DEF q
  <2> QED
    BY <1>7, <1>12, <1>15, <1>16, <2>1, <2>2 DEF Bootable
<1>18. /\ Booted(b).part = part /\ Booted(b).first = first /\ Booted(b).size = blocks
       /\ Booted(b).guid = SubSeq(disk, 21, 36) /\ Booted(b).format = <<2, 2>>
       /\ Booted(b).file = file
  BY <1>7, <1>8, <1>15 DEF Booted
<1>19. Unmarshal(b).Attributes = 1 /\ Unmarshal(b).Description = label
  BY <1>11, <1>12 DEF Unmarshal
<1>20. first + blocks - 1 = last
  <2>1. first \in Nat /\ last - first + 1 \in Nat
    BY DEF Word
  <2>2. last \in Nat
    BY DEF Word
  <2> QED
    BY <2>1, <2>2 DEF blocks
<1> QED
  BY <1>2, <1>7, <1>17, <1>18, <1>19, <1>20 DEF ReadsBack

\* A bounded sequence is a sequence.
LEMMA BoundedSeqIs ==
  ASSUME NEW S, NEW n \in Nat, NEW s \in BoundedSeq(S, n)
  PROVE  s \in Seq(S) /\ Len(s) <= n
<1>1. PICK m \in 0..n : s \in [1..m -> S]
  BY DEF BoundedSeq, SeqOf
<1> QED
  BY <1>1

\* A sequence of members of a set is one of members of a larger set.
LEMMA SeqWithin ==
  ASSUME NEW S, NEW T, S \subseteq T, NEW s \in Seq(S)
  PROVE  s \in Seq(T)
OBVIOUS

\* So the bytes that the runs try out are read back.
LEMMA OptionsAreRead == OptionReadsBack
<1> DEFINE Read(label, file, part, place) ==
             LET b == buildLoadOption(label, part, Guid, place[1], place[2], file)
                 boot == Booted(b)
             IN  /\ Bootable(b)
                 /\ boot.part = part /\ boot.file = file /\ boot.format = <<2, 2>>
                 /\ boot.first = place[1] /\ boot.first + boot.size - 1 = place[2]
                 /\ Reverse(SubSeq(boot.guid, 1, 4)) = SubSeq(Guid, 1, 4)
                 /\ Reverse(SubSeq(boot.guid, 5, 6)) = SubSeq(Guid, 5, 6)
                 /\ Reverse(SubSeq(boot.guid, 7, 8)) = SubSeq(Guid, 7, 8)
                 /\ SubSeq(boot.guid, 9, 16) = SubSeq(Guid, 9, 16)
                 /\ Unmarshal(b).Attributes = 1 /\ Unmarshal(b).Description = label
<1> SUFFICES ASSUME NEW label \in Strings, NEW file \in Strings, NEW part \in {1, 256},
                    NEW place \in Places
             PROVE  Read(label, file, part, place)
  BY DEF OptionReadsBack
<1>1. \A s \in Strings : s \in Seq(Char) /\ Len(s) <= 2
  <2> DEFINE U == {1, 92, 256, 65535}
  <2>1. U \subseteq Char
    BY SMT DEF Char
  <2>2. Strings = BoundedSeq(U, 2) /\ 2 \in Nat
    BY DEF Strings
  <2> HIDE DEF U
  <2>3. \A s \in Strings : s \in Seq(U) /\ Len(s) <= 2
    BY <2>2, BoundedSeqIs
  <2> QED
    BY <2>1, <2>3, SeqWithin
<1>2. label \in Seq(Char) /\ file \in Seq(Char) /\ Len(file) <= 2
  BY <1>1
<1>3. 2 * Len(file) + 52 \in Half
  <2>1. Len(file) \in Nat
    BY <1>2
  <2> QED
    BY <1>2, <2>1, SMT DEF Half
<1>4. part \in Word
  BY SMT DEF Word
<1>5. Guid \in GUID
  <2>1. \A i \in 1..16 : 16 * i - 1 \in Nat
    OBVIOUS
  <2> QED
    BY <2>1 DEF Guid, GUID
<1>6. place[1] \in Word /\ place[2] \in Word /\ place[2] - place[1] + 1 \in Word
  <2>1. CASE place = <<1, 1>>
    BY <2>1, SMT DEF Word
  <2>2. CASE place = <<2048, 657407>>
    BY <2>2, SMT DEF Word
  <2>3. CASE place = <<255, 16777216>>
    BY <2>3, SMT DEF Word
  <2> QED
    BY <2>1, <2>2, <2>3 DEF Places
<1> DEFINE first == place[1]
           last == place[2]
<1>7. first \in Word /\ last \in Word /\ last - first + 1 \in Word
  BY <1>6
<1> HIDE DEF first, last
<1>8. ReadsBack(buildLoadOption(label, part, Guid, first, last, file),
                label, part, Guid, first, last, file)
  BY <1>2, <1>3, <1>4, <1>5, <1>7, OptionIsReadBack
<1> QED
  BY <1>8 DEF first, last, ReadsBack, Turned

\* Of the entries the runs try out, only those with our label are taken for ours.
LEMMA OursAreFound == OnlyOursMatches
<1> SUFFICES ASSUME NEW rest \in BoundedSeq({0, 1}, 7)
             PROVE  LET b == LE(1, 6) \o rest
                    IN  Decodes(b) /\ Unmarshal(b).Description = Label
                          <=> IsPrefix(MarshalUtf16Var(Label), rest)
  BY DEF OnlyOursMatches
<1>1. rest \in Seq(Octet)
  <2> DEFINE U == {0, 1}
  <2>1. U \subseteq Octet
    BY SMT DEF Octet
  <2>2. rest \in BoundedSeq(U, 7) /\ 7 \in Nat
    OBVIOUS
  <2> HIDE DEF U
  <2>3. rest \in Seq(U)
    BY <2>2, BoundedSeqIs
  <2> QED
    BY <2>1, <2>3, SeqWithin
<1>2. Label \in Seq(Char)
  <2>1. 1 \in Char /\ 256 \in Char
    BY SMT DEF Char
  <2> QED
    BY <2>1 DEF Label
<1>3. LE(1, 6) \in Seq(Nat) /\ Len(LE(1, 6)) = 6
  <2>1. 1 \in Word /\ 6 \in Nat
    BY SMT DEF Word
  <2> QED
    BY <2>1, LEWidth
<1> QED
  BY <1>1, <1>2, <1>3, OnlyOursFound

\* The orders that the runs try out are read back.
LEMMA OrdersAreRead == OrderReadsBack
<1> SUFFICES ASSUME NEW o \in BoundedSeq({0, 1, 256, 65534}, 3)
             PROVE  bootOrder(OrderBytes(o)) = o
  BY DEF OrderReadsBack
<1> DEFINE U == {0, 1, 256, 65534}
<1>1. U \subseteq Half
  BY SMT DEF Half
<1>2. o \in BoundedSeq(U, 3) /\ 3 \in Nat
  OBVIOUS
<1> HIDE DEF U
<1>3. o \in Seq(U)
  BY <1>2, BoundedSeqIs
<1>4. o \in Seq(Half)
  BY <1>1, <1>3, SeqWithin
<1> QED
  BY <1>4, OrderIsReadBack

\* Whatever the disk and the faults: what EnsureBootEntry leaves in the firmware is read back as
\* it was meant (efi.go:148-160, 330-334, 429-439).
THEOREM VariablesReadBack == Spec => []LoadOptionReadsBack
<1>1. LoadOptionReadsBack
  BY OptionsAreRead, OursAreFound, OrdersAreRead DEF LoadOptionReadsBack, BytesReadBack
<1> QED
  BY <1>1, PTL

===============================================================================
