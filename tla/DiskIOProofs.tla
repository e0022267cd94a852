---------------------------- MODULE DiskIOProofs ----------------------------
(***************************************************************************)
(* Theorems of DiskIO for torrents of any number of files, read across     *)
(* their borders by any number of callers, and written, in one transfer or *)
(* in several, where the seek of write_piece is right (SafeLayouts): every *)
(* piece of a single file, the pieces in the first of several files, and   *)
(* the first piece, over as many files as it takes.  What is on disk is    *)
(* right, a piece reported as written is on disk, a read returns the       *)
(* piece, and the module implements PieceDisk.                             *)
(*                                                                         *)
(* The invariant DInv says that every file always has its full length and  *)
(* holds, at every position, the right byte or none (DiskOK), that every   *)
(* call is in one of the states a call goes through (Calls), a transfer    *)
(* having come as far in the files as in the piece, and that no call knows *)
(* more than the disk does (CallsInv): what a write has behind it is right *)
(* on disk.  Every step only adds right bytes (Gains), which is what keeps *)
(* the last two.                                                           *)
(***************************************************************************)
EXTENDS DiskIO, DataLemmas

-----------------------------------------------------------------------------
(* Where the files of a torrent begin. *)

\* f is the recursive function of Starts(files), as far as m files go.
Sums(files, f, m) ==
    f = [i \in 1 .. m + 1 |-> IF i = 1 THEN 0 ELSE f[i - 1] + files[i - 1]]

\* That function exists: extend the one for m by the end of one more file.
LEMMA SumsExist ==
    ASSUME NEW files, NEW m \in Nat
    PROVE  \E f : Sums(files, f, m)
<1> DEFINE S == {k \in Nat : \E f : Sums(files, f, k)}
<1>1. 0 \in S
  <2> DEFINE f == [i \in 1 .. 0 + 1 |-> 0]
  <2>1. f = [i \in 1 .. 0 + 1 |-> IF i = 1 THEN 0 ELSE f[i - 1] + files[i - 1]]
    OBVIOUS
  <2>2. Sums(files, f, 0)
    BY <2>1, Zenon DEF Sums
  <2> QED
    BY <2>2
<1>2. ASSUME NEW k \in Nat, k \in S PROVE k + 1 \in S
  <2>1. PICK f : Sums(files, f, k)
    BY <1>2
  <2> DEFINE g == [i \in 1 .. (k + 1) + 1 |->
                     IF i = k + 2 THEN f[k + 1] + files[k + 1] ELSE f[i]]
             h == [i \in 1 .. (k + 1) + 1 |->
                     IF i = 1 THEN 0 ELSE g[i - 1] + files[i - 1]]
  <2>2. ASSUME NEW i \in 1 .. (k + 1) + 1 PROVE g[i] = h[i]
    <3>1. CASE i = k + 2
      <4>1. i # 1 /\ i - 1 = k + 1 /\ k + 1 \in 1 .. (k + 1) + 1 /\ k + 1 # k + 2
        BY <3>1
      <4>2. g[k + 1] = f[k + 1]
        BY <4>1
      <4> QED
        BY <3>1, <4>1, <4>2
    <3>2. CASE i # k + 2
      <4>1. i \in 1 .. k + 1 /\ g[i] = f[i]
        BY <3>2
      <4>2. f[i] = IF i = 1 THEN 0 ELSE f[i - 1] + files[i - 1]
        BY <2>1, <4>1 DEF Sums
      <4>3. i # 1 => i - 1 \in 1 .. (k + 1) + 1 /\ i - 1 # k + 2
        OBVIOUS
      <4>4. i # 1 => g[i - 1] = f[i - 1]
        BY <4>3
      <4> QED
        BY <4>1, <4>2, <4>4
    <3> QED
      BY <3>1, <3>2
  <2>3. g = h
    BY <2>2
  <2>4. Sums(files, g, k + 1)
    BY <2>3, Zenon DEF Sums
  <2> QED
    BY <2>4
<1> HIDE DEF S
<1>3. m \in S
  BY <1>1, <1>2, Induction
<1> QED
  BY <1>3 DEF S

\* The files of a torrent lie one behind the other.
LEMMA StartsStep ==
    ASSUME NEW files, Len(files) \in Nat
    PROVE  /\ Starts(files)[1] = 0
           /\ \A i \in 1 .. Len(files) : Starts(files)[i + 1] = Starts(files)[i] + files[i]
<1> DEFINE f == CHOOSE f : Sums(files, f, Len(files))
<1>1. Sums(files, f, Len(files))
  BY SumsExist, Zenon
<1>2. Starts(files) = f
  BY Zenon DEF Starts, Sums
<1> HIDE DEF f
<1>3. f[1] = 0
  <2>1. 1 \in 1 .. Len(files) + 1
    OBVIOUS
  <2> QED
    BY <1>1, <2>1 DEF Sums
<1>4. ASSUME NEW i \in 1 .. Len(files) PROVE f[i + 1] = f[i] + files[i]
  <2> DEFINE j == i + 1
  <2>1. j \in 1 .. Len(files) + 1 /\ j # 1 /\ j - 1 = i
    OBVIOUS
  <2>2. f[j] = IF j = 1 THEN 0 ELSE f[j - 1] + files[j - 1]
    BY <1>1, <2>1, Zenon DEF Sums
  <2> QED
    BY <2>1, <2>2
<1> QED
  BY <1>2, <1>3, <1>4

\* They begin at offsets that grow with them.
LEMMA StartsGrow ==
    ASSUME NEW files \in Seq(Nat)
    PROVE  /\ \A i \in 1 .. Len(files) + 1 : Starts(files)[i] \in Nat
           /\ \A i \in 1 .. Len(files), j \in 1 .. Len(files) + 1 :
                 i < j => Starts(files)[i] + files[i] <= Starts(files)[j]
<1> DEFINE f == Starts(files)
           n == Len(files)
<1>1. n \in Nat /\ \A i \in 1 .. n : files[i] \in Nat
  BY LenProperties, ElementOfSeq
<1>2. f[1] = 0 /\ \A i \in 1 .. n : f[i + 1] = f[i] + files[i]
  BY <1>1, StartsStep
<1> HIDE DEF f, n
<1> DEFINE S == {k \in Nat : k <= n => f[k + 1] \in Nat}
<1>3. 0 \in S
  BY <1>2
<1>4. ASSUME NEW k \in Nat, k \in S PROVE k + 1 \in S
  <2> SUFFICES ASSUME k + 1 <= n PROVE f[(k + 1) + 1] \in Nat
    OBVIOUS
  <2>1. k + 1 \in 1 .. n /\ k <= n
    BY <1>1
  <2>2. f[k + 1] \in Nat /\ files[k + 1] \in Nat
    BY <1>1, <1>4, <2>1
  <2>3. f[(k + 1) + 1] = f[k + 1] + files[k + 1]
    BY <1>2, <2>1, Zenon
  <2> QED
    BY <2>2, <2>3
<1> HIDE DEF S
<1>5. \A k \in Nat : k \in S
  BY <1>3, <1>4, Induction
<1>6. ASSUME NEW i \in 1 .. n + 1 PROVE f[i] \in Nat
  <2>1. i - 1 \in Nat /\ i - 1 <= n /\ (i - 1) + 1 = i
    BY <1>1
  <2>2. f[(i - 1) + 1] \in Nat
    BY <1>5, <2>1 DEF S
  <2> QED
    BY <2>1, <2>2
<1>7. ASSUME NEW i \in 1 .. n, NEW j \in 1 .. n + 1, i < j PROVE f[i] + files[i] <= f[j]
  <2> DEFINE T == {k \in Nat : i + 1 + k <= n + 1 => f[i] + files[i] <= f[i + 1 + k]}
  <2>1. 0 \in T
    <3>1. f[i + 1] = f[i] + files[i] /\ f[i] \in Nat /\ files[i] \in Nat /\ i + 1 + 0 = i + 1
      BY <1>1, <1>2, <1>6
    <3> QED
      BY <3>1
  <2>2. ASSUME NEW k \in Nat, k \in T PROVE k + 1 \in T
    <3> SUFFICES ASSUME i + 1 + (k + 1) <= n + 1
                 PROVE  f[i] + files[i] <= f[i + 1 + (k + 1)]
      OBVIOUS
    <3> DEFINE l == i + 1 + k
    <3>1. /\ l \in 1 .. n /\ l \in 1 .. n + 1 /\ l + 1 \in 1 .. n + 1 /\ l <= n + 1
          /\ i + 1 + (k + 1) = l + 1 /\ i \in 1 .. n + 1
      BY <1>1
    <3>2. f[i] + files[i] <= f[l]
      BY <2>2, <3>1
    <3> HIDE DEF l
    <3>3. f[l + 1] = f[l] + files[l]
      BY <1>2, <3>1, Zenon
    <3>4. f[l] \in Nat /\ files[l] \in Nat /\ f[i] \in Nat /\ files[i] \in Nat
      BY <1>1, <1>6, <3>1
    <3>5. f[i] + files[i] <= f[l + 1]
      BY <3>2, <3>3, <3>4
    <3> QED
      BY <3>1, <3>5
  <2> HIDE DEF T
  <2>3. \A k \in Nat : k \in T
    BY <2>1, <2>2, Induction
  <2> DEFINE d == j - i - 1
  <2>4. d \in Nat /\ i + 1 + d = j /\ j <= n + 1
    BY <1>1, <1>7
  <2> HIDE DEF d
  <2>5. i + 1 + d <= n + 1 => f[i] + files[i] <= f[i + 1 + d]
    BY <2>3, <2>4 DEF T
  <2> QED
    BY <2>4, <2>5
<1> QED
  BY <1>6, <1>7 DEF f, n

-----------------------------------------------------------------------------
(* The torrent: its files, and its pieces. *)

\* What the theorems assume of the torrents: the pieces written are those whose seek
\* is right (the multi-file path seeks to the offset in the torrent), and two pieces
\* beyond the end of each the offsets are still below 2^32 (read_piece computes the
\* end of the piece after the last).
SafeLayouts ==
    /\ \A l \in Layouts : \A p \in Nat : <<l, p>> \in WriteTo => SeeksRight(l, p)
    /\ \A l \in Layouts : Starts(l.files)[Len(l.files) + 1] + 2 * PieceLength <= WordSize

\* The number of files, and the length of each.
Files == Len(layout.files)
Size(i) == layout.files[i]

\* The files cover the torrent without gaps and without overlaps.
LEMMA Torrent ==
    ASSUME SafeLayouts, layout \in Layouts
    PROVE  /\ Files \in Nat /\ DOMAIN layout.files = 1 .. Files
           /\ \A i \in 1 .. Files : Size(i) \in Nat
           /\ Before[1] = 0
           /\ \A i \in 1 .. Files + 1 : Before[i] \in Nat
           /\ \A i \in 1 .. Files : Before[i + 1] = Before[i] + Size(i)
           /\ \A i \in 1 .. Files, j \in 1 .. Files + 1 : i < j => Before[i] + Size(i) <= Before[j]
           /\ Total = Before[Files + 1]
           /\ Total \in Nat
           /\ Total + 2 * PieceLength <= WordSize
           /\ layout.single \in BOOLEAN
           /\ layout.single => Files = 1
<1>1. layout.files \in Seq(Nat) /\ layout.single \in BOOLEAN /\ (layout.single => Files = 1)
  BY DiskAssumption DEF Files
<1>2. /\ Files \in Nat /\ DOMAIN layout.files = 1 .. Files
      /\ \A i \in 1 .. Files : Size(i) \in Nat
  BY <1>1, LenProperties, ElementOfSeq DEF Files, Size
<1>3. Before[1] = 0 /\ \A i \in 1 .. Files : Before[i + 1] = Before[i] + Size(i)
  BY <1>2, StartsStep DEF Before, Files, Size
<1>4. /\ \A i \in 1 .. Files + 1 : Before[i] \in Nat
      /\ \A i \in 1 .. Files, j \in 1 .. Files + 1 : i < j => Before[i] + Size(i) <= Before[j]
  BY <1>1, StartsGrow, Zenon DEF Before, Files, Size
<1>5. Total = Before[Files + 1] /\ Total + 2 * PieceLength <= WordSize
  BY Zenon DEF Total, Files, Before, SafeLayouts
<1>6. Total \in Nat
  <2>1. Files + 1 \in 1 .. Files + 1
    BY <1>2
  <2> QED
    BY <1>4, <1>5, <2>1
<1> QED
  BY <1>1, <1>2, <1>3, <1>4, <1>5, <1>6, Zenon

\* No file reaches beyond the end of the torrent.
LEMMA FileInside ==
    ASSUME SafeLayouts, layout \in Layouts, NEW i \in 1 .. Files
    PROVE  Before[i] + Size(i) <= Total
<1>1. Files \in Nat /\ Files + 1 \in 1 .. Files + 1 /\ i < Files + 1
  BY Torrent
<1>2. /\ \A k \in 1 .. Files, j \in 1 .. Files + 1 : k < j => Before[k] + Size(k) <= Before[j]
      /\ Total = Before[Files + 1]
  BY Torrent, Zenon
<1> QED
  BY <1>1, <1>2, Zenon

\* The loop over the files finds the one that holds the byte at an offset.
LEMMA FileAtFinds ==
    ASSUME SafeLayouts, layout \in Layouts, NEW offset \in Nat, offset < Total,
           NEW i, i = FileAt(offset)
    PROVE  /\ i \in 1 .. Files
           /\ Before[i] <= offset
           /\ offset < Before[i] + Size(i)
<1> DEFINE n == Files
           b == Before
           Ends(k) == b[k] + Size(k)
<1>1. /\ n \in Nat /\ DOMAIN layout.files = 1 .. n
      /\ \A k \in 1 .. n : Size(k) \in Nat
      /\ b[1] = 0
      /\ \A k \in 1 .. n + 1 : b[k] \in Nat
      /\ \A k \in 1 .. n : b[k + 1] = b[k] + Size(k)
      /\ Total = b[n + 1]
      /\ layout.single \in BOOLEAN /\ (layout.single => n = 1)
  BY Torrent, Zenon
<1>2. FileAt(offset) =
        IF layout.single THEN 1
        ELSE CHOOSE k \in 1 .. n : Ends(k) > offset /\ \A j \in 1 .. k - 1 : Ends(j) <= offset
  <2> DEFINE D == DOMAIN layout.files
  <2>1. FileAt(offset) =
          IF layout.single THEN 1
          ELSE CHOOSE k \in D : Ends(k) > offset /\ \A j \in 1 .. k - 1 : Ends(j) <= offset
    BY Zenon DEF FileAt, Size
  <2>2. D = 1 .. n
    BY <1>1, Zenon
  <2> HIDE DEF D, Ends, n
  <2> QED
    BY <2>1, <2>2
<1> HIDE DEF n, b
<1>3. n # 0
  BY <1>1
<1>4. CASE layout.single
  <2>1. n = 1 /\ i = 1 /\ 1 \in 1 .. n
    BY <1>1, <1>2, <1>4
  <2>2. b[1 + 1] = b[1] + Size(1)
    BY <1>1, <2>1, Zenon
  <2> QED
    BY <1>1, <2>1, <2>2 DEF n, b
<1>5. CASE ~layout.single
  <2> DEFINE T == {k \in 1 .. n : Ends(k) > offset}
  <2>1. n \in T
    <3>1. n \in 1 .. n
      BY <1>1, <1>3
    <3>2. b[n + 1] = b[n] + Size(n)
      BY <1>1, <3>1, Zenon
    <3> QED
      BY <1>1, <3>1, <3>2
  <2>2. PICK k \in T : \A j \in T : k <= j
    <3>1. T \subseteq Nat /\ T # {}
      BY <2>1
    <3> QED
      BY <3>1, LeastNumber
  <2>3. \A j \in 1 .. k - 1 : Ends(j) <= offset
    <3> TAKE j \in 1 .. k - 1
    <3>1. j \in 1 .. n /\ ~(k <= j) /\ j \in 1 .. n + 1
      BY <1>1
    <3>2. j \notin T
      BY <2>2, <3>1
    <3>3. Ends(j) \in Nat
      <4>1. b[j] \in Nat /\ Size(j) \in Nat
        BY <1>1, <3>1, Zenon
      <4> QED
        BY <4>1
    <3> QED
      BY <3>1, <3>2, <3>3
  <2>4. i \in 1 .. n /\ Ends(i) > offset /\ \A j \in 1 .. i - 1 : Ends(j) <= offset
    <3>1. \E m \in 1 .. n : Ends(m) > offset /\ \A j \in 1 .. m - 1 : Ends(j) <= offset
      BY <2>2, <2>3
    <3>2. i = CHOOSE m \in 1 .. n : Ends(m) > offset /\ \A j \in 1 .. m - 1 : Ends(j) <= offset
      BY <1>2, <1>5, Zenon
    <3> HIDE DEF Ends
    <3> QED
      BY <3>1, <3>2, Zenon
  <2>5. b[i] <= offset
    <3>1. CASE i = 1
      BY <1>1, <3>1
    <3>2. CASE i # 1
      <4>1. i - 1 \in 1 .. i - 1 /\ i - 1 \in 1 .. n /\ (i - 1) + 1 = i
        <5>1. n \in Nat /\ i \in 1 .. n
          BY <1>1, <2>4, Zenon
        <5> QED
          BY <3>2, <5>1
      <4>2. Ends(i - 1) <= offset
        BY <2>4, <4>1
      <4>3. b[(i - 1) + 1] = b[i - 1] + Size(i - 1)
        BY <1>1, <4>1, Zenon
      <4> QED
        BY <4>1, <4>2, <4>3
    <3> QED
      BY <3>1, <3>2
  <2> QED
    BY <1>1, <2>4, <2>5 DEF n, b
<1> QED
  BY <1>1, <1>4, <1>5

\* The three facts about division that the arithmetic of offsets needs.
LEMMA DivBelow ==
    ASSUME NEW a \in Nat, NEW d \in Nat \ {0}, NEW p \in Nat, p <= a \div d
    PROVE  p * d <= a
OBVIOUS

\* The second one.
LEMMA DivRange ==
    ASSUME NEW x \in Nat, NEW d \in Nat \ {0}, NEW p \in Nat
    PROVE  x \div d = p <=> p * d <= x /\ x < p * d + d
OBVIOUS

\* The third one.
LEMMA ModSmall ==
    ASSUME NEW a \in Nat, NEW w \in Nat \ {0}, a < w
    PROVE  a % w = a
OBVIOUS

\* The u32 products of disk_io.rs are exact, and its bounds check admits exactly
\* the pieces of the torrent.
LEMMA PieceNumbers ==
    ASSUME SafeLayouts, layout \in Layouts, NEW p \in AnyPiece
    PROVE  /\ p \in Nat
           /\ p * PieceLength \in Nat
           /\ (p + 1) * PieceLength = p * PieceLength + PieceLength
           /\ PieceOffset(p) = p * PieceLength
           /\ U32((p + 1) * PieceLength) = p * PieceLength + PieceLength
           /\ InBounds(p) <=> p \in Inside
<1>1. Total \in Nat /\ Total + 2 * PieceLength <= WordSize
  BY Torrent
<1>2. PieceLength \in Nat \ {0} /\ WordSize \in Nat \ {0}
  BY DiskAssumption
<1>3. p \in Nat /\ p <= (Total + PieceLength - 1) \div PieceLength
  BY <1>1, <1>2 DEF AnyPiece
<1>4. Total + PieceLength - 1 \in Nat
  BY <1>1, <1>2
<1>5. p * PieceLength <= Total + PieceLength - 1
  BY <1>2, <1>3, <1>4, DivBelow
<1>6. p * PieceLength \in Nat /\ (p + 1) * PieceLength = p * PieceLength + PieceLength
  BY <1>2, <1>3
<1> DEFINE s == p * PieceLength
<1>7. s \in Nat /\ s <= Total + PieceLength - 1
  BY <1>5, <1>6
<1> HIDE DEF s
<1>8. s < WordSize /\ s + PieceLength < WordSize /\ s + PieceLength \in Nat
  BY <1>1, <1>2, <1>7
<1>9. s % WordSize = s /\ (s + PieceLength) % WordSize = s + PieceLength
  BY <1>2, <1>7, <1>8, ModSmall
<1> USE DEF s
<1> QED
  BY <1>3, <1>6, <1>9 DEF PieceOffset, U32, InBounds, Inside

\* The data of a piece, and the buffer a read of it allocates, are exactly the
\* bytes of the torrent whose offsets belong to the piece.
LEMMA PieceData ==
    ASSUME SafeLayouts, layout \in Layouts, NEW p \in Inside
    PROVE  /\ PieceBytes(p) \in Nat \ {0}
           /\ p * PieceLength + PieceBytes(p) <= Total
           /\ ReadSize(p) = PieceBytes(p)
           /\ DataOf(p) \in Seq(Int)
           /\ Len(DataOf(p)) = PieceBytes(p)
           /\ \A k \in 1 .. PieceBytes(p) : DataOf(p)[k] = p * PieceLength + k - 1
           /\ \A x \in 0 .. Total - 1 :
                 x \div PieceLength = p <=>
                    p * PieceLength <= x /\ x < p * PieceLength + PieceBytes(p)
<1>1. Total \in Nat /\ PieceLength \in Nat \ {0}
  BY Torrent, DiskAssumption
<1>2. p \in AnyPiece /\ p * PieceLength < Total
  BY DEF Inside
<1>3. /\ p \in Nat
      /\ p * PieceLength \in Nat
      /\ (p + 1) * PieceLength = p * PieceLength + PieceLength
      /\ PieceOffset(p) = p * PieceLength
      /\ U32((p + 1) * PieceLength) = p * PieceLength + PieceLength
  BY <1>2, PieceNumbers
<1> DEFINE s == p * PieceLength
<1>4. PieceBytes(p) = IF s < Total /\ Total < s + PieceLength THEN Total - s ELSE PieceLength
  BY <1>3 DEF PieceBytes
<1>5. ReadSize(p) = IF s + PieceLength > Total THEN Total - s ELSE PieceLength
  BY <1>3 DEF ReadSize
<1>6. \A x \in 0 .. Total - 1 : x \div PieceLength = p <=> s <= x /\ x < s + PieceLength
  BY <1>1, <1>3, DivRange
<1>7. s \in Nat /\ s < Total
  BY <1>2, <1>3
<1>8. DataOf(p) = [k \in 1 .. PieceBytes(p) |-> s + k - 1]
  BY DEF DataOf
<1> HIDE DEF s
<1>9. /\ PieceBytes(p) \in Nat \ {0} /\ s + PieceBytes(p) <= Total
      /\ ReadSize(p) = PieceBytes(p)
  BY <1>1, <1>4, <1>5, <1>7
<1>10. DataOf(p) \in [1 .. PieceBytes(p) -> Int]
  BY <1>7, <1>8, <1>9
<1>11. DataOf(p) \in Seq(Int)
  BY <1>9, <1>10, SeqDef
<1>12. Len(DataOf(p)) = PieceBytes(p)
  BY <1>9, <1>10, <1>11, LenProperties
<1>13. \A k \in 1 .. PieceBytes(p) : DataOf(p)[k] = s + k - 1
  BY <1>8
<1>14. \A x \in 0 .. Total - 1 :
         x \div PieceLength = p <=> s <= x /\ x < s + PieceBytes(p)
  <2> DEFINE n == PieceBytes(p)
  <2>1. n = IF s < Total /\ Total < s + PieceLength THEN Total - s ELSE PieceLength
    BY <1>4
  <2> HIDE DEF n
  <2>2. \A x \in 0 .. Total - 1 : x < s + PieceLength <=> x < s + n
    BY <1>1, <1>7, <2>1
  <2>3. \A x \in 0 .. Total - 1 : x \div PieceLength = p <=> s <= x /\ x < s + n
    BY <1>6, <2>2, Zenon
  <2> QED
    BY <2>3 DEF n
<1> USE DEF s
<1> QED
  BY <1>9, <1>11, <1>12, <1>13, <1>14

-----------------------------------------------------------------------------
(* The contents of the files. *)

\* The files are complete in length and every byte in them is right or still missing.
DiskOK ==
    /\ layout \in Layouts
    /\ disk \in [1 .. Files -> Seq(Int)]
    /\ \A i \in 1 .. Files : Len(disk[i]) = Size(i)
    /\ \A i \in 1 .. Files : \A q \in 1 .. Size(i) : disk[i][q] \in {NoByte, RightByte(i, q)}

\* A disk that gained right bytes only.
Gains ==
    /\ layout' = layout
    /\ DiskOK'
    /\ \A i \in 1 .. Files : \A q \in 1 .. Size(i) :
          disk[i][q] = RightByte(i, q) => disk'[i][q] = RightByte(i, q)

\* A disk that changed in the bytes of piece p only.
OnlyPiece(p) ==
    \A i \in 1 .. Files : \A q \in 1 .. Size(i) :
        RightByte(i, q) \div PieceLength # p => disk'[i][q] = disk[i][q]

\* The right byte of a position is a byte of the torrent.
LEMMA RightByteInside ==
    ASSUME SafeLayouts, layout \in Layouts, NEW i \in 1 .. Files, NEW q \in 1 .. Size(i)
    PROVE  RightByte(i, q) \in 0 .. Total - 1
<1>1. Files \in Nat /\ Before[i] \in Nat /\ Size(i) \in Nat /\ Total \in Nat
  <2>1. Files \in Nat
    BY Torrent, Zenon
  <2>2. i \in 1 .. Files + 1
    BY <2>1
  <2> QED
    BY <2>1, <2>2, Torrent, Zenon
<1>2. Before[i] + Size(i) <= Total
  BY FileInside, Zenon
<1> QED
  BY <1>1, <1>2 DEF RightByte

\* A torrent of one file begins and ends with it.
LEMMA SingleTorrent ==
    ASSUME SafeLayouts, layout \in Layouts, layout.single
    PROVE  /\ Files = 1 /\ 1 \in 1 .. Files /\ 1 .. Files = {1}
           /\ Before[1] = 0
           /\ Total = Size(1)
           /\ Size(1) \in Nat
           /\ \A q \in 1 .. Size(1) : RightByte(1, q) = q - 1
<1>1. Files = 1 /\ Before[1] = 0 /\ Total = Before[Files + 1]
  BY Torrent, Zenon
<1>2. 1 \in 1 .. Files /\ 1 .. Files = {1}
  BY <1>1
<1>3. Before[1 + 1] = Before[1] + Size(1) /\ Size(1) \in Nat
  BY <1>2, Torrent, Zenon
<1>4. Total = Size(1)
  BY <1>1, <1>3
<1>5. \A q \in 1 .. Size(1) : RightByte(1, q) = q - 1
  BY <1>1, <1>3 DEF RightByte
<1> QED
  BY <1>1, <1>2, <1>3, <1>4, <1>5, Zenon

\* What is computed from the layout stays while the layout does.
LEMMA SameLayout ==
    ASSUME layout' = layout
    PROVE  /\ Total' = Total /\ Before' = Before /\ Files' = Files
           /\ \A i : Size(i)' = Size(i)
           /\ \A i, q : RightByte(i, q)' = RightByte(i, q)
           /\ \A p : DataOf(p)' = DataOf(p) /\ PieceBytes(p)' = PieceBytes(p)
           /\ Inside' = Inside
<1>1. Before' = Before /\ Files' = Files /\ \A i : Size(i)' = Size(i)
  BY DEF Before, Files, Size
<1>2. Total' = Total
  BY <1>1 DEF Total
<1>3. \A i, q : RightByte(i, q)' = RightByte(i, q)
  BY <1>1 DEF RightByte
<1>4. \A p : PieceBytes(p)' = PieceBytes(p)
  BY <1>2 DEF PieceBytes
<1>5. \A p : DataOf(p)' = DataOf(p)
  BY <1>4 DEF DataOf
<1>6. Inside' = Inside
  BY <1>2 DEF Inside, AnyPiece
<1> QED
  BY <1>1, <1>2, <1>3, <1>4, <1>5, <1>6, Zenon

\* OnDisk in the terms used here, before and after a step.
LEMMA OnDiskFiles ==
    ASSUME SafeLayouts, layout \in Layouts, NEW p
    PROVE  /\ OnDisk(p) <=>
                \A i \in 1 .. Files : \A q \in 1 .. Size(i) :
                   RightByte(i, q) \div PieceLength = p => disk[i][q] = RightByte(i, q)
           /\ layout' = layout =>
                (OnDisk(p)' <=>
                   \A i \in 1 .. Files : \A q \in 1 .. Size(i) :
                      RightByte(i, q) \div PieceLength = p => disk'[i][q] = RightByte(i, q))
<1>1. DOMAIN layout.files = 1 .. Files
  BY Torrent, Zenon
<1>2. OnDisk(p) <=>
         \A i \in 1 .. Files : \A q \in 1 .. Size(i) :
            RightByte(i, q) \div PieceLength = p => disk[i][q] = RightByte(i, q)
  BY <1>1, Zenon DEF OnDisk, Size
<1>3. ASSUME layout' = layout
      PROVE  OnDisk(p)' <=>
               \A i \in 1 .. Files : \A q \in 1 .. Size(i) :
                  RightByte(i, q) \div PieceLength = p => disk'[i][q] = RightByte(i, q)
  <2>1. \A i, q : RightByte(i, q)' = RightByte(i, q)
    BY <1>3, SameLayout
  <2> QED
    BY <1>1, <1>3, <2>1 DEF OnDisk, Size
<1> QED
  BY <1>2, <1>3, Zenon

\* A piece that is on disk stays on disk while right bytes are gained.
LEMMA GainsKeepPieces ==
    ASSUME SafeLayouts, DiskOK, Gains, NEW p, OnDisk(p)
    PROVE  OnDisk(p)'
<1>1. layout \in Layouts /\ layout' = layout
  BY DEF DiskOK, Gains
<1>2. \A i \in 1 .. Files : \A q \in 1 .. Size(i) :
         RightByte(i, q) \div PieceLength = p => disk[i][q] = RightByte(i, q)
  BY <1>1, OnDiskFiles
<1>3. \A i \in 1 .. Files : \A q \in 1 .. Size(i) :
         RightByte(i, q) \div PieceLength = p => disk'[i][q] = RightByte(i, q)
  BY <1>2, Zenon DEF Gains
<1> QED
  BY <1>1, <1>3, OnDiskFiles, Zenon

\* And a step on one piece puts no other piece on disk.
LEMMA OnlyPieceGains ==
    ASSUME SafeLayouts, DiskOK, layout' = layout, NEW p, OnlyPiece(p), NEW r, r # p, OnDisk(r)'
    PROVE  OnDisk(r)
<1>1. layout \in Layouts
  BY DEF DiskOK
<1>2. \A i \in 1 .. Files : \A q \in 1 .. Size(i) :
         RightByte(i, q) \div PieceLength = r => disk'[i][q] = RightByte(i, q)
  BY <1>1, OnDiskFiles, Zenon
<1>3. \A i \in 1 .. Files : \A q \in 1 .. Size(i) :
         RightByte(i, q) \div PieceLength = r => disk[i][q] = RightByte(i, q)
  BY <1>2, Zenon DEF OnlyPiece
<1> QED
  BY <1>1, <1>3, OnDiskFiles, Zenon

\* A step that leaves the disk alone gains nothing and loses nothing.
LEMMA StutterGains ==
    ASSUME SafeLayouts, DiskOK, UNCHANGED <<layout, disk>>
    PROVE  Gains /\ \A p : OnlyPiece(p)
<1>1. layout' = layout /\ disk' = disk
  OBVIOUS
<1>2. DiskOK'
  <2>1. /\ layout' \in Layouts
        /\ disk' \in [1 .. Files -> Seq(Int)]
        /\ \A i \in 1 .. Files : Len(disk'[i]) = Size(i)
        /\ \A i \in 1 .. Files : \A q \in 1 .. Size(i) : disk'[i][q] \in {NoByte, RightByte(i, q)}
    BY <1>1 DEF DiskOK
  <2> QED
    BY <1>1, <2>1, SameLayout DEF DiskOK, NoByte
<1> QED
  BY <1>1, <1>2 DEF Gains, OnlyPiece

\* Every byte of piece p that comes before its first m is right on disk d.
RightUpTo(d, p, m) ==
    \A i \in 1 .. Files : \A q \in 1 .. Size(i) :
        p * PieceLength <= RightByte(i, q) /\ RightByte(i, q) < p * PieceLength + m
            => d[i][q] = RightByte(i, q)

\* With all its bytes right, a piece is on disk.
LEMMA AllRight ==
    ASSUME SafeLayouts, layout \in Layouts, layout' = layout, NEW p \in Inside,
           RightUpTo(disk', p, PieceBytes(p))
    PROVE  p \in Durable'
<1>1. \A x \in 0 .. Total - 1 :
         x \div PieceLength = p => p * PieceLength <= x /\ x < p * PieceLength + PieceBytes(p)
  BY PieceData, Zenon
<1>2. \A i \in 1 .. Files : \A q \in 1 .. Size(i) : RightByte(i, q) \in 0 .. Total - 1
  BY RightByteInside
<1>3. \A i \in 1 .. Files : \A q \in 1 .. Size(i) :
         RightByte(i, q) \div PieceLength = p => disk'[i][q] = RightByte(i, q)
  BY <1>1, <1>2, Zenon DEF RightUpTo
<1>4. OnDisk(p)'
  BY <1>3, OnDiskFiles, Zenon
<1> QED
  BY <1>4, SameLayout DEF Durable

\* A byte of the torrent is in one file only.
LEMMA OneFile ==
    ASSUME SafeLayouts, layout \in Layouts,
           NEW i \in 1 .. Files, NEW h \in 1 .. Files, NEW q \in 1 .. Size(h),
           Before[i] <= RightByte(h, q), RightByte(h, q) < Before[i] + Size(i)
    PROVE  h = i
<1> DEFINE bi == Before[i]
           bh == Before[h]
           zi == Size(i)
           zh == Size(h)
<1>1. Files \in Nat /\ zi \in Nat /\ zh \in Nat
  BY Torrent, Zenon
<1>2. i \in 1 .. Files + 1 /\ h \in 1 .. Files + 1
  BY <1>1
<1>3. bi \in Nat /\ bh \in Nat
  BY <1>2, Torrent, Zenon
<1>4. (h < i => bh + zh <= bi) /\ (i < h => bi + zi <= bh)
  BY <1>2, Torrent, Zenon
<1>5. bi <= bh + q - 1 /\ bh + q - 1 < bi + zi
  BY DEF RightByte
<1>6. q \in Nat /\ q >= 1 /\ q <= zh
  BY <1>1
<1> HIDE DEF bi, bh, zi, zh
<1> QED
  BY <1>1, <1>3, <1>4, <1>5, <1>6

\* A transfer of k bytes to position a of file i, each of them the right one there,
\* changes k positions and leaves the others, and the length of the file, alone.
LEMMA OverwriteIsRight ==
    ASSUME SafeLayouts, DiskOK,
           NEW i \in 1 .. Files, NEW a \in Nat, NEW k \in Nat \ {0}, a + k <= Size(i),
           NEW data \in Seq(Int), k <= Len(data),
           \A j \in 1 .. k : data[j] = Before[i] + a + j - 1,
           NEW f, f = Overwrite(disk[i], a, SubSeq(data, 1, k))
    PROVE  /\ f \in Seq(Int)
           /\ Len(f) = Size(i)
           /\ \A q \in 1 .. Size(i) :
                 f[q] = IF a < q /\ q <= a + k THEN RightByte(i, q) ELSE disk[i][q]
<1> DEFINE size == Size(i)
           file == disk[i]
           b == Before[i]
           bytes == SubSeq(data, 1, k)
<1>1. layout \in Layouts /\ size \in Nat /\ Files \in Nat
  BY Torrent, Zenon DEF DiskOK
<1>2. b \in Nat
  <2>1. i \in 1 .. Files + 1
    BY <1>1
  <2> QED
    BY <1>1, <2>1, Torrent, Zenon
<1>3. file \in Seq(Int) /\ Len(file) = size /\ \A q \in 1 .. size : file[q] \in Int
  <2>1. file \in Seq(Int) /\ Len(file) = size
    BY DEF DiskOK
  <2> QED
    BY <2>1, ElementOfSeq
<1>4. f = Overwrite(file, a, bytes) /\ a + k <= size
  OBVIOUS
<1>5. \A q : RightByte(i, q) = b + q - 1
  BY DEF RightByte
<1>6. Len(bytes) = k /\ \A j \in 1 .. k : bytes[j] = b + a + j - 1
  <2>1. \A j \in 1 .. k : data[j] = b + a + j - 1
    OBVIOUS
  <2> HIDE DEF b
  <2>2. \A j \in 1 .. k : data[j] \in Int
    BY <1>2, <2>1
  <2>3. Len(bytes) = k /\ \A j \in 1 .. k - 1 + 1 : bytes[j] = data[1 + j - 1]
    BY <2>2, SubSeqProperties
  <2> QED
    BY <2>1, <2>3
<1> HIDE DEF size, file, b, bytes
<1>7. f = [q \in 1 .. size |->
            IF q > a /\ q <= a + k THEN bytes[q - a]
            ELSE IF q <= size THEN file[q] ELSE NoByte]
  <2>1. f = [q \in 1 .. IF size < a + k THEN a + k ELSE size |->
               IF q > a /\ q <= a + k THEN bytes[q - a]
               ELSE IF q <= size THEN file[q] ELSE NoByte]
    BY <1>3, <1>4, <1>6, Zenon DEF Overwrite
  <2>2. ~(size < a + k)
    BY <1>1, <1>4
  <2> QED
    BY <2>1, <2>2
<1>8. \A q \in 1 .. size : f[q] = IF a < q /\ q <= a + k THEN b + q - 1 ELSE file[q]
  <2> TAKE q \in 1 .. size
  <2>1. CASE a < q /\ q <= a + k
    <3>1. q - a \in 1 .. k
      BY <1>1, <2>1
    <3>2. bytes[q - a] = b + a + (q - a) - 1
      BY <1>6, <3>1
    <3> QED
      BY <1>1, <1>2, <1>7, <2>1, <3>2
  <2>2. CASE ~(a < q /\ q <= a + k)
    BY <1>1, <1>7, <2>2
  <2> QED
    BY <2>1, <2>2
<1>9. f \in [1 .. size -> Int]
  BY <1>1, <1>2, <1>3, <1>7, <1>8
<1>10. f \in Seq(Int)
  BY <1>1, <1>9, SeqDef
<1>11. Len(f) = size
  BY <1>1, <1>9, <1>10, LenProperties
<1>12. \A q \in 1 .. size : f[q] = IF a < q /\ q <= a + k THEN RightByte(i, q) ELSE file[q]
  BY <1>5, <1>8
<1> QED
  BY <1>10, <1>11, <1>12 DEF size, file

\* DiskOK in the next state, in the terms of this one.
LEMMA StillOK ==
    ASSUME layout' = layout, layout \in Layouts, disk' \in [1 .. Files -> Seq(Int)],
           \A h \in 1 .. Files : Len(disk'[h]) = Size(h),
           \A h \in 1 .. Files : \A q \in 1 .. Size(h) : disk'[h][q] \in {NoByte, RightByte(h, q)}
    PROVE  DiskOK'
BY SameLayout DEF DiskOK, NoByte

\* Such a transfer of bytes of piece p only gains right bytes, of this piece only; when
\* all before them were right, all up to its end are.
LEMMA WriteGains ==
    ASSUME SafeLayouts, DiskOK, layout' = layout,
           NEW i \in 1 .. Files, NEW a \in Nat, NEW k \in Nat \ {0}, a + k <= Size(i),
           NEW data \in Seq(Int), k <= Len(data),
           \A j \in 1 .. k : data[j] = Before[i] + a + j - 1,
           NEW p \in Inside, NEW m \in Nat, RightUpTo(disk, p, m),
           Before[i] + a = p * PieceLength + m, m + k <= PieceBytes(p),
           disk' = [disk EXCEPT ![i] = Overwrite(@, a, SubSeq(data, 1, k))]
    PROVE  Gains /\ OnlyPiece(p) /\ RightUpTo(disk', p, m + k)
<1> DEFINE f == Overwrite(disk[i], a, SubSeq(data, 1, k))
<1>1. /\ f \in Seq(Int)
      /\ Len(f) = Size(i)
      /\ \A q \in 1 .. Size(i) :
            f[q] = IF a < q /\ q <= a + k THEN RightByte(i, q) ELSE disk[i][q]
  <2> DEFINE g == f
  <2>1. g = Overwrite(disk[i], a, SubSeq(data, 1, k))
    OBVIOUS
  <2> HIDE DEF g
  <2>2. /\ g \in Seq(Int)
        /\ Len(g) = Size(i)
        /\ \A q \in 1 .. Size(i) :
              g[q] = IF a < q /\ q <= a + k THEN RightByte(i, q) ELSE disk[i][q]
    BY <2>1, OverwriteIsRight
  <2> QED
    BY <2>2 DEF g
<1>2. disk' = [disk EXCEPT ![i] = f]
  OBVIOUS
<1> HIDE DEF f
<1>3. layout \in Layouts /\ disk \in [1 .. Files -> Seq(Int)]
  BY DEF DiskOK
<1>4. \A h \in 1 .. Files : disk'[h] = IF h = i THEN f ELSE disk[h]
  BY <1>2, <1>3
<1>5. \A h \in 1 .. Files : \A q \in 1 .. Size(h) :
         disk'[h][q] = IF h = i /\ a < q /\ q <= a + k THEN RightByte(h, q) ELSE disk[h][q]
  <2> TAKE h \in 1 .. Files
  <2> TAKE q \in 1 .. Size(h)
  <2>1. CASE h = i
    <3>1. q \in 1 .. Size(i) /\ disk'[h] = f
      BY <1>4, <2>1, Zenon
    <3>2. f[q] = IF a < q /\ q <= a + k THEN RightByte(i, q) ELSE disk[i][q]
      BY <1>1, <3>1
    <3> QED
      BY <2>1, <3>1, <3>2
  <2>2. CASE h # i
    BY <1>4, <2>2
  <2> QED
    BY <2>1, <2>2
<1>6. DiskOK'
  <2>1. disk' \in [1 .. Files -> Seq(Int)]
    BY <1>1, <1>2, <1>3
  <2>2. \A h \in 1 .. Files : Len(disk'[h]) = Size(h)
    BY <1>1, <1>4, Zenon DEF DiskOK
  <2>3. \A h \in 1 .. Files : \A q \in 1 .. Size(h) : disk'[h][q] \in {NoByte, RightByte(h, q)}
    <3> TAKE h \in 1 .. Files
    <3> TAKE q \in 1 .. Size(h)
    <3>1. disk[h][q] \in {NoByte, RightByte(h, q)}
      BY Zenon DEF DiskOK
    <3>2. disk'[h][q] = RightByte(h, q) \/ disk'[h][q] = disk[h][q]
      BY <1>5, Zenon
    <3> QED
      BY <3>1, <3>2
  <2> QED
    BY <1>3, <2>1, <2>2, <2>3, StillOK, Zenon
<1>7. Gains
  <2>1. ASSUME NEW h \in 1 .. Files, NEW q \in 1 .. Size(h), disk[h][q] = RightByte(h, q)
        PROVE  disk'[h][q] = RightByte(h, q)
    BY <1>5, <2>1
  <2> QED
    BY <1>6, <2>1 DEF Gains
<1> DEFINE s == p * PieceLength
           n == PieceBytes(p)
           b == Before[i]
<1>8. /\ n \in Nat /\ s \in Nat /\ Total \in Nat
      /\ \A x \in 0 .. Total - 1 : x \div PieceLength = p <=> s <= x /\ x < s + n
  BY <1>3, PieceData, PieceNumbers, Torrent DEF Inside
<1>9. b \in Nat /\ b + a = s + m /\ m + k <= n
  <2>1. Files \in Nat
    BY <1>3, Torrent, Zenon
  <2>2. i \in 1 .. Files + 1
    BY <2>1
  <2> QED
    BY <1>3, <2>2, Torrent, Zenon
<1>10. \A q : RightByte(i, q) = b + q - 1
  BY DEF RightByte
<1>11. OnlyPiece(p)
  <2> SUFFICES ASSUME NEW h \in 1 .. Files, NEW q \in 1 .. Size(h),
                      RightByte(h, q) \div PieceLength # p
               PROVE  disk'[h][q] = disk[h][q]
    BY Zenon DEF OnlyPiece
  <2>1. RightByte(h, q) \in 0 .. Total - 1
    BY <1>3, RightByteInside, Zenon
  <2> SUFFICES ~(h = i /\ a < q /\ q <= a + k)
    BY <1>5, Zenon
  <2> SUFFICES ASSUME h = i, a < q, q <= a + k PROVE FALSE
    OBVIOUS
  <2>2. RightByte(h, q) = b + q - 1 /\ q \in Int
    BY <1>10
  <2> HIDE DEF s, n, b
  <2>3. s <= b + q - 1 /\ b + q - 1 < s + n
    BY <1>8, <1>9, <2>2
  <2> QED
    BY <1>8, <2>1, <2>2, <2>3, Zenon
<1>12. RightUpTo(disk', p, m + k)
  <2> SUFFICES ASSUME NEW h \in 1 .. Files, NEW q \in 1 .. Size(h),
                      s <= RightByte(h, q), RightByte(h, q) < s + (m + k)
               PROVE  disk'[h][q] = RightByte(h, q)
    BY Zenon DEF RightUpTo
  <2> DEFINE x == RightByte(h, q)
             z == Size(i)
  <2>1. x \in 0 .. Total - 1
    BY <1>3, RightByteInside, Zenon
  <2>2. CASE x < s + m
    <3>1. disk[h][q] = x
      BY <2>2, Zenon DEF RightUpTo
    <3> QED
      BY <1>7, <3>1, Zenon DEF Gains
  <2>3. CASE ~(x < s + m)
    <3>1. z \in Nat
      BY <1>3, Torrent, Zenon
    <3>2. a + k <= z /\ x < s + (m + k) /\ x \in Int
      BY <2>1
    <3> HIDE DEF x, z, s, b
    <3>3. b <= x /\ x < b + z
      BY <1>8, <1>9, <2>3, <3>1, <3>2
    <3> USE DEF x, z, b
    <3>4. h = i
      BY <1>3, <3>3, OneFile
    <3>5. x = b + q - 1 /\ q \in Int
      BY <1>10, <3>4
    <3> HIDE DEF x, z, b
    <3>6. a < q /\ q <= a + k
      BY <1>8, <1>9, <2>3, <3>2, <3>5
    <3> QED
      BY <1>5, <3>4, <3>6 DEF x
  <2> QED
    BY <2>2, <2>3
<1> QED
  BY <1>7, <1>11, <1>12

-----------------------------------------------------------------------------
(* The calls, and the inductive invariant. *)

\* What a write has done already.
Done(w) == PieceBytes(w.piece) - Len(w.data)

\* A write has come to the position of the first byte it has left, which is that of
\* the piece in the file it begins in and zero in every other.
Writing ==
    {w \in [kind : {"write"}, piece : Inside, file : 1 .. Files, at : Nat, data : Seq(Int)] :
        /\ SeeksRight(layout, w.piece)
        /\ w.at <= Size(w.file)
        /\ Len(w.data) <= PieceBytes(w.piece)
        /\ Before[w.file] + w.at = w.piece * PieceLength + Done(w)
        /\ w.at = 0 \/ Done(w) = 0
        /\ \A k \in 1 .. Len(w.data) : w.data[k] = Before[w.file] + w.at + k - 1}

Written(p) == [kind |-> "written", piece |-> p]

\* A read has come to the position that follows the bytes in its buffer, and has the
\* rest of the piece left.
Reading ==
    {c \in [kind : {"read"}, piece : Inside, file : 1 .. Files, at : Nat, left : Nat,
            buf : Seq(Int), expect : BOOLEAN] :
        /\ c.at <= Size(c.file)
        /\ c.left + Len(c.buf) = PieceBytes(c.piece)
        /\ Before[c.file] + c.at = c.piece * PieceLength + Len(c.buf)}

Returned == [kind : {"returned"}, piece : Inside, buf : Seq(Int), expect : BOOLEAN]

\* Every state a call can be in.
Calls ==
    {Idle, Failed}
    \cup Writing
    \cup {Written(p) : p \in Inside}
    \cup Reading
    \cup Returned

\* The bytes of each piece.
Data == [p \in Inside |-> DataOf(p)]

\* The buffer of a read holds the first bytes of the piece.
ReadSoFar(c) == \A k \in 1 .. Len(c.buf) : c.buf[k] = c.piece * PieceLength + k - 1

\* What a call reports, or remembers of the disk, is true.
Honest(c) ==
    /\ c.kind = "write" => RightUpTo(disk, c.piece, Done(c))
    /\ c.kind = "written" => c.piece \in Durable
    /\ c.kind = "read" /\ c.expect => c.piece \in Durable /\ ReadSoFar(c)
    /\ c.kind = "returned" /\ c.expect => c.buf = Data[c.piece]

CallsInv == \A t \in Task : Honest(op[t])

\* The inductive invariant.
DInv ==
    /\ DiskOK
    /\ op \in [Task -> Calls]
    /\ CallsInv

\* The states of a call depend on the layout only.
LEMMA SameCalls ==
    ASSUME SafeLayouts, layout' = layout
    PROVE  Calls' = Calls /\ Data' = Data
<1>1. /\ Total' = Total /\ Before' = Before /\ Files' = Files /\ Inside' = Inside
      /\ \A i : Size(i)' = Size(i)
      /\ \A p : DataOf(p)' = DataOf(p) /\ PieceBytes(p)' = PieceBytes(p)
  BY SameLayout
<1>2. \A p : Written(p)' = Written(p)
  BY DEF Written
<1>3. Returned' = Returned /\ Data' = Data
  BY <1>1 DEF Returned, Data
<1>4. Reading' = Reading
  BY <1>1 DEF Reading
<1>5. Writing' = Writing
  <2>1. \A p : SeeksRight(layout, p)' = SeeksRight(layout, p)
    BY DEF SeeksRight
  <2>2. \A w : Done(w)' = Done(w)
    BY <1>1 DEF Done
  <2> QED
    BY <1>1, <2>1, <2>2 DEF Writing
<1> QED
  BY <1>1, <1>2, <1>3, <1>4, <1>5 DEF Calls, Idle, Failed

\* What was right stays right.
LEMMA GainsKeepUpTo ==
    ASSUME Gains, NEW p, NEW m, RightUpTo(disk, p, m)
    PROVE  RightUpTo(disk', p, m)
BY Zenon DEF Gains, RightUpTo

\* Pieces on disk stay there.
LEMMA GainsKeepRight ==
    ASSUME SafeLayouts, DiskOK, Gains
    PROVE  Durable \subseteq Durable'
<1>1. layout' = layout
  BY DEF Gains
<1>2. Inside' = Inside
  BY <1>1, SameLayout
<1>3. \A p \in Inside : OnDisk(p) => OnDisk(p)'
  BY GainsKeepPieces
<1> QED
  BY <1>2, <1>3 DEF Durable

\* A step that gains right bytes and moves one call to a state that is true of the
\* disk keeps the invariant.
LEMMA OneCall ==
    ASSUME SafeLayouts, DInv, Gains, NEW t \in Task, NEW c \in Calls,
           op' = [op EXCEPT ![t] = c],
           c.kind = "write" => RightUpTo(disk', c.piece, Done(c)),
           c.kind = "written" => c.piece \in Durable',
           c.kind = "read" /\ c.expect => c.piece \in Durable' /\ ReadSoFar(c),
           c.kind = "returned" /\ c.expect => c.buf = Data[c.piece]
    PROVE  DInv'
<1>1. DiskOK /\ DiskOK' /\ layout' = layout /\ op \in [Task -> Calls]
  BY DEF DInv, Gains
<1>2. Calls' = Calls /\ Data' = Data
  BY <1>1, SameCalls
<1>3. op' \in [Task -> Calls']
  BY <1>1, <1>2
<1>4. op'[t] = c /\ \A u \in Task \ {t} : op'[u] = op[u]
  BY <1>1
<1>5. Durable \subseteq Durable'
  BY <1>1, GainsKeepRight
<1> DEFINE Honest2(d) ==
              /\ d.kind = "write" => RightUpTo(disk', d.piece, Done(d))
              /\ d.kind = "written" => d.piece \in Durable'
              /\ d.kind = "read" /\ d.expect => d.piece \in Durable' /\ ReadSoFar(d)
              /\ d.kind = "returned" /\ d.expect => d.buf = Data[d.piece]
<1>6. \A u \in Task : Honest2(op'[u])
  <2> TAKE u \in Task
  <2>1. CASE u = t
    BY <1>4, <2>1, Zenon
  <2>2. CASE u # t
    <3>1. op'[u] = op[u] /\ Honest(op[u])
      BY <1>4, <2>2, Zenon DEF DInv, CallsInv
    <3>2. Honest2(op[u])
      BY <1>5, <3>1, GainsKeepUpTo DEF Honest
    <3> QED
      BY <3>1, <3>2, Zenon
  <2> QED
    BY <2>1, <2>2
<1>7. \A d : RightUpTo(disk', d.piece, Done(d)) => RightUpTo(disk, d.piece, Done(d))'
  BY <1>1, SameLayout DEF RightUpTo, Done
<1>8. CallsInv'
  BY <1>2, <1>6, <1>7 DEF CallsInv, Honest, ReadSoFar
<1> QED
  BY <1>1, <1>3, <1>8 DEF DInv

\* The kinds of call, by what they are known to be.
LEMMA CallKinds ==
    ASSUME DInv, NEW t \in Task
    PROVE  /\ op[t].kind = "write" => op[t] \in Writing
           /\ op[t].kind = "read" => op[t] \in Reading
           /\ op[t].kind = "written" => \E p \in Inside : op[t] = Written(p)
           /\ op[t].kind = "returned" => op[t] \in Returned
           /\ op[t].kind = "idle" => op[t] = Idle
           /\ op[t].kind = "err" => op[t] = Failed
           /\ op[t].kind \in {"idle", "err", "write", "read", "written", "returned"}
<1>1. op[t] \in Calls
  BY DEF DInv
<1> DEFINE c == op[t]
<1> HIDE DEF c
<1>2. CASE c \in Reading
  <2>1. c.kind = "read"
    BY <1>2 DEF Reading
  <2> QED
    BY <1>2, <2>1 DEF c
<1>3. CASE c \in Returned
  <2>1. c.kind = "returned"
    BY <1>3 DEF Returned
  <2> QED
    BY <1>3, <2>1 DEF c
<1>4. CASE c \in Writing
  <2>1. c.kind = "write"
    BY <1>4 DEF Writing
  <2> QED
    BY <1>4, <2>1 DEF c
<1>5. CASE \E p \in Inside : c = Written(p)
  BY <1>5 DEF c, Written
<1>6. CASE c = Idle
  BY <1>6 DEF c, Idle
<1>7. CASE c = Failed
  BY <1>7 DEF c, Failed
<1> QED
  BY <1>1, <1>2, <1>3, <1>4, <1>5, <1>6, <1>7 DEF Calls, c

-----------------------------------------------------------------------------
(* One part of a read. *)

\* What is read from one file: never beyond its end, and all that is left when it is
\* the last one.
LEMMA ChunkFits ==
    ASSUME SafeLayouts, layout \in Layouts, NEW c \in Reading,
           NEW n, n = ChunkSize(c.left, c.file, c.at)
    PROVE  /\ n \in Nat /\ n <= c.left
           /\ c.at + n <= Size(c.file)
           /\ c.left # n => c.file + 1 \in 1 .. Files /\ c.at + n = Size(c.file)
<1> DEFINE p == c.piece
           i == c.file
           a == c.at
           l == c.left
           m == Len(c.buf)
           s == p * PieceLength
           size == Size(i)
           bytes == PieceBytes(p)
<1>1. /\ p \in Inside /\ i \in 1 .. Files /\ a \in Nat /\ l \in Nat /\ c.buf \in Seq(Int)
      /\ a <= size /\ l + m = bytes /\ Before[i] + a = s + m
  BY DEF Reading
<1>2. m \in Nat
  BY <1>1, LenProperties
<1>3. /\ bytes \in Nat \ {0} /\ s + bytes <= Total /\ s \in Nat
  BY <1>1, PieceData, PieceNumbers DEF Inside
<1>4. Files \in Nat /\ size \in Nat /\ Total \in Nat /\ layout.single \in BOOLEAN
  BY <1>1, Torrent, Zenon
<1>5. Before[i] \in Nat
  <2>1. i \in 1 .. Files + 1
    BY <1>1, <1>4
  <2> QED
    BY <2>1, Torrent, Zenon
<1>6. n = IF layout.single \/ l < size - a THEN l ELSE size - a
  BY DEF ChunkSize, Size
<1>7. i = Files => l <= size - a
  <2> SUFFICES ASSUME i = Files PROVE l <= size - a
    OBVIOUS
  <2>1. Before[i] + size = Total
    <3>1. Before[i + 1] = Before[i] + Size(i)
      BY <1>1, Torrent, Zenon
    <3>2. Total = Before[Files + 1]
      BY Torrent, Zenon
    <3> QED
      BY <3>1, <3>2
  <2> HIDE DEF s, size, m, l, a, bytes, i
  <2> QED
    BY <1>1, <1>2, <1>3, <1>4, <1>5, <2>1
<1>8. layout.single => i = Files
  <2>1. layout.single => Files = 1
    BY Torrent, Zenon
  <2> QED
    BY <1>1, <2>1
<1> HIDE DEF s, size, m, l, a, bytes, i
<1>9. n \in Nat /\ n <= l /\ a + n <= size
  BY <1>1, <1>4, <1>6, <1>7, <1>8
<1>10. ASSUME l # n PROVE i + 1 \in 1 .. Files /\ a + n = size
  BY <1>1, <1>4, <1>6, <1>7, <1>8, <1>10
<1> QED
  BY <1>9, <1>10 DEF i, a, l, size

\* The bytes read from one file continue those in the buffer.
LEMMA ChunkBytes ==
    ASSUME SafeLayouts, DiskOK, NEW c \in Reading, NEW n \in Nat,
           n <= c.left, c.at + n <= Size(c.file),
           NEW r, r = c.buf \o SubSeq(disk[c.file], c.at + 1, c.at + n)
    PROVE  /\ r \in Seq(Int)
           /\ Len(r) = Len(c.buf) + n
           /\ c.piece \in Durable /\ ReadSoFar(c) =>
                 \A k \in 1 .. Len(r) : r[k] = c.piece * PieceLength + k - 1
<1> DEFINE p == c.piece
           i == c.file
           a == c.at
           m == Len(c.buf)
           s == p * PieceLength
           file == disk[i]
           part == SubSeq(file, a + 1, a + n)
<1>1. /\ p \in Inside /\ i \in 1 .. Files /\ a \in Nat /\ c.left \in Nat /\ c.buf \in Seq(Int)
      /\ c.left + m = PieceBytes(p) /\ Before[i] + a = s + m
  BY DEF Reading
<1>2. layout \in Layouts /\ file \in Seq(Int) /\ Len(file) = Size(i)
  BY <1>1 DEF DiskOK
<1>3. m \in Nat /\ Len(file) \in Nat
  BY <1>1, <1>2, LenProperties
<1>4. PieceBytes(p) \in Nat /\ s \in Nat
  BY <1>1, <1>2, PieceData, PieceNumbers DEF Inside
<1>5. Before[i] \in Nat
  <2>1. Files \in Nat
    BY <1>2, Torrent, Zenon
  <2>2. i \in 1 .. Files + 1
    BY <1>1, <2>1
  <2> QED
    BY <1>2, <2>2, Torrent, Zenon
<1>6. ASSUME NEW j \in 1 .. n
      PROVE  a + j \in 1 .. Size(i) /\ RightByte(i, a + j) = s + (m + j) - 1
  <2>1. a + j \in 1 .. Size(i)
    <3> DEFINE z == Size(i)
    <3>1. z \in Nat /\ a + n <= z
      BY <1>2, <1>3, Zenon
    <3> HIDE DEF z, a
    <3>2. a + j \in 1 .. z
      BY <1>1, <3>1
    <3> QED
      BY <3>2 DEF z
  <2>2. Before[i] + (a + j) - 1 = s + (m + j) - 1
    <3> DEFINE b == Before[i]
    <3>1. /\ b \in Nat /\ a \in Nat /\ m \in Nat /\ s \in Nat
          /\ b + a = s + m
      BY <1>1, <1>3, <1>4, <1>5, Zenon
    <3>2. j \in Nat
      OBVIOUS
    <3> HIDE DEF a, m, s, b
    <3>3. b + (a + j) - 1 = s + (m + j) - 1
      BY <3>1, <3>2
    <3> QED
      BY <3>3 DEF b
  <2> QED
    BY <2>1, <2>2, Zenon DEF RightByte
<1>7. \A j \in 1 .. n : file[a + j] \in Int
  BY <1>2, <1>6, ElementOfSeq
<1>8. IsSlice(part, file, a, n)
  BY <1>1, <1>7, Slice
<1> HIDE DEF part
<1>9. /\ part \in Seq(Int) /\ Len(part) = n
      /\ \A j \in 1 .. n : part[j] = file[a + j]
  BY <1>8 DEF IsSlice
<1>10. r = c.buf \o part /\ c.buf \in Seq(Int) /\ part \in Seq(Int)
  BY <1>1, <1>9, Zenon DEF part
<1>11. /\ r \in Seq(Int) /\ Len(r) = m + n
       /\ \A k \in 1 .. m : r[k] = c.buf[k]
       /\ \A j \in 1 .. n : r[m + j] = part[j]
  <2> DEFINE buf == c.buf
             l == Len(buf)
  <2>1. buf \in Seq(Int) /\ part \in Seq(Int) /\ r = buf \o part /\ m = l
    BY <1>10
  <2> HIDE DEF buf
  <2>2. part \in Seq(Int)
    BY <2>1
  <2>3. buf \in Seq(Int)
    BY <2>1
  <2>4. /\ buf \o part \in Seq(Int) /\ Len(buf \o part) = Len(buf) + Len(part)
        /\ \A k \in 1 .. Len(buf) : (buf \o part)[k] = buf[k]
    BY <2>2, <2>3, Joined, Zenon
  <2>5. \A j \in 1 .. Len(part) : (buf \o part)[Len(buf) + j] = part[j]
    BY <2>2, <2>3, JoinedBehind
  <2> QED
    BY <1>9, <2>1, <2>4, <2>5, Zenon DEF buf
<1>12. ASSUME p \in Durable, ReadSoFar(c), NEW k \in 1 .. Len(r) PROVE r[k] = s + k - 1
  <2>1. CASE k <= m
    <3>1. k \in 1 .. m
      BY <1>3, <2>1
    <3>2. c.buf[k] = s + k - 1
      BY <1>12, <3>1, Zenon DEF ReadSoFar
    <3> QED
      BY <1>11, <3>1, <3>2
  <2>2. CASE ~(k <= m)
    <3> DEFINE j == k - m
    <3>1. j \in 1 .. n /\ m + j = k
      BY <1>3, <1>11, <2>2
    <3> HIDE DEF j
    <3>2. a + j \in 1 .. Size(i) /\ RightByte(i, a + j) = s + k - 1
      BY <1>6, <3>1
    <3>3. RightByte(i, a + j) \div PieceLength = p
      <4>1. RightByte(i, a + j) \in 0 .. Total - 1
        BY <1>1, <1>2, <3>2, RightByteInside, Zenon
      <4>2. s <= s + k - 1 /\ s + k - 1 < s + PieceBytes(p)
        <5>1. j <= n /\ n <= c.left /\ c.left + m = PieceBytes(p)
          BY <1>1, <3>1
        <5> HIDE DEF s, m
        <5> QED
          BY <1>1, <1>3, <1>4, <3>1, <5>1
      <4> HIDE DEF s
      <4>3. \A x \in 0 .. Total - 1 :
               x \div PieceLength = p <=> s <= x /\ x < s + PieceBytes(p)
        BY <1>1, <1>2, PieceData, Zenon DEF s
      <4> QED
        BY <3>2, <4>1, <4>2, <4>3
    <3>4. file[a + j] = RightByte(i, a + j)
      <4>1. \A h \in 1 .. Files : \A q \in 1 .. Size(h) :
               RightByte(h, q) \div PieceLength = p => disk[h][q] = RightByte(h, q)
        BY <1>2, <1>12, OnDiskFiles, Zenon DEF Durable
      <4> QED
        BY <1>1, <3>2, <3>3, <4>1, Zenon
    <3> QED
      BY <1>9, <1>11, <3>1, <3>2, <3>4
  <2> QED
    BY <2>1, <2>2
<1> QED
  BY <1>11, <1>12

-----------------------------------------------------------------------------
(* The steps. *)

\* The invariant holds of new and of complete files.
LEMMA InitDInv == ASSUME SafeLayouts, Init PROVE DInv
<1>1. layout \in Layouts
  BY DEF Init
<1>2. /\ DOMAIN layout.files = 1 .. Files
      /\ \A i \in 1 .. Files : Size(i) \in Nat
  BY <1>1, Torrent, Zenon
<1>3. ASSUME NEW i \in 1 .. Files
      PROVE  /\ disk[i] \in Seq(Int) /\ Len(disk[i]) = Size(i)
             /\ \A q \in 1 .. Size(i) : disk[i][q] \in {NoByte, RightByte(i, q)}
  <2> DEFINE file == disk[i]
             n == Size(i)
  <2>1. \/ file = [q \in 1 .. n |-> NoByte]
        \/ file = [q \in 1 .. n |-> RightByte(i, q)]
    <3>1. disk = EmptyFiles \/ disk = RightFiles
      BY DEF Init
    <3>2. EmptyFiles[i] = [q \in 1 .. n |-> NoByte]
      BY <1>2, <1>3 DEF EmptyFiles, Size
    <3>3. RightFiles[i] = [q \in 1 .. n |-> RightByte(i, q)]
      BY <1>2, <1>3 DEF RightFiles, Size
    <3> QED
      BY <3>1, <3>2, <3>3, Zenon
  <2>2. \A q \in 1 .. n : RightByte(i, q) \in Int
    BY <1>1, <1>3, RightByteInside
  <2>3. n \in Nat
    BY <1>2, <1>3
  <2> HIDE DEF file, n
  <2>4. file \in [1 .. n -> Int] /\ \A q \in 1 .. n : file[q] \in {NoByte, RightByte(i, q)}
    <3>1. NoByte \in Int
      BY DEF NoByte
    <3>2. CASE file = [q \in 1 .. n |-> NoByte]
      BY <3>1, <3>2
    <3>3. CASE file = [q \in 1 .. n |-> RightByte(i, q)]
      BY <2>2, <3>3
    <3> QED
      BY <2>1, <3>2, <3>3
  <2>5. file \in Seq(Int)
    BY <2>3, <2>4, SeqDef
  <2>6. Len(file) = n
    BY <2>3, <2>4, <2>5, LenProperties
  <2> QED
    BY <2>4, <2>5, <2>6 DEF file, n
<1>4. disk \in [1 .. Files -> Seq(Int)]
  <2>1. disk = [i \in 1 .. Files |-> disk[i]]
    BY <1>2 DEF Init, EmptyFiles, RightFiles
  <2> QED
    BY <1>3, <2>1
<1>5. DiskOK
  BY <1>1, <1>3, <1>4 DEF DiskOK
<1>6. op \in [Task -> Calls]
  BY DEF Init, Calls
<1>7. CallsInv
  BY DEF Init, CallsInv, Honest, Idle
<1> QED
  BY <1>5, <1>6, <1>7 DEF DInv

\* Where a call that passes the bounds check begins.
LEMMA StartsInside ==
    ASSUME SafeLayouts, layout \in Layouts, NEW p \in Inside,
           NEW i, i = FileAt(PieceOffset(p)), NEW a, a = PieceOffset(p) - Before[i]
    PROVE  /\ i \in 1 .. Files /\ a \in Nat /\ a <= Size(i)
           /\ Before[i] + a = p * PieceLength
           /\ layout.single => i = 1 /\ a = p * PieceLength
<1> DEFINE s == p * PieceLength
           b == Before[i]
           z == Size(i)
<1>1. s \in Nat /\ PieceOffset(p) = s /\ s < Total
  BY PieceNumbers DEF Inside
<1>2. i \in 1 .. Files /\ b <= s /\ s < b + z
  BY <1>1, FileAtFinds
<1>3. b \in Nat /\ z \in Nat
  <2>1. Files \in Nat
    BY Torrent, Zenon
  <2>2. i \in 1 .. Files + 1
    BY <1>2, <2>1
  <2> QED
    BY <1>2, <2>2, Torrent, Zenon
<1>4. a = s - b
  BY <1>1
<1>5. layout.single => i = 1 /\ b = 0
  BY Torrent, Zenon DEF FileAt
<1> HIDE DEF s, b, z
<1>6. a \in Nat /\ a <= z /\ b + a = s
  BY <1>1, <1>2, <1>3, <1>4
<1>7. b = 0 => a = s
  BY <1>1, <1>3, <1>4
<1> QED
  BY <1>2, <1>5, <1>6, <1>7 DEF s, b, z

\* A read that begins.
Beginning(p, b) ==
    [kind |-> "read", piece |-> p, file |-> FileAt(PieceOffset(p)),
     at |-> PieceOffset(p) - Before[FileAt(PieceOffset(p))],
     left |-> ReadSize(p), buf |-> <<>>, expect |-> b]

\* It has the whole piece before it.
LEMMA BeginningReads ==
    ASSUME SafeLayouts, layout \in Layouts, NEW p \in Inside, NEW b \in BOOLEAN
    PROVE  Beginning(p, b) \in Reading
<1> DEFINE i == FileAt(PieceOffset(p))
           a == PieceOffset(p) - Before[i]
           n == PieceBytes(p)
           s == p * PieceLength
           e == <<>>
<1>1. i \in 1 .. Files /\ a \in Nat /\ a <= Size(i) /\ Before[i] + a = s
  BY StartsInside, Zenon
<1>2. n \in Nat /\ ReadSize(p) = n /\ s \in Nat
  BY PieceData, PieceNumbers DEF Inside
<1>3. e \in Seq(Int) /\ Len(e) = 0
  OBVIOUS
<1> HIDE DEF i, a, n, s, e
<1>4. n + Len(e) = n /\ s + Len(e) = s
  BY <1>2, <1>3
<1> DEFINE c == [kind |-> "read", piece |-> p, file |-> i, at |-> a, left |-> n,
                 buf |-> e, expect |-> b]
<1>5. c = Beginning(p, b)
  BY <1>2 DEF Beginning, i, a, e
<1>6. c \in [kind : {"read"}, piece : Inside, file : 1 .. Files, at : Nat, left : Nat,
             buf : Seq(Int), expect : BOOLEAN]
  BY <1>1, <1>2, <1>3
<1>7. /\ c.at <= Size(c.file)
      /\ c.left + Len(c.buf) = PieceBytes(c.piece)
      /\ Before[c.file] + c.at = c.piece * PieceLength + Len(c.buf)
  BY <1>1, <1>4 DEF n, s
<1> QED
  BY <1>5, <1>6, <1>7, Zenon DEF Reading

\* A write that begins.
Opening(p) ==
    [kind |-> "write", piece |-> p, file |-> FileAt(PieceOffset(p)),
     at |-> PieceOffset(p) - Before[FileAt(PieceOffset(p))], data |-> DataOf(p)]

\* It has the whole piece before it.
LEMMA OpeningWrites ==
    ASSUME SafeLayouts, layout \in Layouts, NEW p \in Inside, <<layout, p>> \in WriteTo
    PROVE  Opening(p) \in Writing /\ Done(Opening(p)) = 0
<1> DEFINE i == FileAt(PieceOffset(p))
           a == PieceOffset(p) - Before[i]
           n == PieceBytes(p)
           s == p * PieceLength
           d == DataOf(p)
           c == [kind |-> "write", piece |-> p, file |-> i, at |-> a, data |-> d]
<1>1. i \in 1 .. Files /\ a \in Nat /\ a <= Size(i) /\ Before[i] + a = s
  BY StartsInside, Zenon
<1>2. /\ n \in Nat /\ s \in Nat /\ d \in Seq(Int) /\ Len(d) = n
      /\ \A k \in 1 .. n : d[k] = s + k - 1
  BY PieceData, PieceNumbers DEF Inside
<1>3. SeeksRight(layout, p)
  <2>1. p \in Nat
    BY PieceNumbers DEF Inside
  <2> QED
    BY <2>1, Zenon DEF SafeLayouts
<1>4. c = Opening(p)
  BY Zenon DEF Opening
<1> HIDE DEF i, a, n, s, d
<1>5. n - n = 0 /\ n <= n /\ s + 0 = s
  BY <1>2
<1>6. c \in [kind : {"write"}, piece : Inside, file : 1 .. Files, at : Nat, data : Seq(Int)]
  BY <1>1, <1>2
<1>7. c.piece = p /\ c.file = i /\ c.at = a /\ c.data = d
  OBVIOUS
<1> HIDE DEF c
<1>8. Done(c) = 0
  BY <1>2, <1>5, <1>7, Zenon DEF Done, n
<1>9. /\ SeeksRight(layout, c.piece)
      /\ c.at <= Size(c.file)
      /\ Len(c.data) <= PieceBytes(c.piece)
      /\ Before[c.file] + c.at = c.piece * PieceLength + Done(c)
      /\ c.at = 0 \/ Done(c) = 0
  BY <1>1, <1>2, <1>3, <1>5, <1>7, <1>8, Zenon DEF n, s
<1>10. \A k \in 1 .. Len(c.data) : c.data[k] = Before[c.file] + c.at + k - 1
  BY <1>1, <1>2, <1>7, Zenon
<1> QED
  BY <1>4, <1>6, <1>8, <1>9, <1>10, Zenon DEF Writing

\* A write that begins, or that the bounds check refuses.
LEMMA WriteStartStep ==
    ASSUME SafeLayouts, DInv, NEW t \in Task, NEW p \in AnyPiece, WriteStart(t, p)
    PROVE  /\ Gains /\ DInv' /\ UNCHANGED <<layout, disk>>
           /\ op[t] = Idle
           /\ op' = [op EXCEPT ![t] = IF p \in Inside THEN Opening(p) ELSE Failed]
           /\ p \in Inside => Opening(p) \in Writing
<1>1. /\ UNCHANGED <<layout, disk>> /\ DiskOK /\ layout \in Layouts
      /\ op[t] = Idle /\ <<layout, p>> \in WriteTo
  BY DEF WriteStart, DInv, DiskOK
<1>2. Gains
  BY <1>1, StutterGains
<1>3. InBounds(p) <=> p \in Inside
  BY <1>1, PieceNumbers
<1> DEFINE c == IF p \in Inside THEN Opening(p) ELSE Failed
<1>4. op' = [op EXCEPT ![t] = c]
  BY <1>3 DEF WriteStart, Opening
<1>5. p \in Inside => Opening(p) \in Writing /\ Done(Opening(p)) = 0
  BY <1>1, OpeningWrites
<1>6. c \in Calls /\ c.kind \in {"write", "err"}
  BY <1>5 DEF Calls, Opening, Failed
<1>7. c.kind = "write" => RightUpTo(disk', c.piece, Done(c))
  <2> SUFFICES ASSUME c.kind = "write" PROVE RightUpTo(disk', c.piece, Done(c))
    OBVIOUS
  <2>1. p \in Inside
    BY DEF Failed
  <2>2. c.piece = p /\ Done(c) = 0
    BY <1>5, <2>1 DEF Opening
  <2> HIDE DEF c
  <2>3. p * PieceLength \in Nat
    BY <1>1, PieceNumbers
  <2>4. \A i \in 1 .. Files : \A q \in 1 .. Size(i) : RightByte(i, q) \in Int
    BY <1>1, RightByteInside
  <2>5. RightUpTo(disk', p, 0)
    BY <2>3, <2>4 DEF RightUpTo
  <2> QED
    BY <2>2, <2>5, Zenon
<1> HIDE DEF c
<1>8. DInv'
  BY <1>2, <1>4, <1>6, <1>7, OneCall
<1> QED
  BY <1>1, <1>2, <1>4, <1>5, <1>8 DEF c

\* A read that begins, or that the bounds check refuses.
LEMMA ReadStartStep ==
    ASSUME SafeLayouts, DInv, NEW t \in Task, NEW p \in AnyPiece, ReadStart(t, p)
    PROVE  /\ Gains /\ DInv' /\ UNCHANGED <<layout, disk>>
           /\ op[t] = Idle
           /\ op' = [op EXCEPT ![t] =
                       IF p \in Inside THEN Beginning(p, p \in Durable) ELSE Failed]
<1>1. /\ UNCHANGED <<layout, disk>> /\ DiskOK /\ layout \in Layouts /\ op[t] = Idle
  BY DEF ReadStart, DInv, DiskOK
<1>2. Gains
  BY <1>1, StutterGains
<1>3. InBounds(p) <=> p \in Inside
  BY <1>1, PieceNumbers
<1> DEFINE b == p \in Durable
           c == IF p \in Inside THEN Beginning(p, b) ELSE Failed
<1>4. b \in BOOLEAN
  OBVIOUS
<1>5. p \in Inside => b = OnDisk(p)
  <2>1. OnDisk(p) \in BOOLEAN
    BY DEF OnDisk
  <2>2. p \in Inside => (b <=> OnDisk(p))
    BY Zenon DEF Durable
  <2> QED
    BY <1>4, <2>1, <2>2, Zenon
<1>6. op' = [op EXCEPT ![t] = c]
  BY <1>3, <1>5 DEF ReadStart, Beginning
<1>7. p \in Inside => Beginning(p, b) \in Reading
  BY <1>1, <1>4, BeginningReads
<1>8. Durable \subseteq Durable'
  BY <1>2, GainsKeepRight DEF DInv
<1>9. c \in Calls /\ c.kind \in {"read", "err"}
  BY <1>7 DEF Calls, Failed, Beginning
<1>10. c.kind = "read" /\ c.expect => c.piece \in Durable' /\ ReadSoFar(c)
  <2> SUFFICES ASSUME c.kind = "read", c.expect
               PROVE  c.piece \in Durable' /\ ReadSoFar(c)
    OBVIOUS
  <2>1. p \in Inside
    BY DEF Failed
  <2>2. c.piece = p /\ c.buf = <<>> /\ c.expect = b
    BY <2>1 DEF Beginning
  <2> HIDE DEF c
  <2>3. p \in Durable'
    BY <1>8, <2>2, Zenon
  <2>4. ReadSoFar(c)
    BY <2>2 DEF ReadSoFar
  <2> QED
    BY <2>2, <2>3, <2>4, Zenon
<1>11. DInv'
  <2> HIDE DEF c
  <2> QED
    BY <1>2, <1>6, <1>9, <1>10, OneCall
<1> QED
  BY <1>1, <1>2, <1>6, <1>11

\* How much of a write goes to one file, as ChunkFits says of a read.
LEMMA WriteChunkFits ==
    ASSUME SafeLayouts, layout \in Layouts, NEW w \in Writing,
           NEW n, n = ChunkSize(Len(w.data), w.file, w.at)
    PROVE  /\ n \in Nat /\ n <= Len(w.data)
           /\ w.at + n <= Size(w.file)
           /\ Len(w.data) # n => w.file + 1 \in 1 .. Files /\ w.at + n = Size(w.file)
<1> DEFINE d == Done(w)
           e == [k \in 1 .. d |-> 0]
           l == Len(w.data)
           c == [kind |-> "read", piece |-> w.piece, file |-> w.file, at |-> w.at,
                 left |-> l, buf |-> e, expect |-> FALSE]
<1>1. /\ w.piece \in Inside /\ w.file \in 1 .. Files /\ w.at \in Nat /\ w.data \in Seq(Int)
      /\ w.at <= Size(w.file) /\ l <= PieceBytes(w.piece)
      /\ Before[w.file] + w.at = w.piece * PieceLength + d
  BY DEF Writing
<1>2. l \in Nat /\ PieceBytes(w.piece) \in Nat
  BY <1>1, LenProperties, PieceData
<1>3. d \in Nat /\ l + d = PieceBytes(w.piece)
  <2> DEFINE b == PieceBytes(w.piece)
  <2>1. d = b - l
    BY DEF Done
  <2> HIDE DEF d, b, l
  <2>2. d \in Nat /\ l + d = b
    BY <1>1, <1>2, <2>1 DEF b
  <2> QED
    BY <2>2 DEF b
<1> HIDE DEF d, l
<1>4. e \in [1 .. d -> Int]
  OBVIOUS
<1>5. e \in Seq(Int)
  BY <1>3, <1>4, SeqDef
<1>6. Len(e) = d
  BY <1>3, <1>4, <1>5, LenProperties
<1> HIDE DEF e
<1>7. c \in [kind : {"read"}, piece : Inside, file : 1 .. Files, at : Nat, left : Nat,
             buf : Seq(Int), expect : BOOLEAN]
  BY <1>1, <1>2, <1>5
<1>8. c.piece = w.piece /\ c.file = w.file /\ c.at = w.at /\ c.left = l /\ c.buf = e
  OBVIOUS
<1> HIDE DEF c
<1>9. c \in Reading
  BY <1>1, <1>3, <1>6, <1>7, <1>8, Zenon DEF Reading
<1>10. n = ChunkSize(c.left, c.file, c.at)
  BY <1>8, Zenon DEF l
<1>11. /\ n \in Nat /\ n <= c.left
       /\ c.at + n <= Size(c.file)
       /\ c.left # n => c.file + 1 \in 1 .. Files /\ c.at + n = Size(c.file)
  BY <1>9, <1>10, ChunkFits
<1> QED
  BY <1>8, <1>11, Zenon DEF l

\* The seek, to the offset of the piece in the torrent, goes to the position in the file.
LEMMA SeekIsAt ==
    ASSUME SafeLayouts, layout \in Layouts, NEW w \in Writing,
           0 < Len(w.data), w.at < Size(w.file)
    PROVE  WritePosition(w) = w.at
<1> DEFINE p == w.piece
           i == w.file
           a == w.at
           s == p * PieceLength
           d == Done(w)
           b == Before[i]
           z == Size(i)
           l == Len(w.data)
           n == PieceBytes(p)
<1>1. /\ p \in Inside /\ i \in 1 .. Files /\ a \in Nat /\ w.data \in Seq(Int)
      /\ l <= n /\ b + a = s + d /\ (a = 0 \/ d = 0)
      /\ SeeksRight(layout, p)
  BY DEF Writing
<1>2. /\ p \in Nat /\ s \in Nat /\ PieceOffset(p) = s /\ n \in Nat
      /\ \A x \in 0 .. Total - 1 : x \div PieceLength = p <=> s <= x /\ x < s + n
      /\ p = 0 => s = 0
  <2>1. p \in Nat /\ s \in Nat /\ PieceOffset(p) = s
    BY <1>1, PieceNumbers DEF Inside
  <2>2. /\ n \in Nat
        /\ \A x \in 0 .. Total - 1 : x \div PieceLength = p <=> s <= x /\ x < s + n
    BY <1>1, PieceData, Zenon
  <2>3. p = 0 => s = 0
    BY DiskAssumption
  <2> QED
    BY <2>1, <2>2, <2>3, Zenon
<1>3. Files \in Nat /\ z \in Nat /\ l \in Nat
  BY <1>1, Torrent, LenProperties, Zenon
<1>4. b \in Nat
  <2>1. i \in 1 .. Files + 1
    BY <1>1, <1>3
  <2> QED
    BY <2>1, Torrent, Zenon
<1>5. d = n - l /\ 0 < l /\ a < z
  BY DEF Done
<1>6. CASE p = 0
  <2> HIDE DEF s, d, a, b, z, n, l
  <2>1. s = a
    BY <1>1, <1>2, <1>3, <1>4, <1>5, <1>6
  <2> QED
    BY <1>2, <2>1, Zenon DEF WritePosition, a
<1>7. CASE p # 0
  <2> DEFINE q == a + 1
             x == RightByte(i, q)
  <2>1. x = b + q - 1
    BY DEF RightByte
  <2>2. q \in 1 .. z /\ s <= x /\ x < s + n
    <3> HIDE DEF s, d, a, b, z, n, l, x
    <3> QED
      BY <1>1, <1>2, <1>3, <1>4, <1>5, <2>1
  <2>3. x \in 0 .. Total - 1
    BY <1>1, <2>2, RightByteInside, Zenon
  <2>4. x \div PieceLength = p
    BY <1>2, <2>2, <2>3, Zenon
  <2>5. i \in DOMAIN layout.files /\ q \in 1 .. layout.files[i]
    BY <1>1, <2>2, Torrent, Zenon DEF Size
  <2>6. (Starts(layout.files)[i] + q - 1) \div PieceLength = p
    BY <2>1, <2>4, Zenon DEF Before
  <2>7. b = 0
    BY <1>1, <1>7, <2>5, <2>6, Zenon DEF SeeksRight, Before
  <2> HIDE DEF s, d, a, b, z, n, l, x
  <2>8. s = a
    BY <1>1, <1>2, <1>3, <1>4, <1>5, <2>7
  <2> QED
    BY <1>2, <2>8, Zenon DEF WritePosition, a
<1> QED
  BY <1>6, <1>7

\* A transfer of k bytes of a write, all that go to the file or fewer.
LEMMA TransferGains ==
    ASSUME SafeLayouts, DInv, NEW t \in Task, NEW w \in Writing, op[t] = w,
           NEW n, n = ChunkSize(Len(w.data), w.file, w.at),
           NEW k \in 0 .. n, layout' = layout,
           disk' = IF k = 0 THEN disk
                   ELSE [disk EXCEPT ![w.file] =
                           Overwrite(@, WritePosition(w), SubSeq(w.data, 1, k))]
    PROVE  Gains /\ OnlyPiece(w.piece) /\ RightUpTo(disk', w.piece, Done(w) + k)
<1> DEFINE p == w.piece
           i == w.file
           a == w.at
           m == Done(w)
           data == w.data
           l == Len(data)
           z == Size(i)
           b == PieceBytes(p)
<1>1. layout \in Layouts /\ DiskOK
  BY DEF DInv, DiskOK
<1>2. /\ p \in Inside /\ i \in 1 .. Files /\ a \in Nat /\ data \in Seq(Int) /\ w.kind = "write"
      /\ l <= b /\ Before[i] + a = p * PieceLength + m
      /\ \A j \in 1 .. l : data[j] = Before[i] + a + j - 1
  BY DEF Writing
<1>3. n \in Nat /\ n <= l /\ a + n <= z
  BY <1>1, WriteChunkFits
<1>4. l \in Nat /\ b \in Nat /\ z \in Nat /\ m = b - l
  BY <1>1, <1>2, LenProperties, PieceData, Torrent DEF Done
<1>5. RightUpTo(disk, p, m)
  BY <1>2, Zenon DEF DInv, CallsInv, Honest
<1> HIDE DEF p, i, a, m, data, l, z, b
<1>6. m \in Nat /\ m + 0 = m
  BY <1>2, <1>4
<1>7. CASE k = 0
  <2>1. Gains /\ OnlyPiece(p)
    BY <1>1, <1>7, StutterGains
  <2>2. RightUpTo(disk', p, m + k)
    BY <1>5, <1>6, <1>7
  <2> QED
    BY <2>1, <2>2 DEF p, m
<1>8. CASE k # 0
  <2>1. /\ k \in Nat \ {0} /\ k <= l /\ a + k <= z /\ m + k <= b
        /\ 0 < l /\ a < z /\ \A j \in 1 .. k : j \in 1 .. l
    BY <1>2, <1>3, <1>4, <1>8
  <2>2. WritePosition(w) = a
    BY <1>1, <2>1, SeekIsAt DEF a, i, l, z, data
  <2>3. disk' = [disk EXCEPT ![i] = Overwrite(@, a, SubSeq(data, 1, k))]
    BY <1>8, <2>2 DEF i, data
  <2>4. \A j \in 1 .. k : data[j] = Before[i] + a + j - 1
    BY <1>2, <2>1
  <2>5. Gains /\ OnlyPiece(p) /\ RightUpTo(disk', p, m + k)
    BY <1>1, <1>2, <1>5, <1>6, <2>1, <2>3, <2>4, WriteGains DEF z, l, b
  <2> QED
    BY <2>5 DEF p, m
<1> QED
  BY <1>7, <1>8

\* A write that goes on in the next file.
LEMMA NextFileWrites ==
    ASSUME SafeLayouts, layout \in Layouts, NEW w \in Writing, NEW n \in Nat, n < Len(w.data),
           w.file + 1 \in 1 .. Files, w.at + n = Size(w.file),
           NEW v, v = [w EXCEPT !.file = @ + 1, !.at = 0,
                                !.data = SubSeq(w.data, n + 1, Len(w.data))]
    PROVE  v \in Writing /\ v.piece = w.piece /\ Done(v) = Done(w) + n
<1> DEFINE p == w.piece
           i == w.file
           a == w.at
           m == Done(w)
           data == w.data
           l == Len(data)
           s == p * PieceLength
           b == PieceBytes(p)
           b1 == Before[i]
           b2 == Before[i + 1]
           z == Size(i)
           rest == SubSeq(data, n + 1, l)
<1>1. /\ w \in [kind : {"write"}, piece : Inside, file : 1 .. Files, at : Nat, data : Seq(Int)]
      /\ SeeksRight(layout, p)
      /\ l <= b /\ b1 + a = s + m
      /\ \A j \in 1 .. l : data[j] = b1 + a + j - 1
  BY DEF Writing
<1>2. p \in Inside /\ i \in 1 .. Files /\ a \in Nat /\ data \in Seq(Int)
  BY <1>1
<1>3. l \in Nat /\ b \in Nat /\ s \in Nat /\ z \in Nat /\ m = b - l
  BY <1>2, LenProperties, PieceData, PieceNumbers, Torrent DEF Inside, Done
<1>4. b2 = b1 + z /\ b1 \in Nat
  <2>1. i \in 1 .. Files + 1
    <3>1. Files \in Nat
      BY Torrent, Zenon
    <3> QED
      BY <1>2, <3>1
  <2> QED
    BY <1>2, <2>1, Torrent, Zenon
<1>5. 0 <= Size(i + 1)
  <2>1. Size(i + 1) \in Nat
    BY Torrent, Zenon
  <2> QED
    BY <2>1
<1>6. n < l /\ a + n = z /\ i + 1 \in 1 .. Files
  OBVIOUS
<1>7. v = [w EXCEPT !.file = i + 1, !.at = 0, !.data = rest]
  OBVIOUS
<1>8. rest \in Seq(Int) /\ Len(rest) = l - n /\ \A j \in 1 .. l - n : rest[j] = data[n + j]
  <2>1. \A j \in 1 .. l : data[j] \in Int
    BY <1>2, ElementOfSeq
  <2> DEFINE r == l - n
  <2>2. r \in Nat /\ l = n + r /\ \A j \in 1 .. r : n + j \in 1 .. l
    BY <1>3, <1>6
  <2> HIDE DEF r, l, data
  <2>3. \A j \in 1 .. r : data[n + j] \in Int
    BY <2>1, <2>2
  <2>4. IsSlice(SubSeq(data, n + 1, n + r), data, n, r)
    BY <2>2, <2>3, Slice
  <2>5. rest = SubSeq(data, n + 1, n + r)
    BY <2>2
  <2> HIDE DEF rest
  <2>6. rest \in Seq(Int) /\ Len(rest) = r /\ \A j \in 1 .. r : rest[j] = data[n + j]
    BY <2>4, <2>5 DEF IsSlice
  <2> QED
    BY <2>6 DEF r
<1> HIDE DEF rest
<1>9. /\ v \in [kind : {"write"}, piece : Inside, file : 1 .. Files, at : Nat, data : Seq(Int)]
      /\ v.piece = p /\ v.file = i + 1 /\ v.at = 0 /\ v.data = rest
  <2> HIDE DEF i
  <2> DEFINE next == i + 1
  <2>1. next \in 1 .. Files /\ 0 \in Nat /\ v = [w EXCEPT !.file = next, !.at = 0, !.data = rest]
    BY <1>6, <1>7
  <2> HIDE DEF next
  <2>2. v \in [kind : {"write"}, piece : Inside, file : 1 .. Files, at : Nat, data : Seq(Int)]
    BY <1>1, <1>8, <2>1
  <2>3. v.piece = p /\ v.file = next /\ v.at = 0 /\ v.data = rest
    BY <1>1, <2>1
  <2> QED
    BY <2>2, <2>3 DEF next
<1>10. Done(v) = b - (l - n)
  BY <1>8, <1>9, Zenon DEF Done
<1> HIDE DEF p, i, a, m, data, l, s, b, b1, b2, z
<1>11. Done(v) = m + n
  BY <1>3, <1>6, <1>10
<1>12. Len(rest) <= b /\ b2 + 0 = s + (m + n)
  <2>1. /\ l <= b /\ b1 + a = s + m /\ a + n = z /\ b2 = b1 + z /\ Len(rest) = l - n
        /\ a \in Nat /\ l \in Nat /\ b \in Nat /\ s \in Nat /\ z \in Nat /\ b1 \in Nat
    BY <1>1, <1>2, <1>3, <1>4, <1>6, <1>8, Zenon
  <2>2. m \in Int
    BY <1>3
  <2>3. l - n <= b
    BY <2>1
  <2>4. b1 + (a + n) + 0 = (b1 + a) + n /\ (s + m) + n = s + (m + n)
    BY <2>1, <2>2
  <2> QED
    BY <2>1, <2>3, <2>4, Zenon
<1>13. \A j \in 1 .. Len(rest) : rest[j] = b2 + 0 + j - 1
  <2> TAKE j \in 1 .. Len(rest)
  <2>1. n + j \in 1 .. l /\ j \in 1 .. l - n
    BY <1>3, <1>6, <1>8
  <2>2. rest[j] = b1 + a + (n + j) - 1
    BY <1>1, <1>8, <2>1
  <2> QED
    BY <1>2, <1>3, <1>4, <1>6, <2>2
<1>14. v \in Writing
  <2>1. SeeksRight(layout, v.piece)
    BY <1>1, <1>9, Zenon
  <2>2. v.at <= Size(v.file)
    BY <1>5, <1>9, Zenon
  <2>3. Len(v.data) <= PieceBytes(v.piece)
    BY <1>9, <1>12, Zenon DEF b
  <2>4. Before[v.file] + v.at = v.piece * PieceLength + Done(v)
    BY <1>9, <1>11, <1>12, Zenon DEF b2, s
  <2>5. \A j \in 1 .. Len(v.data) : v.data[j] = Before[v.file] + v.at + j - 1
    BY <1>9, <1>13, Zenon DEF b2
  <2> QED
    BY <1>9, <2>1, <2>2, <2>3, <2>4, <2>5, Zenon DEF Writing
<1> QED
  BY <1>9, <1>11, <1>14 DEF p, m

\* One part of a write: it ends with the piece on disk, or goes on in the next file.
LEMMA WriteStep ==
    ASSUME SafeLayouts, DInv, NEW t \in Task, WriteChunk(t)
    PROVE  /\ Gains /\ DInv'
           /\ op[t] \in Writing /\ OnlyPiece(op[t].piece)
           /\ \/ op[t].piece \in Durable' /\ op' = [op EXCEPT ![t] = Written(op[t].piece)]
              \/ \E v \in Writing : v.piece = op[t].piece /\ op' = [op EXCEPT ![t] = v]
<1> DEFINE w == op[t]
           l == Len(w.data)
           n == ChunkSize(l, w.file, w.at)
           rest == SubSeq(w.data, n + 1, l)
           v == [w EXCEPT !.file = @ + 1, !.at = 0, !.data = rest]
           p == w.piece
<1>1. w \in Writing /\ layout \in Layouts
  BY CallKinds DEF WriteChunk, DInv, DiskOK
<1>2. /\ layout' = layout
      /\ disk' = IF n = 0 THEN disk
                 ELSE [disk EXCEPT ![w.file] =
                         Overwrite(@, WritePosition(w), SubSeq(w.data, 1, n))]
      /\ op' = [op EXCEPT ![t] =
                  IF rest = <<>> \/ w.file = Files THEN Written(p) ELSE v]
  BY DEF WriteChunk, Written, Files
<1>3. /\ n \in Nat /\ n <= l
      /\ l # n => w.file + 1 \in 1 .. Files /\ w.at + n = Size(w.file)
  BY <1>1, WriteChunkFits
<1>4. p \in Inside /\ w.data \in Seq(Int) /\ l \in Nat /\ l <= PieceBytes(p)
  BY <1>1, LenProperties DEF Writing
<1>5. n \in 0 .. n
  BY <1>3
<1>6. Gains /\ OnlyPiece(p) /\ RightUpTo(disk', p, Done(w) + n)
  BY <1>1, <1>2, <1>5, TransferGains
<1> DEFINE toGo == l - n
<1>7. rest \in Seq(Int) /\ Len(rest) = toGo
  <2> DEFINE data == w.data
  <2>1. data \in Seq(Int) /\ l = Len(data) /\ rest = SubSeq(data, n + 1, l)
    BY <1>4
  <2> HIDE DEF data, n, l, rest
  <2>2. n + 1 \in Int /\ l \in Int /\ 1 <= n + 1 /\ n + 1 <= l + 1 /\ l <= Len(data)
        /\ l - (n + 1) + 1 = toGo
    BY <1>3, <1>4, <2>1
  <2>3. SubSeq(data, n + 1, l) \in Seq(Int) /\ Len(SubSeq(data, n + 1, l)) = l - (n + 1) + 1
    BY <2>1, <2>2, Cut
  <2> QED
    BY <2>1, <2>2, <2>3, Zenon
<1>8. toGo \in Nat /\ (toGo = 0 <=> l = n)
  <2> HIDE DEF n, l
  <2> QED
    BY <1>3, <1>4
<1> HIDE DEF toGo
<1>9. rest = <<>> <=> l = n
  <2> HIDE DEF rest, n, l
  <2> QED
    BY <1>7, <1>8, EmptySeq
<1>10. CASE l = n
  <2>1. rest = <<>>
    BY <1>9, <1>10
  <2>2. Done(w) + n = PieceBytes(p)
    <3> DEFINE b == PieceBytes(p)
    <3>1. b \in Nat /\ Done(w) = b - l
      BY <1>1, <1>4, PieceData DEF Done
    <3> HIDE DEF n, l, b
    <3>2. Done(w) + n = b
      BY <1>3, <1>10, <3>1
    <3> QED
      BY <3>2 DEF b
  <2>3. p \in Durable'
    BY <1>1, <1>2, <1>4, <1>6, <2>2, AllRight
  <2>4. op' = [op EXCEPT ![t] = Written(p)]
    BY <1>2, <2>1
  <2>5. Written(p) \in Calls /\ Written(p).kind = "written" /\ Written(p).piece = p
    BY <1>4 DEF Calls, Written
  <2>6. DInv'
    BY <1>6, <2>3, <2>4, <2>5, OneCall
  <2> QED
    BY <1>1, <1>6, <2>3, <2>4, <2>6
<1>11. CASE l # n
  <2>1. rest # <<>> /\ n < l /\ w.file # Files
    <3>1. n < l
      <4> HIDE DEF n, l
      <4> QED
        BY <1>3, <1>4, <1>11
    <3>2. w.file # Files
      <4> HIDE DEF w, n, l
      <4> QED
        BY <1>1, <1>3, <1>11, Torrent DEF Writing
    <3>3. rest # <<>>
      BY <1>9, <1>11
    <3> QED
      BY <3>1, <3>2, <3>3
  <2>2. op' = [op EXCEPT ![t] = v]
    BY <1>2, <2>1
  <2>3. v \in Writing /\ v.piece = p /\ Done(v) = Done(w) + n
    <3> DEFINE u == v
               k == n
    <3>1. u = [w EXCEPT !.file = @ + 1, !.at = 0, !.data = SubSeq(w.data, k + 1, Len(w.data))]
      OBVIOUS
    <3>2. k \in Nat /\ k < Len(w.data) /\ w.file + 1 \in 1 .. Files /\ w.at + k = Size(w.file)
      BY <1>3, <1>11, <2>1
    <3> HIDE DEF u, k, w
    <3>3. u \in Writing /\ u.piece = w.piece /\ Done(u) = Done(w) + k
      BY <1>1, <3>1, <3>2, NextFileWrites
    <3> QED
      BY <3>3 DEF u, k, w
  <2> HIDE DEF v
  <2>4. v \in Calls /\ v.kind = "write"
    BY <2>3 DEF Calls, Writing
  <2>5. RightUpTo(disk', v.piece, Done(v))
    BY <1>6, <2>3, Zenon
  <2>6. DInv'
    BY <1>6, <2>2, <2>4, <2>5, OneCall
  <2> QED
    BY <1>1, <1>6, <2>2, <2>3, <2>6
<1> QED
  BY <1>10, <1>11

\* A read that goes on in the next file.
LEMMA NextFileReads ==
    ASSUME SafeLayouts, layout \in Layouts, NEW c \in Reading,
           NEW n \in Nat, n <= c.left,
           c.file + 1 \in 1 .. Files, c.at + n = Size(c.file),
           NEW r \in Seq(Int), Len(r) = Len(c.buf) + n
    PROVE  [c EXCEPT !.file = @ + 1, !.at = 0, !.left = @ - n, !.buf = r] \in Reading
<1> DEFINE d == [c EXCEPT !.file = @ + 1, !.at = 0, !.left = @ - n, !.buf = r]
           i == c.file
           a == c.at
           l == c.left
           m == Len(c.buf)
           p == c.piece
           s == p * PieceLength
           bytes == PieceBytes(p)
<1>1. /\ c \in [kind : {"read"}, piece : Inside, file : 1 .. Files, at : Nat, left : Nat,
                buf : Seq(Int), expect : BOOLEAN]
      /\ l + m = bytes /\ Before[i] + a = s + m
  BY DEF Reading
<1>2. p \in Inside /\ i \in 1 .. Files /\ a \in Nat /\ l \in Nat /\ c.buf \in Seq(Int)
  BY <1>1
<1>3. /\ d.piece = p /\ d.file = i + 1 /\ d.at = 0 /\ d.left = l - n /\ d.buf = r
      /\ d.kind = c.kind /\ d.expect = c.expect
  BY <1>1
<1>4. m \in Nat /\ s \in Nat /\ bytes \in Nat
  BY <1>2, LenProperties, PieceData, PieceNumbers DEF Inside
<1>5. l - n \in Nat /\ (l - n) + (m + n) = bytes
  <2>1. l + m = bytes /\ l \in Nat /\ m \in Nat /\ bytes \in Nat /\ n <= l
    BY <1>1, <1>2, <1>4, Zenon
  <2> HIDE DEF l, m, bytes
  <2> QED
    BY <2>1
<1>6. d \in [kind : {"read"}, piece : Inside, file : 1 .. Files, at : Nat, left : Nat,
             buf : Seq(Int), expect : BOOLEAN]
  BY <1>1, <1>5
<1>7. Before[i + 1] = s + (m + n) /\ Before[i + 1] \in Nat
  <2> DEFINE b == Before[i]
             z == Size(i)
             e == Before[i + 1]
  <2>1. e = b + z
    BY <1>2, Torrent, Zenon
  <2>2. i \in 1 .. Files + 1 /\ i + 1 \in 1 .. Files + 1
    <3>1. Files \in Nat
      BY Torrent, Zenon
    <3> QED
      BY <1>2, <3>1
  <2>3. b \in Nat /\ e \in Nat
    BY <2>2, Torrent, Zenon
  <2>4. a + n = z /\ b + a = s + m /\ a \in Nat /\ s \in Nat /\ m \in Nat
    BY <1>1, <1>2, <1>4, Zenon
  <2> HIDE DEF a, b, z, e, s, m
  <2>5. e = s + (m + n)
    BY <2>1, <2>3, <2>4
  <2> QED
    BY <2>3, <2>5 DEF e
<1>8. 0 <= Size(i + 1)
  <2>1. Size(i + 1) \in Nat
    BY Torrent, Zenon
  <2> QED
    BY <2>1
<1>9. d.at <= Size(d.file)
  BY <1>3, <1>8, Zenon
<1>10. d.left + Len(d.buf) = PieceBytes(d.piece)
  BY <1>3, <1>5, Zenon
<1>11. Before[d.file] + d.at = d.piece * PieceLength + Len(d.buf)
  <2>1. Before[i + 1] + 0 = Before[i + 1]
    BY <1>7
  <2> QED
    BY <1>3, <1>7, <2>1, Zenon
<1> QED
  BY <1>6, <1>9, <1>10, <1>11 DEF Reading

\* One part of a read: it ends with the piece, or goes on in the next file.
LEMMA ReadStep ==
    ASSUME SafeLayouts, DInv, NEW t \in Task, ReadChunk(t)
    PROVE  /\ Gains /\ DInv' /\ UNCHANGED <<layout, disk>>
           /\ op[t] \in Reading
           /\ \E c \in Reading \cup Returned :
                 /\ op' = [op EXCEPT ![t] = c]
                 /\ c.piece = op[t].piece /\ c.expect = op[t].expect
<1> DEFINE o == op[t]
           n == ChunkSize(o.left, o.file, o.at)
           r == o.buf \o SubSeq(disk[o.file], o.at + 1, o.at + n)
           done == [kind |-> "returned", piece |-> o.piece, buf |-> r, expect |-> o.expect]
           next == [o EXCEPT !.file = @ + 1, !.at = 0, !.left = @ - n, !.buf = r]
<1>1. o \in Reading /\ layout \in Layouts /\ DiskOK
  BY CallKinds DEF ReadChunk, DInv, DiskOK
<1>2. /\ UNCHANGED <<layout, disk>>
      /\ op' = [op EXCEPT ![t] =
                  IF o.at + n > Len(disk[o.file]) THEN Failed
                  ELSE IF o.left = n \/ o.file = Len(layout.files) THEN done ELSE next]
  BY DEF ReadChunk
<1>3. Gains
  BY <1>1, <1>2, StutterGains
<1>4. Honest(o) /\ Durable \subseteq Durable'
  BY <1>3, GainsKeepRight DEF DInv, CallsInv
<1> HIDE DEF o
<1>5. /\ n \in Nat /\ n <= o.left /\ o.at + n <= Size(o.file)
      /\ o.left # n => o.file + 1 \in 1 .. Files /\ o.at + n = Size(o.file)
  <2> DEFINE k == n
  <2>1. k = ChunkSize(o.left, o.file, o.at)
    OBVIOUS
  <2> HIDE DEF k
  <2>2. /\ k \in Nat /\ k <= o.left /\ o.at + k <= Size(o.file)
        /\ o.left # k => o.file + 1 \in 1 .. Files /\ o.at + k = Size(o.file)
    BY <1>1, <2>1, ChunkFits
  <2> QED
    BY <2>2, Zenon DEF k
<1> HIDE DEF n
<1>6. /\ r \in Seq(Int) /\ Len(r) = Len(o.buf) + n
      /\ o.piece \in Durable /\ ReadSoFar(o) =>
            \A k \in 1 .. Len(r) : r[k] = o.piece * PieceLength + k - 1
  <2> DEFINE b == r
  <2>1. b = o.buf \o SubSeq(disk[o.file], o.at + 1, o.at + n)
    OBVIOUS
  <2>2. o \in Reading /\ DiskOK /\ n \in Nat /\ n <= o.left /\ o.at + n <= Size(o.file)
    BY <1>1, <1>5
  <2> HIDE DEF b
  <2>3. /\ b \in Seq(Int) /\ Len(b) = Len(o.buf) + n
        /\ o.piece \in Durable /\ ReadSoFar(o) =>
              \A k \in 1 .. Len(b) : b[k] = o.piece * PieceLength + k - 1
    BY <2>1, <2>2, ChunkBytes
  <2> QED
    BY <2>3, Zenon DEF b
<1> HIDE DEF r
<1>7. /\ o.kind = "read" /\ o.piece \in Inside /\ o.file \in 1 .. Files /\ o.at \in Nat
      /\ o.left \in Nat /\ o.expect \in BOOLEAN /\ o.buf \in Seq(Int)
      /\ o.left + Len(o.buf) = PieceBytes(o.piece)
  BY <1>1 DEF Reading
<1>8. o.expect => o.piece \in Durable /\ ReadSoFar(o)
  BY <1>4, <1>7 DEF Honest
<1>9. ~(o.at + n > Len(disk[o.file]))
  <2> DEFINE z == Size(o.file)
  <2>1. Len(disk[o.file]) = z /\ z \in Nat
    BY <1>1, <1>7, Torrent, Zenon DEF DiskOK
  <2> HIDE DEF z
  <2>2. o.at + n <= z
    BY <1>5 DEF z
  <2> QED
    BY <1>5, <1>7, <2>1, <2>2
<1>10. o.left # n => o.file # Files
  BY <1>5, <1>7
<1>11. op' = [op EXCEPT ![t] = IF o.left = n THEN done ELSE next]
  BY <1>2, <1>9, <1>10 DEF Files
<1>12. CASE o.left = n
  <2>1. done \in Returned
    BY <1>6, <1>7 DEF Returned
  <2>2. done.kind = "returned" /\ done.piece = o.piece /\ done.expect = o.expect /\ done.buf = r
    OBVIOUS
  <2>3. ASSUME done.expect PROVE r = Data[o.piece]
    <3> DEFINE p == o.piece
               d == DataOf(p)
               s == p * PieceLength
    <3>1. /\ d \in Seq(Int) /\ Len(d) = PieceBytes(p)
          /\ \A k \in 1 .. PieceBytes(p) : d[k] = s + k - 1
      BY <1>1, <1>7, PieceData, Zenon
    <3>2. \A k \in 1 .. Len(r) : r[k] = s + k - 1
      BY <1>6, <1>8, <2>2, <2>3, Zenon
    <3>3. Len(r) = PieceBytes(p)
      <4> DEFINE m == Len(o.buf)
                 bytes == PieceBytes(p)
      <4>1. o.left + m = bytes /\ Len(r) = m + n /\ o.left = n /\ n \in Nat
        BY <1>5, <1>6, <1>7, <1>12, Zenon
      <4>2. m \in Nat
        BY <1>7, LenProperties
      <4> HIDE DEF m, bytes
      <4>3. Len(r) = bytes
        BY <4>1, <4>2
      <4> QED
        BY <4>3 DEF bytes
    <3> HIDE DEF d, s
    <3>4. Len(r) = Len(d) /\ \A k \in 1 .. Len(r) : r[k] = d[k]
      BY <3>1, <3>2, <3>3, Zenon
    <3>5. r = d
      BY <1>6, <3>1, <3>4, SeqEqual
    <3> QED
      BY <1>7, <3>5 DEF Data, d
  <2> HIDE DEF done
  <2>4. op' = [op EXCEPT ![t] = done]
    BY <1>11, <1>12
  <2>5. done \in Calls
    BY <2>1 DEF Calls
  <2>6. DInv'
    BY <1>3, <2>2, <2>3, <2>4, <2>5, OneCall
  <2> QED
    BY <1>1, <1>2, <1>3, <2>1, <2>2, <2>4, <2>6 DEF o
<1>13. CASE o.left # n
  <2>1. next \in Reading
    BY <1>1, <1>5, <1>6, <1>13, NextFileReads
  <2>2. next.kind = "read" /\ next.piece = o.piece /\ next.expect = o.expect /\ next.buf = r
    BY <1>1 DEF Reading
  <2> HIDE DEF next
  <2>3. op' = [op EXCEPT ![t] = next]
    BY <1>11, <1>13
  <2>4. next \in Calls
    BY <2>1 DEF Calls
  <2>5. ASSUME next.expect PROVE next.piece \in Durable' /\ ReadSoFar(next)
    <3>1. o.expect
      BY <2>2, <2>5, Zenon
    <3>2. next.piece \in Durable'
      BY <1>4, <1>8, <2>2, <3>1, Zenon
    <3>3. \A k \in 1 .. Len(r) : r[k] = o.piece * PieceLength + k - 1
      BY <1>6, <1>8, <3>1, Zenon
    <3> QED
      BY <2>2, <3>2, <3>3 DEF ReadSoFar
  <2>6. DInv'
    BY <1>3, <2>2, <2>3, <2>4, <2>5, OneCall
  <2> QED
    BY <1>1, <1>2, <1>3, <2>1, <2>2, <2>3, <2>6 DEF o
<1> QED
  BY <1>12, <1>13

\* A transfer the system refuses, a partial write included.
LEMMA ErrorStep ==
    ASSUME SafeLayouts, DInv, NEW t \in Task, IoError(t)
    PROVE  /\ Gains /\ DInv' /\ op' = [op EXCEPT ![t] = Failed]
           /\ \/ op[t] \in Reading /\ UNCHANGED <<layout, disk>>
              \/ op[t] \in Writing /\ OnlyPiece(op[t].piece)
<1>1. Failed \in Calls /\ Failed.kind = "err"
  BY DEF Calls, Failed
<1>2. layout' = layout /\ op' = [op EXCEPT ![t] = Failed] /\ DiskOK
  BY DEF IoError, DInv
<1>3. CASE op[t].kind = "write"
  <2>1. op[t] \in Writing
    BY <1>3, CallKinds
  <2>2. PICK k \in 0 .. ChunkSize(Len(op[t].data), op[t].file, op[t].at) :
           disk' = IF k = 0 THEN disk
                   ELSE [disk EXCEPT ![op[t].file] =
                           Overwrite(@, WritePosition(op[t]), SubSeq(op[t].data, 1, k))]
    BY <1>3 DEF IoError
  <2>3. Gains /\ OnlyPiece(op[t].piece)
    BY <1>2, <2>1, <2>2, TransferGains
  <2>4. DInv'
    BY <1>1, <1>2, <2>3, OneCall
  <2> QED
    BY <1>2, <2>1, <2>3, <2>4
<1>4. CASE op[t].kind = "read"
  <2>1. UNCHANGED <<layout, disk>> /\ op[t] \in Reading
    BY <1>4, CallKinds DEF IoError
  <2>2. Gains
    BY <1>2, <2>1, StutterGains
  <2>3. DInv'
    BY <1>1, <1>2, <2>2, OneCall
  <2> QED
    BY <1>2, <2>1, <2>2, <2>3
<1> QED
  BY <1>3, <1>4 DEF IoError

\* The return to the caller.
LEMMA ReturnStep ==
    ASSUME SafeLayouts, DInv, NEW t \in Task, Return(t)
    PROVE  Gains /\ DInv' /\ UNCHANGED <<layout, disk>> /\ op' = [op EXCEPT ![t] = Idle]
<1>1. UNCHANGED <<layout, disk>> /\ op' = [op EXCEPT ![t] = Idle] /\ DiskOK
  BY DEF Return, DInv
<1>2. Gains
  BY <1>1, StutterGains
<1>3. Idle \in Calls /\ Idle.kind = "idle"
  BY DEF Calls, Idle
<1> QED
  BY <1>1, <1>2, <1>3, OneCall

\* A restart: the files have their lengths already, set_len changes nothing and every
\* call is gone.
LEMMA ReopenStep ==
    ASSUME SafeLayouts, DInv, Reopen
    PROVE  Gains /\ DInv' /\ UNCHANGED <<layout, disk>> /\ op' = [t \in Task |-> Idle]
<1>1. layout \in Layouts /\ DiskOK /\ layout' = layout /\ op' = [t \in Task |-> Idle]
  BY DEF DInv, DiskOK, Reopen
<1>2. DOMAIN layout.files = 1 .. Files
  BY <1>1, Torrent, Zenon
<1>3. ASSUME NEW i \in 1 .. Files PROVE SetLen(disk[i], layout.files[i]) = disk[i]
  <2> DEFINE file == disk[i]
             n == layout.files[i]
  <2>1. file \in Seq(Int) /\ Len(file) = n
    BY <1>1 DEF DiskOK, Size
  <2>2. n \in Nat
    BY <1>1, Torrent, Zenon DEF Size
  <2> HIDE DEF file, n
  <2>3. file = [q \in 1 .. n |-> file[q]]
    BY <2>1, LenProperties
  <2>4. SetLen(file, n) = [q \in 1 .. n |-> file[q]]
    BY <2>1, <2>2 DEF SetLen
  <2>5. SetLen(file, n) = file
    BY <2>3, <2>4, Zenon
  <2> QED
    BY <2>5, Zenon DEF file, n
<1>4. disk' = [i \in 1 .. Files |-> SetLen(disk[i], layout.files[i])]
  BY <1>2 DEF Reopen
<1>5. disk' = disk
  BY <1>1, <1>3, <1>4 DEF DiskOK
<1>6. Gains
  BY <1>1, <1>5, StutterGains
<1>7. op' \in [Task -> Calls'] /\ CallsInv'
  BY <1>1 DEF Calls, CallsInv, Honest, Idle
<1> QED
  BY <1>1, <1>5, <1>6, <1>7 DEF Gains, DInv

\* Every step gains right bytes only and keeps the invariant.
LEMMA NextDInv ==
    ASSUME SafeLayouts, DInv, [Next]_vars
    PROVE  Gains /\ DInv'
<1>1. CASE \E t \in Task, p \in AnyPiece : WriteStart(t, p) \/ ReadStart(t, p)
  BY <1>1, WriteStartStep, ReadStartStep
<1>2. CASE \E t \in Task : WriteChunk(t) \/ ReadChunk(t) \/ IoError(t) \/ Return(t)
  BY <1>2, WriteStep, ReadStep, ErrorStep, ReturnStep
<1>3. CASE Reopen
  BY <1>3, ReopenStep
<1>4. CASE UNCHANGED vars
  <2>1. UNCHANGED <<layout, disk>> /\ op' = op /\ DiskOK
    BY <1>4 DEF vars, DInv
  <2>2. Gains
    BY <2>1, StutterGains
  <2>3. Durable \subseteq Durable' /\ Calls' = Calls /\ Data' = Data
    BY <2>1, <2>2, GainsKeepRight, SameCalls
  <2>4. CallsInv'
    <3>1. \A d : RightUpTo(disk, d.piece, Done(d)) => RightUpTo(disk, d.piece, Done(d))'
      BY <2>1, SameLayout DEF RightUpTo, Done
    <3> QED
      BY <2>1, <2>3, <3>1 DEF DInv, CallsInv, Honest, ReadSoFar
  <2> QED
    BY <2>1, <2>2, <2>3, <2>4 DEF Gains, DInv
<1> QED
  BY <1>1, <1>2, <1>3, <1>4 DEF Next

-----------------------------------------------------------------------------
(* The theorems. *)

\* The invariant holds in every reachable state.
THEOREM DiskInvariant == ASSUME SafeLayouts PROVE Spec => []DInv
<1>1. Init => DInv
  BY InitDInv
<1>2. DInv /\ [Next]_vars => DInv'
  BY NextDInv
<1> QED
  BY <1>1, <1>2, PTL DEF Spec

\* The files keep the lengths set by DiskIO::new and hold bytes of the torrent only.
THEOREM DiskTypeCorrect == ASSUME SafeLayouts PROVE Spec => []TypeOK
<1>1. DInv => TypeOK
  <2> SUFFICES ASSUME DInv PROVE TypeOK
    OBVIOUS
  <2>1. layout \in Layouts /\ DiskOK
    BY DEF DInv, DiskOK
  <2>2. DOMAIN layout.files = 1 .. Files
    BY <2>1, Torrent, Zenon
  <2>3. DOMAIN disk = 1 .. Files
    BY <2>1 DEF DiskOK
  <2>4. ASSUME NEW i \in 1 .. Files
        PROVE  /\ Len(disk[i]) = layout.files[i]
               /\ \A q \in DOMAIN disk[i] : disk[i][q] \in -1 .. Total - 1
    <3>1. /\ disk[i] \in Seq(Int) /\ Len(disk[i]) = Size(i)
          /\ \A q \in 1 .. Size(i) : disk[i][q] \in {NoByte, RightByte(i, q)}
      BY <2>1, <2>4, Zenon DEF DiskOK
    <3>2. \A q \in 1 .. Size(i) : RightByte(i, q) \in 0 .. Total - 1
      BY <2>1, <2>4, RightByteInside
    <3>3. Total \in Nat
      BY <2>1, Torrent, Zenon
    <3>4. DOMAIN disk[i] = 1 .. Size(i)
      BY <3>1, LenProperties, Zenon
    <3>5. ASSUME NEW q \in 1 .. Size(i) PROVE disk[i][q] \in -1 .. Total - 1
      <4>1. disk[i][q] = NoByte \/ disk[i][q] = RightByte(i, q)
        BY <3>1, <3>5, Zenon
      <4>2. RightByte(i, q) \in 0 .. Total - 1
        BY <3>2, <3>5
      <4> QED
        BY <3>3, <4>1, <4>2 DEF NoByte
    <3> QED
      BY <3>1, <3>4, <3>5, Zenon DEF Size
  <2>5. \A t \in Task : op[t].kind \in {"idle", "err", "write", "read", "written", "returned"}
    BY CallKinds
  <2> QED
    BY <2>1, <2>2, <2>3, <2>4, <2>5, Zenon DEF TypeOK
<1> QED
  BY <1>1, DiskInvariant, PTL

\* When write_piece has returned Ok, every byte of the piece is in the file, whatever
\* other calls, refused transfers and restarts came between.
THEOREM WrittenIsOnDisk == ASSUME SafeLayouts PROVE Spec => []OkMeansOnDisk
<1>1. DInv => OkMeansOnDisk
  BY DEF DInv, CallsInv, Honest, Durable, OkMeansOnDisk
<1> QED
  BY <1>1, DiskInvariant, PTL

\* read_piece of a piece that was on disk when it was called returns exactly the
\* bytes of the piece, across file borders and beside any number of other calls.
THEOREM ReadsReturnThePiece == ASSUME SafeLayouts PROVE Spec => []ReadReturnsPiece
<1>1. DInv => ReadReturnsPiece
  <2> SUFFICES ASSUME DInv, NEW t \in Task, op[t].kind = "returned", op[t].expect
               PROVE  op[t].buf = DataOf(op[t].piece)
    BY DEF ReadReturnsPiece
  <2>1. op[t] \in Returned
    BY CallKinds
  <2>2. op[t].piece \in Inside
    BY <2>1 DEF Returned
  <2>3. op[t].buf = Data[op[t].piece]
    BY DEF DInv, CallsInv, Honest
  <2> QED
    BY <2>2, <2>3 DEF Data
<1> QED
  BY <1>1, DiskInvariant, PTL

\* A right byte on disk is never replaced by a wrong one: not by a write of another
\* piece, a write that fails half way or a restart.
THEOREM WritesSpoilNothing == ASSUME SafeLayouts PROVE Spec => RightStaysRight
<1>1. DInv /\ [Next]_vars =>
        [\A i \in DOMAIN disk : \A q \in 1 .. layout.files[i] :
            disk[i][q] = RightByte(i, q) => disk'[i][q] = RightByte(i, q)]_disk
  <2> SUFFICES ASSUME DInv, [Next]_vars
               PROVE  \A i \in DOMAIN disk : \A q \in 1 .. layout.files[i] :
                         disk[i][q] = RightByte(i, q) => disk'[i][q] = RightByte(i, q)
    OBVIOUS
  <2>1. DOMAIN disk = 1 .. Files
    BY DEF DInv, DiskOK
  <2>2. Gains
    BY NextDInv
  <2> QED
    BY <2>1, <2>2, Zenon DEF Gains, Size
<1> QED
  BY <1>1, DiskInvariant, PTL DEF Spec, RightStaysRight

-----------------------------------------------------------------------------
(* DiskIO implements PieceDisk. *)

\* The calls as PieceDisk sees them.
PieceCalls == [t \in Task |-> PieceCall(op[t])]

\* What a call is to PieceDisk does not change while the layout does not.
LEMMA SamePieceCall ==
    ASSUME layout' = layout, NEW c
    PROVE  PieceCall(c)' = PieceCall(c)
<1>1. \A p : DataOf(p)' = DataOf(p)
  BY SameLayout
<1> QED
  BY <1>1 DEF PieceCall

\* One call changes.
LEMMA OnePieceCall ==
    ASSUME DInv, layout' = layout, NEW t \in Task, NEW c, op' = [op EXCEPT ![t] = c]
    PROVE  PieceCalls' = [PieceCalls EXCEPT ![t] = PieceCall(c)]
<1>1. op' = [u \in Task |-> IF u = t THEN c ELSE op[u]]
  BY DEF DInv
<1>2. \A d : PieceCall(d)' = PieceCall(d)
  BY SamePieceCall
<1>3. PieceCalls' = [u \in Task |-> PieceCall(op'[u])]
  BY <1>2 DEF PieceCalls
<1> QED
  BY <1>1, <1>3 DEF PieceCalls

\* Every state of a call is one of PieceDisk.
LEMMA PieceCallKinds ==
    /\ PieceCall(Idle) = PieceStore!Idle
    /\ PieceCall(Failed) = PieceStore!Err
    /\ \A c \in Writing : PieceCall(c) = PieceStore!Write(c.piece)
    /\ \A p : PieceCall(Written(p)) = PieceStore!Written(p)
    /\ \A c \in Reading : PieceCall(c) = PieceStore!Read(c.piece, c.expect)
    /\ \A c \in Returned : PieceCall(c) = PieceStore!Returned(c.piece, c.buf = DataOf(c.piece))
<1>1. PieceCall(Idle) = PieceStore!Idle
  BY DEF PieceCall, Idle, PieceStore!Idle
<1>2. PieceCall(Failed) = PieceStore!Err
  BY DEF PieceCall, Failed, PieceStore!Err
<1>3. ASSUME NEW c \in Writing PROVE PieceCall(c) = PieceStore!Write(c.piece)
  <2>1. c.kind = "write"
    BY DEF Writing
  <2> QED
    BY <2>1 DEF PieceCall, PieceStore!Write
<1>4. ASSUME NEW p PROVE PieceCall(Written(p)) = PieceStore!Written(p)
  BY DEF PieceCall, Written, PieceStore!Written
<1>5. ASSUME NEW c \in Reading PROVE PieceCall(c) = PieceStore!Read(c.piece, c.expect)
  <2>1. c.kind = "read"
    BY DEF Reading
  <2> QED
    BY <2>1 DEF PieceCall, PieceStore!Read
<1>6. ASSUME NEW c \in Returned
      PROVE  PieceCall(c) = PieceStore!Returned(c.piece, c.buf = DataOf(c.piece))
  <2>1. c.kind = "returned"
    BY DEF Returned
  <2> QED
    BY <2>1 DEF PieceCall, PieceStore!Returned
<1> QED
  BY <1>1, <1>2, <1>3, <1>4, <1>5, <1>6

\* The pieces of every torrent are pieces of PieceDisk.
LEMMA InsideAll ==
    ASSUME SafeLayouts, layout \in Layouts
    PROVE  Inside \subseteq AllPieces
<1> SUFFICES ASSUME NEW p \in Inside PROVE p \in AllPieces
  OBVIOUS
<1>1. PieceLength \in Nat \ {0} /\ Total \in Nat
  BY DiskAssumption, Torrent
<1>2. p \in Nat /\ p * PieceLength < Total
  BY PieceNumbers DEF Inside
<1>3. p <= p * PieceLength
  BY <1>1, <1>2
<1>4. p \in 0 .. Total
  <2> DEFINE s == p * PieceLength
  <2>1. s \in Nat /\ p <= s /\ s < Total
    BY <1>1, <1>2, <1>3
  <2> HIDE DEF s
  <2> QED
    BY <1>1, <1>2, <2>1
<1> QED
  BY <1>4 DEF AllPieces, Total, Before

\* What is durable after a step that gains bytes of one piece.
LEMMA OneDurable ==
    ASSUME SafeLayouts, DInv, Gains, NEW p \in Inside, OnlyPiece(p)
    PROVE  /\ Durable' \in {Durable, Durable \cup {p}}
           /\ p \in Durable' => Durable' = Durable \cup {p}
<1>1. DiskOK /\ layout' = layout
  BY DEF DInv, Gains
<1>2. Durable \subseteq Durable'
  BY <1>1, GainsKeepRight
<1>3. ASSUME NEW r \in Durable', r # p PROVE r \in Durable
  <2>1. r \in Inside /\ OnDisk(r)'
    BY <1>1, <1>3, SameLayout DEF Durable
  <2>2. OnDisk(r)
    BY <1>1, <1>3, <2>1, OnlyPieceGains
  <2> QED
    BY <2>1, <2>2 DEF Durable
<1> QED
  BY <1>2, <1>3

\* And after one that changes no byte.
LEMMA SameDurable ==
    ASSUME UNCHANGED <<layout, disk>>
    PROVE  Durable' = Durable
<1>1. /\ Inside' = Inside
      /\ \A i, q : RightByte(i, q)' = RightByte(i, q)
  BY SameLayout
<1>2. \A p : OnDisk(p)' = OnDisk(p)
  BY <1>1 DEF OnDisk
<1> QED
  BY <1>1, <1>2 DEF Durable

\* New and complete files are a beginning of PieceDisk.
LEMMA InitPieceDisk == ASSUME SafeLayouts, Init PROVE PieceStore!DiskInit
<1>1. DInv /\ layout \in Layouts
  BY InitDInv DEF Init
<1>2. Durable \subseteq AllPieces
  BY <1>1, InsideAll DEF Durable
<1>3. PieceCalls = [t \in Task |-> PieceStore!Idle]
  BY PieceCallKinds DEF Init, PieceCalls
<1> QED
  BY <1>2, <1>3 DEF PieceStore!DiskInit, PieceCalls

\* Every step of DiskIO is a step of PieceDisk, or nothing to it.
LEMMA NextPieceDisk ==
    ASSUME SafeLayouts, DInv, [Next]_vars
    PROVE  [PieceStore!DiskNext]_(PieceStore!diskVars)
<1> DEFINE calls == PieceCalls
<1>1. layout \in Layouts /\ op \in [Task -> Calls]
  BY DEF DInv, DiskOK
<1>2. Inside \subseteq AllPieces
  BY <1>1, InsideAll
<1>3. ASSUME NEW t \in Task PROVE calls[t] = PieceCall(op[t])
  BY DEF PieceCalls
<1>4. ASSUME NEW t \in Task, NEW p \in AnyPiece, WriteStart(t, p)
      PROVE  PieceStore!DiskNext
  <2>1. /\ UNCHANGED <<layout, disk>> /\ op[t] = Idle
        /\ op' = [op EXCEPT ![t] = IF p \in Inside THEN Opening(p) ELSE Failed]
        /\ p \in Inside => Opening(p) \in Writing
    BY <1>4, WriteStartStep
  <2>2. Durable' = Durable /\ calls[t] = PieceStore!Idle
    BY <1>3, <2>1, SameDurable, PieceCallKinds
  <2>3. CASE p \in Inside
    <3> DEFINE c == Opening(p)
    <3>1. c \in Writing /\ c.piece = p /\ op' = [op EXCEPT ![t] = c]
      BY <2>1, <2>3 DEF Opening
    <3> HIDE DEF c
    <3>2. PieceCall(c) = PieceStore!Write(p)
      BY <3>1, PieceCallKinds
    <3>3. calls' = [calls EXCEPT ![t] = PieceStore!Write(p)]
      <4>1. layout' = layout /\ op' = [op EXCEPT ![t] = c]
        BY <2>1, <3>1
      <4>2. calls' = [calls EXCEPT ![t] = PieceCall(c)]
        BY <4>1, OnePieceCall
      <4> QED
        BY <3>2, <4>2
    <3> QED
      BY <1>2, <2>2, <2>3, <3>3
         DEF PieceStore!DiskNext, PieceStore!BeginWrite, PieceStore!Becomes, PieceCalls
  <2>4. CASE p \notin Inside
    <3>1. calls' = [calls EXCEPT ![t] = PieceStore!Err]
      BY <2>1, <2>4, OnePieceCall, PieceCallKinds
    <3> QED
      BY <2>2, <3>1
         DEF PieceStore!DiskNext, PieceStore!Refuse, PieceStore!Ends, PieceStore!Becomes, PieceCalls
  <2> QED
    BY <2>3, <2>4
<1>5. ASSUME NEW t \in Task, NEW p \in AnyPiece, ReadStart(t, p)
      PROVE  PieceStore!DiskNext
  <2>1. /\ UNCHANGED <<layout, disk>> /\ op[t] = Idle
        /\ op' = [op EXCEPT ![t] = IF p \in Inside THEN Beginning(p, p \in Durable) ELSE Failed]
    BY <1>5, ReadStartStep
  <2>2. Durable' = Durable /\ calls[t] = PieceStore!Idle
    BY <1>3, <2>1, SameDurable, PieceCallKinds
  <2>3. CASE p \in Inside
    <3> DEFINE b == p \in Durable
               c == Beginning(p, b)
    <3>1. b \in BOOLEAN /\ op' = [op EXCEPT ![t] = c]
      BY <2>1, <2>3
    <3> HIDE DEF b
    <3>2. c \in Reading
      BY <1>1, <2>3, <3>1, BeginningReads
    <3>3. c.piece = p /\ c.expect = b
      BY DEF Beginning
    <3> HIDE DEF c
    <3>4. PieceCall(c) = PieceStore!Read(p, b)
      BY <3>2, <3>3, PieceCallKinds
    <3>5. calls' = [calls EXCEPT ![t] = PieceStore!Read(p, b)]
      <4>1. layout' = layout /\ op' = [op EXCEPT ![t] = c]
        BY <2>1, <3>1
      <4>2. calls' = [calls EXCEPT ![t] = PieceCall(c)]
        BY <4>1, OnePieceCall
      <4> QED
        BY <3>4, <4>2
    <3>6. PieceStore!BeginRead(t, p)
      BY <2>2, <3>5 DEF PieceStore!BeginRead, PieceStore!Becomes, PieceCalls, b
    <3> QED
      BY <1>2, <2>3, <3>6 DEF PieceStore!DiskNext
  <2>4. CASE p \notin Inside
    <3>1. calls' = [calls EXCEPT ![t] = PieceStore!Err]
      BY <2>1, <2>4, OnePieceCall, PieceCallKinds
    <3> QED
      BY <2>2, <3>1
         DEF PieceStore!DiskNext, PieceStore!Refuse, PieceStore!Ends, PieceStore!Becomes, PieceCalls
  <2> QED
    BY <2>3, <2>4
<1>6. ASSUME NEW t \in Task, WriteChunk(t)
      PROVE  PieceStore!DiskNext \/ UNCHANGED PieceStore!diskVars
  <2> DEFINE p == op[t].piece
  <2>1. /\ Gains /\ op[t] \in Writing /\ OnlyPiece(p)
        /\ \/ p \in Durable' /\ op' = [op EXCEPT ![t] = Written(p)]
           \/ \E v \in Writing : v.piece = p /\ op' = [op EXCEPT ![t] = v]
    BY <1>6, WriteStep
  <2>2. p \in Inside /\ layout' = layout /\ calls[t] = PieceStore!Write(p)
    BY <1>3, <2>1, PieceCallKinds DEF Writing, Gains
  <2> HIDE DEF p
  <2>3. /\ Durable' \in {Durable, Durable \cup {p}}
        /\ p \in Durable' => Durable' = Durable \cup {p}
    BY <2>1, <2>2, OneDurable
  <2>4. CASE p \in Durable' /\ op' = [op EXCEPT ![t] = Written(p)]
    <3>1. calls' = [calls EXCEPT ![t] = PieceStore!Written(p)]
      BY <2>2, <2>4, OnePieceCall, PieceCallKinds
    <3> QED
      BY <1>2, <2>2, <2>3, <2>4, <3>1
         DEF PieceStore!DiskNext, PieceStore!WriteSucceeds, PieceStore!Ends, PieceStore!Becomes,
             PieceCalls
  <2>5. CASE \E v \in Writing : v.piece = p /\ op' = [op EXCEPT ![t] = v]
    <3>1. PICK v \in Writing : v.piece = p /\ op' = [op EXCEPT ![t] = v]
      BY <2>5
    <3>2. PieceCall(v) = calls[t]
      BY <2>2, <3>1, PieceCallKinds
    <3>3. calls' = [calls EXCEPT ![t] = PieceCall(v)]
      BY <2>2, <3>1, OnePieceCall
    <3>4. calls' = calls
      BY <3>2, <3>3 DEF PieceCalls
    <3>5. CASE Durable' = Durable
      BY <3>4, <3>5 DEF PieceStore!diskVars, PieceCalls
    <3>6. CASE Durable' = Durable \cup {p}
      BY <1>2, <2>2, <3>4, <3>6
         DEF PieceStore!DiskNext, PieceStore!WriteLands, PieceCalls
    <3> QED
      BY <2>3, <3>5, <3>6
  <2> QED
    BY <2>1, <2>4, <2>5
<1>7. ASSUME NEW t \in Task, ReadChunk(t)
      PROVE  PieceStore!DiskNext \/ UNCHANGED PieceStore!diskVars
  <2>1. /\ DInv' /\ UNCHANGED <<layout, disk>> /\ op[t] \in Reading
        /\ \E c \in Reading \cup Returned :
              /\ op' = [op EXCEPT ![t] = c]
              /\ c.piece = op[t].piece /\ c.expect = op[t].expect
    BY <1>7, ReadStep
  <2>2. PICK c \in Reading \cup Returned :
           /\ op' = [op EXCEPT ![t] = c]
           /\ c.piece = op[t].piece /\ c.expect = op[t].expect
    BY <2>1
  <2> DEFINE p == op[t].piece
             sure == op[t].expect
  <2>3. Durable' = Durable /\ layout' = layout
    BY <2>1, SameDurable
  <2>4. calls[t] = PieceStore!Read(p, sure) /\ p \in Inside /\ sure \in BOOLEAN
    BY <1>3, <2>1, PieceCallKinds DEF Reading
  <2>5. calls' = [calls EXCEPT ![t] = PieceCall(c)]
    BY <2>2, <2>3, OnePieceCall
  <2>6. CASE c \in Reading
    <3>1. PieceCall(c) = calls[t]
      BY <2>2, <2>4, <2>6, PieceCallKinds
    <3>2. calls' = calls
      BY <2>5, <3>1 DEF PieceCalls
    <3> QED
      BY <2>3, <3>2 DEF PieceStore!diskVars, PieceCalls
  <2>7. CASE c \in Returned
    <3> DEFINE right == c.buf = DataOf(p)
    <3>1. PieceCall(c) = PieceStore!Returned(p, right)
      BY <2>2, <2>7, PieceCallKinds
    <3>2. ASSUME sure PROVE right
      <4>1. op'[t] = c
        BY <1>1, <2>2
      <4>2. Honest(c)' /\ Data' = Data
        BY <2>1, <2>3, <4>1, SameCalls DEF DInv, CallsInv, Honest
      <4>3. c.kind = "returned" /\ c.expect
        BY <2>2, <2>7, <3>2 DEF Returned
      <4>4. c.buf = Data[p]
        BY <2>2, <4>2, <4>3 DEF Honest
      <4> QED
        BY <2>4, <4>4 DEF Data
    <3>3. right \in BOOLEAN
      OBVIOUS
    <3> HIDE DEF right, p, sure
    <3>4. calls' = [calls EXCEPT ![t] = PieceStore!Returned(p, right)]
      BY <2>5, <3>1
    <3>5. PieceStore!ReadSucceeds(t, p)
      BY <2>3, <2>4, <3>2, <3>3, <3>4
         DEF PieceStore!ReadSucceeds, PieceStore!Ends, PieceStore!Becomes, PieceCalls
    <3>6. p \in AllPieces
      BY <1>2, <2>4
    <3> QED
      BY <3>5, <3>6 DEF PieceStore!DiskNext
  <2> QED
    BY <2>6, <2>7
<1>8. ASSUME NEW t \in Task, IoError(t) PROVE PieceStore!DiskNext
  <2>1. /\ Gains /\ op' = [op EXCEPT ![t] = Failed]
        /\ \/ op[t] \in Reading /\ UNCHANGED <<layout, disk>>
           \/ op[t] \in Writing /\ OnlyPiece(op[t].piece)
    BY <1>8, ErrorStep
  <2>2. layout' = layout
    BY <2>1 DEF Gains
  <2>3. calls' = [calls EXCEPT ![t] = PieceStore!Err]
    BY <2>1, <2>2, OnePieceCall, PieceCallKinds
  <2>4. CASE op[t] \in Reading /\ UNCHANGED <<layout, disk>>
    <3>1. Durable' = Durable
      BY <2>4, SameDurable
    <3>2. calls[t].kind = "read"
      BY <1>3, <2>4, PieceCallKinds DEF PieceStore!Read
    <3> QED
      BY <2>3, <3>1, <3>2
         DEF PieceStore!DiskNext, PieceStore!ReadFails, PieceStore!Ends, PieceStore!Becomes,
             PieceCalls
  <2>5. CASE op[t] \in Writing /\ OnlyPiece(op[t].piece)
    <3> DEFINE p == op[t].piece
    <3>1. op[t] \in Writing /\ OnlyPiece(p)
      BY <2>5
    <3>2. p \in Inside /\ calls[t] = PieceStore!Write(p)
      BY <1>3, <3>1, PieceCallKinds DEF Writing
    <3> HIDE DEF p
    <3>3. Durable' \in {Durable, Durable \cup {p}}
      BY <2>1, <3>1, <3>2, OneDurable
    <3> QED
      BY <1>2, <2>3, <3>2, <3>3
         DEF PieceStore!DiskNext, PieceStore!WriteFails, PieceStore!Ends, PieceStore!Becomes,
             PieceCalls
  <2> QED
    BY <2>1, <2>4, <2>5
<1>9. ASSUME NEW t \in Task, Return(t) PROVE PieceStore!DiskNext
  <2>1. UNCHANGED <<layout, disk>> /\ op' = [op EXCEPT ![t] = Idle]
    BY <1>9, ReturnStep
  <2>2. Durable' = Durable /\ calls' = [calls EXCEPT ![t] = PieceStore!Idle]
    BY <2>1, SameDurable, OnePieceCall, PieceCallKinds
  <2>3. calls[t].kind \in {"written", "returned", "err"}
    <3>1. op[t].kind \in {"written", "returned", "err"}
      BY <1>9 DEF Return
    <3>2. PieceCall(op[t]).kind = op[t].kind
      BY <3>1 DEF PieceCall
    <3> QED
      BY <1>3, <3>1, <3>2
  <2> QED
    BY <2>2, <2>3
       DEF PieceStore!DiskNext, PieceStore!Return, PieceStore!Becomes, PieceCalls
<1>10. CASE Reopen
  <2>1. UNCHANGED <<layout, disk>> /\ op' = [t \in Task |-> Idle]
    BY <1>10, ReopenStep
  <2>2. Durable' = Durable
    BY <2>1, SameDurable
  <2>3. calls' = [t \in Task |-> PieceStore!Idle]
    <3>1. \A d : PieceCall(d)' = PieceCall(d)
      BY <2>1, SamePieceCall
    <3> QED
      BY <2>1, <3>1, PieceCallKinds DEF PieceCalls
  <2> QED
    BY <2>2, <2>3 DEF PieceStore!DiskNext, PieceStore!Restart, PieceCalls
<1>11. CASE UNCHANGED vars
  <2>1. UNCHANGED <<layout, disk>> /\ op' = op
    BY <1>11 DEF vars
  <2>2. Durable' = Durable
    BY <2>1, SameDurable
  <2>3. \A d : PieceCall(d)' = PieceCall(d)
    BY <2>1, SamePieceCall
  <2> QED
    BY <2>1, <2>2, <2>3 DEF PieceStore!diskVars
<1> QED
  BY <1>4, <1>5, <1>6, <1>7, <1>8, <1>9, <1>10, <1>11 DEF Next

\* disk_io.rs keeps the promises of PieceDisk.
THEOREM DiskRefinement == ASSUME SafeLayouts PROVE Spec => ImplementsPieceDisk
<1>1. Init => PieceStore!DiskInit
  BY InitPieceDisk
<1>2. DInv /\ [Next]_vars => [PieceStore!DiskNext]_(PieceStore!diskVars)
  BY NextPieceDisk
<1> QED
  BY <1>1, <1>2, DiskInvariant, PTL DEF Spec, ImplementsPieceDisk, PieceStore!DiskSpec
=============================================================================
