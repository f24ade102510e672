----------------------------- MODULE DataProofs -----------------------------
(***************************************************************************)
(* Proofs about the parts of the program that only compute: a message is   *)
(* received as it was sent, whatever the values of its fields are, and the *)
(* index is the inversion of the files read.                               *)
(***************************************************************************)
EXTENDS MessageCodec, SearchIndex, Induction, SequenceTheorems, FiniteSetTheorems

-----------------------------------------------------------------------------
(* Numbers and their digits.                                               *)

LEMMA Division ==
    ASSUME NEW v \in Nat
    PROVE  /\ v % Base \in Byte /\ v \div Base \in Nat
           /\ v = (v % Base) + Base * (v \div Base)
BY BaseAssumption DEF Byte

LEMMA Quotient ==
    ASSUME NEW v \in Nat, NEW k \in Nat, v < Base * k
    PROVE  v \div Base < k
<1>. DEFINE q == v \div Base
<1>1. q \in Nat /\ Base * q <= v /\ Base \in Nat
  BY Division, BaseAssumption DEF Byte
<1>. HIDE DEF q
<1>2. ASSUME q >= k PROVE FALSE
  <2>1. Base * q >= Base * k
    BY <1>1, <1>2
  <2>. QED  BY <1>1, <2>1
<1>. QED  BY <1>1, <1>2 DEF q

LEMMA Digit ==
    ASSUME NEW v \in Byte
    PROVE  v % Base = v /\ v \div Base = 0
BY BaseAssumption DEF Byte

LEMMA U16 ==
    ASSUME NEW v \in 0 .. Base * Base - 1
    PROVE  /\ HostU16(v) \in Seq(Byte) /\ Len(HostU16(v)) = 2
           /\ ReadU16(HostU16(v)) = v
<1>1. v \in Nat /\ Base * Base \in Nat /\ v < Base * Base /\ Base \in Nat
  BY BaseAssumption
<1>2. v \div Base \in Nat /\ v \div Base < Base
  BY <1>1, Division, Quotient
<1>2a. v \div Base \in Byte
  BY <1>1, <1>2 DEF Byte
<1>3. v % Base \in Byte /\ v = (v % Base) + Base * (v \div Base)
  BY <1>1, Division
<1>4. HostU16(v) = <<v % Base, v \div Base>>
  BY <1>2a, Digit DEF HostU16
<1>. QED  BY <1>2a, <1>3, <1>4 DEF ReadU16

LEMMA FourDigits ==
    ASSUME NEW v \in U32
    PROVE  LET b == HostU32(v)
           IN  /\ b \in Seq(Byte) /\ Len(b) = 4
               /\ \A i \in 1 .. 4 : b[i] \in Byte
               /\ v = ReadU32(b)
<1>. DEFINE p == v \div Base
            q == p \div Base
            r == q \div Base
<1>1. v \in Nat /\ v < Base * (Base * (Base * Base))
  BY BaseAssumption DEF U32
<1>0. Base \in Nat /\ Base * Base \in Nat /\ Base * (Base * Base) \in Nat
  BY BaseAssumption
<1>2. p \in Nat /\ p < Base * (Base * Base) /\ v % Base \in Byte /\ v = (v % Base) + Base * p
  BY <1>0, <1>1, Division, Quotient
<1>. HIDE DEF p
<1>3. q \in Nat /\ q < Base * Base /\ p % Base \in Byte /\ p = (p % Base) + Base * q
  BY <1>0, <1>2, Division, Quotient
<1>. HIDE DEF q
<1>4. r \in Nat /\ r < Base /\ q % Base \in Byte /\ q = (q % Base) + Base * r
  BY <1>0, <1>3, Division, Quotient
<1>. HIDE DEF r
<1>5. r \in Byte /\ r % Base = r
  <2>1. r \in Byte
    BY <1>0, <1>4 DEF Byte
  <2>. QED  BY <2>1, Digit
<1>6. HostU32(v) = <<v % Base, p % Base>> \o <<q % Base, r % Base>>
  BY DEF HostU32, HostU16, p, q, r
<1>7. /\ <<v % Base, p % Base>> \in Seq(Byte) /\ Len(<<v % Base, p % Base>>) = 2
      /\ <<q % Base, r>> \in Seq(Byte) /\ Len(<<q % Base, r>>) = 2
  BY <1>2, <1>3, <1>4, <1>5
<1>8. /\ HostU32(v) \in Seq(Byte) /\ Len(HostU32(v)) = 4
      /\ HostU32(v)[1] = v % Base /\ HostU32(v)[2] = p % Base
      /\ HostU32(v)[3] = q % Base /\ HostU32(v)[4] = r
  BY <1>5, <1>6, <1>7, ConcatProperties
<1>9. v = (v % Base) + Base * ((p % Base) + Base * ((q % Base) + Base * r))
  BY <1>2, <1>3, <1>4
<1>. QED  BY <1>2, <1>3, <1>4, <1>5, <1>8, <1>9 DEF ReadU32

\* Four bytes in either order read as the number they were written for.
LEMMA FourBytes ==
    ASSUME NEW v \in U32
    PROVE  /\ HostU32(v) \in Seq(Byte) /\ Len(HostU32(v)) = 4 /\ ReadU32(HostU32(v)) = v
           /\ NetU32(v) \in Seq(Byte) /\ Len(NetU32(v)) = 4 /\ ReadNtohU32(NetU32(v)) = v
<1>. DEFINE b == HostU32(v)
<1>1. b \in Seq(Byte) /\ Len(b) = 4 /\ (\A i \in 1 .. 4 : b[i] \in Byte) /\ v = ReadU32(b)
  BY FourDigits
<1>2. NetU32(v) = <<b[4], b[3], b[2], b[1]>>
  BY DEF NetU32
<1>. HIDE DEF b
<1>3. NetU32(v) \in Seq(Byte) /\ Len(NetU32(v)) = 4
  BY <1>1, <1>2
<1>4. ReadNtohU32(NetU32(v)) = v
  BY <1>1, <1>2 DEF ReadNtohU32, ReadU32
<1>. QED  BY <1>1, <1>3, <1>4 DEF b

-----------------------------------------------------------------------------
(* Sequences written one behind the other.                                 *)

\* The sequences of ss joined, up to each of them; FlattenSeq is the last of these.
LEMMA Joined ==
    ASSUME NEW S, NEW ss \in Seq(Seq(S)), ss # <<>>
    PROVE  \E f \in [1 .. Len(ss) -> Seq(S)] :
             /\ f[1] = ss[1]
             /\ \A i \in 2 .. Len(ss) : f[i] = f[i-1] \o ss[i]
             /\ FlattenSeq(ss) = f[Len(ss)]
<1>. DEFINE N == Len(ss)
            cat(x, i) == x \o ss[i]
            Joins(n, f) == f[1] = ss[1] /\ \A i \in 2 .. n : f[i] = cat(f[i-1], i)
            Upto == {n \in Nat : \E f \in [1 .. n + 1 -> Seq(S)] : Joins(n + 1, f)}
            body(g) == [i \in 1 .. N |-> IF i = 1 THEN ss[i] ELSE cat(g[i-1], i)]
            flatten == CHOOSE g : g = body(g)
<1>1. N \in Nat /\ N > 0 /\ \A i \in 1 .. N : ss[i] \in Seq(S)
  BY EmptySeq, LenProperties
<1>1a. \A i \in 1 .. N : \A x \in Seq(S) : cat(x, i) \in Seq(S)
  BY <1>1, ConcatProperties
<1>. HIDE DEF cat
<1>2. 0 \in Upto
  <2>. DEFINE f == [i \in 1 .. 1 |-> ss[1]]
  <2>1. f \in [1 .. 0 + 1 -> Seq(S)] /\ Joins(0 + 1, f)
    BY <1>1
  <2>. QED  BY <2>1
<1>3. ASSUME NEW n \in 0 .. N - 1 - 1, n \in Upto PROVE n + 1 \in Upto
  <2>1. PICK f \in [1 .. n + 1 -> Seq(S)] : Joins(n + 1, f)
    BY <1>3
  <2>. DEFINE g == [i \in 1 .. (n + 1) + 1 |-> IF i = n + 2 THEN cat(f[n + 1], n + 2) ELSE f[i]]
  <2>2. g \in [1 .. (n + 1) + 1 -> Seq(S)]
    <3>1. cat(f[n + 1], n + 2) \in Seq(S)
      BY <1>1, <1>1a, <2>1
    <3>. QED  BY <3>1
  <2>3. g[1] = ss[1]
    BY <2>1
  <2>4. ASSUME NEW i \in 2 .. (n + 1) + 1 PROVE g[i] = cat(g[i-1], i)
    <3>1. CASE i = n + 2
      BY <3>1
    <3>2. CASE i # n + 2
      BY <2>1, <3>2
    <3>. QED  BY <3>1, <3>2
  <2>. HIDE DEF g
  <2>5. Joins((n + 1) + 1, g)
    BY <2>3, <2>4
  <2>. HIDE DEF Joins
  <2>. QED  BY <2>2, <2>5
<1>4. N - 1 \in Upto
  <2>. HIDE DEF Upto, N
  <2>1. N - 1 \in Nat /\ N - 1 \in 0 .. N - 1
    BY <1>1
  <2>2. \A i \in 0 .. N - 1 - 1 : i \in Upto => i + 1 \in Upto
    BY <1>3
  <2>. QED  BY <1>2, <2>1, <2>2, UpTo
<1>5. PICK f \in [1 .. N -> Seq(S)] : Joins(N, f)
  <2>1. N - 1 + 1 = N
    BY <1>1
  <2>. QED  BY <1>4, <2>1
<1>6. f = body(f)
  BY <1>1, <1>5
<1>7. flatten = body(flatten)
  BY <1>6
<1>8. FlattenSeq(ss) = flatten[N]
  BY <1>1 DEF FlattenSeq, cat
<1>. HIDE DEF flatten
<1>. DEFINE Same == {i \in Nat : flatten[i + 1] = f[i + 1]}
<1>9. N - 1 \in Same
  <2>1. 0 \in Same
    BY <1>1, <1>5, <1>7
  <2>2. ASSUME NEW i \in 0 .. N - 1 - 1, i \in Same PROVE i + 1 \in Same
    <3>1. i + 2 \in 2 .. N /\ i + 1 \in 1 .. N /\ i + 2 - 1 = i + 1 /\ (i + 1) + 1 = i + 2
      BY <1>1
    <3>2. f[i + 2] = cat(f[i + 1], i + 2) /\ flatten[i + 2] = cat(flatten[i + 1], i + 2)
      BY <1>5, <1>7, <3>1
    <3>. QED  BY <2>2, <3>1, <3>2
  <2>. HIDE DEF Same, N
  <2>3. N - 1 \in Nat /\ N - 1 \in 0 .. N - 1
    BY <1>1
  <2>. QED  BY <2>1, <2>2, <2>3, UpTo
<1>10. flatten[N] = f[N]
  BY <1>1, <1>9
<1>. QED  BY <1>5, <1>8, <1>10 DEF cat

LEMMA Glued ==
    ASSUME NEW S, NEW x \in Seq(S), NEW y \in Seq(S)
    PROVE  /\ x \o y \in Seq(S) /\ Len(x) \in Nat /\ Len(y) \in Nat
           /\ Len(x \o y) = Len(x) + Len(y)
           /\ \A j \in 1 .. Len(x) : (x \o y)[j] = x[j]
           /\ \A j \in 1 .. Len(y) : (x \o y)[Len(x) + j] = y[j]
<1>. DEFINE z == x \o y
            p == Len(x)
            q == Len(y)
<1>1. /\ z \in Seq(S) /\ p \in Nat /\ q \in Nat /\ Len(z) = p + q
      /\ \A j \in 1 .. p + q : z[j] = IF j <= p THEN x[j] ELSE y[j - p]
  BY ConcatProperties, LenProperties
<1>. HIDE DEF z, p, q
<1>2. ASSUME NEW j \in 1 .. p PROVE z[j] = x[j]
  <2>1. j \in 1 .. p + q /\ j <= p
    BY <1>1
  <2>. QED  BY <1>1, <2>1
<1>3. ASSUME NEW j \in 1 .. q PROVE z[p + j] = y[j]
  <2>1. p + j \in 1 .. p + q /\ ~(p + j <= p) /\ (p + j) - p = j
    BY <1>1
  <2>2. z[p + j] = y[(p + j) - p]
    BY <1>1, <2>1
  <2>. QED  BY <2>1, <2>2
<1>. QED  BY <1>1, <1>2, <1>3 DEF z, p, q

\* z consists of x and what follows it, y.
Parts(x, y, z) ==
    /\ Len(x) \in Nat /\ Len(y) \in Nat /\ Len(z) = Len(x) + Len(y)
    /\ \A j \in 1 .. Len(x) : z[j] = x[j]
    /\ \A j \in 1 .. Len(y) : z[Len(x) + j] = y[j]

LEMMA GluedAs ==
    ASSUME NEW S, NEW x \in Seq(S), NEW y \in Seq(S), NEW z, z = x \o y
    PROVE  z \in Seq(S) /\ Parts(x, y, z)
BY Glued DEF Parts

\* Where each sequence of ss ends in FlattenSeq(ss), and that it stands there whole.
LEMMA Laid ==
    ASSUME NEW S, NEW ss \in Seq(Seq(S))
    PROVE  \E end \in [0 .. Len(ss) -> Nat] :
             /\ end[0] = 0 /\ end[Len(ss)] = Len(FlattenSeq(ss))
             /\ \A i \in 1 .. Len(ss) :
                  /\ end[i] = end[i-1] + Len(ss[i])
                  /\ end[i] <= Len(FlattenSeq(ss))
                  /\ \A j \in 1 .. Len(ss[i]) : FlattenSeq(ss)[end[i-1] + j] = ss[i][j]
             /\ FlattenSeq(ss) \in Seq(S)
<1>1. CASE ss = <<>>
  <2>1. FlattenSeq(ss) = <<>>
    BY <1>1 DEF FlattenSeq
  <2>. DEFINE end == [i \in 0 .. 0 |-> 0]
  <2>2. Len(ss) = 0 /\ Len(FlattenSeq(ss)) = 0 /\ FlattenSeq(ss) \in Seq(S)
    BY Zenon, <1>1, <2>1, EmptySeq
  <2>3. end \in [0 .. Len(ss) -> Nat] /\ end[0] = 0
    BY <2>2
  <2>. HIDE DEF end
  <2>. QED  BY <2>2, <2>3
<1>2. CASE ss # <<>>
  <2>. DEFINE N == Len(ss)
  <2>1. N \in Nat /\ N > 0 /\ \A i \in 1 .. N : ss[i] \in Seq(S) /\ Len(ss[i]) \in Nat
    BY <1>2, EmptySeq, LenProperties
  <2>2. PICK f \in [1 .. N -> Seq(S)] :
              /\ f[1] = ss[1]
              /\ \A i \in 2 .. N : f[i] = f[i-1] \o ss[i]
              /\ FlattenSeq(ss) = f[N]
    BY <1>2, Joined
  <2>. DEFINE len(i) == Len(f[i])
              part(i) == Len(ss[i])
              end == [i \in 0 .. N |-> IF i = 0 THEN 0 ELSE len(i)]
  <2>3. \A i \in 1 .. N : f[i] \in Seq(S) /\ len(i) \in Nat /\ part(i) \in Nat
    BY <2>1, <2>2, LenProperties
  <2>4. \A i \in 2 .. N : /\ len(i) = len(i-1) + part(i)
                          /\ \A j \in 1 .. len(i-1) : f[i][j] = f[i-1][j]
                          /\ \A j \in 1 .. part(i) : f[i][len(i-1) + j] = ss[i][j]
    <3>. TAKE i \in 2 .. N
    <3>1. i \in 1 .. N /\ i - 1 \in 1 .. N
      BY <2>1
    <3>. DEFINE x == f[i-1]
                y == ss[i]
    <3>2. x \in Seq(S) /\ y \in Seq(S) /\ f[i] = x \o y
      BY <2>1, <2>2, <2>3, <3>1
    <3>. HIDE DEF x, y
    <3>3. /\ Len(x \o y) = Len(x) + Len(y)
          /\ \A j \in 1 .. Len(x) : (x \o y)[j] = x[j]
          /\ \A j \in 1 .. Len(y) : (x \o y)[Len(x) + j] = y[j]
      BY <3>2, Glued
    <3>. QED  BY Zenon, <3>2, <3>3 DEF x, y
  <2>. HIDE DEF len, part
  <2>5. end \in [0 .. N -> Nat] /\ end[0] = 0 /\ end[N] = len(N)
    BY <2>1, <2>3
  <2>6. ASSUME NEW i \in 1 .. N
        PROVE  /\ end[i] = end[i-1] + part(i) /\ end[i] = len(i)
               /\ \A j \in 1 .. part(i) : f[i][end[i-1] + j] = ss[i][j]
    <3>1. CASE i = 1
      <4>1. end[i] = part(i) /\ end[i-1] = 0 /\ part(i) \in Nat /\ end[i] = len(i)
        BY <2>1, <2>2, <2>3, <3>1 DEF len, part
      <4>. QED  BY <2>2, <3>1, <4>1
    <3>2. CASE i # 1
      <4>1. i \in 2 .. N /\ end[i] = len(i) /\ end[i-1] = len(i-1)
        BY <2>1, <3>2
      <4>. HIDE DEF end
      <4>. QED  BY <2>4, <4>1
    <3>. QED  BY <3>1, <3>2
  <2>7. ASSUME NEW i \in 1 .. N
        PROVE  len(i) <= len(N) /\ \A j \in 1 .. len(i) : f[N][j] = f[i][j]
    <3>. DEFINE Kept == {d \in Nat : i + d <= N =>
                           /\ len(i) <= len(i + d)
                           /\ \A j \in 1 .. len(i) : f[i + d][j] = f[i][j]}
    <3>1. 0 \in Kept
      BY <2>1, <2>3
    <3>2. ASSUME NEW d \in 0 .. N - i - 1, d \in Kept PROVE d + 1 \in Kept
      <4>. DEFINE k == i + d
      <4>1. /\ k \in 1 .. N /\ k + 1 \in 2 .. N /\ k + 1 - 1 = k /\ i + (d + 1) = k + 1
            /\ d + 1 \in Nat
        BY <2>1
      <4>2. len(i) <= len(k) /\ \A j \in 1 .. len(i) : f[k][j] = f[i][j]
        BY <3>2, <4>1
      <4>. HIDE DEF k
      <4>3. /\ len(k + 1) = len(k) + part(k + 1)
            /\ \A j \in 1 .. len(k) : f[k + 1][j] = f[k][j]
        BY <2>4, <4>1
      <4>4. len(i) \in Nat /\ len(k) \in Nat /\ part(k + 1) \in Nat
        BY <2>1, <2>3, <4>1
      <4>5. len(i) <= len(k + 1) /\ \A j \in 1 .. len(i) : f[k + 1][j] = f[i][j]
        BY <4>2, <4>3, <4>4
      <4>. QED  BY <4>1, <4>5
    <3>3. N - i \in Nat /\ i + (N - i) = N
      BY <2>1
    <3>. HIDE DEF N, Kept
    <3>4. N - i \in Kept
      <4>1. N - i \in 0 .. N - i
        BY <3>3
      <4>. QED  BY <3>1, <3>2, <3>3, <4>1, UpTo
    <3>. QED  BY <2>1, <3>3, <3>4 DEF Kept, N
  <2>8. ASSUME NEW i \in 1 .. N
        PROVE  end[i] <= len(N) /\ \A j \in 1 .. part(i) : f[N][end[i-1] + j] = ss[i][j]
    <3>1. end[i] = end[i-1] + part(i) /\ end[i] = len(i)
      BY <2>6
    <3>2. \A j \in 1 .. part(i) : f[i][end[i-1] + j] = ss[i][j]
      BY <2>6
    <3>3. end[i-1] \in Nat /\ len(i) <= len(N) /\ part(i) \in Nat
      BY <2>1, <2>3, <2>5, <2>7
    <3>4. \A j \in 1 .. len(i) : f[N][j] = f[i][j]
      BY <2>7
    <3>. HIDE DEF end
    <3>5. \A j \in 1 .. part(i) : end[i-1] + j \in 1 .. len(i)
      BY <3>1, <3>3
    <3>. QED  BY <3>1, <3>2, <3>3, <3>4, <3>5
  <2>9. FlattenSeq(ss) \in Seq(S) /\ Len(FlattenSeq(ss)) = len(N) /\ FlattenSeq(ss) = f[N]
    BY <2>1, <2>2, <2>3 DEF len
  <2>. HIDE DEF end
  <2>. QED  BY <2>5, <2>6, <2>8, <2>9 DEF part
<1>. QED  BY <1>1, <1>2

-----------------------------------------------------------------------------
(* Fields.                                                                 *)

\* Numbers of any size fill two, or four, bytes.
LEMMA U16Bytes ==
    ASSUME NEW v \in Nat
    PROVE  HostU16(v) \in Seq(Byte) /\ Len(HostU16(v)) = 2
<1>1. v % Base \in Byte /\ (v \div Base) % Base \in Byte
  BY Division
<1>. QED  BY <1>1 DEF HostU16

LEMMA U32Bytes ==
    ASSUME NEW v \in Nat
    PROVE  /\ HostU32(v) \in Seq(Byte) /\ Len(HostU32(v)) = 4
           /\ NetU32(v) \in Seq(Byte) /\ Len(NetU32(v)) = 4
<1>. DEFINE w == (v \div Base) \div Base
            b == HostU32(v)
<1>1. w \in Nat
  BY Division
<1>. HIDE DEF w
<1>2. /\ HostU16(v) \in Seq(Byte) /\ Len(HostU16(v)) = 2
      /\ HostU16(w) \in Seq(Byte) /\ Len(HostU16(w)) = 2
  BY <1>1, U16Bytes
<1>3. b = HostU16(v) \o HostU16(w)
  BY DEF HostU32, w
<1>. HIDE DEF b
<1>4. b \in Seq(Byte) /\ Len(b) = 4
  <2>1. b \in Seq(Byte) /\ Len(b) = Len(HostU16(v)) + Len(HostU16(w))
    BY <1>2, <1>3, Glued
  <2>. QED  BY <1>2, <2>1
<1>5. b[1] \in Byte /\ b[2] \in Byte /\ b[3] \in Byte /\ b[4] \in Byte
  <2>1. \A i \in 1 .. 4 : b[i] \in Byte
    BY <1>4, ElementOfSeq
  <2>. QED  BY <2>1
<1>6. NetU32(v) = <<b[4], b[3], b[2], b[1]>>
  BY DEF NetU32, b
<1>7. NetU32(v) \in Seq(Byte) /\ Len(NetU32(v)) = 4
  BY <1>5, <1>6
<1>. QED  BY <1>4, <1>7 DEF b

LEMMA EntryBytes ==
    ASSUME NEW e \in U32 \X U32 \X U32
    PROVE  /\ EncodeEntry(e) \in Seq(Byte) /\ Len(EncodeEntry(e)) = 12
           /\ \A j \in 1 .. 4 : /\ EncodeEntry(e)[j] = HostU32(e[1])[j]
                                /\ EncodeEntry(e)[4 + j] = HostU32(e[2])[j]
                                /\ EncodeEntry(e)[8 + j] = HostU32(e[3])[j]
<1>. DEFINE x == HostU32(e[1])
            y == HostU32(e[2])
            z == HostU32(e[3])
            xy == x \o y
<1>1. e[1] \in Nat /\ e[2] \in Nat /\ e[3] \in Nat
  BY DEF U32
<1>2. /\ x \in Seq(Byte) /\ y \in Seq(Byte) /\ z \in Seq(Byte)
      /\ Len(x) = 4 /\ Len(y) = 4 /\ Len(z) = 4
  BY <1>1, U32Bytes
<1>. HIDE DEF x, y, z
<1>2a. xy = x \o y
  OBVIOUS
<1>. HIDE DEF xy
<1>3. xy \in Seq(Byte) /\ Parts(x, y, xy)
  BY <1>2, <1>2a, GluedAs
<1>4. EncodeEntry(e) = xy \o z
  BY DEF EncodeEntry, x, y, z, xy
<1>5. EncodeEntry(e) \in Seq(Byte) /\ Parts(xy, z, EncodeEntry(e))
  BY <1>2, <1>3, <1>4, GluedAs
<1>6. Len(xy) = 8 /\ Len(EncodeEntry(e)) = 12
  BY <1>2, <1>3, <1>5 DEF Parts
<1>7. ASSUME NEW j \in 1 .. 4
      PROVE  /\ EncodeEntry(e)[j] = x[j] /\ EncodeEntry(e)[4 + j] = y[j]
             /\ EncodeEntry(e)[8 + j] = z[j]
  <2>1. j \in 1 .. 8 /\ 4 + j \in 1 .. 8
    OBVIOUS
  <2>2. xy[j] = x[j] /\ xy[4 + j] = y[j] /\ EncodeEntry(e)[8 + j] = z[j]
    BY Zenon, <1>2, <1>3, <1>5, <1>6 DEF Parts
  <2>3. EncodeEntry(e)[j] = xy[j] /\ EncodeEntry(e)[4 + j] = xy[4 + j]
    BY Zenon, <1>5, <1>6, <2>1 DEF Parts
  <2>. QED  BY <2>2, <2>3
<1>. QED  BY <1>5, <1>6, <1>7 DEF x, y, z

\* The entries of a table stand behind each other, twelve bytes each.
LEMMA TableBytes ==
    ASSUME NEW v \in Seq(U32 \X U32 \X U32)
    PROVE  LET b == FlattenSeq([i \in DOMAIN v |-> EncodeEntry(v[i])])
           IN  /\ b \in Seq(Byte) /\ Len(b) = 12 * Len(v)
               /\ \A i \in 1 .. Len(v) : \A j \in 1 .. 12 :
                    b[12 * (i - 1) + j] = EncodeEntry(v[i])[j]
<1>. DEFINE ss == [i \in 1 .. Len(v) |-> EncodeEntry(v[i])]
            b == FlattenSeq(ss)
            N == Len(v)
<1>1. N \in Nat /\ DOMAIN v = 1 .. N /\ \A i \in 1 .. N : v[i] \in U32 \X U32 \X U32
  BY LenProperties
<1>. HIDE DEF N
<1>2. \A i \in 1 .. N : EncodeEntry(v[i]) \in Seq(Byte) /\ Len(EncodeEntry(v[i])) = 12
  BY <1>1, EntryBytes
<1>3. /\ ss \in Seq(Seq(Byte)) /\ Len(ss) = N
      /\ \A i \in 1 .. N : ss[i] = EncodeEntry(v[i]) /\ Len(ss[i]) = 12
  BY <1>1, <1>2 DEF N
<1>. HIDE DEF ss
<1>4. PICK end \in [0 .. N -> Nat] :
             /\ end[0] = 0 /\ end[N] = Len(b)
             /\ \A i \in 1 .. N :
                  /\ end[i] = end[i-1] + Len(ss[i])
                  /\ end[i] <= Len(b)
                  /\ \A j \in 1 .. Len(ss[i]) : b[end[i-1] + j] = ss[i][j]
             /\ b \in Seq(Byte)
  <2>1. \E end \in [0 .. Len(ss) -> Nat] :
             /\ end[0] = 0 /\ end[Len(ss)] = Len(b)
             /\ \A i \in 1 .. Len(ss) :
                  /\ end[i] = end[i-1] + Len(ss[i])
                  /\ end[i] <= Len(b)
                  /\ \A j \in 1 .. Len(ss[i]) : b[end[i-1] + j] = ss[i][j]
             /\ b \in Seq(Byte)
    BY Zenon, <1>3, Laid
  <2>. QED  BY Zenon, <1>3, <2>1
<1>. HIDE DEF b
<1>4a. \A i \in 1 .. N : end[i] = end[i-1] + 12
  BY <1>3, <1>4
<1>5. ASSUME NEW n \in 0 .. N PROVE end[n] = 12 * n
  <2>. DEFINE S == {i \in Nat : end[i] = 12 * i}
  <2>1. 0 \in S
    BY <1>4
  <2>2. ASSUME NEW i \in 0 .. N - 1, i \in S PROVE i + 1 \in S
    <3>1. i + 1 \in 1 .. N /\ i + 1 - 1 = i
      BY <1>1
    <3>2. end[i + 1] = end[i] + 12 /\ end[i] = 12 * i
      BY <1>4a, <2>2, <3>1
    <3>. QED  BY <3>2
  <2>. HIDE DEF S
  <2>3. n \in S
    BY <1>1, <2>1, <2>2, UpTo
  <2>. QED  BY <2>3 DEF S
<1>6. ASSUME NEW i \in 1 .. N, NEW j \in 1 .. 12
      PROVE  b[12 * (i - 1) + j] = EncodeEntry(v[i])[j]
  <2>1. i - 1 \in 0 .. N
    BY <1>1
  <2>. QED  BY <1>3, <1>4, <1>5, <2>1
<1>7. Len(b) = 12 * N
  BY <1>1, <1>4, <1>5
<1>. QED  BY <1>1, <1>4, <1>6, <1>7 DEF ss, N, b

FieldKind == {"u8", "net32", "host32", "str", "table"}
Entries(v) == FlattenSeq([i \in DOMAIN v |-> EncodeEntry(v[i])])

\* A field takes as many bytes as its size says.
LEMMA Encoded ==
    ASSUME NEW kind \in FieldKind, NEW v \in Values(kind)
    PROVE  /\ Encode(kind, v) \in Seq(Byte)
           /\ Size(kind, v) \in Nat /\ Len(Encode(kind, v)) = Size(kind, v)
<1>. DEFINE e == Encode(kind, v)
<1>1. CASE kind = "u8"
  <2>1. v \in Byte /\ e = <<v>> /\ Size(kind, v) = 1
    BY <1>1 DEF Values, Encode, Size
  <2>. QED  BY <2>1
<1>2. CASE kind \in {"net32", "host32"}
  <2>1. v \in Nat /\ e \in {NetU32(v), HostU32(v)} /\ Size(kind, v) = 4
    BY <1>2 DEF Values, Encode, Size, U32
  <2>. QED  BY <2>1, U32Bytes
<1>3. CASE kind = "str"
  <2>. DEFINE x == HostU16(Len(v))
  <2>1. v \in Seq(Byte) /\ e = x \o v /\ Size(kind, v) = 2 + Len(v)
    BY <1>3 DEF Values, Encode, Size
  <2>2. x \in Seq(Byte) /\ Len(x) = 2 /\ Len(v) \in Nat
    BY <2>1, U16Bytes, LenProperties
  <2>. HIDE DEF e, x
  <2>3. e \in Seq(Byte) /\ Parts(x, v, e)
    BY Zenon, <2>1, <2>2, GluedAs
  <2>4. Len(e) = Size(kind, v) /\ Size(kind, v) \in Nat
    BY <2>1, <2>2, <2>3 DEF Parts
  <2>. QED  BY <2>3, <2>4 DEF e
<1>4. CASE kind = "table"
  <2>. DEFINE x == NetU32(Len(v))
              y == Entries(v)
  <2>1. v \in Seq(U32 \X U32 \X U32) /\ e = x \o y /\ Size(kind, v) = 4 + 12 * Len(v)
    BY <1>4 DEF Values, Encode, Size, Entries
  <2>2. x \in Seq(Byte) /\ Len(x) = 4 /\ Len(v) \in Nat
    BY <2>1, U32Bytes, LenProperties
  <2>3. y \in Seq(Byte) /\ Len(y) = 12 * Len(v)
    BY <2>1, TableBytes DEF Entries
  <2>. HIDE DEF e, x, y
  <2>4. e \in Seq(Byte) /\ Parts(x, y, e)
    BY Zenon, <2>1, <2>2, <2>3, GluedAs
  <2>5. Len(e) = Size(kind, v) /\ Size(kind, v) \in Nat
    BY <2>1, <2>2, <2>3, <2>4 DEF Parts
  <2>. QED  BY <2>4, <2>5 DEF e
<1>. QED  BY <1>1, <1>2, <1>3, <1>4 DEF FieldKind

\* The bytes x are those of b from position p.
Stands(b, p, x) ==
    /\ p \in Nat \ {0} /\ p + Len(x) - 1 <= Len(b)
    /\ \A j \in 1 .. Len(x) : b[p + j - 1] = x[j]

LEMMA BytesThere ==
    ASSUME NEW b \in Seq(Byte), NEW p, NEW x \in Seq(Byte), Stands(b, p, x)
    PROVE  Bytes(b, p, Len(x)) = x
<1>. DEFINE n == Len(x)
<1>1. n \in Nat /\ Len(b) \in Nat /\ DOMAIN b = 1 .. Len(b) /\ x = [i \in 1 .. n |-> x[i]]
  BY LenProperties
<1>2. p \in Nat \ {0} /\ p + n - 1 <= Len(b) /\ \A j \in 1 .. n : b[p + j - 1] = x[j]
  BY DEF Stands
<1>. HIDE DEF n
<1>3. ASSUME NEW i \in 1 .. n PROVE p + i - 1 \in DOMAIN b /\ b[p + i - 1] = x[i]
  BY <1>1, <1>2
<1>4. Bytes(b, p, n) = [i \in 1 .. n |-> x[i]]
  BY <1>3 DEF Bytes
<1>. QED  BY <1>1, <1>4 DEF n

LEMMA PartsStand ==
    ASSUME NEW b \in Seq(Byte), NEW p, NEW x, NEW y, NEW z, Parts(x, y, z), Stands(b, p, z)
    PROVE  Stands(b, p, x) /\ Stands(b, p + Len(x), y)
<1>. DEFINE m == Len(x)
            n == Len(y)
            l == Len(z)
            k == Len(b)
<1>1. /\ m \in Nat /\ n \in Nat /\ l = m + n /\ k \in Nat /\ p \in Nat \ {0} /\ p + l - 1 <= k
      /\ \A j \in 1 .. m : z[j] = x[j]
      /\ \A j \in 1 .. n : z[m + j] = y[j]
      /\ \A j \in 1 .. l : b[p + j - 1] = z[j]
  BY LenProperties DEF Parts, Stands
<1>. HIDE DEF m, n, l, k
<1>2. p + m - 1 <= k /\ (p + m) + n - 1 <= k /\ p + m \in Nat \ {0}
  BY <1>1
<1>3. ASSUME NEW j \in 1 .. m PROVE b[p + j - 1] = x[j]
  BY <1>1
<1>4. ASSUME NEW j \in 1 .. n PROVE b[(p + m) + j - 1] = y[j]
  <2>1. m + j \in 1 .. l /\ (p + m) + j - 1 = p + (m + j) - 1
    BY <1>1
  <2>. QED  BY <1>1, <2>1
<1>. QED  BY <1>1, <1>2, <1>3, <1>4 DEF Stands, m, n, l, k

\* A field that stands at p is read from there as it was written, if the length of a
\* text fits into its two bytes and that of a table into its four.
LEMMA Decoded ==
    ASSUME NEW kind \in FieldKind, NEW v \in Values(kind), NEW b \in Seq(Byte), NEW p,
           Stands(b, p, Encode(kind, v)),
           kind = "str" => Len(v) < Base * Base,
           kind = "table" => Len(v) \in U32
    PROVE  Decode(kind, b, p) = [value |-> v, next |-> p + Size(kind, v)]
<1>. DEFINE e == Encode(kind, v)
<1>0. p \in Nat \ {0}
  BY DEF Stands
<1>1. CASE kind = "u8"
  <2>1. v \in Byte /\ e = <<v>> /\ Size(kind, v) = 1
    BY <1>1 DEF Values, Encode, Size
  <2>2. e \in Seq(Byte) /\ Len(e) = 1 /\ e[1] = v
    BY <2>1
  <2>3. Bytes(b, p, 1) = e
    BY <2>2, BytesThere
  <2>. QED  BY <1>1, <2>1, <2>2, <2>3 DEF Decode
<1>2. CASE kind = "net32"
  <2>1. v \in U32 /\ e = NetU32(v) /\ Size(kind, v) = 4
    BY <1>2 DEF Values, Encode, Size
  <2>2. e \in Seq(Byte) /\ Len(e) = 4 /\ ReadNtohU32(e) = v
    BY <2>1, FourBytes
  <2>3. Bytes(b, p, 4) = e
    BY <2>2, BytesThere
  <2>. QED  BY <1>2, <2>1, <2>2, <2>3 DEF Decode
<1>3. CASE kind = "host32"
  <2>1. v \in U32 /\ e = HostU32(v) /\ Size(kind, v) = 4
    BY <1>3 DEF Values, Encode, Size
  <2>2. e \in Seq(Byte) /\ Len(e) = 4 /\ ReadU32(e) = v
    BY <2>1, FourBytes
  <2>3. Bytes(b, p, 4) = e
    BY <2>2, BytesThere
  <2>. QED  BY <1>3, <2>1, <2>2, <2>3 DEF Decode
<1>4. CASE kind = "str"
  <2>. DEFINE x == HostU16(Len(v))
  <2>1. v \in Seq(Byte) /\ e = x \o v /\ Size(kind, v) = 2 + Len(v) /\ Len(v) \in Nat
    BY <1>4, LenProperties DEF Values, Encode, Size
  <2>2. Len(v) \in 0 .. Base * Base - 1
    BY <1>4, <2>1, BaseAssumption
  <2>3. x \in Seq(Byte) /\ Len(x) = 2 /\ ReadU16(x) = Len(v)
    BY <2>2, U16
  <2>. HIDE DEF e, x
  <2>4. Parts(x, v, e)
    BY Zenon, <2>1, <2>3, GluedAs
  <2>5. Stands(b, p, x) /\ Stands(b, p + 2, v)
    BY <2>3, <2>4, PartsStand DEF e
  <2>6. Bytes(b, p, 2) = x /\ Bytes(b, p + 2, Len(v)) = v
    BY <2>1, <2>3, <2>5, BytesThere
  <2>7. p + 2 + Len(v) = p + Size(kind, v)
    BY <1>0, <2>1
  <2>. QED  BY <1>4, <2>3, <2>6, <2>7 DEF Decode
<1>5. CASE kind = "table"
  <2>. DEFINE x == NetU32(Len(v))
              y == Entries(v)
              N == Len(v)
  <2>1. v \in Seq(U32 \X U32 \X U32) /\ e = x \o y /\ Size(kind, v) = 4 + 12 * N
    BY <1>5 DEF Values, Encode, Size, Entries
  <2>1a. /\ N \in Nat /\ N \in U32 /\ v = [i \in 1 .. N |-> v[i]]
         /\ \A i \in 1 .. N : v[i] \in U32 \X U32 \X U32
    BY <1>5, <2>1, LenProperties
  <2>2. x \in Seq(Byte) /\ Len(x) = 4 /\ ReadNtohU32(x) = N
    BY <2>1a, FourBytes
  <2>3. y \in Seq(Byte) /\ Len(y) = 12 * N
    BY <2>1, TableBytes DEF Entries
  <2>3a. \A i \in 1 .. N : \A j \in 1 .. 12 : y[12 * (i - 1) + j] = EncodeEntry(v[i])[j]
    BY <2>1, TableBytes DEF Entries
  <2>. HIDE DEF e, x, y, N
  <2>4. Parts(x, y, e)
    BY Zenon, <2>1, <2>2, <2>3, GluedAs
  <2>5. Stands(b, p, x) /\ Stands(b, p + 4, y)
    BY <2>2, <2>4, PartsStand DEF e
  <2>6. Bytes(b, p, 4) = x
    BY <2>2, <2>5, BytesThere
  <2>7. ASSUME NEW i \in 1 .. N PROVE DecodeEntry(b, p + 4 + 12 * (i - 1)) = v[i]
    <3>. DEFINE q == p + 4 + 12 * (i - 1)
                w == EncodeEntry(v[i])
    <3>1. /\ v[i] \in U32 \X U32 \X U32 /\ Len(w) = 12
          /\ \A j \in 1 .. 4 : /\ w[j] = HostU32(v[i][1])[j]
                               /\ w[4 + j] = HostU32(v[i][2])[j]
                               /\ w[8 + j] = HostU32(v[i][3])[j]
      BY <2>1a, EntryBytes
    <3>2. \A c \in 1 .. 3 : /\ v[i][c] \in U32 /\ HostU32(v[i][c]) \in Seq(Byte)
                            /\ Len(HostU32(v[i][c])) = 4 /\ ReadU32(HostU32(v[i][c])) = v[i][c]
      BY <3>1, FourBytes
    <3>3. /\ q \in Nat \ {0} /\ q + 4 \in Nat \ {0} /\ q + 8 \in Nat \ {0}
          /\ q + 12 - 1 <= Len(b) /\ Len(b) \in Nat
      <4>. DEFINE k == 12 * (i - 1)
                  l == Len(b)
      <4>1. k \in Nat /\ k + 12 <= 12 * N
        BY <2>1a
      <4>2. p \in Nat \ {0} /\ (p + 4) + 12 * N - 1 <= l /\ l \in Nat /\ 12 * N \in Nat
        BY <1>0, <2>1a, <2>3, <2>5, LenProperties DEF Stands
      <4>. HIDE DEF k, l
      <4>3. /\ p + 4 + k \in Nat \ {0} /\ p + 4 + k + 4 \in Nat \ {0} /\ p + 4 + k + 8 \in Nat \ {0}
            /\ p + 4 + k + 12 - 1 <= l
        BY <4>1, <4>2
      <4>. QED  BY <4>2, <4>3 DEF k, l
    <3>. HIDE DEF w
    <3>4. ASSUME NEW j \in 1 .. 12 PROVE b[q + j - 1] = w[j]
      <4>1. 12 * (i - 1) + j \in 1 .. 12 * N
        BY <2>1a
      <4>2. (p + 4) + (12 * (i - 1) + j) - 1 = q + j - 1
        <5>1. 12 * (i - 1) \in Int
          BY <2>1a
        <5>2. \A k \in Int : (p + 4) + (k + j) - 1 = (p + 4 + k) + j - 1
          BY <1>0
        <5>. QED  BY <5>1, <5>2
      <4>3. b[(p + 4) + (12 * (i - 1) + j) - 1] = y[12 * (i - 1) + j]
        BY <2>3, <2>5, <4>1 DEF Stands
      <4>4. y[12 * (i - 1) + j] = w[j]
        BY <2>3a DEF w
      <4>. QED  BY <4>2, <4>3, <4>4
    <3>. HIDE DEF q
    <3>5. ASSUME NEW j \in 1 .. 4
          PROVE  /\ b[q + j - 1] = HostU32(v[i][1])[j]
                 /\ b[(q + 4) + j - 1] = HostU32(v[i][2])[j]
                 /\ b[(q + 8) + j - 1] = HostU32(v[i][3])[j]
      <4>1. /\ j \in 1 .. 12 /\ 4 + j \in 1 .. 12 /\ 8 + j \in 1 .. 12
            /\ (q + 4) + j - 1 = q + (4 + j) - 1 /\ (q + 8) + j - 1 = q + (8 + j) - 1
        BY <3>3
      <4>2. b[q + j - 1] = w[j] /\ b[q + (4 + j) - 1] = w[4 + j] /\ b[q + (8 + j) - 1] = w[8 + j]
        BY <3>4, <4>1
      <4>. QED  BY <3>1, <4>1, <4>2 DEF w
    <3>6. /\ Stands(b, q, HostU32(v[i][1])) /\ Stands(b, q + 4, HostU32(v[i][2]))
          /\ Stands(b, q + 8, HostU32(v[i][3]))
      <4>1. q + 4 - 1 <= Len(b) /\ (q + 4) + 4 - 1 <= Len(b) /\ (q + 8) + 4 - 1 <= Len(b)
        BY <3>3
      <4>2. \A c \in {1, 2, 3} : Len(HostU32(v[i][c])) = 4
        BY <3>2
      <4>. QED  BY <3>3, <3>5, <4>1, <4>2 DEF Stands
    <3>7. /\ Bytes(b, q, 4) = HostU32(v[i][1]) /\ Bytes(b, q + 4, 4) = HostU32(v[i][2])
          /\ Bytes(b, q + 8, 4) = HostU32(v[i][3])
      <4>1. \A c \in {1, 2, 3} : HostU32(v[i][c]) \in Seq(Byte) /\ Len(HostU32(v[i][c])) = 4
        BY <3>2
      <4>2. \A c \in {1, 2, 3} : \A k :
              Stands(b, k, HostU32(v[i][c])) => Bytes(b, k, Len(HostU32(v[i][c]))) = HostU32(v[i][c])
        BY Zenon, <4>1, BytesThere
      <4>. QED  BY <3>6, <4>1, <4>2
    <3>8. DecodeEntry(b, q) = <<v[i][1], v[i][2], v[i][3]>>
      BY <3>2, <3>7 DEF DecodeEntry
    <3>9. v[i] = <<v[i][1], v[i][2], v[i][3]>>
      BY <3>1
    <3>. QED  BY <3>8, <3>9 DEF q
  <2>8. [i \in 1 .. N |-> DecodeEntry(b, p + 4 + 12 * (i - 1))] = v
    BY <2>1a, <2>7
  <2>9. p + 4 + 12 * N = p + Size(kind, v)
    BY <1>0, <2>1, <2>1a
  <2>. QED  BY <1>5, <2>2, <2>6, <2>8, <2>9 DEF Decode
<1>. QED  BY <1>1, <1>2, <1>3, <1>4, <1>5 DEF FieldKind

-----------------------------------------------------------------------------
(* Messages.                                                               *)

\* The sizes of the fields add up to where the last of them ends.
LEMMA Summed ==
    ASSUME NEW kinds \in Seq(FieldKind), NEW fields, NEW end \in [0 .. Len(kinds) -> Nat],
           end[0] = 0,
           \A i \in 1 .. Len(kinds) : end[i] = end[i-1] + Size(kinds[i], fields[i])
    PROVE  SizeOf(kinds, fields) = end[Len(kinds)]
<1>. DEFINE N == Len(kinds)
            body(g) == [i \in 0 .. N |-> IF i = 0 THEN 0 ELSE g[i-1] + Size(kinds[i], fields[i])]
            sum == CHOOSE g : g = body(g)
<1>1. N \in Nat
  BY LenProperties
<1>2. end = body(end)
  OBVIOUS
<1>3. sum = body(sum)
  BY <1>2
<1>4. SizeOf(kinds, fields) = sum[N]
  BY DEF SizeOf
<1>. HIDE DEF sum
<1>. DEFINE Same == {i \in Nat : sum[i] = end[i]}
<1>5. 0 \in Same
  BY <1>1, <1>3
<1>6. ASSUME NEW i \in 0 .. N - 1, i \in Same PROVE i + 1 \in Same
  <2>1. i + 1 \in 1 .. N /\ i + 1 - 1 = i /\ i + 1 # 0
    BY <1>1
  <2>2. sum[i + 1] = sum[i] + Size(kinds[i + 1], fields[i + 1])
    BY <1>3, <2>1
  <2>. QED  BY <1>6, <2>1, <2>2
<1>. HIDE DEF Same, N
<1>7. N \in Same
  <2>1. N \in 0 .. N
    BY <1>1
  <2>. QED  BY <1>1, <1>5, <1>6, <2>1, UpTo
<1>. QED  BY <1>4, <1>7 DEF Same, N

\* Fields that are read correctly one by one are read correctly altogether.
LEMMA Gathered ==
    ASSUME NEW kinds \in Seq(FieldKind), NEW fields, NEW b, NEW end \in [0 .. Len(kinds) -> Nat],
           end[0] = 0,
           \A i \in 1 .. Len(kinds) :
             Decode(kinds[i], b, end[i-1] + 1) = [value |-> fields[i], next |-> end[i] + 1]
    PROVE  ReadFields(kinds, b) =
             [fields |-> [i \in 1 .. Len(kinds) |-> fields[i]], next |-> end[Len(kinds)] + 1]
<1>. DEFINE N == Len(kinds)
            first(n) == [i \in 1 .. n |-> fields[i]]
            step(s, i) == LET d == Decode(kinds[i], b, s.next)
                          IN  [fields |-> Append(s.fields, d.value), next |-> d.next]
            start == [fields |-> <<>>, next |-> 1]
            body(g) == [i \in 0 .. N |-> IF i = 0 THEN start ELSE step(g[i-1], i)]
            read == CHOOSE g : g = body(g)
            goal(i) == [fields |-> first(i), next |-> end[i] + 1]
            all == [i \in 0 .. N |-> goal(i)]
<1>1. N \in Nat
  BY LenProperties
<1>2. goal(0) = start
  OBVIOUS
<1>3. ASSUME NEW i \in 1 .. N PROVE step(goal(i-1), i) = goal(i)
  <2>1. Append(first(i-1), fields[i]) = first(i)
    <3>. DEFINE S == {fields[j] : j \in 1 .. N}
    <3>1. first(i-1) \in Seq(S) /\ fields[i] \in S /\ Len(first(i-1)) = i - 1 /\ first(i) \in Seq(S)
          /\ Len(first(i)) = i
      <4>1. fields[i] \in S /\ \A n \in 0 .. N : first(n) \in [1 .. n -> S]
        BY <1>1
      <4>. HIDE DEF S, first
      <4>2. ASSUME NEW n \in Nat, NEW f \in [1 .. n -> S] PROVE f \in Seq(S) /\ Len(f) = n
        OBVIOUS
      <4>3. i \in 0 .. N /\ i - 1 \in 0 .. N
        BY <1>1
      <4>4. /\ first(i) \in [1 .. i -> S] /\ first(i-1) \in [1 .. i - 1 -> S]
            /\ i \in Nat /\ i - 1 \in Nat
        BY <1>1, <4>1, <4>3
      <4>. QED  BY <4>1, <4>2, <4>4
    <3>. HIDE DEF S
    <3>2. /\ Append(first(i-1), fields[i]) \in Seq(S) /\ Len(Append(first(i-1), fields[i])) = i
          /\ \A j \in 1 .. i - 1 : Append(first(i-1), fields[i])[j] = fields[j]
          /\ Append(first(i-1), fields[i])[i] = fields[i]
      BY <3>1, AppendProperties
    <3>3. \A j \in 1 .. i : Append(first(i-1), fields[i])[j] = first(i)[j]
      BY <3>2
    <3>. QED  BY <3>1, <3>2, <3>3, SeqEqual
  <2>. HIDE DEF first
  <2>2. Decode(kinds[i], b, goal(i-1).next) = [value |-> fields[i], next |-> end[i] + 1]
    OBVIOUS
  <2>3. goal(i-1).fields = first(i-1)
    OBVIOUS
  <2>. HIDE DEF goal
  <2>4. step(goal(i-1), i) = [fields |-> first(i), next |-> end[i] + 1]
    <3>. DEFINE d == Decode(kinds[i], b, goal(i-1).next)
    <3>1. d.value = fields[i] /\ d.next = end[i] + 1
      BY <2>2
    <3>. QED  BY Zenon, <2>1, <2>3, <3>1
  <2>. QED  BY <2>4 DEF goal
<1>4. ReadFields(kinds, b) = read[N]
  BY DEF ReadFields
<1>. HIDE DEF step, goal, start
<1>5. all = body(all)
  BY <1>1, <1>2, <1>3
<1>6. read = body(read)
  BY <1>5
<1>. HIDE DEF read, all
<1>. DEFINE Same == {i \in Nat : read[i] = goal(i)}
<1>7. 0 \in Same
  BY <1>1, <1>2, <1>6
<1>8. ASSUME NEW i \in 0 .. N - 1, i \in Same PROVE i + 1 \in Same
  <2>1. i + 1 \in 1 .. N /\ i + 1 - 1 = i /\ i + 1 # 0
    BY <1>1
  <2>2. read[i + 1] = step(read[i], i + 1)
    BY <1>6, <2>1
  <2>3. step(goal(i), i + 1) = goal(i + 1)
    BY <1>3, <2>1
  <2>. QED  BY <1>8, <2>1, <2>2, <2>3
<1>. HIDE DEF Same, N
<1>9. N \in Same
  <2>1. N \in 0 .. N
    BY <1>1
  <2>. QED  BY <1>1, <1>7, <1>8, <2>1, UpTo
<1>. QED  BY <1>4, <1>9 DEF Same, N, goal, first

IsPayload(p) == p.write \in Seq(FieldKind) /\ p.size = p.write /\ p.read = p.write

\* Serialize and Deserialize go through the same fields, and GetSerializedSize counts them.
LEMMA PayloadsAgree ==
    ASSUME NEW m \in Message
    PROVE  IsPayload(PayloadOf(m.class, TypeOf(m)))
<1>1. \A n \in 0 .. 3 : IsPayload(Strings(n))
  <2>. TAKE n \in 0 .. 3
  <2>. DEFINE f == [i \in 1 .. n |-> "str"]
  <2>1. f \in [1 .. n -> FieldKind]
    BY DEF FieldKind
  <2>2. f \in Seq(FieldKind)
    BY <2>1
  <2>. QED  BY <2>2 DEF IsPayload, Strings, Payload
<1>2. IsPayload(AddressAndText) /\ IsPayload(NdRsp) /\ IsPayload(Lsp)
  BY DEF IsPayload, AddressAndText, NdRsp, Lsp, Payload, FieldKind
<1>. DEFINE c == m.class
            t == TypeOf(m)
<1>3. \/ c = "CHORD" /\ t \in 1 .. 12 \ {10}
      \/ c = "SEARCH" /\ t \in 1 .. 2
      \/ c = "LS" /\ t \in 1 .. 5
  BY MessageAssumption
<1>. HIDE DEF c, t
<1>4. CASE c = "CHORD" /\ t \in 1 .. 12 \ {10}
  <2>1. PayloadOf(c, t) \in {Strings(1), Strings(2), Strings(3)}
    BY <1>4 DEF PayloadOf, ChordPayload, ChordPingReq, ChordPingRsp, FindSucReq, FindSucRsp,
                GetPredSucReq, GetPredSucRsp, Ringstate, NotifySuc, NotifyPred, JoinReq, JoinRsp
  <2>. QED  BY <1>1, <2>1 DEF c, t
<1>5. CASE c = "SEARCH" /\ t \in 1 .. 2
  <2>1. PayloadOf(c, t) = Strings(1)
    BY <1>5 DEF PayloadOf, SearchPayload, SearchPingReq, SearchPingRsp
  <2>. QED  BY <1>1, <2>1 DEF c, t
<1>6. CASE c = "LS" /\ t \in 1 .. 5
  <2>1. PayloadOf(c, t) \in {AddressAndText, Strings(1), NdRsp, Lsp}
    BY <1>6 DEF PayloadOf, LSPayload, LSPingReq, LSPingRsp, NdReq
  <2>. QED  BY <1>1, <1>2, <2>1 DEF c, t
<1>. QED  BY <1>3, <1>4, <1>5, <1>6

LEMMA HeaderTyped ==
    ASSUME NEW class
    PROVE  /\ HeaderOf(class) \in Seq(FieldKind) /\ Len(HeaderOf(class)) \in 2 .. 4
           /\ HeaderOf(class)[1] = "u8"
<1>1. CASE class = "LS"
  <2>1. HeaderOf(class) = <<"u8", "net32", "u8", "net32">>
    BY <1>1 DEF HeaderOf
  <2>. QED  BY <2>1 DEF FieldKind
<1>2. CASE class # "LS"
  <2>1. HeaderOf(class) = <<"u8", "net32">>
    BY <1>2 DEF HeaderOf
  <2>. QED  BY <2>1 DEF FieldKind
<1>. QED  BY <1>1, <1>2

\* The kinds of the fields of a message: the header's, then the payload's.
LEMMA KindsOfMessage ==
    ASSUME NEW m \in Message
    PROVE  /\ Kinds(m) \in Seq(FieldKind) /\ Len(Kinds(m)) \in Nat \ {0}
           /\ Len(HeaderOf(m.class)) \in 1 .. Len(Kinds(m))
           /\ \A i \in 1 .. Len(HeaderOf(m.class)) : Kinds(m)[i] = HeaderOf(m.class)[i]
           /\ Kinds(m)[1] = "u8"
<1>. DEFINE h == HeaderOf(m.class)
            w == PayloadOf(m.class, TypeOf(m)).write
            k == Kinds(m)
<1>1. h \in Seq(FieldKind) /\ w \in Seq(FieldKind) /\ Len(h) \in 2 .. 4 /\ h[1] = "u8"
  BY HeaderTyped, PayloadsAgree DEF IsPayload
<1>2. k = h \o w
  BY DEF Kinds
<1>. HIDE DEF h, w, k
<1>3. k \in Seq(FieldKind) /\ Parts(h, w, k)
  BY <1>1, <1>2, GluedAs
<1>. QED  BY <1>1, <1>3 DEF Parts, h, k

LEMMA FieldsOfMessage ==
    ASSUME NEW m \in Message
    PROVE  /\ m.fields = [i \in 1 .. Len(Kinds(m)) |-> m.fields[i]]
           /\ \A i \in 1 .. Len(Kinds(m)) : Kinds(m)[i] \in FieldKind /\ m.fields[i] \in Values(Kinds(m)[i])
<1>1. DOMAIN Kinds(m) = 1 .. Len(Kinds(m)) /\ \A i \in 1 .. Len(Kinds(m)) : Kinds(m)[i] \in FieldKind
  BY KindsOfMessage, LenProperties
<1>. QED  BY <1>1, MessageAssumption

\* Where each field ends in the packet.
LEMMA Written ==
    ASSUME NEW m \in Message
    PROVE  \E end \in [0 .. Len(Kinds(m)) -> Nat] :
             /\ Serialize(m) \in Seq(Byte)
             /\ end[0] = 0 /\ end[Len(Kinds(m))] = Len(Serialize(m))
             /\ \A i \in 1 .. Len(Kinds(m)) :
                  /\ end[i] = end[i-1] + Size(Kinds(m)[i], m.fields[i])
                  /\ end[i] <= Len(Serialize(m))
                  /\ Stands(Serialize(m), end[i-1] + 1, Encode(Kinds(m)[i], m.fields[i]))
<1>. DEFINE k == Kinds(m)
            N == Len(k)
            f == m.fields
            e(i) == Encode(k[i], f[i])
            ss == [i \in 1 .. N |-> e(i)]
            b == Serialize(m)
<1>1. N \in Nat /\ DOMAIN k = 1 .. N
  BY KindsOfMessage, LenProperties
<1>2. \A i \in 1 .. N : /\ e(i) \in Seq(Byte) /\ Size(k[i], f[i]) \in Nat
                        /\ Len(e(i)) = Size(k[i], f[i])
  BY FieldsOfMessage, Encoded
<1>3. b = FlattenSeq(ss)
  BY <1>1 DEF Serialize
<1>. HIDE DEF N, e, k, f, b
<1>4. ss \in [1 .. N -> Seq(Byte)]
  BY <1>2
<1>5. ss \in Seq(Seq(Byte)) /\ Len(ss) = N
  BY <1>1, <1>4
<1>6. \A i \in 1 .. N : ss[i] = e(i)
  OBVIOUS
<1>. HIDE DEF ss
<1>7. \E end \in [0 .. Len(ss) -> Nat] :
         /\ end[0] = 0 /\ end[Len(ss)] = Len(b)
         /\ \A i \in 1 .. Len(ss) :
              /\ end[i] = end[i-1] + Len(ss[i])
              /\ end[i] <= Len(b)
              /\ \A j \in 1 .. Len(ss[i]) : b[end[i-1] + j] = ss[i][j]
         /\ b \in Seq(Byte)
  <2>. DEFINE c == FlattenSeq(ss)
  <2>1. \E end \in [0 .. Len(ss) -> Nat] :
         /\ end[0] = 0 /\ end[Len(ss)] = Len(c)
         /\ \A i \in 1 .. Len(ss) :
              /\ end[i] = end[i-1] + Len(ss[i])
              /\ end[i] <= Len(c)
              /\ \A j \in 1 .. Len(ss[i]) : c[end[i-1] + j] = ss[i][j]
         /\ c \in Seq(Byte)
    BY Zenon, <1>5, Laid
  <2>2. b = c
    BY <1>3
  <2>. HIDE DEF c
  <2>. QED  BY <2>1, <2>2
<1>8. PICK end \in [0 .. N -> Nat] :
         /\ end[0] = 0 /\ end[N] = Len(b)
         /\ \A i \in 1 .. N :
              /\ end[i] = end[i-1] + Len(ss[i])
              /\ end[i] <= Len(b)
              /\ \A j \in 1 .. Len(ss[i]) : b[end[i-1] + j] = ss[i][j]
         /\ b \in Seq(Byte)
  <2>1. Len(ss) = N
    BY <1>5
  <2>. HIDE DEF b
  <2>. QED  BY <1>7, <2>1
<1>9. ASSUME NEW i \in 1 .. N
      PROVE  /\ end[i] = end[i-1] + Size(k[i], f[i])
             /\ end[i] <= Len(b)
             /\ Stands(b, end[i-1] + 1, e(i))
  <2>. DEFINE l == Len(e(i))
              p == end[i-1]
              q == end[i]
              n == Len(b)
  <2>1. p \in Nat /\ l \in Nat /\ q = p + l /\ q <= n /\ l = Size(k[i], f[i]) /\ n \in Nat
    <3>1. l \in Nat /\ l = Size(k[i], f[i]) /\ Len(ss[i]) = l
      BY <1>2, <1>6
    <3>2. n \in Nat
      BY <1>8, LenProperties
    <3>. HIDE DEF l, n
    <3>3. p \in Nat
      BY <1>1, <1>8
    <3>. QED  BY <1>8, <3>1, <3>2, <3>3 DEF n
  <2>2. \A j \in 1 .. l : b[p + j] = e(i)[j]
    BY <1>6, <1>8
  <2>. HIDE DEF l, p, q, n
  <2>3. p + 1 \in Nat \ {0} /\ (p + 1) + l - 1 <= n
    BY <2>1
  <2>4. ASSUME NEW j \in 1 .. l PROVE b[(p + 1) + j - 1] = e(i)[j]
    <3>1. (p + 1) + j - 1 = p + j
      BY <2>1
    <3>. QED  BY <2>2, <3>1
  <2>. QED  BY <2>1, <2>3, <2>4 DEF Stands, l, p, q, n
<1>. QED  BY <1>8, <1>9 DEF N, e, k, f, b

\* GetSerializedSize tells the length of what Serialize writes.
LEMMA SizeIsLength ==
    ASSUME NEW m \in Message
    PROVE  GetSerializedSize(m) = Len(Serialize(m))
<1>1. GetSerializedSize(m) = SizeOf(Kinds(m), m.fields)
  BY PayloadsAgree DEF GetSerializedSize, Kinds, IsPayload
<1>2. PICK end \in [0 .. Len(Kinds(m)) -> Nat] :
             /\ end[0] = 0 /\ end[Len(Kinds(m))] = Len(Serialize(m))
             /\ \A i \in 1 .. Len(Kinds(m)) : end[i] = end[i-1] + Size(Kinds(m)[i], m.fields[i])
  BY Written
<1>3. Kinds(m) \in Seq(FieldKind)
  BY KindsOfMessage
<1>. QED  BY <1>1, <1>2, <1>3, Summed

\* A message that can be sent is read as it was written, and what Deserialize returns
\* is no more than there is.
LEMMA ReadBack ==
    ASSUME NEW m \in Message, Len(Serialize(m)) <= MaxPayload
    PROVE  LET d == Deserialize(m.class, Serialize(m))
           IN  /\ d.fields = m.fields
               /\ d.next = Len(Serialize(m)) + 1
               /\ d.returned <= Len(Serialize(m))
<1>. DEFINE k == Kinds(m)
            N == Len(k)
            f == m.fields
            b == Serialize(m)
            h == HeaderOf(m.class)
            d == Deserialize(m.class, b)
            t == Bytes(b, 1, 1)[1]
<1>1. PICK end \in [0 .. N -> Nat] :
             /\ b \in Seq(Byte)
             /\ end[0] = 0 /\ end[N] = Len(b)
             /\ \A i \in 1 .. N :
                  /\ end[i] = end[i-1] + Size(k[i], f[i])
                  /\ end[i] <= Len(b)
                  /\ Stands(b, end[i-1] + 1, Encode(k[i], f[i]))
  BY Written
<1>2. /\ k \in Seq(FieldKind) /\ N \in Nat \ {0} /\ Len(h) \in 1 .. N /\ k[1] = "u8"
      /\ \A i \in 1 .. Len(h) : k[i] = h[i]
      /\ f = [i \in 1 .. N |-> f[i]]
      /\ \A i \in 1 .. N : k[i] \in FieldKind /\ f[i] \in Values(k[i])
  BY KindsOfMessage, FieldsOfMessage
<1>3. Len(b) \in Nat /\ Len(b) < Base * Base /\ Base * Base \in Nat
  BY <1>1, BaseAssumption, OverheadAssumption, LenProperties DEF MaxPayload
<1>. HIDE DEF k, N, f, b, h
<1>4. ASSUME NEW i \in 1 .. N
      PROVE  Decode(k[i], b, end[i-1] + 1) = [value |-> f[i], next |-> end[i] + 1]
  <2>. DEFINE s == Size(k[i], f[i])
              l == Len(b)
  <2>1. end[i-1] \in Nat /\ end[i] \in Nat
    BY <1>1, <1>2
  <2>2. k[i] \in FieldKind /\ f[i] \in Values(k[i]) /\ s \in Nat
    BY <1>2, Encoded
  <2>3. end[i] = end[i-1] + s /\ end[i] <= l /\ l \in Nat /\ l < Base * Base
    BY <1>1, <1>3
  <2>. HIDE DEF s, l
  <2>4. s < Base * Base
    BY <1>3, <2>1, <2>2, <2>3
  <2>5. ASSUME k[i] = "str" PROVE Len(f[i]) < Base * Base
    <3>1. Len(f[i]) \in Nat /\ s = 2 + Len(f[i])
      BY <2>2, <2>5, LenProperties DEF Values, Size, s
    <3>. QED  BY <1>3, <2>4, <3>1
  <2>6. ASSUME k[i] = "table" PROVE Len(f[i]) \in U32
    <3>1. Len(f[i]) \in Nat /\ s = 4 + 12 * Len(f[i])
      BY <2>2, <2>6, LenProperties DEF Values, Size, s
    <3>2. Len(f[i]) < Base * Base
      BY <1>3, <2>4, <3>1
    <3>3. Base * Base <= Base * Base * Base * Base
      BY BaseAssumption
    <3>. QED  BY <1>3, <3>1, <3>2, <3>3, BaseAssumption DEF U32
  <2>7. Stands(b, end[i-1] + 1, Encode(k[i], f[i]))
    BY <1>1
  <2>8. Decode(k[i], b, end[i-1] + 1) = [value |-> f[i], next |-> end[i-1] + 1 + s]
    BY <1>1, <2>2, <2>5, <2>6, <2>7, Decoded DEF s
  <2>9. end[i-1] + 1 + s = end[i] + 1
    BY <2>1, <2>2, <2>3
  <2>. QED  BY <2>8, <2>9
<1>5. ReadFields(k, b) = [fields |-> f, next |-> Len(b) + 1]
  <2>1. ReadFields(k, b) = [fields |-> [i \in 1 .. N |-> f[i]], next |-> end[N] + 1]
    <3>1. /\ k \in Seq(FieldKind) /\ end \in [0 .. Len(k) -> Nat] /\ end[0] = 0
          /\ \A i \in 1 .. Len(k) :
               Decode(k[i], b, end[i-1] + 1) = [value |-> f[i], next |-> end[i] + 1]
      BY <1>1, <1>2, <1>4 DEF N
    <3>. QED  BY Zenon, <3>1, Gathered DEF N
  <2>. QED  BY <1>1, <1>2, <2>1
<1>6. t = TypeOf(m)
  <2>1. 1 \in 1 .. N /\ end[1-1] + 1 = 1
    BY <1>1, <1>2
  <2>2. Decode("u8", b, 1) = [value |-> f[1], next |-> end[1] + 1]
    BY <1>2, <1>4, <2>1
  <2>3. Decode("u8", b, 1) = [value |-> t, next |-> 1 + 1]
    BY DEF Decode
  <2>. QED  BY <2>2, <2>3 DEF TypeOf, f
<1>7. /\ HeaderOf(m.class) \o PayloadOf(m.class, t).read = k
      /\ HeaderOf(m.class) \o PayloadOf(m.class, t).size = k
      /\ HeaderOf(m.class) \o <<>> = h
  <2>1. h \in Seq(FieldKind)
    BY HeaderTyped DEF h
  <2>2. h \o <<>> = h
    BY <2>1
  <2>. QED  BY <1>6, <2>2, PayloadsAgree DEF IsPayload, Kinds, k, h
<1>8. /\ d.fields = ReadFields(k, b).fields
      /\ d.next = ReadFields(k, b).next
      /\ d.returned \in {SizeOf(k, f), SizeOf(h, f)}
  <2>. DEFINE w == HeaderOf(m.class) \o PayloadOf(m.class, t).read
              r == ReadFields(w, b)
              c == IF Counted(m.class, t) THEN PayloadOf(m.class, t).size ELSE <<>>
              s == HeaderOf(m.class) \o c
  <2>1. d = [fields |-> r.fields, next |-> r.next, returned |-> SizeOf(s, r.fields)]
    BY Zenon DEF Deserialize
  <2>2. w = k /\ r = ReadFields(k, b)
    BY Zenon, <1>7
  <2>3. s = k \/ s = h
    BY Zenon, <1>7
  <2>. HIDE DEF w, r, s, d, t
  <2>4. r.fields = f
    BY <1>5, <2>2
  <2>5. d.returned = SizeOf(s, f)
    BY <2>1, <2>4
  <2>. QED  BY <2>1, <2>2, <2>3, <2>5
<1>. HIDE DEF d, t
<1>9. SizeOf(k, f) = Len(b)
  BY <1>1, <1>2, Summed DEF N
<1>10. SizeOf(h, f) <= Len(b)
  <2>. DEFINE short == [i \in 0 .. Len(h) |-> end[i]]
  <2>1. h \in Seq(FieldKind) /\ Len(h) \in 1 .. N
    BY <1>2, HeaderTyped DEF h
  <2>2. short \in [0 .. Len(h) -> Nat] /\ short[0] = 0
    BY <1>1, <1>2, <2>1
  <2>3. \A i \in 1 .. Len(h) : short[i] = short[i-1] + Size(h[i], f[i])
    <3>. TAKE i \in 1 .. Len(h)
    <3>1. i \in 1 .. N /\ k[i] = h[i] /\ short[i] = end[i] /\ short[i-1] = end[i-1]
      BY <1>2, <2>1
    <3>. QED  BY <1>1, <3>1
  <2>. HIDE DEF short
  <2>4. SizeOf(h, f) = short[Len(h)]
    BY <2>1, <2>2, <2>3, Summed
  <2>. QED  BY <1>1, <2>1, <2>4 DEF short
<1>11. d.returned <= Len(b)
  BY <1>3, <1>8, <1>9, <1>10
<1>12. d.fields = f /\ d.next = Len(b) + 1
  BY <1>5, <1>8
<1>. QED  BY <1>11, <1>12 DEF d, f, b

-----------------------------------------------------------------------------
(* The theorems about messages.                                            *)

CodecInv ==
    /\ stage \in {"idle", "packed", "sent", "refused", "received"}
    /\ stage # "idle" => /\ message \in Message
                         /\ room = GetSerializedSize(message)
                         /\ packet = Serialize(message)
    /\ stage \in {"sent", "received"} => Len(packet) <= MaxPayload
    /\ stage = "received" => received = Deserialize(message.class, packet)

LEMMA CodecSound == CodecSpec => []CodecInv
<1>1. CodecInit => CodecInv
  BY DEF CodecInit, CodecInv
<1>2. CodecInv /\ [CodecNext]_codecVars => CodecInv'
  <2>. SUFFICES ASSUME CodecInv, [CodecNext]_codecVars PROVE CodecInv'
    OBVIOUS
  <2>1. CASE \E m \in Message : AddHeader(m)
    BY <2>1 DEF CodecInv, AddHeader
  <2>2. CASE SendTo
    BY <2>2 DEF CodecInv, SendTo
  <2>3. CASE RemoveHeader
    BY <2>3 DEF CodecInv, RemoveHeader
  <2>4. CASE UNCHANGED codecVars
    BY <2>4 DEF CodecInv, codecVars
  <2>. QED  BY <2>1, <2>2, <2>3, <2>4 DEF CodecNext
<1>. QED  BY <1>1, <1>2, PTL DEF CodecSpec

\* The room made for a message is what it takes, whatever its class, its type and the
\* values of its fields (GetSerializedSize, Serialize).
THEOREM RoomFits == CodecSpec => []SizesAgree
<1>1. CodecInv => SizesAgree
  BY SizeIsLength DEF CodecInv, SizesAgree
<1>. QED  BY <1>1, CodecSound, PTL

\* A message that arrives has the fields it was sent with, in any base of its bytes: a
\* text too long for the two bytes of its length is not sent (Serialize, Deserialize).
THEOREM FieldsArrive == CodecSpec => []ArrivesAsSent
<1>1. CodecInv => ArrivesAsSent
  BY ReadBack DEF CodecInv, ArrivesAsSent
<1>. QED  BY <1>1, CodecSound, PTL

\* Deserialize stops at the end of the packet, neither short of it nor beyond, and
\* returns no more than it can remove (Deserialize).
THEOREM AllIsRead == CodecSpec => []ReadsWhatIsThere
<1>1. CodecInv => ReadsWhatIsThere
  BY ReadBack DEF CodecInv, ReadsWhatIsThere
<1>. QED  BY <1>1, CodecSound, PTL

-----------------------------------------------------------------------------
(* The index.                                                              *)

\* What FlattenSeq has joined after each of the sequences.
LEMMA JoinedUpTo ==
    ASSUME NEW S, NEW ss \in Seq(Seq(S))
    PROVE  \E p \in [0 .. Len(ss) -> Seq(S)] :
             /\ p[0] = <<>>
             /\ \A i \in 1 .. Len(ss) : p[i] = p[i-1] \o ss[i]
             /\ FlattenSeq(ss) = p[Len(ss)]
<1>1. CASE ss = <<>>
  <2>1. FlattenSeq(ss) = <<>>
    BY <1>1 DEF FlattenSeq
  <2>. DEFINE p == [i \in 0 .. 0 |-> <<>>]
  <2>2. Len(ss) = 0 /\ <<>> \in Seq(S)
    BY <1>1, EmptySeq
  <2>3. p \in [0 .. Len(ss) -> Seq(S)] /\ p[0] = <<>> /\ p[Len(ss)] = <<>>
    BY <2>2
  <2>. HIDE DEF p
  <2>. QED  BY <2>1, <2>2, <2>3
<1>2. CASE ss # <<>>
  <2>. DEFINE N == Len(ss)
  <2>1. N \in Nat /\ N > 0 /\ ss[1] \in Seq(S) /\ <<>> \in Seq(S)
    BY <1>2, EmptySeq, LenProperties
  <2>2. PICK f \in [1 .. N -> Seq(S)] :
              /\ f[1] = ss[1]
              /\ \A i \in 2 .. N : f[i] = f[i-1] \o ss[i]
              /\ FlattenSeq(ss) = f[N]
    BY <1>2, Joined
  <2>. DEFINE p == [i \in 0 .. N |-> IF i = 0 THEN <<>> ELSE f[i]]
  <2>3. <<>> \o ss[1] = ss[1]
    BY <2>1, ConcatEmptySeq
  <2>. HIDE DEF N
  <2>4. p \in [0 .. N -> Seq(S)] /\ p[0] = <<>> /\ p[N] = f[N]
    BY <2>1, <2>2
  <2>5. ASSUME NEW i \in 1 .. N PROVE p[i] = p[i-1] \o ss[i]
    <3>1. CASE i = 1
      <4>1. p[i] = ss[1] /\ p[i-1] = <<>>
        BY <2>1, <2>2, <3>1
      <4>. QED  BY Zenon, <2>3, <3>1, <4>1
    <3>2. CASE i # 1
      <4>1. i \in 2 .. N /\ p[i] = f[i] /\ p[i-1] = f[i-1]
        BY <2>1, <3>2
      <4>. HIDE DEF p
      <4>. QED  BY Zenon, <2>2, <4>1
    <3>. QED  BY <3>1, <3>2
  <2>. HIDE DEF p
  <2>. QED  BY <2>2, <2>4, <2>5 DEF N
<1>. QED  BY <1>1, <1>2

\* One more sequence is joined behind the others.
LEMMA JoinedBehind ==
    ASSUME NEW S, NEW ss \in Seq(Seq(S)), NEW s \in Seq(S)
    PROVE  /\ FlattenSeq(ss) \in Seq(S)
           /\ FlattenSeq(Append(ss, s)) = FlattenSeq(ss) \o s
<1>. DEFINE tt == Append(ss, s)
            N == Len(ss)
<1>1. /\ tt \in Seq(Seq(S)) /\ N \in Nat /\ Len(tt) = N + 1
      /\ \A i \in 1 .. N : tt[i] = ss[i]
      /\ tt[N + 1] = s
  BY AppendProperties, LenProperties
<1>. HIDE DEF tt
<1>2. PICK p \in [0 .. N -> Seq(S)] :
             /\ p[0] = <<>>
             /\ \A i \in 1 .. N : p[i] = p[i-1] \o ss[i]
             /\ FlattenSeq(ss) = p[N]
  BY JoinedUpTo
<1>3. PICK q \in [0 .. Len(tt) -> Seq(S)] :
             /\ q[0] = <<>>
             /\ \A i \in 1 .. Len(tt) : q[i] = q[i-1] \o tt[i]
             /\ FlattenSeq(tt) = q[Len(tt)]
  BY <1>1, JoinedUpTo
<1>. HIDE DEF N
<1>. DEFINE Same == {i \in Nat : p[i] = q[i]}
<1>4. 0 \in Same
  BY <1>2, <1>3
<1>5. ASSUME NEW i \in 0 .. N - 1, i \in Same PROVE i + 1 \in Same
  <2>1. i + 1 \in 1 .. N /\ i + 1 \in 1 .. Len(tt) /\ i + 1 - 1 = i /\ i + 1 \in Nat
    BY <1>1
  <2>2. p[i + 1] = p[i] \o ss[i + 1] /\ q[i + 1] = q[i] \o tt[i + 1]
    <3>. DEFINE k == i + 1
    <3>1. k \in 1 .. N /\ k \in 1 .. Len(tt) /\ k - 1 = i
      BY <2>1
    <3>. HIDE DEF k
    <3>2. p[k] = p[k-1] \o ss[k] /\ q[k] = q[k-1] \o tt[k]
      BY Zenon, <1>2, <1>3, <3>1
    <3>3. p[k] = p[i] \o ss[k] /\ q[k] = q[i] \o tt[k]
      BY Zenon, <3>1, <3>2
    <3>. QED  BY Zenon, <3>3 DEF k
  <2>3. p[i] = q[i] /\ tt[i + 1] = ss[i + 1]
    BY <1>1, <1>5, <2>1
  <2>4. p[i + 1] = q[i + 1]
    BY Zenon, <2>2, <2>3
  <2>. QED  BY <2>1, <2>4
<1>. HIDE DEF Same
<1>6. N \in Same
  <2>1. N \in 0 .. N
    BY <1>1
  <2>. QED  BY <1>1, <1>4, <1>5, <2>1, UpTo
<1>7. N + 1 \in 1 .. Len(tt) /\ N + 1 - 1 = N /\ Len(tt) = N + 1
  BY <1>1
<1>8. q[N + 1] = q[N] \o tt[N + 1] /\ FlattenSeq(tt) = q[N + 1]
  <2>. DEFINE k == N + 1
  <2>1. k \in 1 .. Len(tt) /\ k - 1 = N /\ Len(tt) = k
    BY <1>1, <1>7
  <2>. HIDE DEF k
  <2>2. q[k] = q[k-1] \o tt[k] /\ FlattenSeq(tt) = q[Len(tt)]
    BY Zenon, <1>3, <2>1
  <2>3. q[k] = q[N] \o tt[k] /\ FlattenSeq(tt) = q[k]
    BY Zenon, <2>1, <2>2
  <2>. QED  BY Zenon, <2>3 DEF k
<1>9. q[N] = p[N]
  BY <1>6 DEF Same
<1>10. N \in 0 .. N
  BY <1>1
<1>11. FlattenSeq(ss) \in Seq(S)
  BY <1>2, <1>10
<1>12. FlattenSeq(tt) = FlattenSeq(ss) \o s
  BY Zenon, <1>1, <1>2, <1>8, <1>9
<1>. QED  BY <1>11, <1>12 DEF tt

\* The words that can be keywords, the indexes, and the documents of a keyword.
Word == Term \cup {Empty}
Index == UNION {[X -> Seq(Word)] : X \in SUBSET Word}
Look(t, k) == IF k \in DOMAIN t THEN t[k] ELSE <<>>

LEMMA Looked ==
    ASSUME NEW t \in Index, NEW k \in Word
    PROVE  Look(t, k) \in Seq(Word)
<1>1. PICK X \in SUBSET Word : t \in [X -> Seq(Word)]
  BY DEF Index
<1>2. <<>> \in Seq(Word)
  BY EmptySeq
<1>. QED  BY <1>1, <1>2 DEF Look

\* Posting a document appends it to the list of its keyword and leaves the others.
LEMMA Posted ==
    ASSUME NEW t \in Index, NEW k \in Word, NEW d \in Word
    PROVE  /\ Post(t, k, d) \in Index
           /\ Look(Post(t, k, d), k) = Append(Look(t, k), d)
           /\ \A x \in Word \ {k} : Look(Post(t, k, d), x) = Look(t, x)
<1>1. PICK X \in SUBSET Word : t \in [X -> Seq(Word)]
  BY DEF Index
<1>. DEFINE u == Post(t, k, d)
            Y == X \cup {k}
<1>2. DOMAIN t = X /\ \A x \in X : t[x] \in Seq(Word)
  BY <1>1
<1>3. <<d>> = Append(<<>>, d) /\ <<d>> \in Seq(Word)
  OBVIOUS
<1>4. \A x \in X : Append(t[x], d) \in Seq(Word)
  BY <1>2, AppendProperties
<1>5. u = [x \in Y |-> IF x # k THEN t[x] ELSE IF k \in X THEN Append(t[k], d) ELSE <<d>>]
  BY <1>2 DEF Post
<1>. HIDE DEF u
<1>6. u \in [Y -> Seq(Word)] /\ Y \in SUBSET Word
  BY <1>2, <1>3, <1>4, <1>5
<1>7. u \in Index
  BY <1>6 DEF Index
<1>8. Look(u, k) = Append(Look(t, k), d)
  <2>1. CASE k \in X
    BY Zenon, <1>2, <1>5, <2>1 DEF Look
  <2>2. CASE k \notin X
    <3>1. Look(t, k) = <<>>
      BY <1>2, <2>2 DEF Look
    <3>2. k \in DOMAIN u /\ u[k] = <<d>>
      BY <1>5, <2>2
    <3>. QED  BY Zenon, <1>3, <3>1, <3>2 DEF Look
  <2>. QED  BY <2>1, <2>2
<1>9. ASSUME NEW x \in Word \ {k} PROVE Look(u, x) = Look(t, x)
  BY <1>2, <1>5 DEF Look
<1>. QED  BY <1>7, <1>8, <1>9 DEF u

\* The same document n times.
Repeated(d, n) == [j \in 1 .. n |-> d]

LEMMA OnceMore ==
    ASSUME NEW S, NEW d \in S, NEW n \in Nat
    PROVE  /\ Repeated(d, n) \in Seq(S)
           /\ Append(Repeated(d, n), d) = Repeated(d, n + 1)
<1>. DEFINE a == Repeated(d, n)
            b == Repeated(d, n + 1)
<1>1. /\ a \in Seq(S) /\ Len(a) = n /\ \A j \in 1 .. n : a[j] = d
      /\ b \in Seq(S) /\ Len(b) = n + 1 /\ \A j \in 1 .. n + 1 : b[j] = d
  <2>1. a \in [1 .. n -> S] /\ b \in [1 .. n + 1 -> S] /\ n + 1 \in Nat
    BY DEF Repeated
  <2>2. \A j \in 1 .. n : a[j] = d
    BY DEF Repeated
  <2>3. \A j \in 1 .. n + 1 : b[j] = d
    BY DEF Repeated
  <2>. HIDE DEF a, b
  <2>4. ASSUME NEW m \in Nat, NEW f \in [1 .. m -> S] PROVE f \in Seq(S) /\ Len(f) = m
    OBVIOUS
  <2>. QED  BY <2>1, <2>2, <2>3, <2>4
<1>. HIDE DEF a, b
<1>2. /\ Append(a, d) \in Seq(S) /\ Len(Append(a, d)) = n + 1
      /\ \A j \in 1 .. n : Append(a, d)[j] = a[j]
      /\ Append(a, d)[n + 1] = d
  BY <1>1, AppendProperties
<1>3. \A j \in 1 .. n + 1 : Append(a, d)[j] = b[j]
  BY <1>1, <1>2
<1>4. Append(a, d) = b
  BY <1>1, <1>2, <1>3, SeqEqual
<1>. QED  BY <1>1, <1>4 DEF a, b

\* How often x is among the first n of s.
CountOf(s, x, n) == Cardinality({i \in 1 .. n : s[i] = x})

LEMMA CountedNext ==
    ASSUME NEW s, NEW x, NEW n \in Nat
    PROVE  /\ CountOf(s, x, 0) = 0 /\ CountOf(s, x, n) \in Nat
           /\ s[n + 1] = x => CountOf(s, x, n + 1) = CountOf(s, x, n) + 1
           /\ s[n + 1] # x => CountOf(s, x, n + 1) = CountOf(s, x, n)
<1>. DEFINE C(m) == {i \in 1 .. m : s[i] = x}
<1>1. C(0) = {}
  OBVIOUS
<1>2. IsFiniteSet(C(n)) /\ Cardinality(C(n)) \in Nat
  <2>1. IsFiniteSet(1 .. n)
    BY FS_Interval
  <2>2. C(n) \subseteq 1 .. n
    OBVIOUS
  <2>. HIDE DEF C
  <2>. QED  BY <2>1, <2>2, FS_Subset, FS_CardinalityType
<1>3. CASE s[n + 1] = x
  <2>1. C(n + 1) = C(n) \cup {n + 1} /\ n + 1 \notin C(n)
    BY <1>3
  <2>. HIDE DEF C
  <2>2. Cardinality(C(n + 1)) = Cardinality(C(n)) + 1
    BY <1>2, <2>1, FS_AddElement
  <2>3. Cardinality(C(0)) = 0
    BY <1>1, FS_EmptySet
  <2>. QED  BY <1>2, <1>3, <2>2, <2>3 DEF CountOf, C
<1>4. CASE s[n + 1] # x
  <2>1. C(n + 1) = C(n)
    BY <1>4
  <2>. HIDE DEF C
  <2>2. Cardinality(C(n + 1)) = Cardinality(C(n))
    BY <2>1
  <2>3. Cardinality(C(0)) = 0
    BY <1>1, FS_EmptySet
  <2>. QED  BY <1>2, <1>4, <2>2, <2>3 DEF CountOf, C
<1>. QED  BY <1>3, <1>4

\* Appending to the second of two sequences that are joined is appending to both.
AppendsBehind(x, y, d) == Append(x \o y, d) = x \o Append(y, d)

LEMMA AppendBehind ==
    ASSUME NEW S, NEW x \in Seq(S), NEW y \in Seq(S), NEW d \in S
    PROVE  AppendsBehind(x, y, d)
<1>1. x \o y \in Seq(S) /\ <<d>> \in Seq(S)
  BY ConcatProperties
<1>2. Append(x \o y, d) = (x \o y) \o <<d>>
  BY <1>1, AppendIsConcat
<1>3. Append(y, d) = y \o <<d>>
  BY AppendIsConcat
<1>4. (x \o y) \o <<d>> = x \o (y \o <<d>>)
  BY <1>1, ConcatAssociative
<1>. QED  BY Zenon, <1>2, <1>3, <1>4 DEF AppendsBehind

TimesIn(s, x) == CountOf(s, x, Len(s))

\* A line appends its document to the list of each word as often as it is a keyword.
LineAppends(t, l) ==
    /\ PostLine(t, l) \in Index
    /\ \A x \in Word :
         Look(PostLine(t, l), x) = Look(t, x) \o Repeated(docV(l), TimesIn(Keywords(l), x))

LEMMA LinePosted ==
    ASSUME NEW t \in Index, NEW l, Keywords(l) \in Seq(Word), docV(l) \in Word
    PROVE  LineAppends(t, l)
<1>. DEFINE K == Keywords(l)
            d == docV(l)
            N == Len(K)
            body(g) == [i \in 0 .. N |-> IF i = 0 THEN t ELSE Post(g[i-1], K[i], d)]
            post == CHOOSE g : g = body(g)
            step == [p \in (1 .. N) \X Index |-> Post(p[2], K[p[1]], d)]
<1>1. N \in Nat /\ d \in Word /\ \A i \in 1 .. N : K[i] \in Word
  BY LenProperties
<1>2. PostLine(t, l) = post[N]
  BY DEF PostLine
<1>. HIDE DEF K, d, N
<1>3. ASSUME NEW i \in 1 .. N, NEW u \in Index
      PROVE  Post(u, K[i], d) \in Index /\ step[<<i, u>>] = Post(u, K[i], d)
  <2>1. Post(u, K[i], d) \in Index
    BY <1>1, Posted
  <2>2. <<i, u>> \in (1 .. N) \X Index /\ <<i, u>>[1] = i /\ <<i, u>>[2] = u
    OBVIOUS
  <2>. QED  BY <2>1, <2>2
<1>4. step \in [(1 .. N) \X Index -> Index]
  <2>1. \A p \in (1 .. N) \X Index : Post(p[2], K[p[1]], d) \in Index
    <3>. TAKE p \in (1 .. N) \X Index
    <3>1. p[1] \in 1 .. N /\ p[2] \in Index
      OBVIOUS
    <3>. QED  BY <1>3, <3>1
  <2>. QED  BY <2>1
<1>. HIDE DEF step
<1>5. PICK g \in [0 .. N -> Index] : g[0] = t /\ \A i \in 1 .. N : g[i] = step[<<i, g[i-1]>>]
  <2>1. N \in Nat /\ step \in Steps(Index, N)
    BY <1>1, <1>4 DEF Steps
  <2>2. \E g \in [0 .. N -> Index] : LedBy(step, N, t, g)
    BY <2>1, Recursion
  <2>. QED  BY <2>2 DEF LedBy
<1>6. \A i \in 1 .. N : g[i-1] \in Index /\ g[i] = Post(g[i-1], K[i], d)
  <2>. TAKE i \in 1 .. N
  <2>1. i - 1 \in 0 .. N
    BY <1>1
  <2>2. g[i-1] \in Index
    BY <2>1
  <2>3. g[i] = step[<<i, g[i-1]>>]
    BY <1>5
  <2>4. step[<<i, g[i-1]>>] = Post(g[i-1], K[i], d)
    BY <1>3, <2>2
  <2>. QED  BY Zenon, <2>2, <2>3, <2>4
<1>7. g = body(g)
  BY <1>1, <1>5, <1>6
<1>8. post = body(post)
  BY <1>7
<1>. HIDE DEF post
<1>9. post[0] = t /\ \A i \in 1 .. N : post[i] = Post(post[i-1], K[i], d)
  <2>1. 0 \in 0 .. N /\ \A i \in 1 .. N : i \in 0 .. N /\ i # 0
    BY <1>1
  <2>. QED  BY <1>8, <2>1
<1>. DEFINE goal(x, i) == Look(t, x) \o Repeated(d, CountOf(K, x, i))
            Good == {i \in Nat : post[i] \in Index /\ \A x \in Word : Look(post[i], x) = goal(x, i)}
<1>10. 0 \in Good
  <2>1. ASSUME NEW x \in Word PROVE Look(t, x) = goal(x, 0)
    <3>1. CountOf(K, x, 0) = 0
      BY CountedNext
    <3>2. Repeated(d, 0) = <<>>
      BY DEF Repeated
    <3>3. Look(t, x) \o <<>> = Look(t, x)
      BY Looked, ConcatEmptySeq
    <3>. QED  BY Zenon, <3>1, <3>2, <3>3
  <2>. HIDE DEF goal
  <2>. QED  BY <1>9, <2>1
<1>11. ASSUME NEW i \in 0 .. N - 1, i \in Good PROVE i + 1 \in Good
  <2>. DEFINE k == i + 1
  <2>1. k \in 1 .. N /\ k \in Nat /\ k - 1 = i /\ i \in Nat
    BY <1>1
  <2>2. post[i] \in Index /\ \A x \in Word : Look(post[i], x) = goal(x, i)
    BY <1>11
  <2>3. post[k] = Post(post[i], K[k], d)
    <3>. HIDE DEF k
    <3>1. post[k] = Post(post[k-1], K[k], d)
      BY Zenon, <1>9, <2>1
    <3>. QED  BY Zenon, <2>1, <3>1
  <2>4. K[k] \in Word
    <3>. HIDE DEF k
    <3>. QED  BY <1>1, <2>1
  <2>5. post[k] \in Index
    BY Zenon, <1>1, <2>2, <2>3, <2>4, Posted
  <2>5a. /\ Look(post[k], K[k]) = Append(Look(post[i], K[k]), d)
         /\ \A x \in Word \ {K[k]} : Look(post[k], x) = Look(post[i], x)
    <3>. DEFINE u == post[i]
                v == K[k]
    <3>1. u \in Index /\ v \in Word /\ d \in Word /\ post[k] = Post(u, v, d)
      BY Zenon, <1>1, <2>2, <2>3, <2>4
    <3>. HIDE DEF u, v
    <3>2. /\ Look(Post(u, v, d), v) = Append(Look(u, v), d)
          /\ \A x \in Word \ {v} : Look(Post(u, v, d), x) = Look(u, x)
      BY <3>1, Posted
    <3>. QED  BY Zenon, <3>1, <3>2 DEF u, v
  <2>6. ASSUME NEW x \in Word PROVE Look(post[k], x) = goal(x, k)
    <3>. DEFINE n == CountOf(K, x, i)
                a == Look(t, x)
                r == Repeated(d, n)
    <3>1. n \in Nat /\ CountOf(K, x, k) = n + (IF K[k] = x THEN 1 ELSE 0)
      BY <2>1, CountedNext
    <3>2. a \in Seq(Word)
      BY Looked
    <3>. HIDE DEF k
    <3>3. Look(post[i], x) = a \o r
      BY Zenon, <2>2
    <3>. HIDE DEF n, a
    <3>4. r \in Seq(Word) /\ Append(r, d) = Repeated(d, n + 1)
      BY <1>1, <3>1, OnceMore
    <3>5. CASE K[k] = x
      <4>1. Look(post[k], x) = Append(Look(post[i], x), d)
        BY Zenon, <2>5a, <3>5
      <4>2. Append(a \o r, d) = a \o Append(r, d)
        <5>. HIDE DEF r
        <5>1. d \in Word
          BY <1>1
        <5>2. AppendsBehind(a, r, d)
          BY <3>2, <3>4, <5>1, AppendBehind
        <5>. QED  BY <5>2 DEF AppendsBehind
      <4>3. CountOf(K, x, k) = n + 1
        BY <3>1, <3>5
      <4>. QED  BY Zenon, <3>3, <3>4, <4>1, <4>2, <4>3 DEF a
    <3>6. CASE K[k] # x
      <4>1. x \in Word \ {K[k]}
        BY <3>6
      <4>2. Look(post[k], x) = Look(post[i], x)
        BY Zenon, <2>5a, <4>1
      <4>3. CountOf(K, x, k) = n
        BY <3>1, <3>6
      <4>. QED  BY Zenon, <3>3, <4>2, <4>3 DEF a
    <3>. QED  BY <3>5, <3>6
  <2>. HIDE DEF goal, k
  <2>7. k \in Good
    BY <2>1, <2>5, <2>6
  <2>. QED  BY <2>7 DEF k
<1>. HIDE DEF Good
<1>12. N \in Good
  <2>1. N \in 0 .. N
    BY <1>1
  <2>. QED  BY <1>1, <1>10, <1>11, <2>1, UpTo
<1>. HIDE DEF goal
<1>13. post[N] \in Index /\ \A x \in Word : Look(post[N], x) = goal(x, N)
  BY <1>12 DEF Good
<1>. QED  BY Zenon, <1>2, <1>13 DEF LineAppends, TimesIn, goal, K, d, N

\* Appending r adds one to the number of times r is in s.
LEMMA CountedBehind ==
    ASSUME NEW S, NEW s \in Seq(S), NEW r \in S, NEW x
    PROVE  TimesIn(Append(s, r), x) = TimesIn(s, x) + (IF r = x THEN 1 ELSE 0)
<1>. DEFINE u == Append(s, r)
            n == Len(s)
<1>1. n \in Nat /\ Len(u) = n + 1 /\ u[n + 1] = r /\ \A i \in 1 .. n : u[i] = s[i]
  BY AppendProperties, LenProperties
<1>. HIDE DEF u, n
<1>2. CountOf(u, x, n + 1) = CountOf(u, x, n) + (IF u[n + 1] = x THEN 1 ELSE 0)
  <2>1. /\ CountOf(u, x, n) \in Nat
        /\ u[n + 1] = x => CountOf(u, x, n + 1) = CountOf(u, x, n) + 1
        /\ u[n + 1] # x => CountOf(u, x, n + 1) = CountOf(u, x, n)
    <3>1. n \in Nat
      BY <1>1
    <3>. QED  BY Zenon, <3>1, CountedNext
  <2>. QED  BY <2>1
<1>3. {i \in 1 .. n : u[i] = x} = {i \in 1 .. n : s[i] = x}
  BY <1>1
<1>4. CountOf(u, x, n) = CountOf(s, x, n)
  BY <1>3 DEF CountOf
<1>5. TimesIn(u, x) = CountOf(u, x, n + 1) /\ TimesIn(s, x) = CountOf(s, x, n)
  BY <1>1 DEF TimesIn, n
<1>. QED  BY <1>1, <1>2, <1>4, <1>5 DEF u

\* The keywords among the pieces of a line.
Keys(p) == IF p = <<>> THEN <<>> ELSE Tail(p)

\* One more piece: the first one is the document, every other one a keyword.
LEMMA KeysBehind ==
    ASSUME NEW p \in Seq(Word), NEW r \in Word
    PROVE  /\ Append(p, r) \in Seq(Word) /\ Append(p, r) # <<>> /\ Keys(p) \in Seq(Word)
           /\ Append(p, r)[1] = IF p = <<>> THEN r ELSE p[1]
           /\ \A x : TimesIn(Keys(Append(p, r)), x)
                       = TimesIn(Keys(p), x) + (IF p # <<>> /\ r = x THEN 1 ELSE 0)
<1>. DEFINE q == Append(p, r)
<1>1. q \in Seq(Word) /\ q # <<>> /\ \A i \in 1 .. Len(p) : q[i] = p[i]
  BY AppendProperties
<1>2. Len(p) \in Nat /\ Len(q) = Len(p) + 1 /\ q[Len(p) + 1] = r
  BY AppendProperties, LenProperties
<1>3. Keys(p) \in Seq(Word)
  BY HeadTailProperties, EmptySeq DEF Keys
<1>4. Tail(q) = IF p = <<>> THEN <<>> ELSE Append(Tail(p), r)
  BY HeadTailAppend
<1>. HIDE DEF q
<1>5. Keys(q) = IF p = <<>> THEN <<>> ELSE Append(Tail(p), r)
  BY Zenon, <1>1, <1>4 DEF Keys
<1>6. CASE p = <<>>
  <2>1. q[1] = r
    <3>1. Len(p) = 0
      BY <1>6, EmptySeq
    <3>. QED  BY <1>2, <3>1
  <2>2. Keys(q) = Keys(p)
    BY Zenon, <1>5, <1>6 DEF Keys
  <2>3. \A x : TimesIn(Keys(p), x) \in Nat
    BY <1>3, LenProperties, CountedNext DEF TimesIn
  <2>4. \A x : TimesIn(Keys(q), x) = TimesIn(Keys(p), x) + 0
    BY <2>2, <2>3
  <2>. QED  BY <1>1, <1>3, <1>6, <2>1, <2>4 DEF q
<1>7. CASE p # <<>>
  <2>1. q[1] = p[1]
    <3>1. Len(p) \in Nat \ {0}
      BY <1>7, EmptySeq
    <3>2. 1 \in 1 .. Len(p)
      BY <3>1
    <3>. QED  BY <1>1, <3>2
  <2>2. Keys(q) = Append(Keys(p), r)
    BY Zenon, <1>5, <1>7 DEF Keys
  <2>3. \A x : TimesIn(Append(Keys(p), r), x)
                 = TimesIn(Keys(p), x) + (IF r = x THEN 1 ELSE 0)
    BY <1>3, CountedBehind
  <2>4. \A x : TimesIn(Keys(q), x) = TimesIn(Keys(p), x) + (IF r = x THEN 1 ELSE 0)
    BY <2>2, <2>3
  <2>. QED  BY <1>1, <1>3, <1>7, <2>1, <2>4 DEF q
<1>. QED  BY <1>6, <1>7

\* The lines that files have: no two words side by side.
Line == {l \in Seq(Term \cup {Space}) : \A i \in 2 .. Len(l) : Space \in {l[i-1], l[i]}}
Cuts == [pieces : Seq(Word), rest : Word]

\* What is left when the first i of l have been cut, and where x has been a keyword so far.
Left(l, i) == IF i = 0 THEN Empty ELSE IF l[i] = Space THEN Empty ELSE l[i]
Spaced(l, i) == \E j \in 1 .. i : l[j] = Space
Seen(l, x, i) == {j \in InLine(l, x) : j <= i}

\* What the loop has made of the first i of l.
CutUpTo(l, i, s) ==
    /\ s \in Cuts
    /\ s.rest = Left(l, i)
    /\ s.pieces # <<>> <=> Spaced(l, i)
    /\ s.pieces # <<>> => s.pieces[1] = Document(l)
    /\ \A x \in Word : TimesIn(Keys(s.pieces), x) = Cardinality(Seen(l, x, i))

\* A space counts as the end of a keyword if there has been a space before.
LEMMA SeenNext ==
    ASSUME NEW l \in Line, NEW x \in Word, NEW i \in 0 .. Len(l) - 1
    PROVE  Cardinality(Seen(l, x, i + 1))
             = Cardinality(Seen(l, x, i))
                 + (IF l[i + 1] = Space /\ Spaced(l, i) /\ Left(l, i) = x THEN 1 ELSE 0)
<1>. DEFINE k == i + 1
            new == l[k] = Space /\ Spaced(l, i) /\ Left(l, i) = x
<1>1. Len(l) \in Nat /\ DOMAIN l = 1 .. Len(l) /\ k \in 1 .. Len(l) /\ k - 1 = i /\ i \in Nat
  BY LenProperties DEF Line
<1>2. IsFiniteSet(Seen(l, x, i)) /\ Cardinality(Seen(l, x, i)) \in Nat
  <2>1. IsFiniteSet(1 .. i)
    BY <1>1, FS_Interval
  <2>2. Seen(l, x, i) \subseteq 1 .. i
    BY <1>1 DEF Seen, InLine
  <2>. QED  BY <2>1, <2>2, FS_Subset, FS_CardinalityType
<1>. HIDE DEF k
<1>3. k \in InLine(l, x) <=> new
  <2>1. k \in InLine(l, x)
          <=> l[k] = Space /\ Spaced(l, i) /\ x = IF l[i] = Space THEN Empty ELSE l[i]
    BY <1>1 DEF InLine, Spaced
  <2>2. Spaced(l, i) => i # 0
    BY DEF Spaced
  <2>. QED  BY <2>1, <2>2 DEF Left
<1>4. k \notin Seen(l, x, i)
  BY <1>1 DEF Seen
<1>5. Seen(l, x, k) = Seen(l, x, i) \cup {j \in InLine(l, x) : j = k}
  <2>1. \A j \in InLine(l, x) : j \in Int
    BY <1>1 DEF InLine
  <2>2. \A j \in Int : j <= k <=> j <= i \/ j = k
    BY <1>1
  <2>. QED  BY <2>1, <2>2 DEF Seen
<1>6. CASE new
  <2>1. Seen(l, x, k) = Seen(l, x, i) \cup {k}
    BY <1>3, <1>5, <1>6
  <2>2. Cardinality(Seen(l, x, k)) = Cardinality(Seen(l, x, i)) + 1
    BY <1>2, <1>4, <2>1, FS_AddElement
  <2>. QED  BY <1>6, <2>2 DEF k
<1>7. CASE ~new
  <2>1. Seen(l, x, k) = Seen(l, x, i)
    BY <1>3, <1>5, <1>7
  <2>2. Cardinality(Seen(l, x, k)) = Cardinality(Seen(l, x, i)) + 0
    BY <1>2, <2>1
  <2>. QED  BY <1>7, <2>2 DEF k
<1>. QED  BY <1>6, <1>7

\* One more word, or one more space, of a line.
LEMMA CutNext ==
    ASSUME NEW l \in Line, NEW i \in 0 .. Len(l) - 1, NEW s, CutUpTo(l, i, s)
    PROVE  CutUpTo(l, i + 1, Cut(s, l[i + 1]))
<1>. DEFINE k == i + 1
            c == l[k]
            t == Cut(s, c)
            p == s.pieces
            r == s.rest
<1>1. /\ Len(l) \in Nat /\ k \in 1 .. Len(l) /\ k - 1 = i /\ i \in Nat /\ k # 0 /\ k \in Nat
      /\ \A j \in 1 .. Len(l) : l[j] \in Term \cup {Space}
  BY LenProperties DEF Line
<1>2. /\ s = [pieces |-> p, rest |-> r] /\ p \in Seq(Word) /\ r \in Word /\ r = Left(l, i)
      /\ p # <<>> <=> Spaced(l, i)
      /\ p # <<>> => p[1] = Document(l)
      /\ \A x \in Word : TimesIn(Keys(p), x) = Cardinality(Seen(l, x, i))
  BY DEF CutUpTo, Cuts
<1>3. \A x \in Word : Cardinality(Seen(l, x, k))
                        = Cardinality(Seen(l, x, i)) + (IF c = Space /\ p # <<>> /\ r = x THEN 1 ELSE 0)
  BY <1>2, SeenNext
<1>4. Spaced(l, k) <=> Spaced(l, i) \/ c = Space
  BY <1>1 DEF Spaced
<1>5. \A x \in Word : TimesIn(Keys(p), x) \in Nat
  BY <1>2, KeysBehind, LenProperties, CountedNext DEF TimesIn
<1>6. CASE c = Space
  <2>. DEFINE q == Append(p, r)
  <2>1. t = [pieces |-> q, rest |-> Empty]
    BY <1>6 DEF Cut
  <2>2. /\ q \in Seq(Word) /\ q # <<>> /\ q[1] = IF p = <<>> THEN r ELSE p[1]
        /\ \A x : TimesIn(Keys(q), x) = TimesIn(Keys(p), x) + (IF p # <<>> /\ r = x THEN 1 ELSE 0)
    BY <1>2, KeysBehind
  <2>3. q[1] = Document(l)
    <3>1. CASE p = <<>>
      <4>1. q[1] = r /\ ~Spaced(l, i)
        BY <1>2, <2>2, <3>1
      <4>2. i \in {0, 1}
        <5>1. ASSUME i >= 2 PROVE FALSE
          <6>1. 2 \in 2 .. Len(l) /\ 1 \in 1 .. i /\ 2 \in 1 .. i
            BY <1>1, <5>1
          <6>2. Space \in {l[2-1], l[2]}
            BY <6>1 DEF Line
          <6>. QED  BY <4>1, <6>1, <6>2 DEF Spaced
        <5>. QED  BY <1>1, <5>1
      <4>3. CASE i = 0
        BY <1>1, <1>2, <1>6, <4>1, <4>3 DEF Document, Left
      <4>4. CASE i = 1
        <5>1. l[1] # Space
          BY <4>1, <4>4 DEF Spaced
        <5>. QED  BY <1>2, <4>1, <4>4, <5>1 DEF Document, Left
      <4>. QED  BY <4>2, <4>3, <4>4
    <3>2. CASE p # <<>>
      BY <1>2, <2>2, <3>2
    <3>. QED  BY <3>1, <3>2
  <2>4. \A x \in Word : TimesIn(Keys(q), x) = Cardinality(Seen(l, x, k))
    BY <1>2, <1>3, <1>5, <1>6, <2>2
  <2>5. Left(l, k) = Empty /\ Spaced(l, k) /\ Empty \in Word
    BY <1>1, <1>4, <1>6 DEF Left, Word
  <2>. HIDE DEF q, k
  <2>6. t \in Cuts /\ t.pieces = q /\ t.rest = Empty
    BY <2>1, <2>2, <2>5 DEF Cuts
  <2>. HIDE DEF t
  <2>7. CutUpTo(l, k, t)
    BY <2>2, <2>3, <2>4, <2>5, <2>6 DEF CutUpTo
  <2>. QED  BY <2>7 DEF k, t
<1>7. CASE c # Space
  <2>1. t = [pieces |-> p, rest |-> c]
    BY <1>2, <1>7 DEF Cut
  <2>2. c \in Word /\ Left(l, k) = c
    BY <1>1, <1>7 DEF Left, Word
  <2>3. \A x \in Word : TimesIn(Keys(p), x) = Cardinality(Seen(l, x, k))
    BY <1>2, <1>3, <1>5, <1>7
  <2>4. p # <<>> <=> Spaced(l, k)
    BY <1>2, <1>4, <1>7
  <2>. HIDE DEF k, p
  <2>5. t \in Cuts /\ t.pieces = p /\ t.rest = c
    BY <1>2, <2>1, <2>2 DEF Cuts
  <2>. HIDE DEF t, c
  <2>6. CutUpTo(l, k, t)
    BY <1>2, <2>2, <2>3, <2>4, <2>5 DEF CutUpTo
  <2>. QED  BY <2>6 DEF k, t, c
<1>. QED  BY <1>6, <1>7

\* The words found by cutting a line are the keywords in it.
LEMMA LineCut ==
    ASSUME NEW l \in Line
    PROVE  /\ Keywords(l) \in Seq(Word) /\ docV(l) \in Word
           /\ \A x \in Word : TimesIn(Keywords(l), x) = Cardinality(InLine(l, x))
           /\ Keywords(l) # <<>> => docV(l) = Document(l)
<1>. DEFINE N == Len(l)
            start == [pieces |-> <<>>, rest |-> Empty]
            body(g) == [i \in 0 .. N |-> IF i = 0 THEN start ELSE Cut(g[i-1], l[i])]
            cut == CHOOSE g : g = body(g)
            step == [p \in (1 .. N) \X Cuts |-> Cut(p[2], l[p[1]])]
<1>1. N \in Nat /\ \A i \in 1 .. N : l[i] \in Term \cup {Space}
  BY LenProperties DEF Line
<1>2. CutLine(l) = cut[N]
  BY DEF CutLine
<1>. HIDE DEF N
<1>3. ASSUME NEW i \in 1 .. N, NEW s \in Cuts
      PROVE  Cut(s, l[i]) \in Cuts /\ step[<<i, s>>] = Cut(s, l[i])
  <2>1. s.pieces \in Seq(Word) /\ s.rest \in Word /\ s = [pieces |-> s.pieces, rest |-> s.rest]
    BY DEF Cuts
  <2>2. CASE l[i] = Space
    <3>1. Append(s.pieces, s.rest) \in Seq(Word) /\ Empty \in Word
      BY <2>1, AppendProperties DEF Word
    <3>2. Cut(s, l[i]) \in Cuts
      BY <2>2, <3>1 DEF Cut, Cuts
    <3>. QED  BY <3>2
  <2>3. CASE l[i] # Space
    <3>1. l[i] \in Word
      BY <1>1, <2>3 DEF Word
    <3>2. Cut(s, l[i]) \in Cuts
      BY <2>1, <2>3, <3>1 DEF Cut, Cuts
    <3>. QED  BY <3>2
  <2>. QED  BY <2>2, <2>3
<1>4. step \in [(1 .. N) \X Cuts -> Cuts]
  <2>1. \A p \in (1 .. N) \X Cuts : Cut(p[2], l[p[1]]) \in Cuts
    <3>. TAKE p \in (1 .. N) \X Cuts
    <3>1. p[1] \in 1 .. N /\ p[2] \in Cuts
      OBVIOUS
    <3>. QED  BY <1>3, <3>1
  <2>. QED  BY <2>1
<1>5. start \in Cuts
  BY EmptySeq DEF Cuts, Word
<1>. HIDE DEF step, start
<1>6. PICK g \in [0 .. N -> Cuts] : g[0] = start /\ \A i \in 1 .. N : g[i] = step[<<i, g[i-1]>>]
  <2>1. N \in Nat /\ step \in Steps(Cuts, N)
    BY <1>1, <1>4 DEF Steps
  <2>2. \E g \in [0 .. N -> Cuts] : LedBy(step, N, start, g)
    BY <1>5, <2>1, Recursion
  <2>. QED  BY <2>2 DEF LedBy
<1>7. \A i \in 1 .. N : g[i] = Cut(g[i-1], l[i])
  <2>. TAKE i \in 1 .. N
  <2>1. i - 1 \in 0 .. N
    BY <1>1
  <2>2. g[i-1] \in Cuts
    BY <2>1
  <2>3. g[i] = step[<<i, g[i-1]>>]
    BY <1>6
  <2>4. step[<<i, g[i-1]>>] = Cut(g[i-1], l[i])
    BY <1>3, <2>2
  <2>. QED  BY Zenon, <2>3, <2>4
<1>8. g = body(g)
  BY <1>1, <1>6, <1>7
<1>9. cut = body(cut)
  BY <1>8
<1>. HIDE DEF cut
<1>10. cut[0] = start /\ \A i \in 1 .. N : cut[i] = Cut(cut[i-1], l[i])
  <2>1. 0 \in 0 .. N /\ \A i \in 1 .. N : i \in 0 .. N /\ i # 0
    BY <1>1
  <2>. QED  BY <1>9, <2>1
<1>. DEFINE Good == {i \in Nat : CutUpTo(l, i, cut[i])}
<1>11. 0 \in Good
  <2>1. Keys(<<>>) = <<>> /\ \A x : TimesIn(<<>>, x) = 0
    BY EmptySeq, CountedNext DEF Keys, TimesIn
  <2>2. Left(l, 0) = Empty /\ ~Spaced(l, 0)
    BY DEF Left, Spaced
  <2>3. ASSUME NEW x \in Word PROVE Cardinality(Seen(l, x, 0)) = 0
    <3>1. Seen(l, x, 0) = {}
      BY LenProperties DEF Seen, InLine, Line
    <3>. QED  BY <3>1, FS_EmptySet
  <2>4. start.pieces = <<>> /\ start.rest = Empty
    BY DEF start
  <2>5. CutUpTo(l, 0, start)
    BY <1>5, <2>1, <2>2, <2>3, <2>4 DEF CutUpTo
  <2>. QED  BY <1>10, <2>5
<1>12. ASSUME NEW i \in 0 .. N - 1, i \in Good PROVE i + 1 \in Good
  <2>1. i + 1 \in 1 .. N /\ (i + 1) - 1 = i /\ i + 1 \in Nat
    BY <1>1
  <2>2. i \in 0 .. Len(l) - 1 /\ CutUpTo(l, i, cut[i])
    BY <1>12 DEF N
  <2>3. CutUpTo(l, i + 1, Cut(cut[i], l[i + 1]))
    BY <2>2, CutNext
  <2>4. cut[i + 1] = Cut(cut[i], l[i + 1])
    <3>. DEFINE k == i + 1
    <3>1. k \in 1 .. N /\ k - 1 = i
      BY <2>1
    <3>. HIDE DEF k
    <3>2. cut[k] = Cut(cut[k-1], l[k])
      BY Zenon, <1>10, <3>1
    <3>3. cut[k] = Cut(cut[i], l[k])
      BY Zenon, <3>1, <3>2
    <3>. QED  BY Zenon, <3>3 DEF k
  <2>. QED  BY <2>1, <2>3, <2>4
<1>. HIDE DEF Good
<1>13. N \in Good
  <2>1. N \in 0 .. N
    BY <1>1
  <2>. QED  BY <1>1, <1>11, <1>12, <2>1, UpTo
<1>. DEFINE s == CutLine(l)
            p == s.pieces
<1>14. CutUpTo(l, N, s)
  BY Zenon, <1>2, <1>13 DEF Good
<1>15. Keywords(l) = Keys(p)
  BY DEF Keywords, Keys
<1>16. docV(l) = IF p = <<>> THEN s.rest ELSE p[1]
  BY DEF docV
<1>. HIDE DEF s
<1>17. p \in Seq(Word) /\ s.rest \in Word
  BY <1>14 DEF CutUpTo, Cuts
<1>18. Keys(p) \in Seq(Word)
  BY <1>17, HeadTailProperties, EmptySeq DEF Keys
<1>19. docV(l) \in Word
  <2>1. CASE p = <<>>
    BY <1>16, <1>17, <2>1
  <2>2. CASE p # <<>>
    <3>1. Len(p) \in Nat \ {0}
      BY <1>17, <2>2, EmptySeq
    <3>2. 1 \in 1 .. Len(p)
      BY <3>1
    <3>3. p[1] \in Word
      BY <1>17, <3>2, ElementOfSeq
    <3>. QED  BY <1>16, <2>2, <3>3
  <2>. QED  BY <2>1, <2>2
<1>20. ASSUME NEW x \in Word PROVE TimesIn(Keys(p), x) = Cardinality(InLine(l, x))
  <2>1. Seen(l, x, N) = InLine(l, x)
    BY LenProperties DEF Seen, InLine, Line, N
  <2>2. TimesIn(Keys(p), x) = Cardinality(Seen(l, x, N))
    BY <1>14 DEF CutUpTo
  <2>. QED  BY <2>1, <2>2
<1>21. Keys(p) # <<>> => docV(l) = Document(l)
  BY <1>14, <1>16 DEF CutUpTo, Keys
<1>. QED  BY <1>15, <1>18, <1>19, <1>20, <1>21

\* What a line appends, in terms of the line.
LineDocs(l, x) == [j \in 1 .. Cardinality(InLine(l, x)) |-> Document(l)]

\* A line appends its document once for each place where the word is a keyword.
LEMMA LineRead ==
    ASSUME NEW t \in Index, NEW l \in Line
    PROVE  /\ PostLine(t, l) \in Index
           /\ \A x \in Word : /\ LineDocs(l, x) \in Seq(Word)
                              /\ Look(PostLine(t, l), x) = Look(t, x) \o LineDocs(l, x)
<1>. DEFINE K == Keywords(l)
            d == docV(l)
<1>1. K \in Seq(Word) /\ d \in Word /\ (K # <<>> => d = Document(l))
  BY LineCut
<1>2. /\ PostLine(t, l) \in Index
      /\ \A x \in Word : Look(PostLine(t, l), x) = Look(t, x) \o Repeated(d, TimesIn(K, x))
  <2>1. LineAppends(t, l)
    BY <1>1, LinePosted
  <2>. QED  BY Zenon, <2>1 DEF LineAppends
<1>3. ASSUME NEW x \in Word
      PROVE  LineDocs(l, x) \in Seq(Word) /\ Repeated(d, TimesIn(K, x)) = LineDocs(l, x)
  <2>. DEFINE n == TimesIn(K, x)
  <2>1. n = Cardinality(InLine(l, x))
    BY LineCut
  <2>2. n \in Nat /\ (K = <<>> => n = 0)
    <3>1. Len(K) \in Nat /\ (K = <<>> => Len(K) = 0)
      BY <1>1, EmptySeq, LenProperties
    <3>. HIDE DEF K
    <3>2. CountOf(K, x, Len(K)) \in Nat /\ CountOf(K, x, 0) = 0
      BY <3>1, CountedNext
    <3>. QED  BY <3>1, <3>2 DEF TimesIn
  <2>. HIDE DEF K, d
  <2>3. LineDocs(l, x) = [j \in 1 .. n |-> Document(l)]
    BY <2>1 DEF LineDocs
  <2>. HIDE DEF n
  <2>4. CASE K = <<>>
    <3>1. n = 0
      BY <2>2, <2>4
    <3>2. [j \in 1 .. n |-> Document(l)] = <<>> /\ Repeated(d, n) = <<>> /\ <<>> \in Seq(Word)
      BY <3>1 DEF Repeated
    <3>. QED  BY <2>3, <3>2 DEF n
  <2>5. CASE K # <<>>
    <3>1. Repeated(d, n) = LineDocs(l, x)
      <4>1. d = Document(l)
        BY <1>1, <2>5
      <4>. QED  BY Zenon, <2>3, <4>1 DEF Repeated
    <3>2. Repeated(d, n) \in Seq(Word)
      <4>1. d \in Word /\ n \in Nat
        BY <1>1, <2>2
      <4>. QED  BY <4>1, OnceMore
    <3>. QED  BY <3>1, <3>2 DEF n
  <2>. QED  BY <2>4, <2>5 DEF n
<1>. QED  BY Zenon, <1>2, <1>3

\* A file appends, to the list of each word, what Postings finds for it.
FileAppends(t, f) ==
    /\ makeItable(t, f) \in Index
    /\ \A x \in Word : /\ Postings(f, x) \in Seq(Word)
                       /\ Look(makeItable(t, f), x) = Look(t, x) \o Postings(f, x)

\* Joining is associative.
JoinedAlready(x, y, z) == (x \o y) \o z = x \o (y \o z)

LEMMA Reassociated ==
    ASSUME NEW S, NEW x \in Seq(S), NEW y \in Seq(S), NEW z \in Seq(S)
    PROVE  JoinedAlready(x, y, z)
BY ConcatAssociative DEF JoinedAlready

LEMMA FileRead ==
    ASSUME NEW t \in Index, NEW f \in Seq(Line)
    PROVE  FileAppends(t, f)
<1>. DEFINE N == Len(f)
            body(g) == [n \in 0 .. N |-> IF n = 0 THEN t ELSE PostLine(g[n-1], f[n])]
            table == CHOOSE g : g = body(g)
            step == [p \in (1 .. N) \X Index |-> PostLine(p[2], f[p[1]])]
<1>1. N \in Nat /\ DOMAIN f = 1 .. N /\ \A n \in 1 .. N : f[n] \in Line
  BY LenProperties
<1>2. makeItable(t, f) = table[N]
  BY DEF makeItable
<1>. HIDE DEF N
<1>3. ASSUME NEW n \in 1 .. N, NEW u \in Index
      PROVE  PostLine(u, f[n]) \in Index /\ step[<<n, u>>] = PostLine(u, f[n])
  <2>1. PostLine(u, f[n]) \in Index
    BY <1>1, LineRead
  <2>2. <<n, u>> \in (1 .. N) \X Index /\ <<n, u>>[1] = n /\ <<n, u>>[2] = u
    OBVIOUS
  <2>. QED  BY <2>1, <2>2
<1>4. step \in [(1 .. N) \X Index -> Index]
  <2>1. \A p \in (1 .. N) \X Index : PostLine(p[2], f[p[1]]) \in Index
    <3>. TAKE p \in (1 .. N) \X Index
    <3>1. p[1] \in 1 .. N /\ p[2] \in Index
      OBVIOUS
    <3>. QED  BY <1>3, <3>1
  <2>. QED  BY <2>1
<1>. HIDE DEF step
<1>5. PICK g \in [0 .. N -> Index] : g[0] = t /\ \A n \in 1 .. N : g[n] = step[<<n, g[n-1]>>]
  <2>1. N \in Nat /\ step \in Steps(Index, N)
    BY <1>1, <1>4 DEF Steps
  <2>2. \E g \in [0 .. N -> Index] : LedBy(step, N, t, g)
    BY <2>1, Recursion
  <2>. QED  BY <2>2 DEF LedBy
<1>6. \A n \in 1 .. N : g[n] = PostLine(g[n-1], f[n])
  <2>. TAKE n \in 1 .. N
  <2>1. n - 1 \in 0 .. N
    BY <1>1
  <2>2. g[n-1] \in Index
    BY <2>1
  <2>3. g[n] = step[<<n, g[n-1]>>]
    BY <1>5
  <2>4. step[<<n, g[n-1]>>] = PostLine(g[n-1], f[n])
    BY <1>3, <2>2
  <2>. QED  BY Zenon, <2>3, <2>4
<1>7. g = body(g)
  BY <1>1, <1>5, <1>6
<1>8. table = body(table)
  BY <1>7
<1>. HIDE DEF table
<1>9. table[0] = t /\ \A n \in 1 .. N : table[n] = PostLine(table[n-1], f[n])
  <2>1. 0 \in 0 .. N /\ \A n \in 1 .. N : n \in 0 .. N /\ n # 0
    BY <1>1
  <2>. QED  BY <1>8, <2>1
<1>. DEFINE Stored == {n \in Nat : table[n] \in Index}
<1>10. 0 \in Stored
  BY <1>9
<1>11. ASSUME NEW n \in 0 .. N - 1, table[n] \in Index
       PROVE  /\ n + 1 \in 1 .. N /\ n + 1 \in Nat
              /\ table[n + 1] \in Index
              /\ \A x \in Word : /\ LineDocs(f[n + 1], x) \in Seq(Word)
                                 /\ Look(table[n + 1], x) = Look(table[n], x) \o LineDocs(f[n + 1], x)
  <2>. DEFINE k == n + 1
              u == table[n]
  <2>1. k \in 1 .. N /\ k - 1 = n /\ k \in Nat
    BY <1>1
  <2>. HIDE DEF k
  <2>2. table[k] = PostLine(table[k-1], f[k])
    BY Zenon, <1>9, <2>1
  <2>3. f[k] \in Line /\ u \in Index
    BY <1>1, <1>11, <2>1
  <2>4. table[k] = PostLine(u, f[k])
    BY Zenon, <2>1, <2>2
  <2>. HIDE DEF u
  <2>5. /\ PostLine(u, f[k]) \in Index
        /\ \A x \in Word : /\ LineDocs(f[k], x) \in Seq(Word)
                           /\ Look(PostLine(u, f[k]), x) = Look(u, x) \o LineDocs(f[k], x)
    BY Zenon, <2>3, LineRead
  <2>. QED  BY Zenon, <2>1, <2>4, <2>5 DEF k, u
<1>12. \A n \in 0 .. N : n \in Stored
  <2>1. ASSUME NEW n \in 0 .. N - 1, n \in Stored PROVE n + 1 \in Stored
    BY <1>11, <2>1
  <2>. HIDE DEF Stored
  <2>. QED  BY <1>1, <1>10, <2>1, UpTo
<1>13. ASSUME NEW x \in Word
       PROVE  /\ Postings(f, x) \in Seq(Word)
              /\ Look(table[N], x) = Look(t, x) \o Postings(f, x)
  <2>. DEFINE docs(n) == LineDocs(f[n], x)
              ss == [n \in 1 .. N |-> docs(n)]
              a == Look(t, x)
  <2>1. Postings(f, x) = FlattenSeq(ss)
    BY <1>1 DEF Postings, LineDocs
  <2>2. \A n \in 1 .. N : docs(n) \in Seq(Word)
    BY <1>1, LineRead
  <2>. HIDE DEF docs
  <2>3. ss \in [1 .. N -> Seq(Word)]
    BY <2>2
  <2>4. ASSUME NEW m \in Nat, NEW T, NEW h \in [1 .. m -> T] PROVE h \in Seq(T) /\ Len(h) = m
    OBVIOUS
  <2>5. ss \in Seq(Seq(Word)) /\ Len(ss) = N /\ \A n \in 1 .. N : ss[n] = docs(n)
    BY <1>1, <2>3, <2>4
  <2>. HIDE DEF ss
  <2>6. PICK p \in [0 .. N -> Seq(Word)] :
              /\ p[0] = <<>>
              /\ \A n \in 1 .. N : p[n] = p[n-1] \o docs(n)
              /\ FlattenSeq(ss) = p[N]
    <3>1. \E p \in [0 .. N -> Seq(Word)] :
              /\ p[0] = <<>>
              /\ \A n \in 1 .. N : p[n] = p[n-1] \o ss[n]
              /\ FlattenSeq(ss) = p[N]
      BY <2>5, JoinedUpTo
    <3>. QED  BY Zenon, <2>5, <3>1
  <2>7. a \in Seq(Word)
    BY Looked
  <2>. HIDE DEF a
  <2>. DEFINE Good == {n \in Nat : Look(table[n], x) = a \o p[n]}
  <2>8. 0 \in Good
    <3>1. a \o <<>> = a
      BY <2>7, ConcatEmptySeq
    <3>2. Look(table[0], x) = a \o p[0]
      BY Zenon, <1>9, <2>6, <3>1 DEF a
    <3>. QED  BY <3>2
  <2>9. ASSUME NEW n \in 0 .. N - 1, n \in Good PROVE n + 1 \in Good
    <3>. DEFINE k == n + 1
                y == p[n]
                z == docs(k)
    <3>1. n \in 0 .. N /\ k \in 1 .. N /\ k \in Nat /\ k - 1 = n
      BY <1>1
    <3>2. table[n] \in Index
      BY <1>12, <3>1
    <3>3. Look(table[k], x) = Look(table[n], x) \o z
      BY Zenon, <1>11, <3>2 DEF docs
    <3>4. Look(table[n], x) = a \o y
      BY <2>9
    <3>. HIDE DEF k
    <3>5. p[k] = p[k-1] \o z
      BY Zenon, <2>6, <3>1
    <3>6. y \in Seq(Word) /\ z \in Seq(Word)
      BY <2>2, <2>6, <3>1
    <3>7. JoinedAlready(a, y, z)
      <4>. HIDE DEF y, z
      <4>. QED  BY <2>7, <3>6, Reassociated
    <3>8. Look(table[k], x) = a \o p[k]
      BY Zenon, <3>1, <3>3, <3>4, <3>5, <3>7 DEF JoinedAlready
    <3>9. k \in Good
      BY Zenon, <3>1, <3>8
    <3>. QED  BY <3>9 DEF k
  <2>. HIDE DEF Good
  <2>10. N \in Good
    <3>1. N \in 0 .. N
      BY <1>1
    <3>. QED  BY <1>1, <2>8, <2>9, <3>1, UpTo
  <2>11. N \in 0 .. N
    BY <1>1
  <2>12. p[N] \in Seq(Word)
    BY <2>11
  <2>13. Look(table[N], x) = a \o p[N]
    BY Zenon, <2>10 DEF Good
  <2>. QED  BY Zenon, <2>1, <2>6, <2>12, <2>13 DEF a
<1>14. table[N] \in Index
  <2>1. N \in 0 .. N
    BY <1>1
  <2>. QED  BY <1>12, <2>1
<1>. QED  BY Zenon, <1>2, <1>13, <1>14 DEF FileAppends

-----------------------------------------------------------------------------
(* The index of all files read.                                            *)

\* What the index and the files read have in common.
IndexInv ==
    /\ iTable \in Index
    /\ tabled \in Seq(File)
    /\ IndexIsInverted

\* What FileAssumption says of the files.
LEMMA FilesHaveLines == File \subseteq Seq(Line)
<1>. SUFFICES ASSUME NEW f \in File PROVE f \in Seq(Line)
  OBVIOUS
<1>1. /\ f \in Seq(Seq(Term \cup {Space}))
      /\ \A n \in DOMAIN f : \A i \in 2 .. Len(f[n]) : Space \in {f[n][i-1], f[n][i]}
  BY FileAssumption
<1>2. Len(f) \in Nat /\ DOMAIN f = 1 .. Len(f) /\ f \in [1 .. Len(f) -> Seq(Term \cup {Space})]
  BY <1>1, LenProperties
<1>3. \A n \in 1 .. Len(f) : f[n] \in Line
  BY <1>1, <1>2 DEF Line
<1>4. f \in [1 .. Len(f) -> Line]
  BY <1>2, <1>3
<1>. QED  BY <1>2, <1>4

\* Reading a file adds what is found in it, for each keyword.
LEMMA TableKeeps ==
    ASSUME IndexInv, NEW f \in File, Table(f)
    PROVE  IndexInv'
<1>1. iTable \in Index /\ tabled \in Seq(File) /\ f \in Seq(Line)
  BY FilesHaveLines DEF IndexInv
<1>2. FileAppends(iTable, f)
  BY <1>1, FileRead
<1>3. iTable' = makeItable(iTable, f) /\ tabled' = Append(tabled, f)
  BY DEF Table
<1>4. iTable' \in Index
  BY <1>2, <1>3 DEF FileAppends
<1>5. tabled' \in Seq(File)
  BY <1>1, <1>3, AppendProperties
<1>6. ASSUME NEW k \in Word
      PROVE  FlattenSeq([i \in DOMAIN tabled' |-> Postings(tabled'[i], k)]) = Look(iTable', k)
  <2>. DEFINE N == Len(tabled)
              post(g) == Postings(g, k)
              ss == [i \in DOMAIN tabled |-> post(tabled[i])]
              tt == [i \in DOMAIN tabled' |-> post(tabled'[i])]
              s == post(f)
  <2>1. /\ N \in Nat /\ DOMAIN tabled = 1 .. N /\ \A i \in 1 .. N : tabled[i] \in File
        /\ DOMAIN tabled' = 1 .. N + 1
        /\ \A i \in 1 .. N : tabled'[i] = tabled[i]
        /\ tabled'[N + 1] = f
    BY <1>1, <1>3, AppendProperties, LenProperties
  <2>2. \A g \in File : post(g) \in Seq(Word)
    <3>. TAKE g \in File
    <3>1. g \in Seq(Line)
      BY FilesHaveLines
    <3>2. FileAppends(iTable, g)
      BY <1>1, <3>1, FileRead
    <3>. QED  BY <3>2 DEF FileAppends
  <2>3. FlattenSeq(ss) = Look(iTable, k)
    BY DEF IndexInv, IndexIsInverted, Look, Word
  <2>4. Look(iTable', k) = Look(iTable, k) \o s
    BY <1>2, <1>3 DEF FileAppends
  <2>. HIDE DEF post, N
  <2>5. ss \in [1 .. N -> Seq(Word)] /\ tt \in [1 .. N + 1 -> Seq(Word)]
        /\ (\A i \in 1 .. N : ss[i] = tt[i]) /\ tt[N + 1] = s /\ s \in Seq(Word)
    BY <2>1, <2>2
  <2>. HIDE DEF ss, tt, s
  <2>6. ASSUME NEW m \in Nat, NEW T, NEW h \in [1 .. m -> T] PROVE h \in Seq(T) /\ Len(h) = m
    OBVIOUS
  <2>7. N + 1 \in Nat
    BY <2>1
  <2>8. /\ ss \in Seq(Seq(Word)) /\ Len(ss) = N
        /\ tt \in Seq(Seq(Word)) /\ Len(tt) = N + 1
    BY <2>1, <2>5, <2>6, <2>7
  <2>9. tt = Append(ss, s)
    <3>1. /\ Append(ss, s) \in Seq(Seq(Word)) /\ Len(Append(ss, s)) = N + 1
          /\ \A i \in 1 .. N : Append(ss, s)[i] = ss[i]
          /\ Append(ss, s)[N + 1] = s
      BY <2>5, <2>8, AppendProperties
    <3>2. \A i \in 1 .. N + 1 : tt[i] = Append(ss, s)[i]
      BY <2>1, <2>5, <3>1
    <3>. QED  BY <2>8, <3>1, <3>2, SeqEqual
  <2>10. FlattenSeq(Append(ss, s)) = FlattenSeq(ss) \o s
    BY <2>5, <2>8, JoinedBehind
  <2>11. FlattenSeq(tt) = Look(iTable', k)
    BY Zenon, <2>3, <2>4, <2>9, <2>10
  <2>. QED  BY <2>11 DEF tt, post
<1>7. IndexIsInverted'
  BY <1>6 DEF IndexIsInverted, Look, Word
<1>. QED  BY <1>4, <1>5, <1>7 DEF IndexInv

\* The index is the inversion of the files read, for every vocabulary, every file and
\* every number of commands (makeItable, ProcessCommand).
THEOREM IndexInverted == IndexSpec => []IndexIsInverted
<1>1. IndexInit => IndexInv
  <2>. SUFFICES ASSUME IndexInit PROVE IndexInv
    OBVIOUS
  <2>1. iTable = [k \in {} |-> <<>>] /\ tabled = <<>>
    BY DEF IndexInit
  <2>2. iTable \in [{} -> Seq(Word)] /\ {} \in SUBSET Word
    BY <2>1
  <2>3. iTable \in Index
    BY <2>2 DEF Index
  <2>4. tabled \in Seq(File)
    BY <2>1, EmptySeq
  <2>5. ASSUME NEW k PROVE [i \in DOMAIN tabled |-> Postings(tabled[i], k)] = <<>>
    BY <2>1
  <2>6. FlattenSeq(<<>>) = <<>>
    BY DEF FlattenSeq
  <2>7. IndexIsInverted
    BY <2>1, <2>5, <2>6 DEF IndexIsInverted
  <2>. QED  BY <2>3, <2>4, <2>7 DEF IndexInv
<1>2. IndexInv /\ [IndexNext]_indexVars => IndexInv'
  <2>. SUFFICES ASSUME IndexInv, [IndexNext]_indexVars PROVE IndexInv'
    OBVIOUS
  <2>1. ASSUME NEW f \in File, Table(f) PROVE IndexInv'
    BY <2>1, TableKeeps
  <2>2. CASE UNCHANGED indexVars
    BY <2>2 DEF IndexInv, IndexIsInverted, indexVars
  <2>. QED  BY <2>1, <2>2 DEF IndexNext
<1>3. IndexInv => IndexIsInverted
  BY DEF IndexInv
<1>. QED  BY <1>1, <1>2, <1>3, PTL DEF IndexSpec

=============================================================================
