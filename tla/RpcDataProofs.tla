---------------------------- MODULE RpcDataProofs ----------------------------
(***************************************************************************)
(* Proofs about the sequential parts of the RPC library: the list of xids  *)
(* (XidWindow), the buffer of a call (Marshall) and its clock (Deadline).  *)
(***************************************************************************)
EXTENDS XidWindow, Marshall, Deadline, Recursion, TLAPS

-----------------------------------------------------------------------------
(* Marshall: Inside and CallArrives, for every radix, every first size of  *)
(* the buffer that holds a header, and arguments of every number and       *)
(* length whose bytes an int can count.                                    *)
(*                                                                         *)
(* The argument is algebraic.  Coded(s) is the bytes of a list of values   *)
(* and Flatten(s) the list with its vectors taken apart; both turn a       *)
(* concatenation into a concatenation.  One << appends the bytes of one    *)
(* value to the buffer (WriteStep), one >> takes them from the front of    *)
(* what is left (ReadStep), and a header packed in front leaves both alone *)
(* (ReqSent, ReplySent).  So the invariant MIInv says, of each place in a  *)
(* call, that what was written and what is still to be written are         *)
(* together the list (Writes), and so for reading (Reads).  With a type    *)
(* list that ends before or after the arguments do, bytes are left over or *)
(* a read fails, and okdone tells (ReadsEnds, ReadsBeyond).                *)

\* A marshall object in order.
Fits(x) ==
  /\ x = [buf |-> x.buf, capa |-> x.capa, ind |-> x.ind]
  /\ x.capa \in Nat /\ x.ind \in Nat /\ x.ind <= x.capa
  /\ RPC_HEADER_SZ <= x.capa
  /\ DOMAIN x.buf = 1 .. x.capa

-----------------------------------------------------------------------------
(* Bytes.                                                                  *)

\* What % and \div have to do with each other.
LEMMA ShiftedMask ==
  ASSUME NEW i \in Nat
  PROVE  /\ Shifted(i) \in Nat /\ Mask(i) \in Byte
         /\ i = Shifted(i) * Radix + Mask(i)
  BY RadixAssumption DEF Shifted, Mask, Byte

\* The number of ints.
LEMMA WordType == Word \in Nat /\ Word > 0
<1>1. Radix * Radix \in Nat /\ Radix * Radix > 0
  BY RadixAssumption
<1>2. Radix * Radix * Radix \in Nat /\ Radix * Radix * Radix > 0
  BY <1>1, RadixAssumption
<1> QED BY <1>2, RadixAssumption DEF Word

\* A multiple of Radix does not change the lowest byte.
LEMMA MaskAdd ==
  ASSUME NEW q \in Nat, NEW c \in Byte
  PROVE  Mask(q * Radix + c) = c
  BY RadixAssumption DEF Mask, Byte

\* A char extended to an unsigned int has the same lowest byte.
LEMMA MaskSignExtended ==
  ASSUME NEW c \in Byte
  PROVE  Mask(SignExtended(c)) = c
<1>1. PICK q : q = Radix * Radix * Radix - 1
  OBVIOUS
<1>2. Radix * Radix \in Nat /\ Radix * Radix > 0
  BY RadixAssumption
<1>3. Radix * Radix * Radix \in Nat /\ Radix * Radix * Radix > 0
  BY RadixAssumption, <1>2
<1>4. q \in Nat
  BY <1>1, <1>3
<1>5. c + Word - Radix = q * Radix + c
  BY RadixAssumption, <1>1 DEF Word, Byte
<1>6. Mask(c + Word - Radix) = c
  BY <1>4, <1>5, MaskAdd
<1>7. Mask(c) = c
  BY MaskAdd, RadixAssumption DEF Byte, Mask
<1> QED BY <1>6, <1>7 DEF SignExtended

\* The bytes of an int are bytes.
LEMMA BytesType ==
  ASSUME NEW i \in Nat
  PROVE  /\ Bytes(i) \in Seq(Byte) /\ Len(Bytes(i)) = 4
         /\ \A k \in 1 .. 4 : Bytes(i)[k] \in Byte
         /\ Bytes(i)[1] = Mask(Shifted(Shifted(Shifted(i)))) /\ Bytes(i)[2] = Mask(Shifted(Shifted(i)))
         /\ Bytes(i)[3] = Mask(Shifted(i)) /\ Bytes(i)[4] = Mask(i)
<1>1. Shifted(i) \in Nat /\ Shifted(Shifted(i)) \in Nat /\ Shifted(Shifted(Shifted(i))) \in Nat
  BY ShiftedMask
<1>2. /\ Mask(i) \in Byte /\ Mask(Shifted(i)) \in Byte /\ Mask(Shifted(Shifted(i))) \in Byte
      /\ Mask(Shifted(Shifted(Shifted(i)))) \in Byte
  BY <1>1, ShiftedMask
<1> QED BY <1>2 DEF Bytes

\* A number below c * Radix is below c once shifted.
LEMMA ShiftedBelow ==
  ASSUME NEW i \in Nat, NEW c \in Nat, i < c * Radix
  PROVE  Shifted(i) < c
  BY ShiftedMask, RadixAssumption DEF Byte, Shifted, Mask

\* A number below Radix is its own lowest byte.
LEMMA MaskSmall ==
  ASSUME NEW i \in Nat, i < Radix
  PROVE  Mask(i) = i
  BY RadixAssumption DEF Mask

\* The two bytes of a short, put together.
LEMMA ShortBack ==
  ASSUME NEW i \in Nat, i < Radix * Radix
  PROVE  Mask(Shifted(i)) * Radix + Mask(i) = i
<1>1. Shifted(i) \in Nat /\ Shifted(i) < Radix
  BY ShiftedMask, ShiftedBelow, RadixAssumption
<1>2. Mask(Shifted(i)) = Shifted(i)
  BY <1>1, MaskSmall
<1> QED BY <1>2, ShiftedMask

\* The four of an int.
LEMMA IntBack ==
  ASSUME NEW i \in UInt
  PROVE  (Bytes(i)[1] * Radix + Bytes(i)[2]) * Radix * Radix + (Bytes(i)[3] * Radix + Bytes(i)[4]) = i
<1>1. i \in Nat /\ i < Word
  BY WordType DEF UInt
<1>2. PICK j : j = Shifted(i)
  OBVIOUS
<1>3. PICK k : k = Shifted(j)
  OBVIOUS
<1>4. j \in Nat /\ k \in Nat /\ Radix * Radix \in Nat /\ Radix * Radix * Radix \in Nat
  BY <1>1, <1>2, <1>3, ShiftedMask, RadixAssumption
<1>5. j < Radix * Radix * Radix
  BY <1>1, <1>2, <1>4, ShiftedBelow DEF Word
<1>6. k < Radix * Radix
  BY <1>3, <1>4, <1>5, ShiftedBelow
<1>7. Mask(Shifted(k)) * Radix + Mask(k) = k
  BY <1>4, <1>6, ShortBack
<1>8. j = k * Radix + Mask(j) /\ i = j * Radix + Mask(i)
  BY <1>1, <1>2, <1>3, <1>4, ShiftedMask
<1>9. Mask(j) \in Nat /\ Mask(i) \in Nat
  BY <1>1, <1>4, ShiftedMask DEF Byte
<1>10. i = k * Radix * Radix + (Mask(j) * Radix + Mask(i))
  BY <1>1, <1>4, <1>8, <1>9, RadixAssumption
<1>11. /\ Bytes(i)[1] = Mask(Shifted(k)) /\ Bytes(i)[2] = Mask(k)
       /\ Bytes(i)[3] = Mask(j) /\ Bytes(i)[4] = Mask(i)
  BY <1>1, <1>2, <1>3, BytesType
<1> QED BY <1>7, <1>10, <1>11

-----------------------------------------------------------------------------
(* Writing.                                                                *)

\* y is x after s was written at its write position.
Wrote(x, y, s) ==
  /\ Fits(y) /\ y.capa >= x.capa /\ y.ind = x.ind + Len(s)
  /\ \A i \in 1 .. Len(s) : y.buf[x.ind + i] = s[i]
  /\ \A i \in 1 .. x.capa : i <= x.ind \/ i > x.ind + Len(s) => y.buf[i] = x.buf[i]

\* Copying bytes that fit, into a buffer grown or not.
LEMMA PutWrote ==
  ASSUME NEW x, Fits(x), NEW c \in Nat, c >= x.capa, NEW y \in {x, realloc(x, c)}, y.capa = c,
         NEW s, Len(s) \in Nat, x.ind + Len(s) <= c
  PROVE  Wrote(x, Put(y, s), s)
<1>1. /\ Fits(y) /\ y.capa = c /\ y.ind = x.ind
      /\ \A i \in 1 .. x.capa : y.buf[i] = x.buf[i]
  <2>1. CASE y = x
    BY <2>1
  <2>2. CASE y = realloc(x, c)
    BY <2>2 DEF Fits, realloc, RPC_HEADER_SZ
  <2> QED BY <2>1, <2>2
<1>2. PICK z : z = Put(y, s)
  OBVIOUS
<1>3. Fits(z) /\ z.capa = c /\ z.ind = x.ind + Len(s)
  BY <1>1, <1>2 DEF Fits, Put, RPC_HEADER_SZ
<1>4. \A i \in 1 .. c : z.buf[i] = IF x.ind < i /\ i <= x.ind + Len(s) THEN s[i - x.ind] ELSE y.buf[i]
  BY <1>1, <1>2 DEF Fits, Put
<1>5. x.ind \in Nat /\ x.capa \in Nat
  BY DEF Fits
<1>6. ASSUME NEW i \in 1 .. Len(s) PROVE z.buf[x.ind + i] = s[i]
  <2>1. PICK k : k = x.ind + i
    OBVIOUS
  <2>2. k \in 1 .. c /\ k - x.ind = i /\ x.ind < k /\ k <= x.ind + Len(s)
    BY <1>5, <2>1
  <2>3. z.buf[k] = s[k - x.ind]
    BY <1>4, <2>2
  <2> QED BY <2>1, <2>2, <2>3
<1>7. ASSUME NEW i \in 1 .. x.capa, i <= x.ind \/ i > x.ind + Len(s) PROVE z.buf[i] = x.buf[i]
  BY <1>1, <1>4, <1>5, <1>7
<1> QED BY <1>2, <1>3, <1>5, <1>6, <1>7 DEF Wrote

\* marshall::rawbyte.
LEMMA RawbyteWrote ==
  ASSUME NEW x, Fits(x), NEW b
  PROVE  Wrote(x, rawbyte(x, b), <<b>>)
<1>1. Len(<<b>>) = 1 /\ x.capa \in Nat /\ x.ind \in Nat /\ x.ind <= x.capa /\ x.capa >= 24
  BY DEF Fits, RPC_HEADER_SZ
<1>2. CASE x.ind >= x.capa
  <2>1. 2 * x.capa \in Nat /\ 2 * x.capa >= x.capa /\ x.ind + 1 <= 2 * x.capa
    BY <1>1
  <2>2. realloc(x, 2 * x.capa).capa = 2 * x.capa
    BY DEF realloc
  <2>3. Wrote(x, Put(realloc(x, 2 * x.capa), <<b>>), <<b>>)
    BY <1>1, <2>1, <2>2, PutWrote
  <2> QED BY <1>2, <2>3 DEF rawbyte
<1>3. CASE ~(x.ind >= x.capa)
  <2>1. x.ind + 1 <= x.capa
    BY <1>1, <1>3
  <2>2. PICK c : c = x.capa
    OBVIOUS
  <2>3. c \in Nat /\ c >= x.capa /\ x.ind + Len(<<b>>) <= c /\ x \in {x, realloc(x, c)}
    BY <1>1, <2>1, <2>2
  <2>4. Wrote(x, Put(x, <<b>>), <<b>>)
    BY <1>1, <2>2, <2>3, PutWrote
  <2> QED BY <1>3, <2>4 DEF rawbyte
<1> QED BY <1>2, <1>3

\* marshall::rawbytes.
LEMMA RawbytesWrote ==
  ASSUME NEW x, Fits(x), NEW s, Len(s) \in Nat
  PROVE  Wrote(x, rawbytes(x, s), s)
<1>1. x.capa \in Nat /\ x.ind \in Nat /\ x.ind <= x.capa
  BY DEF Fits
<1>2. CASE x.ind + Len(s) > x.capa
  <2>1. /\ Grown(x, Len(s)) \in Nat /\ Grown(x, Len(s)) >= x.capa
        /\ x.ind + Len(s) <= Grown(x, Len(s))
    BY <1>1 DEF Grown
  <2>2. realloc(x, Grown(x, Len(s))).capa = Grown(x, Len(s))
    BY DEF realloc
  <2>3. Wrote(x, Put(realloc(x, Grown(x, Len(s))), s), s)
    BY <2>1, <2>2, PutWrote
  <2> QED BY <1>2, <2>3 DEF rawbytes
<1>3. CASE ~(x.ind + Len(s) > x.capa)
  <2>1. x.ind + Len(s) <= x.capa
    BY <1>1, <1>3
  <2>2. PICK c : c = x.capa
    OBVIOUS
  <2>3. c \in Nat /\ c >= x.capa /\ x.ind + Len(s) <= c /\ x \in {x, realloc(x, c)}
    BY <1>1, <2>1, <2>2
  <2>4. Wrote(x, Put(x, s), s)
    BY <2>2, <2>3, PutWrote
  <2> QED BY <1>3, <2>4 DEF rawbytes
<1> QED BY <1>2, <1>3

\* One write after another.
LEMMA WroteBoth ==
  ASSUME NEW x, Fits(x), NEW y, NEW z, NEW s \in Seq(Byte), NEW r \in Seq(Byte),
         Wrote(x, y, s), Wrote(y, z, r)
  PROVE  Wrote(x, z, s \o r)
<1>1. PICK w : w = s \o r
  OBVIOUS
<1>2. /\ Len(s) \in Nat /\ Len(r) \in Nat /\ Len(w) = Len(s) + Len(r)
      /\ \A i \in 1 .. Len(s) : w[i] = s[i]
      /\ \A i \in 1 .. Len(r) : w[Len(s) + i] = r[i]
  BY <1>1
<1>3. /\ x.ind \in Nat /\ x.capa \in Nat /\ y.capa \in Nat /\ z.capa \in Nat
      /\ y.capa >= x.capa /\ z.capa >= y.capa /\ y.ind = x.ind + Len(s)
      /\ z.ind = y.ind + Len(r) /\ y.ind <= y.capa /\ x.ind <= x.capa /\ Fits(z)
  BY DEF Wrote, Fits
<1>4. ASSUME NEW i \in 1 .. Len(w) PROVE z.buf[x.ind + i] = w[i]
  <2>1. CASE i <= Len(s)
    <3>1. i \in 1 .. Len(s) /\ x.ind + i \in 1 .. y.capa /\ x.ind + i <= y.ind
      BY <1>2, <1>3, <2>1
    <3> QED BY <1>2, <3>1 DEF Wrote
  <2>2. CASE i > Len(s)
    <3>1. PICK a, b, c, d, j : a = Len(s) /\ b = Len(r) /\ c = x.ind /\ d = y.ind /\ j = i - a
      OBVIOUS
    <3>2. a \in Nat /\ b \in Nat /\ c \in Nat /\ d = c + a /\ i \in 1 .. (a + b) /\ i > a
      BY <1>2, <1>3, <2>2, <3>1
    <3>3. j \in 1 .. b /\ i = a + j /\ c + i = d + j
      BY <3>1, <3>2
    <3>4. j \in 1 .. Len(r) /\ i = Len(s) + j /\ x.ind + i = y.ind + j
      BY <3>1, <3>3
    <3> QED BY <1>2, <3>4 DEF Wrote
  <2> QED BY <1>2, <2>1, <2>2
<1>5. ASSUME NEW i \in 1 .. x.capa, i <= x.ind \/ i > x.ind + Len(w) PROVE z.buf[i] = x.buf[i]
  <2>1. i \in 1 .. y.capa /\ (i <= y.ind \/ i > y.ind + Len(r)) /\ (i <= x.ind \/ i > x.ind + Len(s))
    BY <1>2, <1>3, <1>5
  <2> QED BY <2>1 DEF Wrote
<1>6. z.capa >= x.capa /\ z.ind = x.ind + Len(w)
  BY <1>2, <1>3
<1> QED BY <1>1, <1>3, <1>4, <1>5, <1>6 DEF Wrote

\* marshall::pack.
LEMMA PackWrote ==
  ASSUME NEW x, Fits(x), NEW i \in Nat
  PROVE  Wrote(x, pack(x, i), Bytes(i))
<1>1. PICK a : a = rawbyte(x, Bytes(i)[1])
  OBVIOUS
<1>2. PICK b : b = rawbyte(a, Bytes(i)[2])
  OBVIOUS
<1>3. PICK c : c = rawbyte(b, Bytes(i)[3])
  OBVIOUS
<1>4. PICK d : d = rawbyte(c, Bytes(i)[4])
  OBVIOUS
<1>5. PICK s : s = Bytes(i)
  OBVIOUS
<1>6. s \in Seq(Byte) /\ Len(s) = 4 /\ s[1] \in Byte /\ s[2] \in Byte /\ s[3] \in Byte /\ s[4] \in Byte
  BY <1>5, BytesType
<1>7. /\ <<s[1]>> \in Seq(Byte) /\ <<s[2]>> \in Seq(Byte) /\ <<s[3]>> \in Seq(Byte)
      /\ <<s[4]>> \in Seq(Byte) /\ <<s[1]>> \o <<s[2]>> \in Seq(Byte)
      /\ (<<s[1]>> \o <<s[2]>>) \o <<s[3]>> \in Seq(Byte)
  BY <1>6
<1>8. Wrote(x, a, <<s[1]>>)
  BY <1>1, <1>5, RawbyteWrote
<1>9. Wrote(a, b, <<s[2]>>)
  BY <1>2, <1>5, <1>8, RawbyteWrote DEF Wrote
<1>10. Wrote(b, c, <<s[3]>>)
  BY <1>3, <1>5, <1>9, RawbyteWrote DEF Wrote
<1>11. Wrote(c, d, <<s[4]>>)
  BY <1>4, <1>5, <1>10, RawbyteWrote DEF Wrote
<1>12. Wrote(x, b, <<s[1]>> \o <<s[2]>>)
  BY <1>7, <1>8, <1>9, WroteBoth
<1>13. Wrote(x, c, (<<s[1]>> \o <<s[2]>>) \o <<s[3]>>)
  BY <1>7, <1>10, <1>12, WroteBoth
<1>14. Wrote(x, d, ((<<s[1]>> \o <<s[2]>>) \o <<s[3]>>) \o <<s[4]>>)
  BY <1>7, <1>11, <1>13, WroteBoth
<1>15. ((<<s[1]>> \o <<s[2]>>) \o <<s[3]>>) \o <<s[4]>> = s
  BY <1>6
<1>16. d = pack(x, i)
  BY <1>1, <1>2, <1>3, <1>4 DEF pack
<1> QED BY <1>5, <1>14, <1>15, <1>16

\* The elements of vectors.
Ints == [t : {"int"}, v : UInt]

\* What is marshalled, one << at a time, and what is left of it in the bytes:
\* a vector's size does not differ from an int.
Prims == Values \cup Ints
Lead(a) == IF a.t = "vector" THEN Int32(Len(a.v)) ELSE a
Flats == {a \in Prims : a.t # "vector"}

\* The bytes of a value.
Encoded(a) ==
  CASE a.t = "byte" -> <<a.v>>
    [] a.t = "short" -> <<Mask(Shifted(a.v)), Mask(a.v)>>
    [] a.t = "int" -> Bytes(a.v)
    [] a.t = "long" -> Bytes(a.v[1]) \o Bytes(a.v[2])
    [] a.t = "string" -> Bytes(Len(a.v)) \o a.v

\* An int is not negative.
LEMMA UIntNat == UInt \subseteq Nat /\ \A i \in Nat : i \in UInt <=> i < Word
  BY WordType DEF UInt

\* A call with its header, or a result with its, is shorter than an int counts.
LEMMA Sizes ==
  /\ MaxBytes < Word /\ RPC_HEADER_SZ + MaxBytes < Word
  /\ \A k \in Nat : k <= MaxArgs => RPC_HEADER_SZ + k * MaxBytes < Word
<1>1. MaxArgs \in Nat /\ MaxBytes \in Nat /\ 24 + (MaxArgs + 1) * MaxBytes < Word /\ Word \in Nat
  BY SizeAssumption, WordType DEF RPC_HEADER_SZ
<1>2. MaxArgs * MaxBytes \in Nat /\ (MaxArgs + 1) * MaxBytes = MaxArgs * MaxBytes + MaxBytes
  BY <1>1
<1>3. ASSUME NEW k \in Nat, k <= MaxArgs PROVE 24 + k * MaxBytes < Word
  <2>1. PICK d : d = MaxArgs - k
    OBVIOUS
  <2>2. d \in Nat /\ MaxArgs = k + d
    BY <1>1, <1>3, <2>1
  <2>3. k * MaxBytes \in Nat /\ d * MaxBytes \in Nat /\ MaxArgs * MaxBytes = k * MaxBytes + d * MaxBytes
    BY <1>1, <2>2
  <2> QED BY <1>1, <1>2, <2>3
<1> QED BY <1>1, <1>2, <1>3 DEF RPC_HEADER_SZ

\* The kinds of values.
LEMMA Kinds ==
  ASSUME NEW a \in Prims
  PROVE  /\ a = [t |-> a.t, v |-> a.v]
         /\ \/ a.t = "byte" /\ a.v \in Byte
            \/ a.t = "short" /\ a.v \in 0 .. Radix * Radix - 1
            \/ a.t = "int" /\ a.v \in UInt
            \/ a.t = "long" /\ a.v \in UInt \X UInt
            \/ a.t = "string" /\ a.v \in Seq(Byte) /\ Len(a.v) \in UInt
            \/ a.t = "vector" /\ a.v \in Seq(UInt) /\ Len(a.v) \in UInt
<1>1. CASE a \in Ints
  BY <1>1 DEF Ints
<1>2. CASE a \in Values
  <2>1. a.t = "string" => Len(a.v) \in UInt
    <3> SUFFICES ASSUME a.t = "string" PROVE Len(a.v) \in UInt
      OBVIOUS
    <3>1. a.v \in Seq(Byte) /\ Size(a) = 4 + Len(a.v) /\ Size(a) <= MaxBytes
      BY <1>2, ValuesAssumption, SizeAssumption DEF Size
    <3>2. Len(a.v) \in Nat
      BY <3>1
    <3>3. Len(a.v) < Word
      BY <3>1, <3>2, Sizes, SizeAssumption, WordType
    <3> QED BY <3>2, <3>3, UIntNat
  <2>2. a.t = "vector" => Len(a.v) \in UInt
    <3> SUFFICES ASSUME a.t = "vector" PROVE Len(a.v) \in UInt
      OBVIOUS
    <3>1. a.v \in Seq(UInt) /\ Size(a) = 4 + 4 * Len(a.v) /\ Size(a) <= MaxBytes
      BY <1>2, ValuesAssumption, SizeAssumption DEF Size
    <3>2. Len(a.v) \in Nat
      BY <3>1
    <3>3. Len(a.v) < Word
      BY <3>1, <3>2, Sizes, SizeAssumption, WordType
    <3> QED BY <3>2, <3>3, UIntNat
  <2> QED BY <1>2, <2>1, <2>2, ValuesAssumption
<1> QED BY <1>1, <1>2 DEF Prims

\* The first of a value's parts.
LEMMA LeadFlat ==
  ASSUME NEW a \in Prims
  PROVE  Lead(a) \in Flats /\ (a.t # "vector" => Lead(a) = a)
<1>1. CASE a.t = "vector"
  <2>1. Len(a.v) \in UInt
    BY <1>1, Kinds
  <2>2. Lead(a) \in Ints /\ Lead(a).t = "int"
    BY <1>1, <2>1 DEF Lead, Int32, Ints
  <2> QED BY <1>1, <2>2 DEF Flats, Prims
<1>2. CASE a.t # "vector"
  BY <1>2 DEF Lead, Flats
<1> QED BY <1>1, <1>2

\* Sequences with the same elements.
LEMMA SameSeq ==
  ASSUME NEW S, NEW s \in Seq(S), NEW r \in Seq(S), Len(s) = Len(r),
         \A i \in 1 .. Len(s) : s[i] = r[i]
  PROVE  s = r
  OBVIOUS

\* Two runs of bytes are one.
LEMMA ConcatBytes ==
  ASSUME NEW s \in Seq(Byte), NEW r \in Seq(Byte)
  PROVE  s \o r \in Seq(Byte) /\ Len(s \o r) = Len(s) + Len(r) /\ Len(r) \in Nat
  OBVIOUS

\* The parts of a flat value.
LEMMA EncodedType ==
  ASSUME NEW a \in Flats
  PROVE  Encoded(a) \in Seq(Byte) /\ Len(Encoded(a)) = Size(a) /\ Size(a) \in Nat /\ Size(a) > 0
<1>1. a \in Prims /\ a.t # "vector"
  BY DEF Flats
<1>2. CASE a.t = "byte" /\ a.v \in Byte
  BY <1>2 DEF Encoded, Size
<1>3. CASE a.t = "short" /\ a.v \in 0 .. Radix * Radix - 1
  <2>1. a.v \in Nat
    BY <1>3, RadixAssumption
  <2>2. Mask(Shifted(a.v)) \in Byte /\ Mask(a.v) \in Byte
    BY <2>1, ShiftedMask
  <2> QED BY <1>3, <2>2 DEF Encoded, Size
<1>4. CASE a.t = "int" /\ a.v \in UInt
  BY <1>4, UIntNat, BytesType DEF Encoded, Size
<1>5. CASE a.t = "long" /\ a.v \in UInt \X UInt
  <2>1. a.v[1] \in Nat /\ a.v[2] \in Nat
    BY <1>5, UIntNat
  <2>2. /\ Bytes(a.v[1]) \in Seq(Byte) /\ Len(Bytes(a.v[1])) = 4
        /\ Bytes(a.v[2]) \in Seq(Byte) /\ Len(Bytes(a.v[2])) = 4
    BY <2>1, BytesType
  <2>3. Encoded(a) = Bytes(a.v[1]) \o Bytes(a.v[2]) /\ Size(a) = 8
    BY <1>5 DEF Encoded, Size
  <2>4. PICK s, r : s = Bytes(a.v[1]) /\ r = Bytes(a.v[2])
    OBVIOUS
  <2>5. s \in Seq(Byte) /\ Len(s) = 4 /\ r \in Seq(Byte) /\ Len(r) = 4
    BY <2>2, <2>4
  <2>6. s \o r \in Seq(Byte) /\ Len(s \o r) = Len(s) + Len(r)
    BY <2>5, ConcatBytes
  <2>7. Len(Encoded(a)) = 8 /\ Encoded(a) \in Seq(Byte)
    BY <2>3, <2>4, <2>5, <2>6
  <2> QED BY <2>3, <2>7
<1>6. CASE a.t = "string" /\ a.v \in Seq(Byte) /\ Len(a.v) \in UInt
  <2>1. Bytes(Len(a.v)) \in Seq(Byte) /\ Len(Bytes(Len(a.v))) = 4
    BY <1>6, BytesType
  <2>2. Encoded(a) = Bytes(Len(a.v)) \o a.v /\ Size(a) = 4 + Len(a.v)
    BY <1>6 DEF Encoded, Size
  <2>3. Encoded(a) \in Seq(Byte) /\ Len(Encoded(a)) = 4 + Len(a.v) /\ Len(a.v) \in Nat
    BY <1>6, <2>1, <2>2, ConcatBytes
  <2> QED BY <2>2, <2>3
<1> QED BY <1>1, <1>2, <1>3, <1>4, <1>5, <1>6, Kinds

\* operator<< writes the bytes of a value.
LEMMA ShlWrote ==
  ASSUME NEW x, Fits(x), NEW a \in Prims
  PROVE  Wrote(x, shl(x, a), Encoded(Lead(a)))
<1>1. CASE a.t = "byte" /\ a.v \in Byte
  BY <1>1, RawbyteWrote DEF shl, Lead, Encoded
<1>2. CASE a.t = "short" /\ a.v \in 0 .. Radix * Radix - 1
  <2>1. a.v \in Nat
    BY <1>2, RadixAssumption
  <2>2. PICK h, l : h = Mask(Shifted(a.v)) /\ l = Mask(a.v)
    OBVIOUS
  <2>3. h \in Byte /\ l \in Byte
    BY <2>1, <2>2, ShiftedMask
  <2>4. PICK y : y = rawbyte(x, h)
    OBVIOUS
  <2>5. Wrote(x, y, <<h>>)
    BY <2>4, RawbyteWrote
  <2>6. Wrote(y, rawbyte(y, l), <<l>>)
    BY <2>5, RawbyteWrote DEF Wrote
  <2>7. <<h>> \in Seq(Byte) /\ <<l>> \in Seq(Byte)
    BY <2>3
  <2>8. <<h>> \o <<l>> = <<h, l>>
    <3>1. PICK s, r : s = <<h>> \o <<l>> /\ r = <<h, l>>
      OBVIOUS
    <3>2. s \in Seq(Byte) /\ Len(s) = 2 /\ s[1] = h /\ s[2] = l
      BY <2>3, <2>7, <3>1
    <3>3. r \in Seq(Byte) /\ Len(r) = 2 /\ r[1] = h /\ r[2] = l
      BY <2>3, <3>1
    <3>4. \A i \in 1 .. 2 : s[i] = r[i]
      BY <3>2, <3>3
    <3>5. s = r
      BY <3>2, <3>3, <3>4, SameSeq
    <3> QED BY <3>1, <3>5
  <2>10. Wrote(x, rawbyte(y, l), <<h, l>>)
    BY <2>5, <2>6, <2>7, <2>8, WroteBoth
  <2>9. shl(x, a) = rawbyte(y, l) /\ Encoded(Lead(a)) = <<h, l>>
    BY <1>2, <2>2, <2>4 DEF shl, pack_short, Encoded, Lead
  <2> QED BY <2>9, <2>10
<1>3. CASE a.t = "int" /\ a.v \in UInt
  BY <1>3, UIntNat, PackWrote DEF shl, Lead, Encoded
<1>4. CASE a.t = "long" /\ a.v \in UInt \X UInt
  <2>1. a.v[1] \in Nat /\ a.v[2] \in Nat
    BY <1>4, UIntNat
  <2>2. PICK y : y = pack(x, a.v[1])
    OBVIOUS
  <2>3. Wrote(x, y, Bytes(a.v[1]))
    BY <2>1, <2>2, PackWrote
  <2>4. Wrote(y, pack(y, a.v[2]), Bytes(a.v[2]))
    BY <2>1, <2>3, PackWrote DEF Wrote
  <2>5. Bytes(a.v[1]) \in Seq(Byte) /\ Bytes(a.v[2]) \in Seq(Byte)
    BY <2>1, BytesType
  <2>6. Wrote(x, pack(y, a.v[2]), Bytes(a.v[1]) \o Bytes(a.v[2]))
    BY <2>3, <2>4, <2>5, WroteBoth
  <2>7. shl(x, a) = pack(y, a.v[2]) /\ Encoded(Lead(a)) = Bytes(a.v[1]) \o Bytes(a.v[2])
    BY <1>4, <2>2 DEF shl, Encoded, Lead
  <2> QED BY <2>6, <2>7
<1>5. CASE a.t = "string" /\ a.v \in Seq(Byte) /\ Len(a.v) \in UInt
  <2>1. PICK n : n = Len(a.v)
    OBVIOUS
  <2>2. n \in Nat
    BY <1>5, <2>1
  <2>3. PICK y : y = pack(x, n)
    OBVIOUS
  <2>4. Wrote(x, y, Bytes(n))
    BY <2>2, <2>3, PackWrote
  <2>5. Wrote(y, rawbytes(y, a.v), a.v)
    BY <1>5, <2>4, RawbytesWrote DEF Wrote
  <2>6. Bytes(n) \in Seq(Byte)
    BY <2>2, BytesType
  <2>7. Wrote(x, rawbytes(y, a.v), Bytes(n) \o a.v)
    BY <1>5, <2>4, <2>5, <2>6, WroteBoth
  <2>8. shl(x, a) = rawbytes(y, a.v) /\ Encoded(Lead(a)) = Bytes(n) \o a.v
    BY <1>5, <2>1, <2>3 DEF shl, Encoded, Lead
  <2> QED BY <2>7, <2>8
<1>6. CASE a.t = "vector" /\ a.v \in Seq(UInt) /\ Len(a.v) \in UInt
  <2>1. Len(a.v) \in Nat
    BY <1>6
  <2>2. shl(x, a) = pack(x, Len(a.v)) /\ Encoded(Lead(a)) = Bytes(Len(a.v))
    BY <1>6 DEF shl, Encoded, Lead, Int32
  <2> QED BY <2>1, <2>2, PackWrote
<1> QED BY <1>1, <1>2, <1>3, <1>4, <1>5, <1>6, Kinds

-----------------------------------------------------------------------------
(* Reading.                                                                *)

\* An unmarshall object that has read i bytes of b, and bytes found there.
Reader(b, i) == [buf |-> b, ind |-> i, ok |-> TRUE]
Holds(b, i, s) == i + Len(s) <= Len(b) /\ \A k \in 1 .. Len(s) : b[i + k] = s[k]

\* Bytes found are found in parts.
LEMMA HoldsParts ==
  ASSUME NEW b, Len(b) \in Nat, NEW i \in Nat, NEW s \in Seq(Byte), NEW r \in Seq(Byte),
         Holds(b, i, s \o r)
  PROVE  Holds(b, i, s) /\ Holds(b, i + Len(s), r)
<1>1. PICK w : w = s \o r
  OBVIOUS
<1>2. /\ Len(s) \in Nat /\ Len(r) \in Nat /\ Len(w) = Len(s) + Len(r)
      /\ \A k \in 1 .. Len(s) : w[k] = s[k]
      /\ \A k \in 1 .. Len(r) : w[Len(s) + k] = r[k]
  BY <1>1
<1>3. i + Len(w) <= Len(b) /\ \A k \in 1 .. Len(w) : b[i + k] = w[k]
  BY <1>1 DEF Holds
<1>4. \A k \in 1 .. Len(s) : k \in 1 .. Len(w)
  BY <1>2
<1>5. ASSUME NEW k \in 1 .. Len(r) PROVE b[(i + Len(s)) + k] = r[k]
  <2>1. Len(s) + k \in 1 .. Len(w) /\ (i + Len(s)) + k = i + (Len(s) + k)
    BY <1>2
  <2> QED BY <1>2, <1>3, <2>1
<1> QED BY <1>2, <1>3, <1>4, <1>5 DEF Holds

\* Moving the read position.
LEMMA Moved ==
  ASSUME NEW b, NEW i, NEW j
  PROVE  [Reader(b, i) EXCEPT !.ind = j] = Reader(b, j)
<1>1. PICK o : o = TRUE
  OBVIOUS
<1>2. \A k : Reader(b, k) = [buf |-> b, ind |-> k, ok |-> o]
  BY <1>1 DEF Reader
<1> QED BY <1>2

\* unmarshall::rawbyte.
LEMMA ReadRawbyte ==
  ASSUME NEW b, Len(b) \in Nat, NEW i \in Nat, i < Len(b), b[i + 1] \in Byte
  PROVE  /\ get_rawbyte(Reader(b, i)).u = Reader(b, i + 1)
         /\ Mask(get_rawbyte(Reader(b, i)).c) = b[i + 1]
<1>1. ~(Reader(b, i).ind >= Len(Reader(b, i).buf))
  BY DEF Reader
<1>2. get_rawbyte(Reader(b, i)) = [u |-> Reader(b, i + 1), c |-> SignExtended(b[i + 1])]
  BY <1>1 DEF get_rawbyte, Reader
<1> QED BY <1>2, MaskSignExtended

\* operator>> of a short, and half an int.
LEMMA ReadShort ==
  ASSUME NEW b, Len(b) \in Nat, NEW i \in Nat, NEW h \in Byte, NEW l \in Byte, Holds(b, i, <<h, l>>)
  PROVE  get_short(Reader(b, i)) = [u |-> Reader(b, i + 2), v |-> h * Radix + l]
<1>1. i + 2 <= Len(b) /\ b[i + 1] = h /\ b[i + 2] = l
  <2>1. PICK s : s = <<h, l>>
    OBVIOUS
  <2>2. Len(s) = 2 /\ s[1] = h /\ s[2] = l
    BY <2>1
  <2>3. i + 2 <= Len(b) /\ \A k \in 1 .. 2 : b[i + k] = s[k]
    BY <2>1, <2>2 DEF Holds
  <2> QED BY <2>2, <2>3
<1>2. PICK j : j = i + 1
  OBVIOUS
<1>3. j \in Nat /\ j < Len(b) /\ i < Len(b) /\ j + 1 = i + 2
  BY <1>1, <1>2
<1>4. get_rawbyte(Reader(b, i)).u = Reader(b, j) /\ Mask(get_rawbyte(Reader(b, i)).c) = h
  BY <1>1, <1>2, <1>3, ReadRawbyte
<1>5. get_rawbyte(Reader(b, j)).u = Reader(b, i + 2) /\ Mask(get_rawbyte(Reader(b, j)).c) = l
  BY <1>1, <1>3, ReadRawbyte
<1> QED BY <1>4, <1>5 DEF get_short

\* unmarshall::unpack.
LEMMA ReadInt ==
  ASSUME NEW b, Len(b) \in Nat, NEW i \in Nat, NEW n \in UInt, Holds(b, i, Bytes(n))
  PROVE  unpack(Reader(b, i)) = [u |-> Reader(b, i + 4), v |-> n]
<1>1. PICK s : s = Bytes(n)
  OBVIOUS
<1>2. n \in Nat /\ Len(s) = 4 /\ \A k \in 1 .. 4 : s[k] \in Byte
  BY <1>1, UIntNat, BytesType
<1>3. i + 4 <= Len(b) /\ \A k \in 1 .. 4 : b[i + k] = s[k]
  BY <1>1, <1>2 DEF Holds
<1>4. PICK j : j = i + 2
  OBVIOUS
<1>5. b[i + 1] = s[1] /\ b[i + 2] = s[2] /\ b[j + 1] = s[3] /\ b[j + 2] = s[4] /\ j \in Nat
      /\ i + 2 <= Len(b) /\ j + 2 <= Len(b) /\ j + 2 = i + 4
  <2>1. i + 3 = j + 1 /\ i + 4 = j + 2
    BY <1>4
  <2> QED BY <1>3, <1>4, <2>1
<1>6. s[1] \in Byte /\ s[2] \in Byte /\ s[3] \in Byte /\ s[4] \in Byte
  BY <1>2
<1>7. Holds(b, i, <<s[1], s[2]>>)
  <2>1. PICK r : r = <<s[1], s[2]>>
    OBVIOUS
  <2>2. Len(r) = 2 /\ r[1] = s[1] /\ r[2] = s[2]
    BY <2>1
  <2>3. \A k \in 1 .. 2 : k = 1 \/ k = 2
    OBVIOUS
  <2> QED BY <1>5, <2>1, <2>2, <2>3 DEF Holds
<1>8. Holds(b, j, <<s[3], s[4]>>)
  <2>1. PICK r : r = <<s[3], s[4]>>
    OBVIOUS
  <2>2. Len(r) = 2 /\ r[1] = s[3] /\ r[2] = s[4]
    BY <2>1
  <2>3. \A k \in 1 .. 2 : k = 1 \/ k = 2
    OBVIOUS
  <2> QED BY <1>5, <2>1, <2>2, <2>3 DEF Holds
<1>9. get_short(Reader(b, i)) = [u |-> Reader(b, j), v |-> s[1] * Radix + s[2]]
  BY <1>4, <1>6, <1>7, ReadShort
<1>10. get_short(Reader(b, j)) = [u |-> Reader(b, i + 4), v |-> s[3] * Radix + s[4]]
  BY <1>5, <1>6, <1>8, ReadShort
<1>11. unpack(Reader(b, i)) =
         [u |-> Reader(b, i + 4), v |-> (s[1] * Radix + s[2]) * Radix * Radix + (s[3] * Radix + s[4])]
  BY <1>9, <1>10 DEF unpack
<1> QED BY <1>1, <1>11, IntBack

\* A sum that does not pass the end of a message does not wrap.
LEMMA SmallSum ==
  ASSUME NEW k \in Nat, k < Word
  PROVE  k % Word = k
  BY WordType

\* unmarshall::rawbytes, and operator>> of a string.
LEMMA ReadString ==
  ASSUME NEW b, Len(b) \in Nat, Len(b) < Word, NEW i \in Nat, NEW s \in Seq(Byte), Len(s) \in UInt,
         Holds(b, i, Bytes(Len(s)) \o s)
  PROVE  get_string(Reader(b, i)) = [u |-> Reader(b, i + (4 + Len(s))), v |-> s]
<1>1. PICK n : n = Len(s)
  OBVIOUS
<1>2. n \in Nat /\ n \in UInt /\ Bytes(n) \in Seq(Byte) /\ Len(Bytes(n)) = 4
  BY <1>1, BytesType
<1>3. PICK j : j = i + 4
  OBVIOUS
<1>4. Holds(b, i, Bytes(n)) /\ Holds(b, j, s)
  BY <1>1, <1>2, <1>3, HoldsParts
<1>5. j \in Nat /\ j + n <= Len(b) /\ \A k \in 1 .. n : b[j + k] = s[k]
  BY <1>1, <1>3, <1>4 DEF Holds
<1>6. unpack(Reader(b, i)) = [u |-> Reader(b, j), v |-> n]
  BY <1>2, <1>3, <1>4, ReadInt
<1>7. (j + n) % Word = j + n
  <2>1. PICK k : k = j + n
    OBVIOUS
  <2>2. k \in Nat /\ k < Word
    BY <1>2, <1>5, <2>1, WordType
  <2> QED BY <2>1, <2>2, SmallSum
<1>8. PICK f : f = [k \in 1 .. n |-> IF j + k <= Len(b) THEN b[j + k] ELSE Junk]
  OBVIOUS
<1>9. f = s
  <2>1. \A k \in 1 .. n : f[k] = s[k]
    BY <1>2, <1>5, <1>8
  <2>2. f \in Seq(Byte) /\ Len(f) = n
    <3>1. \A k \in 1 .. n : s[k] \in Byte
      BY <1>1
    <3>2. f \in [1 .. n -> Byte]
      BY <1>8, <2>1, <3>1
    <3> QED BY <1>2, <3>2
  <2> QED BY <1>1, <2>1, <2>2, SameSeq
<1>10. get_rawbytes(Reader(b, j), n) = [u |-> Reader(b, j + n), v |-> f]
  <2>1. Reader(b, j).ind = j /\ Reader(b, j).buf = b
    BY DEF Reader
  <2>2. ~((j + n) % Word > Len(b))
    BY <1>2, <1>5, <1>7
  <2>3. [Reader(b, j) EXCEPT !.ind = (@ + n) % Word] = Reader(b, j + n)
    <3>1. [Reader(b, j) EXCEPT !.ind = (@ + n) % Word] = [Reader(b, j) EXCEPT !.ind = (j + n) % Word]
      BY <2>1
    <3>2. [Reader(b, j) EXCEPT !.ind = j + n] = Reader(b, j + n)
      BY Moved
    <3> QED BY <1>7, <3>1, <3>2
  <2> QED BY <1>8, <2>1, <2>2, <2>3 DEF get_rawbytes
<1>11. j + n = i + (4 + Len(s))
  BY <1>1, <1>2, <1>3
<1>12. Reader(b, j).ok
  BY DEF Reader
<1>13. get_string(Reader(b, i)) = get_rawbytes(Reader(b, j), n)
  BY <1>6, <1>12 DEF get_string
<1> QED BY <1>9, <1>10, <1>11, <1>13

\* operator>> reads back what operator<< wrote.
LEMMA ShrReads ==
  ASSUME NEW b, Len(b) \in Nat, Len(b) < Word, NEW i \in Nat, NEW a \in Prims,
         Holds(b, i, Encoded(Lead(a)))
  PROVE  shr(Reader(b, i), a.t) = [u |-> Reader(b, i + Size(Lead(a))), v |-> Lead(a).v]
<1>1. CASE a.t = "byte" /\ a.v \in Byte
  <2>1. Encoded(Lead(a)) = <<a.v>> /\ Size(Lead(a)) = 1 /\ Lead(a) = a
    BY <1>1 DEF Encoded, Lead, Size
  <2>2. i + 1 <= Len(b) /\ b[i + 1] = a.v
    <3>1. PICK s : s = <<a.v>>
      OBVIOUS
    <3>2. Len(s) = 1 /\ s[1] = a.v
      BY <3>1
    <3>3. i + 1 <= Len(b) /\ \A k \in 1 .. 1 : b[i + k] = s[k]
      BY <2>1, <3>1, <3>2 DEF Holds
    <3> QED BY <3>2, <3>3
  <2>3. get_rawbyte(Reader(b, i)).u = Reader(b, i + 1) /\ Mask(get_rawbyte(Reader(b, i)).c) = a.v
    BY <1>1, <2>2, ReadRawbyte
  <2>4. get_byte(Reader(b, i)) = [u |-> Reader(b, i + 1), v |-> a.v]
    BY <2>3 DEF get_byte
  <2>5. shr(Reader(b, i), a.t) = get_byte(Reader(b, i))
    BY <1>1 DEF shr
  <2> QED BY <2>1, <2>4, <2>5
<1>2. CASE a.t = "short" /\ a.v \in 0 .. Radix * Radix - 1
  <2>1. a.v \in Nat /\ a.v < Radix * Radix
    BY <1>2, RadixAssumption
  <2>2. PICK h, l : h = Mask(Shifted(a.v)) /\ l = Mask(a.v)
    OBVIOUS
  <2>3. h \in Byte /\ l \in Byte /\ h * Radix + l = a.v
    BY <2>1, <2>2, ShiftedMask, ShortBack
  <2>4. Encoded(Lead(a)) = <<h, l>> /\ Size(Lead(a)) = 2 /\ Lead(a) = a
    BY <1>2, <2>2 DEF Encoded, Lead, Size
  <2>5. get_short(Reader(b, i)) = [u |-> Reader(b, i + 2), v |-> a.v]
    BY <2>3, <2>4, ReadShort
  <2>6. shr(Reader(b, i), a.t) = get_short(Reader(b, i))
    BY <1>2 DEF shr
  <2> QED BY <2>4, <2>5, <2>6
<1>3. CASE a.t = "int" /\ a.v \in UInt
  <2>1. Encoded(Lead(a)) = Bytes(a.v) /\ Size(Lead(a)) = 4 /\ Lead(a) = a
    BY <1>3 DEF Encoded, Lead, Size
  <2>2. shr(Reader(b, i), a.t) = unpack(Reader(b, i))
    BY <1>3 DEF shr
  <2> QED BY <1>3, <2>1, <2>2, ReadInt
<1>4. CASE a.t = "long" /\ a.v \in UInt \X UInt
  <2>1. PICK h, l : h = a.v[1] /\ l = a.v[2]
    OBVIOUS
  <2>2. h \in UInt /\ l \in UInt /\ a.v = <<h, l>> /\ h \in Nat /\ l \in Nat
    <3>1. PICK w : w = a.v
      OBVIOUS
    <3>2. w \in UInt \X UInt
      BY <1>4, <3>1
    <3>3. w[1] \in UInt /\ w[2] \in UInt /\ w = <<w[1], w[2]>>
      BY <3>2
    <3> QED BY <2>1, <3>1, <3>3, UIntNat
  <2>3. Encoded(Lead(a)) = Bytes(h) \o Bytes(l) /\ Size(Lead(a)) = 8 /\ Lead(a) = a
    BY <1>4, <2>1 DEF Encoded, Lead, Size
  <2>4. Bytes(h) \in Seq(Byte) /\ Bytes(l) \in Seq(Byte) /\ Len(Bytes(h)) = 4
    BY <2>2, BytesType
  <2>5. PICK j : j = i + 4
    OBVIOUS
  <2>6. Holds(b, i, Bytes(h)) /\ Holds(b, j, Bytes(l)) /\ j \in Nat /\ j + 4 = i + 8
    <3>1. PICK s, r : s = Bytes(h) /\ r = Bytes(l)
      OBVIOUS
    <3>2. s \in Seq(Byte) /\ r \in Seq(Byte) /\ Len(s) = 4 /\ Holds(b, i, s \o r)
      BY <2>3, <2>4, <3>1
    <3>3. Holds(b, i, s) /\ Holds(b, i + Len(s), r)
      BY <3>2, HoldsParts
    <3>4. j \in Nat /\ j + 4 = i + 8
      BY <2>5
    <3> QED BY <2>5, <3>1, <3>2, <3>3, <3>4
  <2>7. unpack(Reader(b, i)) = [u |-> Reader(b, j), v |-> h]
    BY <2>2, <2>5, <2>6, ReadInt
  <2>8. unpack(Reader(b, j)) = [u |-> Reader(b, i + 8), v |-> l]
    BY <2>2, <2>6, ReadInt
  <2>9. get_long(Reader(b, i)) = [u |-> Reader(b, i + 8), v |-> <<h, l>>]
    BY <2>7, <2>8 DEF get_long
  <2>10. shr(Reader(b, i), a.t) = get_long(Reader(b, i))
    BY <1>4 DEF shr
  <2> QED BY <2>2, <2>3, <2>9, <2>10
<1>5. CASE a.t = "string" /\ a.v \in Seq(Byte) /\ Len(a.v) \in UInt
  <2>1. Encoded(Lead(a)) = Bytes(Len(a.v)) \o a.v /\ Size(Lead(a)) = 4 + Len(a.v) /\ Lead(a) = a
    BY <1>5 DEF Encoded, Lead, Size
  <2>2. shr(Reader(b, i), a.t) = get_string(Reader(b, i))
    BY <1>5 DEF shr
  <2> QED BY <1>5, <2>1, <2>2, ReadString
<1>6. CASE a.t = "vector" /\ a.v \in Seq(UInt) /\ Len(a.v) \in UInt
  <2>1. Encoded(Lead(a)) = Bytes(Len(a.v)) /\ Size(Lead(a)) = 4 /\ Lead(a).v = Len(a.v)
    BY <1>6 DEF Encoded, Lead, Size, Int32
  <2>2. shr(Reader(b, i), a.t) = unpack(Reader(b, i))
    BY <1>6 DEF shr
  <2> QED BY <1>6, <2>1, <2>2, ReadInt
<1> QED BY <1>1, <1>2, <1>3, <1>4, <1>5, <1>6, Kinds

\* An object that has failed, and one with nothing left to read.
Failed(x) == x = [buf |-> x.buf, ind |-> x.ind, ok |-> FALSE]
AtEnd(x) == x = [buf |-> x.buf, ind |-> x.ind, ok |-> x.ok] /\ x.ind >= Len(x.buf)

\* Nothing is read where nothing is left, and no failure is forgotten.
LEMMA RawbyteFails ==
  ASSUME NEW x, Failed(x) \/ AtEnd(x)
  PROVE  Failed(get_rawbyte(x).u)
<1>1. CASE x.ind >= Len(x.buf)
  BY <1>1 DEF get_rawbyte, Failed, AtEnd
<1>2. CASE ~(x.ind >= Len(x.buf)) /\ Failed(x)
  <2>1. get_rawbyte(x).u = [x EXCEPT !.ind = @ + 1]
    BY <1>2 DEF get_rawbyte
  <2>2. PICK o : o = FALSE
    OBVIOUS
  <2>3. x = [buf |-> x.buf, ind |-> x.ind, ok |-> o]
    BY <1>2, <2>2 DEF Failed
  <2>4. PICK j : j = x.ind + 1
    OBVIOUS
  <2>5. [x EXCEPT !.ind = j] = [buf |-> x.buf, ind |-> j, ok |-> o]
    BY <2>3
  <2>6. [x EXCEPT !.ind = @ + 1] = [x EXCEPT !.ind = j]
    BY <2>4
  <2> QED BY <2>1, <2>2, <2>5, <2>6 DEF Failed
<1> QED BY <1>1, <1>2 DEF AtEnd

\* So it is with every operator>>.
LEMMA ShrFails ==
  ASSUME NEW x, Failed(x) \/ AtEnd(x), NEW t
  PROVE  Failed(shr(x, t).u)
<1>1. ASSUME NEW y, Failed(y) \/ AtEnd(y) PROVE Failed(get_byte(y).u) /\ Failed(get_short(y).u)
  <2>1. Failed(get_rawbyte(y).u)
    BY <1>1, RawbyteFails
  <2>2. Failed(get_rawbyte(get_rawbyte(y).u).u)
    BY <2>1, RawbyteFails
  <2> QED BY <2>1, <2>2 DEF get_byte, get_short
<1>2. ASSUME NEW y, Failed(y) \/ AtEnd(y) PROVE Failed(unpack(y).u)
  <2>1. Failed(get_short(y).u)
    BY <1>1, <1>2
  <2>2. Failed(get_short(get_short(y).u).u)
    BY <1>1, <2>1
  <2> QED BY <2>2 DEF unpack
<1>3. Failed(get_long(x).u)
  <2>1. Failed(unpack(x).u)
    BY <1>2
  <2>2. Failed(unpack(unpack(x).u).u)
    BY <1>2, <2>1
  <2> QED BY <2>2 DEF get_long
<1>4. Failed(get_string(x).u)
  <2>1. Failed(unpack(x).u)
    BY <1>2
  <2>2. ~unpack(x).u.ok
    BY <2>1 DEF Failed
  <2> QED BY <2>1, <2>2 DEF get_string
<1> QED BY <1>1, <1>2, <1>3, <1>4 DEF shr

-----------------------------------------------------------------------------
(* FlattenSeq.                                                             *)

\* Concatenation with the empty sequence, and what it does to types and lengths.
LEMMA ConcatFacts ==
  ASSUME NEW S, NEW p \in Seq(S), NEW q \in Seq(S)
  PROVE  /\ p \o q \in Seq(S) /\ Len(p \o q) = Len(p) + Len(q)
         /\ <<>> \o p = p /\ p \o <<>> = p
  OBVIOUS

\* Concatenation is associative.
LEMMA ConcatAssoc ==
  ASSUME NEW S, NEW p \in Seq(S), NEW q \in Seq(S), NEW r \in Seq(S)
  PROVE  p \o (q \o r) = (p \o q) \o r
  OBVIOUS

\* Appending one element is a concatenation.
LEMMA ConcatOne ==
  ASSUME NEW S, NEW p \in Seq(S), NEW a \in S
  PROVE  <<a>> \in Seq(S) /\ p \o <<a>> = Append(p, a)
  OBVIOUS

\* A sequence that is not empty ends, and begins, with an element.
LEMMA EmptyOf ==
  ASSUME NEW S, NEW q \in Seq(S), Len(q) = 0
  PROVE  q = <<>>
  OBVIOUS

\* A sequence that is not empty is its front and its last element.
LEMMA LastOf ==
  ASSUME NEW S, NEW n \in Nat, NEW q \in Seq(S), Len(q) = n + 1
  PROVE  \E p \in Seq(S), a \in S : q = Append(p, a) /\ Len(p) = n
<1>1. SubSeq(q, 1, n) \in Seq(S) /\ q[n + 1] \in S /\ Len(SubSeq(q, 1, n)) = n
  OBVIOUS
<1>2. q = Append(SubSeq(q, 1, n), q[n + 1])
  OBVIOUS
<1> QED BY <1>1, <1>2

\* It is its head and its tail, too.
LEMMA FirstOf ==
  ASSUME NEW S, NEW q \in Seq(S), q # <<>>
  PROVE  Head(q) \in S /\ Tail(q) \in Seq(S) /\ q = <<Head(q)>> \o Tail(q)
  OBVIOUS

\* The function inside FlattenSeq, and as far as n.
IsFlat(f, q) == f = [i \in 1 .. Len(q) |-> IF i = 1 THEN q[i] ELSE f[i - 1] \o q[i]]
FlatUpTo(f, q, n) == \A i \in 1 .. n : f[i] = IF i = 1 THEN q[i] ELSE f[i - 1] \o q[i]

\* IsFlat and FlatUpTo say the same of a function with the right domain.
LEMMA FlatByIndex ==
  ASSUME NEW f, NEW q, IsFlat(f, q)
  PROVE  FlatUpTo(f, q, Len(q))
<1>1. PICK e : e = [i \in 1 .. Len(q) |-> IF i = 1 THEN q[i] ELSE f[i - 1] \o q[i]]
  OBVIOUS
<1>2. f = e
  BY <1>1 DEF IsFlat
<1>3. \A i \in 1 .. Len(q) : e[i] = IF i = 1 THEN q[i] ELSE f[i - 1] \o q[i]
  BY <1>1
<1> QED BY <1>2, <1>3 DEF FlatUpTo

\* There is such a function.
LEMMA FlatExists ==
  ASSUME NEW S, NEW q \in Seq(Seq(S))
  PROVE  \E f \in [1 .. Len(q) -> Seq(S)] : IsFlat(f, q)
<1> DEFINE N == {n \in Nat : n <= Len(q) => \E f \in [1 .. n -> Seq(S)] : FlatUpTo(f, q, n)}
<1>1. 0 \in N
  <2>1. [i \in 1 .. 0 |-> <<>>] \in [1 .. 0 -> Seq(S)] /\ FlatUpTo([i \in 1 .. 0 |-> <<>>], q, 0)
    BY DEF FlatUpTo
  <2> QED BY <2>1
<1>2. ASSUME NEW n \in Nat, n \in N PROVE n + 1 \in N
  <2> SUFFICES ASSUME n + 1 <= Len(q) PROVE \E f \in [1 .. n + 1 -> Seq(S)] : FlatUpTo(f, q, n + 1)
    OBVIOUS
  <2>1. PICK f \in [1 .. n -> Seq(S)] : FlatUpTo(f, q, n)
    BY <1>2
  <2>2. PICK g : g = [i \in 1 .. n + 1 |-> IF i <= n THEN f[i] ELSE IF i = 1 THEN q[i] ELSE f[n] \o q[i]]
    OBVIOUS
  <2>3. \A i \in 1 .. n + 1 : q[i] \in Seq(S)
    OBVIOUS
  <2>4. \A i \in 1 .. n : g[i] = f[i] /\ f[i] \in Seq(S)
    BY <2>2
  <2>5. g[n + 1] = IF n + 1 = 1 THEN q[n + 1] ELSE f[n] \o q[n + 1]
    BY <2>2
  <2>6. ASSUME NEW i \in 1 .. n + 1 PROVE g[i] \in Seq(S)
    <3>1. CASE i <= n
      BY <2>4, <3>1
    <3>2. CASE i = n + 1 /\ n = 0
      BY <2>3, <2>5, <3>2
    <3>3. CASE i = n + 1 /\ n # 0
      <4>1. f[n] \in Seq(S) /\ q[n + 1] \in Seq(S)
        BY <2>3, <2>4, <3>3
      <4>2. f[n] \o q[n + 1] \in Seq(S)
        BY <4>1, ConcatFacts
      <4>3. n + 1 # 1
        BY <3>3
      <4> QED BY <2>5, <3>3, <4>2, <4>3
    <3> QED BY <3>1, <3>2, <3>3
  <2>7. g \in [1 .. n + 1 -> Seq(S)]
    BY <2>2, <2>6
  <2>8. ASSUME NEW i \in 1 .. n + 1 PROVE g[i] = IF i = 1 THEN q[i] ELSE g[i - 1] \o q[i]
    <3>1. CASE i <= n
      <4>0. i \in 1 .. n
        BY <3>1
      <4>1. f[i] = IF i = 1 THEN q[i] ELSE f[i - 1] \o q[i]
        BY <2>1, <4>0 DEF FlatUpTo
      <4>2. i # 1 => i - 1 \in 1 .. n
        BY <3>1
      <4>3. g[i] = f[i] /\ (i # 1 => g[i - 1] = f[i - 1])
        BY <2>4, <4>0, <4>2
      <4> QED BY <4>1, <4>3
    <3>2. CASE i = n + 1
      <4>1. n # 0 => g[n] = f[n]
        BY <2>4
      <4>2. (n + 1) - 1 = n /\ (n + 1 = 1 <=> n = 0)
        OBVIOUS
      <4> QED BY <2>5, <3>2, <4>1, <4>2
    <3> QED BY <3>1, <3>2
  <2> QED BY <2>7, <2>8 DEF FlatUpTo
<1> HIDE DEF N
<1>3. Nat \subseteq N
  BY <1>1, <1>2, InductionOnSet
<1>4. Len(q) \in N /\ Len(q) \in Nat
  BY <1>3
<1>5. PICK f \in [1 .. Len(q) -> Seq(S)] : FlatUpTo(f, q, Len(q))
  BY <1>4 DEF N
<1>6. IsFlat(f, q)
  BY <1>5 DEF IsFlat, FlatUpTo
<1> QED BY <1>6

\* Two of them agree as far as the sequences do.
LEMMA FlatAgree ==
  ASSUME NEW f, NEW q, NEW g, NEW r, NEW n \in Nat, FlatUpTo(f, q, n), FlatUpTo(g, r, n),
         \A i \in 1 .. n : q[i] = r[i]
  PROVE  \A i \in 1 .. n : f[i] = g[i]
<1> DEFINE N == {k \in Nat : k \in 1 .. n => f[k] = g[k]}
<1>1. 0 \in N
  OBVIOUS
<1>2. ASSUME NEW k \in Nat, k \in N PROVE k + 1 \in N
  <2> SUFFICES ASSUME k + 1 \in 1 .. n PROVE f[k + 1] = g[k + 1]
    OBVIOUS
  <2>1. PICK j : j = k + 1
    OBVIOUS
  <2>2. j \in 1 .. n /\ j - 1 = k /\ (j # 1 => k \in 1 .. n)
    BY <2>1
  <2>3. /\ f[j] = IF j = 1 THEN q[j] ELSE f[k] \o q[j]
        /\ g[j] = IF j = 1 THEN r[j] ELSE g[k] \o r[j]
        /\ q[j] = r[j]
    BY <2>2 DEF FlatUpTo
  <2> QED BY <1>2, <2>1, <2>2, <2>3
<1> HIDE DEF N
<1>3. Nat \subseteq N
  BY <1>1, <1>2, InductionOnSet
<1> QED BY <1>3 DEF N

\* What FlattenSeq is.
LEMMA FlatIs ==
  ASSUME NEW S, NEW q \in Seq(Seq(S)), Len(q) # 0
  PROVE  \E f : FlatUpTo(f, q, Len(q)) /\ FlattenSeq(q) = f[Len(q)] /\ f[Len(q)] \in Seq(S)
<1>1. PICK f : f = CHOOSE g : IsFlat(g, q)
  OBVIOUS
<1>2. FlattenSeq(q) = f[Len(q)]
  BY <1>1 DEF FlattenSeq, IsFlat
<1>3. PICK g \in [1 .. Len(q) -> Seq(S)] : IsFlat(g, q)
  BY FlatExists
<1>4. IsFlat(f, q)
  BY <1>1, <1>3
<1>5. FlatUpTo(f, q, Len(q)) /\ FlatUpTo(g, q, Len(q)) /\ Len(q) \in Nat
  BY <1>3, <1>4, FlatByIndex
<1>6. \A i \in 1 .. Len(q) : f[i] = g[i]
  BY <1>5, FlatAgree
<1>7. f[Len(q)] = g[Len(q)] /\ g[Len(q)] \in Seq(S)
  <2>1. Len(q) \in 1 .. Len(q)
    BY <1>5
  <2> QED BY <1>6, <2>1
<1> QED BY <1>2, <1>5, <1>7

\* FlattenSeq of nothing, and of one more.
LEMMA FlatAppend ==
  ASSUME NEW S, NEW q \in Seq(Seq(S)), NEW s \in Seq(S)
  PROVE  /\ FlattenSeq(q) \in Seq(S) /\ FlattenSeq(<<>>) = <<>>
         /\ FlattenSeq(Append(q, s)) = FlattenSeq(q) \o s
<1>1. FlattenSeq(<<>>) = <<>>
  BY DEF FlattenSeq
<1>2. FlattenSeq(q) \in Seq(S)
  <2>1. CASE Len(q) = 0
    <3>1. q = <<>>
      BY <2>1, EmptyOf
    <3>2. <<>> \in Seq(S)
      OBVIOUS
    <3> QED BY <1>1, <3>1, <3>2, Zenon
  <2>2. CASE Len(q) # 0
    BY <2>2, FlatIs
  <2> QED BY <2>1, <2>2
<1>3. PICK r : r = Append(q, s)
  OBVIOUS
<1>4. PICK n : n = Len(q)
  OBVIOUS
<1>5. /\ n \in Nat /\ r \in Seq(Seq(S)) /\ Len(r) = n + 1 /\ r[n + 1] = s
      /\ \A i \in 1 .. n : r[i] = q[i]
  BY <1>3, <1>4
<1>6. PICK g : FlatUpTo(g, r, Len(r)) /\ FlattenSeq(r) = g[Len(r)]
  <2>1. Len(r) # 0
    BY <1>5
  <2> QED BY <1>5, <2>1, FlatIs
<1>7. g[n + 1] = IF n = 0 THEN s ELSE g[n] \o s
  <2>1. n + 1 \in 1 .. Len(r) /\ (n + 1) - 1 = n /\ (n + 1 = 1 <=> n = 0)
    BY <1>5
  <2> QED BY <1>5, <1>6, <2>1 DEF FlatUpTo
<1>8. CASE n = 0
  <2>1. q = <<>>
    BY <1>4, <1>8, EmptyOf
  <2>2. FlattenSeq(q) \o s = s
    BY <1>1, <2>1, ConcatFacts
  <2> QED BY <1>1, <1>2, <1>3, <1>5, <1>6, <1>7, <1>8, <2>2
<1>9. CASE n # 0
  <2>1. PICK f : FlatUpTo(f, q, n) /\ FlattenSeq(q) = f[n]
    BY <1>4, <1>9, FlatIs
  <2>2. FlatUpTo(g, r, n)
    <3>1. \A i \in 1 .. n : i \in 1 .. Len(r)
      BY <1>5
    <3> QED BY <1>6, <3>1 DEF FlatUpTo
  <2>3. \A i \in 1 .. n : f[i] = g[i]
    <3>1. \A i \in 1 .. n : q[i] = r[i]
      BY <1>5
    <3>2. n \in Nat /\ FlatUpTo(f, q, n)
      BY <1>5, <2>1
    <3> QED BY <2>2, <3>1, <3>2, FlatAgree
  <2>4. f[n] = g[n]
    BY <1>5, <1>9, <2>3
  <2> QED BY <1>1, <1>2, <1>3, <1>5, <1>6, <1>7, <1>9, <2>1, <2>4
<1> QED BY <1>8, <1>9

\* FlattenSeq of two sequences.
LEMMA FlatConcatOne ==
  ASSUME NEW S, NEW p \in Seq(Seq(S)), NEW t \in Seq(Seq(S)), NEW s \in Seq(S),
         FlattenSeq(p \o t) = FlattenSeq(p) \o FlattenSeq(t)
  PROVE  FlattenSeq(p \o Append(t, s)) = FlattenSeq(p) \o FlattenSeq(Append(t, s))
<1>1. p \o t \in Seq(Seq(S)) /\ p \o Append(t, s) = Append(p \o t, s)
  <2>1. PICK T : T = Seq(S)
    OBVIOUS
  <2>2. p \in Seq(T) /\ t \in Seq(T) /\ s \in T
    BY <2>1
  <2>3. p \o t \in Seq(T) /\ p \o Append(t, s) = Append(p \o t, s)
    BY <2>2
  <2> QED BY <2>1, <2>3
<1>2. FlattenSeq(Append(p \o t, s)) = FlattenSeq(p \o t) \o s
  BY <1>1, FlatAppend
<1>3. PICK a, b : a = FlattenSeq(p) /\ b = FlattenSeq(t)
  OBVIOUS
<1>4. FlattenSeq(Append(t, s)) = b \o s /\ a \in Seq(S) /\ b \in Seq(S)
  BY <1>3, FlatAppend
<1>5. a \o (b \o s) = (a \o b) \o s
  <2>1. \A c, d, e \in Seq(S) : c \o (d \o e) = (c \o d) \o e
    BY ConcatAssoc
  <2> QED BY <1>4, <2>1
<1> QED BY <1>1, <1>2, <1>3, <1>4, <1>5

\* FlattenSeq of two sequences, by induction on the second.
LEMMA FlatConcat ==
  ASSUME NEW S, NEW p \in Seq(Seq(S)), NEW q \in Seq(Seq(S))
  PROVE  FlattenSeq(p \o q) = FlattenSeq(p) \o FlattenSeq(q)
<1> DEFINE Good(r) == FlattenSeq(p \o r) = FlattenSeq(p) \o FlattenSeq(r)
           N == {n \in Nat : \A r \in Seq(Seq(S)) : Len(r) = n => Good(r)}
<1>1. 0 \in N
  <2> SUFFICES ASSUME NEW r \in Seq(Seq(S)), Len(r) = 0 PROVE Good(r)
    OBVIOUS
  <2>1. r = <<>>
    OBVIOUS
  <2>2. <<>> \in Seq(S)
    OBVIOUS
  <2>3. FlattenSeq(p) \in Seq(S) /\ FlattenSeq(<<>>) = <<>>
    BY <2>2, FlatAppend
  <2>4. p \o <<>> = p /\ FlattenSeq(p) \o <<>> = FlattenSeq(p)
    BY <2>3, ConcatFacts
  <2> QED BY <2>1, <2>3, <2>4
<1>2. ASSUME NEW n \in Nat, n \in N PROVE n + 1 \in N
  <2> SUFFICES ASSUME NEW r \in Seq(Seq(S)), Len(r) = n + 1 PROVE Good(r)
    OBVIOUS
  <2>1. PICK t \in Seq(Seq(S)), s \in Seq(S) : r = Append(t, s) /\ Len(t) = n
    BY LastOf
  <2>2. Good(t)
    BY <1>2, <2>1
  <2> QED BY <2>1, <2>2, FlatConcatOne
<1> HIDE DEF N
<1>3. Nat \subseteq N
  BY <1>1, <1>2, InductionOnSet
<1>4. Len(q) \in N
  BY <1>3
<1> QED BY <1>4 DEF N

-----------------------------------------------------------------------------
(* A list of values, flattened, and its bytes.                             *)

\* What a value is flattened to, a list of them, and the bytes of a list.
Piece(a) == IF a.t = "vector" THEN <<Int32(Len(a.v))>> \o Elements(a) ELSE <<a>>
Pieces(s) == [i \in 1 .. Len(s) |-> Piece(s[i])]
Coded(s) == FlattenSeq([i \in 1 .. Len(s) |-> Encoded(s[i])])

\* The elements of a vector are ints.
LEMMA ElementsInts ==
  ASSUME NEW a \in Prims
  PROVE  /\ Elements(a) \in Seq(Ints) /\ Elements(a) \in Seq(Flats) /\ Elements(a) \in Seq(Prims)
         /\ (a.t = "vector" => Len(Elements(a)) = Len(a.v))
         /\ (a.t # "vector" => Elements(a) = <<>>)
<1>1. Ints \subseteq Flats /\ Ints \subseteq Prims
  <2>1. \A i \in Ints : i.t = "int"
    BY DEF Ints
  <2> QED BY <2>1 DEF Flats, Prims
<1>2. CASE a.t = "vector"
  <2>1. a.v \in Seq(UInt)
    BY <1>2, Kinds
  <2>2. Len(a.v) \in Nat /\ \A i \in 1 .. Len(a.v) : Int32(a.v[i]) \in Ints
    BY <2>1 DEF Ints, Int32
  <2>3. Elements(a) = [i \in 1 .. Len(a.v) |-> Int32(a.v[i])]
    BY <1>2 DEF Elements
  <2>4. Elements(a) \in [1 .. Len(a.v) -> Ints]
    BY <2>2, <2>3
  <2>5. Elements(a) \in Seq(Ints) /\ Len(Elements(a)) = Len(a.v)
    BY <2>2, <2>4
  <2> QED BY <1>1, <1>2, <2>5
<1>3. CASE a.t # "vector"
  BY <1>3 DEF Elements
<1> QED BY <1>2, <1>3

\* What a value is flattened to.
LEMMA PieceIs ==
  ASSUME NEW a \in Prims
  PROVE  Piece(a) = <<Lead(a)>> \o Elements(a) /\ Piece(a) \in Seq(Flats)
<1>1. Elements(a) \in Seq(Flats) /\ Lead(a) \in Flats
  BY ElementsInts, LeadFlat
<1>2. <<Lead(a)>> \o Elements(a) \in Seq(Flats)
  BY <1>1
<1>3. CASE a.t = "vector"
  BY <1>2, <1>3 DEF Piece, Lead
<1>4. CASE a.t # "vector"
  <2>1. Elements(a) = <<>> /\ Lead(a) = a
    BY <1>4, ElementsInts, LeadFlat
  <2>2. <<a>> \o <<>> = <<a>>
    OBVIOUS
  <2> QED BY <1>2, <1>4, <2>1, <2>2 DEF Piece
<1> QED BY <1>3, <1>4

\* A concatenation, by its elements.
Joins(p, q, w) ==
  /\ Len(w) = Len(p) + Len(q)
  /\ \A i \in 1 .. Len(p) : w[i] = p[i]
  /\ \A i \in 1 .. Len(q) : w[Len(p) + i] = q[i]

\* Joins determines the concatenation.
LEMMA ConcatIs ==
  ASSUME NEW T, NEW p \in Seq(T), NEW q \in Seq(T), NEW w \in Seq(T), Joins(p, q, w)
  PROVE  w = p \o q
<1> USE DEF Joins
<1>1. PICK z : z = p \o q
  OBVIOUS
<1>2. /\ z \in Seq(T) /\ Len(z) = Len(p) + Len(q) /\ Len(p) \in Nat /\ Len(q) \in Nat
      /\ \A i \in 1 .. Len(p) : z[i] = p[i]
      /\ \A i \in 1 .. Len(q) : z[Len(p) + i] = q[i]
  BY <1>1
<1>3. ASSUME NEW i \in 1 .. Len(w) PROVE w[i] = z[i]
  <2>1. CASE i <= Len(p)
    BY <1>2, <2>1
  <2>2. CASE i > Len(p)
    <3>1. PICK j : j = i - Len(p)
      OBVIOUS
    <3>2. j \in 1 .. Len(q) /\ i = Len(p) + j
      BY <1>2, <2>2, <3>1
    <3> QED BY <1>2, <3>2
  <2> QED BY <1>2, <2>1, <2>2
<1> QED BY <1>1, <1>2, <1>3, SameSeq

\* The elements of a concatenation.
LEMMA ConcatElements ==
  ASSUME NEW T, NEW s \in Seq(T), NEW r \in Seq(T)
  PROVE  /\ s \o r \in Seq(T) /\ Len(s \o r) = Len(s) + Len(r) /\ Len(s) \in Nat /\ Len(r) \in Nat
         /\ \A i \in 1 .. Len(s) : (s \o r)[i] = s[i]
         /\ \A i \in 1 .. Len(r) : (s \o r)[Len(s) + i] = r[i]
  OBVIOUS

\* A function applied to a list, and to two.
IsMap(f, D, T) == f \in [D -> T]
Mapped(f, s) == [i \in 1 .. Len(s) |-> f[s[i]]]

\* A mapped list has as many elements, all from the range.
LEMMA MappedType ==
  ASSUME NEW D, NEW T, NEW f, IsMap(f, D, T), NEW s \in Seq(D)
  PROVE  /\ Mapped(f, s) \in Seq(T) /\ Len(Mapped(f, s)) = Len(s)
         /\ \A i \in 1 .. Len(s) : Mapped(f, s)[i] = f[s[i]]
<1>1. Len(s) \in Nat /\ \A i \in 1 .. Len(s) : s[i] \in D
  OBVIOUS
<1>2. \A i \in 1 .. Len(s) : f[s[i]] \in T
  BY <1>1 DEF IsMap
<1>3. Mapped(f, s) \in [1 .. Len(s) -> T] /\ \A i \in 1 .. Len(s) : Mapped(f, s)[i] = f[s[i]]
  BY <1>2 DEF Mapped
<1> QED BY <1>1, <1>3

\* Mapping commutes with concatenation.
LEMMA MappedConcat ==
  ASSUME NEW D, NEW T, NEW f, IsMap(f, D, T), NEW s \in Seq(D), NEW r \in Seq(D)
  PROVE  Mapped(f, s \o r) = Mapped(f, s) \o Mapped(f, r)
<1>1. PICK z : z = s \o r
  OBVIOUS
<1>2. /\ z \in Seq(D) /\ Len(z) = Len(s) + Len(r) /\ Len(s) \in Nat /\ Len(r) \in Nat
      /\ \A i \in 1 .. Len(s) : z[i] = s[i]
      /\ \A i \in 1 .. Len(r) : z[Len(s) + i] = r[i]
  BY <1>1, ConcatElements
<1>3. PICK p, q, w : p = Mapped(f, s) /\ q = Mapped(f, r) /\ w = Mapped(f, z)
  OBVIOUS
<1>4. /\ p \in Seq(T) /\ Len(p) = Len(s) /\ q \in Seq(T) /\ Len(q) = Len(r)
      /\ w \in Seq(T) /\ Len(w) = Len(z)
      /\ \A i \in 1 .. Len(s) : p[i] = f[s[i]]
      /\ \A i \in 1 .. Len(r) : q[i] = f[r[i]]
      /\ \A i \in 1 .. Len(z) : w[i] = f[z[i]]
  <2>1. p \in Seq(T) /\ Len(p) = Len(s) /\ \A i \in 1 .. Len(s) : p[i] = f[s[i]]
    BY <1>3, MappedType
  <2>2. q \in Seq(T) /\ Len(q) = Len(r) /\ \A i \in 1 .. Len(r) : q[i] = f[r[i]]
    BY <1>3, MappedType
  <2>3. w \in Seq(T) /\ Len(w) = Len(z) /\ \A i \in 1 .. Len(z) : w[i] = f[z[i]]
    <3>1. z \in Seq(D)
      BY <1>2
    <3> QED BY <1>3, <3>1, MappedType
  <2> QED BY <2>1, <2>2, <2>3
<1>5. \A i \in 1 .. Len(p) : w[i] = p[i]
  <2> SUFFICES ASSUME NEW i \in 1 .. Len(s) PROVE w[i] = p[i]
    BY <1>4
  <2>1. i \in 1 .. Len(z) /\ z[i] = s[i]
    BY <1>2
  <2> QED BY <1>4, <2>1
<1>6. \A i \in 1 .. Len(q) : w[Len(p) + i] = q[i]
  <2> SUFFICES ASSUME NEW i \in 1 .. Len(r) PROVE w[Len(s) + i] = q[i]
    BY <1>4
  <2>1. PICK j : j = Len(s) + i
    OBVIOUS
  <2>2. j \in 1 .. Len(z) /\ z[j] = r[i]
    BY <1>2, <2>1
  <2>3. w[j] = f[z[j]] /\ q[i] = f[r[i]]
    BY <1>4, <2>2
  <2> QED BY <2>1, <2>2, <2>3
<1>7. Len(w) = Len(p) + Len(q)
  BY <1>2, <1>4
<1>8. w = p \o q
  <2>1. Joins(p, q, w)
    BY <1>5, <1>6, <1>7 DEF Joins
  <2> QED BY <1>4, <2>1, ConcatIs
<1> QED BY <1>1, <1>3, <1>8

\* Flattened, and of one element.
LEMMA MappedFlat ==
  ASSUME NEW D, NEW S, NEW f, IsMap(f, D, Seq(S)), NEW s \in Seq(D), NEW r \in Seq(D)
  PROVE  /\ FlattenSeq(Mapped(f, s)) \in Seq(S)
         /\ FlattenSeq(Mapped(f, s \o r)) = FlattenSeq(Mapped(f, s)) \o FlattenSeq(Mapped(f, r))
<1>1. PICK p, q : p = Mapped(f, s) /\ q = Mapped(f, r)
  OBVIOUS
<1>2. p \in Seq(Seq(S)) /\ q \in Seq(Seq(S)) /\ Mapped(f, s \o r) = p \o q
  <2>1. PICK T : T = Seq(S)
    OBVIOUS
  <2>2. IsMap(f, D, T)
    BY <2>1
  <2>3. p \in Seq(T) /\ q \in Seq(T)
    BY <1>1, <2>2, MappedType
  <2>4. Mapped(f, s \o r) = p \o q
    <3>1. Mapped(f, s \o r) = Mapped(f, s) \o Mapped(f, r)
      BY <2>2, MappedConcat, SMT
    <3> QED BY <1>1, <3>1
  <2> QED BY <2>1, <2>3, <2>4
<1>3. FlattenSeq(p \o q) = FlattenSeq(p) \o FlattenSeq(q)
  BY <1>2, FlatConcat
<1>4. <<>> \in Seq(S)
  OBVIOUS
<1>5. FlattenSeq(p) \in Seq(S)
  BY <1>2, <1>4, FlatAppend
<1> QED BY <1>1, <1>2, <1>3, <1>5

\* A list of one element, mapped and flattened.
LEMMA MappedOne ==
  ASSUME NEW D, NEW S, NEW f, IsMap(f, D, Seq(S)), NEW a \in D
  PROVE  /\ FlattenSeq(Mapped(f, <<a>>)) = f[a]
         /\ FlattenSeq(Mapped(f, <<>>)) = <<>>
<1>1. f[a] \in Seq(S) /\ <<>> \in Seq(Seq(S))
  BY DEF IsMap
<1>2. Mapped(f, <<>>) = <<>>
  BY DEF Mapped
<1>3. Mapped(f, <<a>>) = Append(<<>>, f[a])
  BY DEF Mapped
<1>4. FlattenSeq(<<>>) = <<>> /\ FlattenSeq(Append(<<>>, f[a])) = FlattenSeq(<<>>) \o f[a]
  BY <1>1, FlatAppend
<1>5. <<>> \o f[a] = f[a]
  BY <1>1, ConcatFacts
<1> QED BY <1>2, <1>3, <1>4, <1>5

\* Flatten of two lists, and of one value.
LEMMA FlattenIs ==
  ASSUME NEW s \in Seq(Prims), NEW r \in Seq(Prims), NEW a \in Prims
  PROVE  /\ Flatten(s) \in Seq(Flats) /\ Flatten(s \o r) = Flatten(s) \o Flatten(r)
         /\ Flatten(<<a>>) = Piece(a) /\ Flatten(<<>>) = <<>>
<1>1. PICK f : f = [b \in Prims |-> Piece(b)]
  OBVIOUS
<1>2. IsMap(f, Prims, Seq(Flats)) /\ \A b \in Prims : f[b] = Piece(b)
  BY <1>1, PieceIs DEF IsMap
<1>3. ASSUME NEW w \in Seq(Prims) PROVE Flatten(w) = FlattenSeq(Mapped(f, w))
  <2>1. \A i \in 1 .. Len(w) : w[i] \in Prims
    OBVIOUS
  <2>2. \A i \in 1 .. Len(w) : f[w[i]] = Piece(w[i])
    BY <1>2, <2>1
  <2>3. Mapped(f, w) = Pieces(w)
    BY <2>2 DEF Mapped, Pieces
  <2>4. Flatten(w) = FlattenSeq(Pieces(w))
    BY DEF Flatten, Pieces, Piece
  <2> QED BY <2>3, <2>4
<1>4. s \o r \in Seq(Prims) /\ <<a>> \in Seq(Prims) /\ <<>> \in Seq(Prims)
  OBVIOUS
<1>5. /\ FlattenSeq(Mapped(f, s)) \in Seq(Flats)
      /\ FlattenSeq(Mapped(f, s \o r)) = FlattenSeq(Mapped(f, s)) \o FlattenSeq(Mapped(f, r))
  BY <1>2, MappedFlat
<1>6. FlattenSeq(Mapped(f, <<a>>)) = f[a] /\ FlattenSeq(Mapped(f, <<>>)) = <<>>
  BY <1>2, MappedOne
<1> QED BY <1>2, <1>3, <1>4, <1>5, <1>6

\* Flatten of two lists is the two flattened.
LEMMA FlattenConcat ==
  ASSUME NEW s \in Seq(Prims), NEW r \in Seq(Prims)
  PROVE  Flatten(s) \in Seq(Flats) /\ Flatten(s \o r) = Flatten(s) \o Flatten(r)
<1>1. Int32(0) \in Prims
  BY UIntNat, WordType DEF Prims, Ints, Int32
<1> QED BY <1>1, FlattenIs

\* Flatten of one value is its piece.
LEMMA FlattenOne ==
  ASSUME NEW a \in Prims
  PROVE  Flatten(<<a>>) = Piece(a)
<1>1. <<>> \in Seq(Prims)
  OBVIOUS
<1> QED BY <1>1, FlattenIs

\* The bytes of two lists, and of one value.
LEMMA CodedIs ==
  ASSUME NEW s \in Seq(Flats), NEW r \in Seq(Flats), NEW a \in Flats
  PROVE  /\ Coded(s) \in Seq(Byte) /\ Coded(s \o r) = Coded(s) \o Coded(r)
         /\ Coded(<<a>>) = Encoded(a) /\ Coded(<<>>) = <<>>
<1>1. PICK f : f = [b \in Flats |-> Encoded(b)]
  OBVIOUS
<1>2. IsMap(f, Flats, Seq(Byte)) /\ \A b \in Flats : f[b] = Encoded(b)
  BY <1>1, EncodedType DEF IsMap
<1>3. ASSUME NEW w \in Seq(Flats) PROVE Coded(w) = FlattenSeq(Mapped(f, w))
  <2>1. \A i \in 1 .. Len(w) : w[i] \in Flats
    OBVIOUS
  <2>2. \A i \in 1 .. Len(w) : f[w[i]] = Encoded(w[i])
    BY <1>2, <2>1
  <2>3. Mapped(f, w) = [i \in 1 .. Len(w) |-> Encoded(w[i])]
    BY <2>2 DEF Mapped
  <2> QED BY <2>3 DEF Coded
<1>4. s \o r \in Seq(Flats) /\ <<a>> \in Seq(Flats) /\ <<>> \in Seq(Flats)
  OBVIOUS
<1>5. /\ FlattenSeq(Mapped(f, s)) \in Seq(Byte)
      /\ FlattenSeq(Mapped(f, s \o r)) = FlattenSeq(Mapped(f, s)) \o FlattenSeq(Mapped(f, r))
  BY <1>2, MappedFlat
<1>6. FlattenSeq(Mapped(f, <<a>>)) = f[a] /\ FlattenSeq(Mapped(f, <<>>)) = <<>>
  BY <1>2, MappedOne
<1> QED BY <1>2, <1>3, <1>4, <1>5, <1>6

\* The bytes of two lists are those of the one and those of the other.
LEMMA CodedConcat ==
  ASSUME NEW s \in Seq(Flats), NEW r \in Seq(Flats)
  PROVE  Coded(s) \in Seq(Byte) /\ Coded(s \o r) = Coded(s) \o Coded(r)
<1>1. Int32(0) \in Ints /\ Int32(0).t # "vector"
  BY UIntNat, WordType DEF Ints, Int32
<1>2. Int32(0) \in Flats
  BY <1>1 DEF Flats, Prims
<1> QED BY <1>2, CodedIs

\* The bytes of a list of one value are those of the value.
LEMMA CodedOne ==
  ASSUME NEW a \in Flats
  PROVE  Coded(<<a>>) = Encoded(a)
<1>1. <<>> \in Seq(Flats)
  OBVIOUS
<1> QED BY <1>1, CodedIs

\* A list without vectors stays what it is.
LEMMA FlattenFlat ==
  ASSUME NEW s \in Seq(Flats)
  PROVE  s \in Seq(Prims) /\ Flatten(s) = s
<1>1. Flats \subseteq Prims
  BY DEF Flats
<1>2. ASSUME NEW r \in Seq(Flats) PROVE r \in Seq(Prims)
  BY <1>1
<1> DEFINE N == {n \in Nat : \A r \in Seq(Flats) : Len(r) = n => Flatten(r) = r}
<1>3. 0 \in N
  <2> SUFFICES ASSUME NEW r \in Seq(Flats), Len(r) = 0 PROVE Flatten(r) = r
    OBVIOUS
  <2>1. r = <<>>
    BY EmptyOf
  <2>2. Flatten(<<>>) = <<>>
    BY DEF Flatten, FlattenSeq
  <2> QED BY <2>1, <2>2
<1>4. ASSUME NEW n \in Nat, n \in N PROVE n + 1 \in N
  <2> SUFFICES ASSUME NEW r \in Seq(Flats), Len(r) = n + 1 PROVE Flatten(r) = r
    OBVIOUS
  <2>1. PICK q \in Seq(Flats), a \in Flats : r = Append(q, a) /\ Len(q) = n
    BY LastOf
  <2>2. Flatten(q) = q
    BY <1>4, <2>1
  <2>3. a \in Prims /\ a.t # "vector" /\ q \in Seq(Prims) /\ <<a>> \in Seq(Prims)
    BY <1>1, <1>2 DEF Flats
  <2>4. Flatten(<<a>>) = Piece(a) /\ Piece(a) = <<a>>
    BY <2>3, FlattenOne DEF Piece
  <2>5. Flatten(q \o <<a>>) = Flatten(q) \o Flatten(<<a>>)
    BY <2>3, FlattenConcat
  <2>6. q \o <<a>> = r
    BY <2>1, ConcatOne
  <2> QED BY <2>2, <2>4, <2>5, <2>6
<1> HIDE DEF N
<1>5. Nat \subseteq N
  BY <1>3, <1>4, InductionOnSet
<1>6. Len(s) \in N
  BY <1>5
<1> QED BY <1>2, <1>6 DEF N

\* One << or >>: of a list, the first part of the first value.
LEMMA FlattenStep ==
  ASSUME NEW s \in Seq(Prims), s # <<>>
  PROVE  /\ Head(s) \in Prims /\ Tail(s) \in Seq(Prims)
         /\ Elements(Head(s)) \o Tail(s) \in Seq(Prims)
         /\ Flatten(s) = <<Lead(Head(s))>> \o Flatten(Elements(Head(s)) \o Tail(s))
<1>1. PICK a, r : a = Head(s) /\ r = Tail(s)
  OBVIOUS
<1>2. a \in Prims /\ r \in Seq(Prims) /\ s = <<a>> \o r /\ <<a>> \in Seq(Prims)
  BY <1>1, FirstOf
<1>3. PICK e, l, f : e = Elements(a) /\ l = <<Lead(a)>> /\ f = Flatten(r)
  OBVIOUS
<1>4. /\ e \in Seq(Flats) /\ e \in Seq(Prims) /\ l \in Seq(Flats) /\ f \in Seq(Flats)
      /\ Flatten(e) = e /\ Piece(a) = l \o e
  <2>1. e \in Seq(Flats) /\ e \in Seq(Prims)
    BY <1>2, <1>3, ElementsInts
  <2>2. Lead(a) \in Flats
    BY <1>2, LeadFlat
  <2>3. l \in Seq(Flats)
    BY <1>3, <2>2
  <2>4. Flatten(e) = e
    BY <2>1, FlattenFlat
  <2>5. f \in Seq(Flats)
    BY <1>2, <1>3, FlattenConcat
  <2>6. Piece(a) = l \o e
    BY <1>2, <1>3, PieceIs
  <2> QED BY <2>1, <2>3, <2>4, <2>5, <2>6
<1>5. Flatten(e \o r) = e \o f
  BY <1>2, <1>3, <1>4, FlattenConcat
<1>6. Flatten(s) = (l \o e) \o f
  <2>1. Flatten(<<a>> \o r) = Flatten(<<a>>) \o f
    BY <1>2, <1>3, FlattenConcat
  <2>2. Flatten(<<a>>) = l \o e
    BY <1>2, <1>4, FlattenOne
  <2> QED BY <1>2, <2>1, <2>2
<1>7. l \o (e \o f) = (l \o e) \o f
  BY <1>4, ConcatAssoc
<1>8. e \o r \in Seq(Prims)
  BY <1>2, <1>4, ConcatFacts
<1> QED BY <1>1, <1>2, <1>3, <1>5, <1>6, <1>7, <1>8

\* Ints take four bytes each.
LEMMA CodedInts ==
  ASSUME NEW s \in Seq(Ints)
  PROVE  s \in Seq(Flats) /\ Len(Coded(s)) = 4 * Len(s)
<1>1. \A a \in Ints : a \in Flats /\ Size(a) = 4
  BY DEF Flats, Prims, Ints, Size
<1>2. ASSUME NEW r \in Seq(Ints) PROVE r \in Seq(Flats)
  BY <1>1
<1> DEFINE N == {n \in Nat : \A r \in Seq(Ints) : Len(r) = n => Len(Coded(r)) = 4 * n}
<1>3. 0 \in N
  <2> SUFFICES ASSUME NEW r \in Seq(Ints), Len(r) = 0 PROVE Len(Coded(r)) = 0
    OBVIOUS
  <2>1. r = <<>>
    BY EmptyOf
  <2>2. Coded(<<>>) = <<>>
    BY DEF Coded, FlattenSeq
  <2> QED BY <2>1, <2>2
<1>4. ASSUME NEW n \in Nat, n \in N PROVE n + 1 \in N
  <2> SUFFICES ASSUME NEW r \in Seq(Ints), Len(r) = n + 1 PROVE Len(Coded(r)) = 4 * (n + 1)
    OBVIOUS
  <2>1. PICK q \in Seq(Ints), a \in Ints : r = Append(q, a) /\ Len(q) = n
    BY LastOf
  <2>2. Len(Coded(q)) = 4 * n
    BY <1>4, <2>1
  <2>3. a \in Flats /\ q \in Seq(Flats) /\ <<a>> \in Seq(Flats) /\ Size(a) = 4
    BY <1>1, <1>2
  <2>4. Coded(<<a>>) = Encoded(a) /\ Encoded(a) \in Seq(Byte) /\ Len(Encoded(a)) = 4
    BY <2>3, CodedOne, EncodedType
  <2>5. Coded(q \o <<a>>) = Coded(q) \o Coded(<<a>>) /\ Coded(q) \in Seq(Byte)
    BY <2>3, CodedConcat
  <2>6. q \o <<a>> = r
    BY <2>1, ConcatOne
  <2>7. Len(Coded(q) \o Encoded(a)) = Len(Coded(q)) + Len(Encoded(a))
    BY <2>4, <2>5, ConcatBytes
  <2>8. Coded(r) = Coded(q) \o Encoded(a)
    BY <2>4, <2>5, <2>6
  <2> QED BY <2>2, <2>4, <2>7, <2>8
<1> HIDE DEF N
<1>5. Nat \subseteq N
  BY <1>3, <1>4, InductionOnSet
<1>6. Len(s) \in N /\ Len(s) \in Nat
  BY <1>5
<1> QED BY <1>2, <1>6 DEF N

\* A value takes its size.
LEMMA CodedSize ==
  ASSUME NEW a \in Values
  PROVE  /\ Flatten(<<a>>) \in Seq(Flats) /\ Coded(Flatten(<<a>>)) \in Seq(Byte)
         /\ Len(Coded(Flatten(<<a>>))) <= MaxBytes
<1>1. a \in Prims /\ Size(a) <= MaxBytes
  BY SizeAssumption DEF Prims
<1>2. PICK e, l : e = Elements(a) /\ l = Lead(a)
  OBVIOUS
<1>3. e \in Seq(Ints) /\ e \in Seq(Flats) /\ l \in Flats /\ <<l>> \in Seq(Flats)
  BY <1>1, <1>2, ElementsInts, LeadFlat
<1>4. Flatten(<<a>>) = <<l>> \o e
  BY <1>1, <1>2, FlattenOne, PieceIs
<1>5. Coded(<<l>> \o e) = Coded(<<l>>) \o Coded(e) /\ Coded(<<l>>) = Encoded(l) /\ Coded(e) \in Seq(Byte)
  BY <1>3, CodedConcat, CodedOne
<1>6. Encoded(l) \in Seq(Byte) /\ Len(Encoded(l)) = Size(l) /\ Size(l) \in Nat
  BY <1>3, EncodedType
<1>7. Encoded(l) \o Coded(e) \in Seq(Byte) /\ Len(Encoded(l) \o Coded(e)) = Len(Encoded(l)) + Len(Coded(e))
  BY <1>5, <1>6, ConcatBytes
<1>8. Len(Coded(e)) = 4 * Len(e)
  BY <1>3, CodedInts
<1>9. Size(l) + 4 * Len(e) = Size(a)
  <2>1. CASE a.t = "vector"
    <3>1. Len(e) = Len(a.v) /\ Size(l) = 4 /\ Size(a) = 4 + 4 * Len(a.v)
      BY <1>1, <1>2, <2>1, ElementsInts DEF Size, Lead, Int32
    <3> QED BY <3>1
  <2>2. CASE a.t # "vector"
    <3>1. Len(e) = 0 /\ l = a
      BY <1>1, <1>2, <2>2, ElementsInts, LeadFlat
    <3> QED BY <1>6, <3>1
  <2> QED BY <2>1, <2>2
<1>10. Flatten(<<a>>) \in Seq(Flats)
  BY <1>3, <1>4, ConcatFacts
<1> QED BY <1>1, <1>4, <1>5, <1>6, <1>7, <1>8, <1>9, <1>10

\* So a message of so many values has so many bytes at most.
LEMMA CodedBound ==
  ASSUME NEW s \in Seq(Values)
  PROVE  /\ s \in Seq(Prims) /\ Flatten(s) \in Seq(Flats) /\ Coded(Flatten(s)) \in Seq(Byte)
         /\ Len(Coded(Flatten(s))) <= Len(s) * MaxBytes
<1>1. Values \subseteq Prims
  BY DEF Prims
<1>2. ASSUME NEW r \in Seq(Values)
      PROVE  r \in Seq(Prims) /\ Flatten(r) \in Seq(Flats) /\ Coded(Flatten(r)) \in Seq(Byte)
  <2>1. r \in Seq(Prims)
    BY <1>1
  <2>2. Flatten(r) \in Seq(Flats)
    BY <2>1, FlattenConcat
  <2>3. Coded(Flatten(r)) \in Seq(Byte)
    BY <2>2, CodedConcat
  <2> QED BY <2>1, <2>2, <2>3
<1> DEFINE N == {n \in Nat : \A r \in Seq(Values) : Len(r) = n => Len(Coded(Flatten(r))) <= n * MaxBytes}
<1>3. 0 \in N
  <2> SUFFICES ASSUME NEW r \in Seq(Values), Len(r) = 0 PROVE Len(Coded(Flatten(r))) <= 0 * MaxBytes
    OBVIOUS
  <2>1. r = <<>>
    BY EmptyOf
  <2>2. Coded(<<>>) = <<>> /\ Flatten(<<>>) = <<>>
    BY DEF Coded, FlattenSeq, Flatten
  <2> QED BY <2>1, <2>2, SizeAssumption
<1>4. ASSUME NEW n \in Nat, n \in N PROVE n + 1 \in N
  <2> SUFFICES ASSUME NEW r \in Seq(Values), Len(r) = n + 1
               PROVE  Len(Coded(Flatten(r))) <= (n + 1) * MaxBytes
    OBVIOUS
  <2>1. PICK q \in Seq(Values), a \in Values : r = Append(q, a) /\ Len(q) = n
    BY LastOf
  <2>2. PICK f, g : f = Flatten(q) /\ g = Flatten(<<a>>)
    OBVIOUS
  <2>3. q \in Seq(Prims) /\ f \in Seq(Flats) /\ Coded(f) \in Seq(Byte) /\ Len(Coded(f)) <= n * MaxBytes
    BY <1>2, <1>4, <2>1, <2>2
  <2>4. g \in Seq(Flats) /\ Coded(g) \in Seq(Byte) /\ Len(Coded(g)) <= MaxBytes
    BY <2>2, CodedSize
  <2>5. a \in Prims /\ <<a>> \in Seq(Prims)
    BY <1>1
  <2>6. q \o <<a>> = r
    BY <2>1, ConcatOne
  <2>7. Flatten(q \o <<a>>) = Flatten(q) \o Flatten(<<a>>)
    BY <2>3, <2>5, FlattenConcat
  <2>8. Coded(f \o g) = Coded(f) \o Coded(g)
    BY <2>3, <2>4, CodedConcat
  <2>9. Len(Coded(f) \o Coded(g)) = Len(Coded(f)) + Len(Coded(g)) /\ Len(Coded(f)) \in Nat /\ Len(Coded(g)) \in Nat
    BY <2>3, <2>4, ConcatBytes
  <2>10. Len(Coded(Flatten(r))) = Len(Coded(f)) + Len(Coded(g))
    BY <2>2, <2>6, <2>7, <2>8, <2>9
  <2>11. MaxBytes \in Nat /\ n * MaxBytes \in Nat /\ (n + 1) * MaxBytes = n * MaxBytes + MaxBytes
    BY SizeAssumption
  <2> QED BY <2>3, <2>4, <2>9, <2>10, <2>11
<1> HIDE DEF N
<1>5. Nat \subseteq N
  BY <1>3, <1>4, InductionOnSet
<1>6. Len(s) \in N /\ Len(s) \in Nat
  BY <1>5
<1> QED BY <1>2, <1>6 DEF N

-----------------------------------------------------------------------------
(* Messages.                                                               *)

\* A marshall object with the list w written, behind the room for a header.
Filled(x, w) ==
  /\ x.ind = RPC_HEADER_SZ + Len(Coded(w))
  /\ \A i \in 1 .. Len(Coded(w)) : x.buf[RPC_HEADER_SZ + i] = Coded(w)[i]

\* From i on b holds the list w, and nothing else.
Carries(b, i, w) ==
  /\ Len(b) \in Nat /\ Len(b) < Word /\ i \in Nat
  /\ Len(b) = i + Len(Coded(w)) /\ Holds(b, i, Coded(w))

\* One << more.
LEMMA WriteStep ==
  ASSUME NEW x, Fits(x), NEW w \in Seq(Flats), Filled(x, w), NEW a \in Prims
  PROVE  /\ Fits(shl(x, a)) /\ w \o <<Lead(a)>> \in Seq(Flats)
         /\ Filled(shl(x, a), w \o <<Lead(a)>>)
<1>1. PICK l, y : l = Lead(a) /\ y = shl(x, a)
  OBVIOUS
<1>2. l \in Flats /\ Wrote(x, y, Encoded(l)) /\ <<l>> \in Seq(Flats)
  BY <1>1, LeadFlat, ShlWrote
<1>3. Coded(w) \in Seq(Byte) /\ Coded(w \o <<l>>) = Coded(w) \o Encoded(l) /\ Encoded(l) \in Seq(Byte)
  BY <1>2, CodedConcat, CodedOne, EncodedType
<1>4. PICK c, e, z : c = Coded(w) /\ e = Encoded(l) /\ z = c \o e
  OBVIOUS
<1>5. /\ Len(c) \in Nat /\ Len(e) \in Nat /\ Len(z) = Len(c) + Len(e)
      /\ \A i \in 1 .. Len(c) : z[i] = c[i]
      /\ \A i \in 1 .. Len(e) : z[Len(c) + i] = e[i]
  BY <1>3, <1>4, ConcatElements
<1>6. /\ Fits(y) /\ x.ind = 24 + Len(c) /\ y.ind = x.ind + Len(e)
      /\ x.capa \in Nat /\ x.ind <= x.capa
      /\ \A i \in 1 .. Len(e) : y.buf[x.ind + i] = e[i]
      /\ \A i \in 1 .. x.capa : i <= x.ind => y.buf[i] = x.buf[i]
      /\ \A i \in 1 .. Len(c) : x.buf[24 + i] = c[i]
  BY <1>2, <1>4 DEF Wrote, Fits, Filled, RPC_HEADER_SZ
<1>7. ASSUME NEW i \in 1 .. Len(z) PROVE y.buf[24 + i] = z[i]
  <2>1. CASE i <= Len(c)
    <3>1. i \in 1 .. Len(c) /\ 24 + i \in 1 .. x.capa /\ 24 + i <= x.ind
      BY <1>5, <1>6, <2>1
    <3> QED BY <1>5, <1>6, <3>1
  <2>2. CASE i > Len(c)
    <3>1. PICK j : j = i - Len(c)
      OBVIOUS
    <3>2. j \in 1 .. Len(e) /\ i = Len(c) + j /\ 24 + i = x.ind + j
      BY <1>5, <1>6, <2>2, <3>1
    <3> QED BY <1>5, <1>6, <3>2
  <2> QED BY <1>5, <2>1, <2>2
<1>8. y.ind = 24 + Len(z)
  BY <1>5, <1>6
<1>9. z = Coded(w \o <<l>>)
  BY <1>3, <1>4
<1>10. Filled(y, w \o <<l>>)
  BY <1>7, <1>8, <1>9 DEF Filled, RPC_HEADER_SZ
<1>11. w \o <<l>> \in Seq(Flats)
  BY <1>2, ConcatFacts
<1> QED BY <1>1, <1>6, <1>10, <1>11

\* One >> more.
LEMMA ReadStep ==
  ASSUME NEW b, NEW i, NEW s \in Seq(Prims), s # <<>>, Carries(b, i, Flatten(s))
  PROVE  \E j \in Nat :
           /\ shr(Reader(b, i), Head(s).t) = [u |-> Reader(b, j), v |-> Lead(Head(s)).v]
           /\ Carries(b, j, Flatten(Elements(Head(s)) \o Tail(s)))
<1>1. PICK a, z, l : a = Head(s) /\ z = Elements(a) \o Tail(s) /\ l = Lead(a)
  OBVIOUS
<1>2. a \in Prims /\ z \in Seq(Prims) /\ Flatten(s) = <<l>> \o Flatten(z)
  BY <1>1, FlattenStep
<1>3. l \in Flats /\ <<l>> \in Seq(Flats) /\ Flatten(z) \in Seq(Flats)
  <2>1. l \in Flats
    BY <1>1, <1>2, LeadFlat
  <2>2. Flatten(z) \in Seq(Flats)
    BY <1>2, FlattenConcat
  <2> QED BY <2>1, <2>2
<1>4. PICK e, c : e = Encoded(l) /\ c = Coded(Flatten(z))
  OBVIOUS
<1>5. e \in Seq(Byte) /\ Len(e) = Size(l) /\ Size(l) \in Nat
  BY <1>3, <1>4, EncodedType
<1>6. c \in Seq(Byte) /\ Coded(<<l>> \o Flatten(z)) = Coded(<<l>>) \o c
  BY <1>3, <1>4, CodedConcat
<1>7. Coded(Flatten(s)) = e \o c
  BY <1>2, <1>3, <1>4, <1>6, CodedOne
<1>8. /\ Len(b) \in Nat /\ Len(b) < Word /\ i \in Nat
      /\ Len(b) = i + Len(e \o c) /\ Holds(b, i, e \o c)
  BY <1>7 DEF Carries
<1>9. Holds(b, i, e) /\ Holds(b, i + Len(e), c) /\ Len(e \o c) = Len(e) + Len(c) /\ Len(c) \in Nat
  BY <1>5, <1>6, <1>8, HoldsParts, ConcatBytes
<1>10. PICK j : j = i + Size(l)
  OBVIOUS
<1>11. j \in Nat /\ Len(b) = j + Len(c) /\ Holds(b, j, c)
  BY <1>5, <1>8, <1>9, <1>10
<1>12. Carries(b, j, Flatten(z))
  BY <1>4, <1>8, <1>11 DEF Carries
<1>13. shr(Reader(b, i), a.t) = [u |-> Reader(b, j), v |-> l.v]
  BY <1>1, <1>2, <1>4, <1>8, <1>9, <1>10, ShrReads
<1> QED BY <1>1, <1>11, <1>12, <1>13

\* A list that is not empty has bytes.
LEMMA SomeBytes ==
  ASSUME NEW b, NEW i, NEW s \in Seq(Prims), Carries(b, i, Flatten(s))
  PROVE  i <= Len(b) /\ (i = Len(b) <=> s = <<>>)
<1>1. CASE s = <<>>
  <2>0. <<>> \in Seq(Flats)
    OBVIOUS
  <2>1. Flatten(<<>>) = <<>>
    BY <2>0, FlattenFlat
  <2>2. Coded(<<>>) = <<>>
    BY DEF Coded, FlattenSeq
  <2> QED BY <1>1, <2>1, <2>2 DEF Carries
<1>2. CASE s # <<>>
  <2>1. PICK z, l : z = Elements(Head(s)) \o Tail(s) /\ l = Lead(Head(s))
    OBVIOUS
  <2>2. z \in Seq(Prims) /\ Flatten(s) = <<l>> \o Flatten(z) /\ l \in Flats
    BY <1>2, <2>1, FlattenStep, LeadFlat
  <2>3. Flatten(z) \in Seq(Flats) /\ <<l>> \in Seq(Flats)
    BY <2>2, FlattenConcat
  <2>4. PICK c : c = Coded(Flatten(z))
    OBVIOUS
  <2>5. Coded(Flatten(s)) = Encoded(l) \o c /\ c \in Seq(Byte)
    BY <2>2, <2>3, <2>4, CodedConcat, CodedOne
  <2>6. Encoded(l) \in Seq(Byte) /\ Len(Encoded(l)) \in Nat /\ Len(Encoded(l)) > 0
    BY <2>2, EncodedType
  <2>7. Len(Encoded(l) \o c) = Len(Encoded(l)) + Len(c) /\ Len(c) \in Nat
    BY <2>5, <2>6, ConcatBytes
  <2> QED BY <1>2, <2>5, <2>6, <2>7 DEF Carries
<1> QED BY <1>1, <1>2

\* The types of a list.
Tags == {"byte", "short", "int", "long", "string", "vector"}

\* Every value has a type.
LEMMA Tagged ==
  ASSUME NEW a \in Prims
  PROVE  a.t \in Tags
  BY Kinds DEF Tags

\* The types of two lists.
LEMMA TypesConcat ==
  ASSUME NEW s \in Seq(Prims), NEW r \in Seq(Prims)
  PROVE  /\ TypesOf(s) \in Seq(Tags) /\ Len(TypesOf(s)) = Len(s)
         /\ TypesOf(s \o r) = TypesOf(s) \o TypesOf(r)
<1>1. PICK f : f = [a \in Prims |-> a.t]
  OBVIOUS
<1>2. \A a \in Prims : a.t \in Tags
  BY Tagged
<1>3. IsMap(f, Prims, Tags) /\ \A a \in Prims : f[a] = a.t
  BY <1>1, <1>2 DEF IsMap
<1>4. ASSUME NEW w \in Seq(Prims) PROVE TypesOf(w) = Mapped(f, w)
  <2>1. \A i \in 1 .. Len(w) : w[i] \in Prims
    OBVIOUS
  <2> QED BY <1>3, <2>1 DEF TypesOf, Mapped
<1>5. s \o r \in Seq(Prims)
  OBVIOUS
<1>6. Mapped(f, s) \in Seq(Tags) /\ Len(Mapped(f, s)) = Len(s)
  BY <1>3, MappedType
<1>7. Mapped(f, s \o r) = Mapped(f, s) \o Mapped(f, r)
  BY <1>3, MappedConcat
<1> QED BY <1>4, <1>5, <1>6, <1>7

\* What is wanted after a >>.
LEMMA TypesStep ==
  ASSUME NEW s \in Seq(Prims), s # <<>>, NEW X \in Seq(Tags)
  PROVE  /\ TypesOf(s) \o X # <<>> /\ Head(TypesOf(s) \o X) = Head(s).t
         /\ (IF Head(s).t = "vector" THEN [i \in 1 .. Lead(Head(s)).v |-> "int"] ELSE <<>>)
              \o Tail(TypesOf(s) \o X) = TypesOf(Elements(Head(s)) \o Tail(s)) \o X
<1>1. PICK a, r : a = Head(s) /\ r = Tail(s)
  OBVIOUS
<1>2. a \in Prims /\ r \in Seq(Prims) /\ s = <<a>> \o r /\ <<a>> \in Seq(Prims)
  BY <1>1, FirstOf
<1>3. a.t \in Tags
  BY <1>2, Tagged
<1>4. TypesOf(<<a>>) = <<a.t>>
  BY DEF TypesOf
<1>5. PICK p : p = TypesOf(r)
  OBVIOUS
<1>6. p \in Seq(Tags) /\ TypesOf(s) = <<a.t>> \o p
  BY <1>2, <1>4, <1>5, TypesConcat
<1>7. TypesOf(s) \o X = <<a.t>> \o (p \o X) /\ p \o X \in Seq(Tags)
  BY <1>3, <1>6
<1>8. /\ TypesOf(s) \o X # <<>> /\ Head(TypesOf(s) \o X) = a.t
      /\ Tail(TypesOf(s) \o X) = p \o X
  BY <1>3, <1>7
<1>9. PICK e, q : e = Elements(a) /\ q = TypesOf(e)
  OBVIOUS
<1>10. e \in Seq(Prims) /\ e \in Seq(Ints)
  BY <1>2, <1>9, ElementsInts
<1>11. q \in Seq(Tags) /\ TypesOf(e \o r) = q \o p
  BY <1>2, <1>5, <1>9, <1>10, TypesConcat
<1>12. q = IF a.t = "vector" THEN [i \in 1 .. Lead(a).v |-> "int"] ELSE <<>>
  <2>1. CASE a.t = "vector"
    <3>1. Lead(a).v = Len(e)
      BY <1>2, <1>9, <2>1, ElementsInts DEF Lead, Int32
    <3>2. \A i \in 1 .. Len(e) : e[i].t = "int"
      <4>1. \A i \in 1 .. Len(e) : e[i] \in Ints
        BY <1>10
      <4>2. \A k \in Ints : k.t = "int"
        BY DEF Ints
      <4> QED BY <4>1, <4>2
    <3> QED BY <1>9, <2>1, <3>1, <3>2 DEF TypesOf
  <2>2. CASE a.t # "vector"
    <3>1. e = <<>>
      BY <1>2, <1>9, <2>2, ElementsInts
    <3> QED BY <1>9, <2>2, <3>1 DEF TypesOf
  <2> QED BY <2>1, <2>2
<1>13. q \o (p \o X) = (q \o p) \o X
  <2>1. q \in Seq(Tags) /\ p \in Seq(Tags)
    BY <1>6, <1>11
  <2> QED BY <2>1, ConcatAssoc
<1> QED BY <1>1, <1>8, <1>9, <1>11, <1>12, <1>13

-----------------------------------------------------------------------------
(* Headers.                                                                *)

\* An int packed behind what was written, and read there.
LEMMA IntBehind ==
  ASSUME NEW x, Fits(x), NEW s \in Seq(Byte), NEW y, Wrote(x, y, s), NEW n \in UInt
  PROVE  /\ s \o Bytes(n) \in Seq(Byte) /\ Len(s \o Bytes(n)) = Len(s) + 4
         /\ Wrote(x, pack(y, n), s \o Bytes(n))
<1>1. n \in Nat /\ Bytes(n) \in Seq(Byte) /\ Len(Bytes(n)) = 4
  BY UIntNat, BytesType
<1>2. Wrote(y, pack(y, n), Bytes(n))
  BY <1>1, PackWrote DEF Wrote
<1>3. Wrote(x, pack(y, n), s \o Bytes(n))
  BY <1>1, <1>2, WroteBoth
<1>4. s \o Bytes(n) \in Seq(Byte) /\ Len(s \o Bytes(n)) = Len(s) + 4
  BY <1>1, ConcatBytes
<1> QED BY <1>3, <1>4

\* The int is read back.
LEMMA IntBehindRead ==
  ASSUME NEW b, Len(b) \in Nat, NEW i \in Nat, NEW s \in Seq(Byte), NEW n \in UInt,
         Holds(b, i, s \o Bytes(n))
  PROVE  /\ Holds(b, i, s)
         /\ unpack(Reader(b, i + Len(s))) = [u |-> Reader(b, i + Len(s) + 4), v |-> n]
<1>1. n \in Nat /\ Bytes(n) \in Seq(Byte)
  BY UIntNat, BytesType
<1>2. Holds(b, i, s) /\ Holds(b, i + Len(s), Bytes(n))
  BY <1>1, HoldsParts
<1>3. i + Len(s) \in Nat
  OBVIOUS
<1> QED BY <1>2, <1>3, ReadInt

\* What was packed in front, and what is behind, are found in the pdu.
LEMMA PduHolds ==
  ASSUME NEW x, Fits(x), NEW w \in Seq(Flats), Filled(x, w), x.ind < Word,
         NEW s \in Seq(Byte), Len(s) <= 20, NEW e, Wrote([x EXCEPT !.ind = RPC_SZ], e, s),
         NEW y, y = [e EXCEPT !.ind = x.ind]
  PROVE  /\ Fits(y) /\ y.ind = x.ind
         /\ Holds(Pdu(y), RPC_SZ, s) /\ Carries(Pdu(y), RPC_HEADER_SZ, w)
<1>1. PICK c : c = Coded(w)
  OBVIOUS
<1>2. c \in Seq(Byte) /\ Len(c) \in Nat /\ Len(s) \in Nat
  BY <1>1, CodedConcat
<1>3. /\ x.ind = 24 + Len(c) /\ x.capa \in Nat /\ x.ind <= x.capa /\ x.ind \in Nat
      /\ \A i \in 1 .. Len(c) : x.buf[24 + i] = c[i]
  BY <1>1 DEF Filled, Fits, RPC_HEADER_SZ
<1>4. PICK x0 : x0 = [x EXCEPT !.ind = RPC_SZ]
  OBVIOUS
<1>5. x0.ind = 4 /\ x0.capa = x.capa /\ x0.buf = x.buf
  BY <1>4 DEF Fits, RPC_SZ
<1>6. /\ Fits(e) /\ e.capa >= x.capa /\ \A i \in 1 .. Len(s) : e.buf[4 + i] = s[i]
      /\ \A i \in 1 .. x.capa : i > 4 + Len(s) => e.buf[i] = x.buf[i]
  BY <1>4, <1>5 DEF Wrote
<1>7. Fits(y) /\ y.ind = x.ind /\ y.buf = e.buf
  BY <1>3, <1>6 DEF Fits
<1>8. PICK b : b = Pdu(y)
  OBVIOUS
<1>9. /\ DOMAIN b = 1 .. x.ind
      /\ \A i \in 1 .. x.ind : i > 4 => b[i] = e.buf[i]
  BY <1>3, <1>7, <1>8 DEF Pdu, RPC_SZ
<1>10. Len(b) = x.ind
  BY <1>3, <1>7, <1>8 DEF Pdu
<1>11. Holds(b, 4, s)
  <2>1. ASSUME NEW i \in 1 .. Len(s) PROVE b[4 + i] = s[i]
    <3>1. 4 + i \in 1 .. x.ind /\ 4 + i > 4
      BY <1>2, <1>3
    <3> QED BY <1>6, <1>9, <3>1
  <2> QED BY <1>2, <1>3, <1>10, <2>1 DEF Holds
<1>12. Holds(b, 24, c)
  <2>1. ASSUME NEW i \in 1 .. Len(c) PROVE b[24 + i] = c[i]
    <3>1. PICK k : k = 24 + i
      OBVIOUS
    <3>2. k \in 1 .. x.ind /\ k > 4 /\ k \in 1 .. x.capa /\ k > 4 + Len(s)
      BY <1>2, <1>3, <3>1
    <3>3. b[k] = e.buf[k] /\ e.buf[k] = x.buf[k]
      BY <1>6, <1>9, <3>2
    <3> QED BY <1>3, <3>1, <3>3
  <2> QED BY <1>2, <1>3, <1>10, <2>1 DEF Holds
<1>13. Carries(b, 24, w)
  BY <1>1, <1>3, <1>10, <1>12 DEF Carries
<1> QED BY <1>7, <1>8, <1>11, <1>13 DEF RPC_SZ, RPC_HEADER_SZ

\* Moving the write position to where a header begins.
LEMMA HeaderRoom ==
  ASSUME NEW x, Fits(x)
  PROVE  Fits([x EXCEPT !.ind = RPC_SZ])
  BY DEF Fits, RPC_SZ, RPC_HEADER_SZ

\* The header of a request is read as it was packed.
LEMMA ReqSent ==
  ASSUME NEW x, Fits(x), NEW w \in Seq(Flats), Filled(x, w), x.ind < Word, NEW h \in Headers,
         NEW y, y = pack_req_header(x, h), NEW b, b = Pdu(y)
  PROVE  /\ Fits(y) /\ y.ind = x.ind
         /\ unpack_req_header(NewUnmarshall(b)) = [u |-> Reader(b, RPC_HEADER_SZ), h |-> h]
         /\ Carries(b, RPC_HEADER_SZ, w)
<1>1. PICK n1, n2, n3, n4, n5 : n1 = h.xid /\ n2 = h.proc /\ n3 = h.clt_nonce /\ n4 = h.srv_nonce /\ n5 = h.xid_rep
  OBVIOUS
<1>2. n1 \in UInt /\ n2 \in UInt /\ n3 \in UInt /\ n4 \in UInt /\ n5 \in UInt
  BY <1>1, HeadersAssumption
<1>3. h = [xid |-> n1, proc |-> n2, clt_nonce |-> n3, srv_nonce |-> n4, xid_rep |-> n5]
  BY <1>1, HeadersAssumption
<1>4. PICK z : z = [x EXCEPT !.ind = RPC_SZ]
  OBVIOUS
<1>5. Fits(z)
  BY <1>4, HeaderRoom
<1>6. PICK y1, y2, y3, y4, y5 : y1 = pack(z, n1) /\ y2 = pack(y1, n2) /\ y3 = pack(y2, n3) /\ y4 = pack(y3, n4) /\ y5 = pack(y4, n5)
  OBVIOUS
<1>7. PICK s1, s2, s3, s4, s5 :
        s1 = Bytes(n1) /\ s2 = s1 \o Bytes(n2) /\ s3 = s2 \o Bytes(n3) /\ s4 = s3 \o Bytes(n4) /\ s5 = s4 \o Bytes(n5)
  OBVIOUS
<1>8. s1 \in Seq(Byte) /\ Len(s1) = 4 /\ Wrote(z, y1, s1)
  <2>1. n1 \in Nat
    BY <1>2, UIntNat
  <2> QED BY <1>5, <1>6, <1>7, <2>1, BytesType, PackWrote
<1>9. s2 \in Seq(Byte) /\ Len(s2) = 8 /\ Wrote(z, y2, s2)
  <2>1. n2 \in UInt /\ y2 = pack(y1, n2) /\ s2 = s1 \o Bytes(n2)
    BY <1>2, <1>6, <1>7
  <2>2. s2 \in Seq(Byte) /\ Len(s2) = Len(s1) + 4 /\ Wrote(z, y2, s2)
    BY <1>5, <1>8, <2>1, IntBehind
  <2> QED BY <1>8, <2>2
<1>10. s3 \in Seq(Byte) /\ Len(s3) = 12 /\ Wrote(z, y3, s3)
  <2>1. n3 \in UInt /\ y3 = pack(y2, n3) /\ s3 = s2 \o Bytes(n3)
    BY <1>2, <1>6, <1>7
  <2>2. s3 \in Seq(Byte) /\ Len(s3) = Len(s2) + 4 /\ Wrote(z, y3, s3)
    BY <1>5, <1>9, <2>1, IntBehind
  <2> QED BY <1>9, <2>2
<1>11. s4 \in Seq(Byte) /\ Len(s4) = 16 /\ Wrote(z, y4, s4)
  <2>1. n4 \in UInt /\ y4 = pack(y3, n4) /\ s4 = s3 \o Bytes(n4)
    BY <1>2, <1>6, <1>7
  <2>2. s4 \in Seq(Byte) /\ Len(s4) = Len(s3) + 4 /\ Wrote(z, y4, s4)
    BY <1>5, <1>10, <2>1, IntBehind
  <2> QED BY <1>10, <2>2
<1>12. s5 \in Seq(Byte) /\ Len(s5) = 20 /\ Wrote(z, y5, s5)
  <2>1. n5 \in UInt /\ y5 = pack(y4, n5) /\ s5 = s4 \o Bytes(n5)
    BY <1>2, <1>6, <1>7
  <2>2. s5 \in Seq(Byte) /\ Len(s5) = Len(s4) + 4 /\ Wrote(z, y5, s5)
    BY <1>5, <1>11, <2>1, IntBehind
  <2> QED BY <1>11, <2>2
<1>13. y = [y5 EXCEPT !.ind = x.ind]
  BY <1>1, <1>4, <1>6 DEF pack_req_header
<1>14. Fits(y) /\ y.ind = x.ind /\ Holds(b, 4, s5) /\ Carries(b, RPC_HEADER_SZ, w)
  <2>1. s5 \in Seq(Byte) /\ Len(s5) <= 20 /\ Wrote([x EXCEPT !.ind = RPC_SZ], y5, s5)
    BY <1>4, <1>12
  <2>2. Fits(y) /\ y.ind = x.ind /\ Holds(Pdu(y), RPC_SZ, s5) /\ Carries(Pdu(y), RPC_HEADER_SZ, w)
    BY <1>13, <2>1, PduHolds
  <2> QED BY <2>2 DEF RPC_SZ
<1>15. Len(b) \in Nat /\ 4 \in Nat
  BY <1>14 DEF Carries
<1>16. Holds(b, 4, s4) /\ unpack(Reader(b, 20)) = [u |-> Reader(b, 24), v |-> n5]
  <2>1. Holds(b, 4, s4 \o Bytes(n5)) /\ n5 \in UInt /\ s4 \in Seq(Byte)
    BY <1>2, <1>7, <1>11, <1>14
  <2>2. /\ Holds(b, 4, s4)
        /\ unpack(Reader(b, 4 + Len(s4))) = [u |-> Reader(b, 4 + Len(s4) + 4), v |-> n5]
    BY <1>15, <2>1, IntBehindRead
  <2>3. 4 + Len(s4) = 20 /\ 4 + Len(s4) + 4 = 24
    BY <1>11
  <2> QED BY <2>2, <2>3
<1>17. Holds(b, 4, s3) /\ unpack(Reader(b, 16)) = [u |-> Reader(b, 20), v |-> n4]
  <2>1. Holds(b, 4, s3 \o Bytes(n4)) /\ n4 \in UInt /\ s3 \in Seq(Byte)
    BY <1>2, <1>7, <1>10, <1>16
  <2>2. /\ Holds(b, 4, s3)
        /\ unpack(Reader(b, 4 + Len(s3))) = [u |-> Reader(b, 4 + Len(s3) + 4), v |-> n4]
    BY <1>15, <2>1, IntBehindRead
  <2>3. 4 + Len(s3) = 16 /\ 4 + Len(s3) + 4 = 20
    BY <1>10
  <2> QED BY <2>2, <2>3
<1>18. Holds(b, 4, s2) /\ unpack(Reader(b, 12)) = [u |-> Reader(b, 16), v |-> n3]
  <2>1. Holds(b, 4, s2 \o Bytes(n3)) /\ n3 \in UInt /\ s2 \in Seq(Byte)
    BY <1>2, <1>7, <1>9, <1>17
  <2>2. /\ Holds(b, 4, s2)
        /\ unpack(Reader(b, 4 + Len(s2))) = [u |-> Reader(b, 4 + Len(s2) + 4), v |-> n3]
    BY <1>15, <2>1, IntBehindRead
  <2>3. 4 + Len(s2) = 12 /\ 4 + Len(s2) + 4 = 16
    BY <1>9
  <2> QED BY <2>2, <2>3
<1>19. Holds(b, 4, s1) /\ unpack(Reader(b, 8)) = [u |-> Reader(b, 12), v |-> n2]
  <2>1. Holds(b, 4, s1 \o Bytes(n2)) /\ n2 \in UInt /\ s1 \in Seq(Byte)
    BY <1>2, <1>7, <1>8, <1>18
  <2>2. /\ Holds(b, 4, s1)
        /\ unpack(Reader(b, 4 + Len(s1))) = [u |-> Reader(b, 4 + Len(s1) + 4), v |-> n2]
    BY <1>15, <2>1, IntBehindRead
  <2>3. 4 + Len(s1) = 8 /\ 4 + Len(s1) + 4 = 12
    BY <1>8
  <2> QED BY <2>2, <2>3
<1>20. unpack(Reader(b, 4)) = [u |-> Reader(b, 8), v |-> n1]
  <2>1. Holds(b, 4, Bytes(n1)) /\ n1 \in UInt
    BY <1>2, <1>7, <1>19
  <2>2. unpack(Reader(b, 4)) = [u |-> Reader(b, 4 + 4), v |-> n1]
    BY <1>15, <2>1, ReadInt
  <2> QED BY <2>2
<1>21. [NewUnmarshall(b) EXCEPT !.ind = RPC_SZ] = Reader(b, 4)
  <2>1. NewUnmarshall(b) = Reader(b, 0)
    BY DEF NewUnmarshall, Reader
  <2> QED BY <2>1, Moved DEF RPC_SZ
<1>22. [Reader(b, 24) EXCEPT !.ind = RPC_HEADER_SZ] = Reader(b, RPC_HEADER_SZ)
  BY Moved
<1>23. unpack_req_header(NewUnmarshall(b)) = [u |-> Reader(b, RPC_HEADER_SZ), h |-> h]
  <2>1. PICK a1, a2, a3, a4, a5 :
          /\ a1 = unpack([NewUnmarshall(b) EXCEPT !.ind = RPC_SZ]) /\ a2 = unpack(a1.u)
          /\ a3 = unpack(a2.u) /\ a4 = unpack(a3.u) /\ a5 = unpack(a4.u)
    OBVIOUS
  <2>2. a1.u = Reader(b, 8) /\ a1.v = n1
    BY <1>20, <1>21, <2>1
  <2>3. a2.u = Reader(b, 12) /\ a2.v = n2
    BY <1>19, <2>1, <2>2
  <2>4. a3.u = Reader(b, 16) /\ a3.v = n3
    BY <1>18, <2>1, <2>3
  <2>5. a4.u = Reader(b, 20) /\ a4.v = n4
    BY <1>17, <2>1, <2>4
  <2>6. a5.u = Reader(b, 24) /\ a5.v = n5
    BY <1>16, <2>1, <2>5
  <2>7. unpack_req_header(NewUnmarshall(b)) =
          [u |-> [a5.u EXCEPT !.ind = RPC_HEADER_SZ],
           h |-> [xid |-> a1.v, proc |-> a2.v, clt_nonce |-> a3.v, srv_nonce |-> a4.v,
                  xid_rep |-> a5.v]]
    BY <2>1, Zenon DEF unpack_req_header
  <2> QED BY <1>3, <1>22, <2>2, <2>3, <2>4, <2>5, <2>6, <2>7
<1> QED BY <1>14, <1>23

\* So is the header of a reply, with room to spare.
LEMMA ReplySent ==
  ASSUME NEW x, Fits(x), NEW w \in Seq(Flats), Filled(x, w), x.ind < Word,
         NEW h \in [xid : UInt, ret : UInt], NEW y, y = pack_reply_header(x, h), NEW b, b = Pdu(y)
  PROVE  /\ Fits(y) /\ y.ind = x.ind
         /\ unpack_reply_header(NewUnmarshall(b)) = [u |-> Reader(b, RPC_HEADER_SZ), h |-> h]
         /\ Carries(b, RPC_HEADER_SZ, w)
<1>1. PICK n1, n2 : n1 = h.xid /\ n2 = h.ret
  OBVIOUS
<1>2. n1 \in UInt /\ n2 \in UInt
  BY <1>1
<1>3. h = [xid |-> n1, ret |-> n2]
  BY <1>1
<1>4. PICK z : z = [x EXCEPT !.ind = RPC_SZ]
  OBVIOUS
<1>5. Fits(z)
  BY <1>4, HeaderRoom
<1>6. PICK y1, y2 : y1 = pack(z, n1) /\ y2 = pack(y1, n2)
  OBVIOUS
<1>7. PICK s1, s2 :
        s1 = Bytes(n1) /\ s2 = s1 \o Bytes(n2)
  OBVIOUS
<1>8. s1 \in Seq(Byte) /\ Len(s1) = 4 /\ Wrote(z, y1, s1)
  <2>1. n1 \in Nat
    BY <1>2, UIntNat
  <2> QED BY <1>5, <1>6, <1>7, <2>1, BytesType, PackWrote
<1>9. s2 \in Seq(Byte) /\ Len(s2) = 8 /\ Wrote(z, y2, s2)
  <2>1. n2 \in UInt /\ y2 = pack(y1, n2) /\ s2 = s1 \o Bytes(n2)
    BY <1>2, <1>6, <1>7
  <2>2. s2 \in Seq(Byte) /\ Len(s2) = Len(s1) + 4 /\ Wrote(z, y2, s2)
    BY <1>5, <1>8, <2>1, IntBehind
  <2> QED BY <1>8, <2>2
<1>10. y = [y2 EXCEPT !.ind = x.ind]
  BY <1>1, <1>4, <1>6 DEF pack_reply_header
<1>11. Fits(y) /\ y.ind = x.ind /\ Holds(b, 4, s2) /\ Carries(b, RPC_HEADER_SZ, w)
  <2>1. s2 \in Seq(Byte) /\ Len(s2) <= 20 /\ Wrote([x EXCEPT !.ind = RPC_SZ], y2, s2)
    BY <1>4, <1>9
  <2>2. Fits(y) /\ y.ind = x.ind /\ Holds(Pdu(y), RPC_SZ, s2) /\ Carries(Pdu(y), RPC_HEADER_SZ, w)
    BY <1>10, <2>1, PduHolds
  <2> QED BY <2>2 DEF RPC_SZ
<1>12. Len(b) \in Nat /\ 4 \in Nat
  BY <1>11 DEF Carries
<1>13. Holds(b, 4, s1) /\ unpack(Reader(b, 8)) = [u |-> Reader(b, 12), v |-> n2]
  <2>1. Holds(b, 4, s1 \o Bytes(n2)) /\ n2 \in UInt /\ s1 \in Seq(Byte)
    BY <1>2, <1>7, <1>8, <1>11
  <2>2. /\ Holds(b, 4, s1)
        /\ unpack(Reader(b, 4 + Len(s1))) = [u |-> Reader(b, 4 + Len(s1) + 4), v |-> n2]
    BY <1>12, <2>1, IntBehindRead
  <2>3. 4 + Len(s1) = 8 /\ 4 + Len(s1) + 4 = 12
    BY <1>8
  <2> QED BY <2>2, <2>3
<1>14. unpack(Reader(b, 4)) = [u |-> Reader(b, 8), v |-> n1]
  <2>1. Holds(b, 4, Bytes(n1)) /\ n1 \in UInt
    BY <1>2, <1>7, <1>13
  <2>2. unpack(Reader(b, 4)) = [u |-> Reader(b, 4 + 4), v |-> n1]
    BY <1>12, <2>1, ReadInt
  <2> QED BY <2>2
<1>15. [NewUnmarshall(b) EXCEPT !.ind = RPC_SZ] = Reader(b, 4)
  <2>1. NewUnmarshall(b) = Reader(b, 0)
    BY DEF NewUnmarshall, Reader
  <2> QED BY <2>1, Moved DEF RPC_SZ
<1>16. [Reader(b, 12) EXCEPT !.ind = RPC_HEADER_SZ] = Reader(b, RPC_HEADER_SZ)
  BY Moved
<1>17. unpack_reply_header(NewUnmarshall(b)) = [u |-> Reader(b, RPC_HEADER_SZ), h |-> h]
  <2>1. unpack_reply_header(NewUnmarshall(b)) = [u |-> Reader(b, RPC_HEADER_SZ),
          h |-> [xid |-> n1, ret |-> n2]]
    <3>1. PICK p, q : p = [u |-> Reader(b, 8), v |-> n1] /\ q = [u |-> Reader(b, 12), v |-> n2]
      OBVIOUS
    <3>2. p.u = Reader(b, 8) /\ p.v = n1 /\ q.u = Reader(b, 12) /\ q.v = n2
      BY <3>1
    <3>3. unpack([NewUnmarshall(b) EXCEPT !.ind = RPC_SZ]) = p
      BY <1>14, <1>15, <3>1
    <3>4. unpack(p.u) = q
      BY <1>13, <3>1, <3>2
    <3>5. unpack_reply_header(NewUnmarshall(b))
            = [u |-> [q.u EXCEPT !.ind = RPC_HEADER_SZ], h |-> [xid |-> p.v, ret |-> q.v]]
      BY <3>3, <3>4 DEF unpack_reply_header
    <3> QED BY <1>16, <3>2, <3>5
  <2> QED BY <1>3, <2>1
<1> QED BY <1>11, <1>17

-----------------------------------------------------------------------------
(* One call.                                                               *)

\* Of the list A all but l was marshalled into x.
Writes(A, l, x) ==
  /\ l \in Seq(Prims)
  /\ \E w \in Seq(Flats) : Flatten(A) = w \o Flatten(l) /\ Filled(x, w)

\* Of A the values g were unmarshalled from x; left are those of r, whose
\* types are wanted, and of Y, whose are not.  Nothing is left for X.
Reads(A, l, g, x, r, X, Y) ==
  /\ r \in Seq(Prims) /\ Y \in Seq(Prims) /\ X \in Seq(Tags)
  /\ l = TypesOf(r) \o X /\ g \in Seq(Flats) /\ Flatten(A) = g \o Flatten(r \o Y)
  /\ \E i \in Nat : x = Reader(x.buf, i) /\ Carries(x.buf, i, Flatten(r \o Y))

\* Marshalling goes on.
LEMMA WritesStep ==
  ASSUME NEW A, NEW l, NEW x, Fits(x), Writes(A, l, x), l # <<>>
  PROVE  /\ Fits(shl(x, Head(l)))
         /\ Writes(A, Elements(Head(l)) \o Tail(l), shl(x, Head(l)))
<1>1. l \in Seq(Prims)
  BY DEF Writes
<1>2. PICK w \in Seq(Flats) : Flatten(A) = w \o Flatten(l) /\ Filled(x, w)
  BY DEF Writes
<1>3. PICK z, q : z = Elements(Head(l)) \o Tail(l) /\ q = <<Lead(Head(l))>>
  OBVIOUS
<1>4. Head(l) \in Prims /\ z \in Seq(Prims) /\ Flatten(l) = q \o Flatten(z)
  BY <1>1, <1>3, FlattenStep
<1>5. Fits(shl(x, Head(l))) /\ w \o q \in Seq(Flats) /\ Filled(shl(x, Head(l)), w \o q)
  BY <1>2, <1>3, <1>4, WriteStep
<1>6. w \o (q \o Flatten(z)) = (w \o q) \o Flatten(z)
  <2>1. Lead(Head(l)) \in Flats
    BY <1>4, LeadFlat
  <2>2. q \in Seq(Flats)
    BY <1>3, <2>1
  <2>3. PICK f : f = Flatten(z)
    OBVIOUS
  <2>4. f \in Seq(Flats)
    BY <1>4, <2>3, FlattenConcat
  <2>5. w \o (q \o f) = (w \o q) \o f
    BY <2>2, <2>4, ConcatAssoc
  <2> QED BY <2>3, <2>5
<1> QED BY <1>2, <1>3, <1>4, <1>5, <1>6 DEF Writes

\* It begins with an empty object, and ends with the whole list in it.
LEMMA WritesBegins ==
  ASSUME NEW A \in Seq(Values)
  PROVE  Fits(NewMarshall) /\ Filled(NewMarshall, <<>>) /\ Writes(A, A, NewMarshall)
<1>1. A \in Seq(Prims) /\ Flatten(A) \in Seq(Flats)
  BY CodedBound
<1>2. Fits(NewMarshall)
  BY BufferAssumption DEF Fits, NewMarshall, RPC_HEADER_SZ
<1>3. Coded(<<>>) = <<>>
  BY DEF Coded, FlattenSeq
<1>4. Filled(NewMarshall, <<>>)
  BY <1>3 DEF Filled, NewMarshall, RPC_HEADER_SZ
<1>5. <<>> \in Seq(Flats) /\ <<>> \o Flatten(A) = Flatten(A)
  BY <1>1, ConcatFacts
<1> QED BY <1>1, <1>2, <1>4, <1>5 DEF Writes

\* Marshalling ends with the whole list in the object, and an int counts its bytes.
LEMMA WritesEnds ==
  ASSUME NEW A \in Seq(Values), Len(A) <= MaxArgs \/ Len(A) = 1, NEW x, Writes(A, <<>>, x)
  PROVE  Flatten(A) \in Seq(Flats) /\ Filled(x, Flatten(A)) /\ x.ind < Word
<1>1. /\ Flatten(A) \in Seq(Flats) /\ Coded(Flatten(A)) \in Seq(Byte)
      /\ Len(Coded(Flatten(A))) <= Len(A) * MaxBytes /\ Len(A) \in Nat
  BY CodedBound
<1>2. PICK w \in Seq(Flats) : Flatten(A) = w \o Flatten(<<>>) /\ Filled(x, w)
  BY DEF Writes
<1>3. Flatten(<<>>) = <<>> /\ w \o <<>> = w
  <2>1. <<>> \in Seq(Flats)
    OBVIOUS
  <2> QED BY <2>1, FlattenFlat, ConcatFacts
<1>4. Filled(x, Flatten(A))
  BY <1>2, <1>3
<1>5. RPC_HEADER_SZ + Len(A) * MaxBytes < Word
  <2>1. CASE Len(A) <= MaxArgs
    BY <1>1, <2>1, Sizes
  <2>2. CASE Len(A) = 1
    <3>1. MaxBytes \in Nat /\ 1 * MaxBytes = MaxBytes
      BY SizeAssumption
    <3> QED BY <2>2, <3>1, Sizes
  <2> QED BY <2>1, <2>2
<1>6. x.ind = RPC_HEADER_SZ + Len(Coded(Flatten(A))) /\ Len(Coded(Flatten(A))) \in Nat
  BY <1>1, <1>4 DEF Filled
<1>7. Len(A) * MaxBytes \in Nat /\ Word \in Nat /\ RPC_HEADER_SZ = 24
  BY <1>1, SizeAssumption, WordType DEF RPC_HEADER_SZ
<1> QED BY <1>1, <1>4, <1>5, <1>6, <1>7

\* Unmarshalling goes on.
LEMMA ReadsStep ==
  ASSUME NEW A, NEW l, NEW g, NEW x, NEW r, NEW X, NEW Y, Reads(A, l, g, x, r, X, Y), r # <<>>,
         NEW t, t = Head(l), NEW s, s = shr(x, t)
  PROVE  Reads(A, (IF t = "vector" THEN [i \in 1 .. s.v |-> "int"] ELSE <<>>) \o Tail(l),
               Append(g, [t |-> IF t = "vector" THEN "int" ELSE t, v |-> s.v]),
               s.u, Elements(Head(r)) \o Tail(r), X, Y)
<1>1. /\ r \in Seq(Prims) /\ Y \in Seq(Prims) /\ X \in Seq(Tags)
      /\ l = TypesOf(r) \o X /\ g \in Seq(Flats) /\ Flatten(A) = g \o Flatten(r \o Y)
  BY DEF Reads
<1>2. PICK i \in Nat : x = Reader(x.buf, i) /\ Carries(x.buf, i, Flatten(r \o Y))
  BY DEF Reads
<1>3. PICK a, e, q, p, z : a = Head(r) /\ e = Elements(a) /\ q = Tail(r) /\ p = r \o Y /\ z = e \o q
  OBVIOUS
<1>4. a \in Prims /\ q \in Seq(Prims) /\ e \in Seq(Prims) /\ z \in Seq(Prims)
  <2>1. a \in Prims /\ q \in Seq(Prims)
    BY <1>1, <1>3, FirstOf
  <2>2. e \in Seq(Prims)
    BY <1>3, <2>1, ElementsInts
  <2> QED BY <1>3, <2>1, <2>2, ConcatFacts
<1>5. p \in Seq(Prims) /\ p # <<>> /\ Head(p) = a /\ Tail(p) = q \o Y
  BY <1>1, <1>3
<1>6. e \o (q \o Y) = z \o Y /\ z \o Y \in Seq(Prims)
  <2>1. z = e \o q /\ Y \in Seq(Prims)
    BY <1>1, <1>3
  <2>2. e \o (q \o Y) = (e \o q) \o Y
    BY <1>4, <2>1, ConcatAssoc
  <2>3. z \o Y \in Seq(Prims)
    BY <1>4, <2>1, ConcatFacts
  <2> QED BY <2>1, <2>2, <2>3
<1>7. PICK j \in Nat : /\ shr(Reader(x.buf, i), a.t) = [u |-> Reader(x.buf, j), v |-> Lead(a).v]
                       /\ Carries(x.buf, j, Flatten(z \o Y))
  <2>1. Carries(x.buf, i, Flatten(p))
    BY <1>2, <1>3
  <2>2. \E j \in Nat :
           /\ shr(Reader(x.buf, i), Head(p).t) = [u |-> Reader(x.buf, j), v |-> Lead(Head(p)).v]
           /\ Carries(x.buf, j, Flatten(Elements(Head(p)) \o Tail(p)))
    BY <1>5, <2>1, ReadStep
  <2>3. Elements(Head(p)) \o Tail(p) = z \o Y
    BY <1>3, <1>5, <1>6
  <2> QED BY <1>5, <2>2, <2>3
<1>8. t = a.t /\ (IF t = "vector" THEN [k \in 1 .. Lead(a).v |-> "int"] ELSE <<>>) \o Tail(l) = TypesOf(z) \o X
  BY <1>1, <1>3, TypesStep
<1>9. s = [u |-> Reader(x.buf, j), v |-> Lead(a).v]
  BY <1>2, <1>7, <1>8
<1>10. s.u = Reader(x.buf, j) /\ s.v = Lead(a).v /\ s.u.buf = x.buf
  <2>1. s.u = Reader(x.buf, j) /\ s.v = Lead(a).v
    BY <1>9
  <2>2. Reader(x.buf, j).buf = x.buf
    BY DEF Reader
  <2> QED BY <2>1, <2>2
<1>11. [t |-> IF t = "vector" THEN "int" ELSE t, v |-> s.v] = Lead(a)
  <2>1. CASE a.t = "vector"
    BY <1>8, <1>10, <2>1 DEF Lead, Int32
  <2>2. CASE a.t # "vector"
    <3>1. Lead(a) = a /\ a = [t |-> a.t, v |-> a.v]
      BY <1>4, <2>2, Kinds, LeadFlat
    <3> QED BY <1>8, <1>10, <2>2, <3>1
  <2> QED BY <2>1, <2>2
<1>12. PICK b, f : b = Lead(a) /\ f = Flatten(z \o Y)
  OBVIOUS
<1>13. b \in Flats /\ f \in Seq(Flats) /\ <<b>> \in Seq(Flats)
  <2>1. b \in Flats
    BY <1>4, <1>12, LeadFlat
  <2>2. f \in Seq(Flats)
    BY <1>6, <1>12, FlattenConcat
  <2> QED BY <2>1, <2>2
<1>14. Flatten(p) = <<b>> \o f
  <2>1. Flatten(p) = <<Lead(Head(p))>> \o Flatten(Elements(Head(p)) \o Tail(p))
    BY <1>5, FlattenStep
  <2> QED BY <1>3, <1>5, <1>6, <1>12, <2>1
<1>15. g \o (<<b>> \o f) = (g \o <<b>>) \o f /\ g \o <<b>> = Append(g, b) /\ Append(g, b) \in Seq(Flats)
  <2>1. g \in Seq(Flats)
    BY <1>1
  <2>2. g \o (<<b>> \o f) = (g \o <<b>>) \o f
    BY <1>13, <2>1, ConcatAssoc
  <2>3. g \o <<b>> = Append(g, b)
    BY <1>13, <2>1, ConcatOne
  <2>4. Append(g, b) \in Seq(Flats)
    BY <1>13, <2>1
  <2> QED BY <2>2, <2>3, <2>4
<1>16. Flatten(A) = Append(g, b) \o f
  BY <1>1, <1>3, <1>14, <1>15
<1>17. /\ s.u = Reader(s.u.buf, j) /\ Carries(s.u.buf, j, Flatten(z \o Y))
  BY <1>7, <1>10
<1> QED BY <1>1, <1>3, <1>4, <1>8, <1>10, <1>11, <1>12, <1>15, <1>16, <1>17 DEF Reads

\* Unmarshalling begins.
LEMMA ReadsBegins ==
  ASSUME NEW A, NEW r \in Seq(Prims), NEW X \in Seq(Tags), NEW Y \in Seq(Prims), A = r \o Y,
         NEW b, Carries(b, RPC_HEADER_SZ, Flatten(A))
  PROVE  Reads(A, TypesOf(r) \o X, <<>>, Reader(b, RPC_HEADER_SZ), r, X, Y)
<1>1. A \in Seq(Prims)
  BY ConcatFacts
<1>2. Flatten(A) \in Seq(Flats)
  BY <1>1, FlattenConcat
<1>3. <<>> \in Seq(Flats) /\ Flatten(A) = <<>> \o Flatten(A)
  BY <1>2, ConcatFacts
<1>4. Reader(b, RPC_HEADER_SZ).buf = b /\ RPC_HEADER_SZ \in Nat
  BY DEF Reader, RPC_HEADER_SZ
<1> QED BY <1>3, <1>4 DEF Reads

\* When all that is wanted was read, everything was, or okdone fails.
LEMMA ReadsEnds ==
  ASSUME NEW A, NEW g, NEW x, NEW r, NEW X, NEW Y, Reads(A, <<>>, g, x, r, X, Y)
  PROVE  X = <<>> /\ (okdone(x) <=> Y = <<>>) /\ (Y = <<>> => g = Flatten(A))
<1>1. /\ r \in Seq(Prims) /\ Y \in Seq(Prims) /\ X \in Seq(Tags)
      /\ <<>> = TypesOf(r) \o X /\ g \in Seq(Flats) /\ Flatten(A) = g \o Flatten(r \o Y)
  BY DEF Reads
<1>2. PICK i \in Nat : x = Reader(x.buf, i) /\ Carries(x.buf, i, Flatten(r \o Y))
  BY DEF Reads
<1>3. PICK p : p = TypesOf(r)
  OBVIOUS
<1>4. p \in Seq(Tags) /\ Len(p) = Len(r)
  BY <1>1, <1>3, TypesConcat
<1>5. Len(p) = 0 /\ Len(X) = 0
  <2>1. Len(p \o X) = 0 /\ X \in Seq(Tags)
    BY <1>1, <1>3
  <2>2. Len(p \o X) = Len(p) + Len(X) /\ Len(p) \in Nat /\ Len(X) \in Nat
    BY <1>4, <2>1, ConcatElements
  <2> QED BY <2>1, <2>2
<1>6. r = <<>> /\ X = <<>>
  BY <1>1, <1>4, <1>5, EmptyOf
<1>7. r \o Y = Y
  BY <1>1, <1>6, ConcatFacts
<1>8. i = Len(x.buf) <=> Y = <<>>
  BY <1>1, <1>2, <1>7, SomeBytes
<1>9. x.ok /\ x.ind = i
  BY <1>2 DEF Reader
<1>10. Y = <<>> => g = Flatten(A)
  <2> SUFFICES ASSUME Y = <<>> PROVE g = Flatten(A)
    OBVIOUS
  <2>1. <<>> \in Seq(Flats)
    OBVIOUS
  <2>2. Flatten(<<>>) = <<>>
    BY <2>1, FlattenFlat
  <2>3. g \o <<>> = g
    BY <1>1, ConcatFacts
  <2> QED BY <1>1, <1>7, <2>2, <2>3
<1> QED BY <1>6, <1>8, <1>9, <1>10 DEF okdone

\* What is wanted beyond the last value makes a >> fail.
LEMMA ReadsBeyond ==
  ASSUME NEW A, NEW l, NEW g, NEW x, NEW X, Reads(A, l, g, x, <<>>, X, <<>>), NEW t
  PROVE  Failed(shr(x, t).u)
<1>1. PICK i \in Nat : x = Reader(x.buf, i) /\ Carries(x.buf, i, Flatten(<<>> \o <<>>))
  BY DEF Reads
<1>2. <<>> \o <<>> = <<>> /\ <<>> \in Seq(Prims)
  OBVIOUS
<1>3. i = Len(x.buf)
  BY <1>1, <1>2, SomeBytes
<1>4. AtEnd(x)
  BY <1>1, <1>3 DEF AtEnd, Reader
<1> QED BY <1>4, ShrFails

\* The types s and those of A agree as far as both go.
Comparable(s, A) ==
  s = TypesOf(A) \/ IsStrictPrefix(s, TypesOf(A)) \/ IsStrictPrefix(TypesOf(A), s)

\* A sequence and a longer one.
LEMMA PrefixElements ==
  ASSUME NEW S, NEW s \in Seq(S), NEW t \in Seq(S), IsPrefix(s, t)
  PROVE  Len(s) <= Len(t) /\ \A i \in 1 .. Len(s) : s[i] = t[i]
<1>1. PICK p, q : p = SubSeq(s, 1, Len(s)) /\ q = SubSeq(t, 1, Len(s))
  OBVIOUS
<1>2. Len(s) <= Len(t) /\ p = q
  BY <1>1 DEF IsPrefix
<1>3. /\ \A i \in 1 .. Len(s) : p[i] = s[i]
      /\ \A i \in 1 .. Len(s) : q[i] = t[i]
  BY <1>1, <1>2
<1> QED BY <1>2, <1>3

\* A sequence in two parts.
LEMMA Parts ==
  ASSUME NEW S, NEW t \in Seq(S), NEW n \in 0 .. Len(t)
  PROVE  \E p \in Seq(S), q \in Seq(S) : t = p \o q /\ Len(p) = n
<1>1. PICK p, q : p = SubSeq(t, 1, n) /\ q = SubSeq(t, n + 1, Len(t))
  OBVIOUS
<1>2. p \in Seq(S) /\ q \in Seq(S) /\ Len(p) = n /\ Len(q) = Len(t) - n
  BY <1>1
<1>3. Joins(p, q, t)
  <2>1. \A i \in 1 .. n : t[i] = p[i]
    BY <1>1
  <2>2. \A i \in 1 .. Len(t) - n : t[n + i] = q[i]
    BY <1>1
  <2>3. Len(t) = Len(p) + Len(q)
    BY <1>2
  <2> QED BY <1>2, <2>1, <2>2, <2>3 DEF Joins
<1>4. t = p \o q
  BY <1>2, <1>3, ConcatIs
<1> QED BY <1>2, <1>4

\* Comparable types have values to read, and more of the one or of the other.
LEMMA Matches ==
  ASSUME NEW A \in Seq(Prims), NEW s \in Seq(Tags), Comparable(s, A)
  PROVE  \E r \in Seq(Prims), X \in Seq(Tags), Y \in Seq(Prims) :
           /\ A = r \o Y /\ s = TypesOf(r) \o X /\ (X = <<>> \/ Y = <<>>)
           /\ (X = <<>> /\ Y = <<>>) <=> s = TypesOf(A)
<1>1. PICK a : a = TypesOf(A)
  OBVIOUS
<1>2. a \in Seq(Tags) /\ Len(a) = Len(A) /\ Len(A) \in Nat /\ Len(s) \in Nat
  BY <1>1, TypesConcat
<1>3. A \o <<>> = A /\ a \o <<>> = a /\ <<>> \in Seq(Tags) /\ <<>> \in Seq(Prims)
  BY <1>2, ConcatFacts
<1>4. CASE s = a
  <2>1. A = A \o <<>> /\ s = TypesOf(A) \o <<>>
    BY <1>1, <1>3, <1>4
  <2> QED BY <1>1, <1>3, <1>4, <2>1
<1>5. CASE IsStrictPrefix(s, a)
  <2>1. IsPrefix(s, a) /\ s # a
    BY <1>5 DEF IsStrictPrefix
  <2>2. Len(s) <= Len(A) /\ \A i \in 1 .. Len(s) : s[i] = a[i]
    BY <1>2, <2>1, PrefixElements
  <2>3. Len(s) \in 0 .. Len(A)
    BY <1>2, <2>2
  <2>4. PICK r \in Seq(Prims), Y \in Seq(Prims) : A = r \o Y /\ Len(r) = Len(s)
    <3>1. PICK n : n = Len(s)
      OBVIOUS
    <3>2. n \in 0 .. Len(A)
      BY <2>3, <3>1
    <3>3. \E r \in Seq(Prims), Y \in Seq(Prims) : A = r \o Y /\ Len(r) = n
      BY <3>2, Parts
    <3> QED BY <3>1, <3>3
  <2>5. PICK b, c : b = TypesOf(r) /\ c = TypesOf(Y)
    OBVIOUS
  <2>6. b \in Seq(Tags) /\ c \in Seq(Tags) /\ Len(b) = Len(s) /\ a = b \o c
    BY <1>1, <2>4, <2>5, TypesConcat
  <2>7. \A i \in 1 .. Len(s) : b[i] = a[i]
    BY <2>6, ConcatElements
  <2>8. s = b
    BY <2>2, <2>6, <2>7, SameSeq
  <2>9. Y # <<>>
    <3> SUFFICES ASSUME Y = <<>> PROVE FALSE
      OBVIOUS
    <3>1. A = r
      BY <2>4, ConcatFacts
    <3> QED BY <1>1, <2>1, <2>5, <2>8, <3>1
  <2>10. s = TypesOf(r) \o <<>>
    BY <2>5, <2>8, ConcatFacts
  <2> QED BY <1>1, <1>3, <2>1, <2>4, <2>9, <2>10
<1>6. CASE IsStrictPrefix(a, s)
  <2>1. IsPrefix(a, s) /\ s # a
    BY <1>6 DEF IsStrictPrefix
  <2>2. Len(a) <= Len(s) /\ \A i \in 1 .. Len(a) : a[i] = s[i]
    BY <1>2, <2>1, PrefixElements
  <2>3. Len(a) \in 0 .. Len(s)
    BY <1>2, <2>2
  <2>4. PICK p \in Seq(Tags), X \in Seq(Tags) : s = p \o X /\ Len(p) = Len(a)
    <3>1. PICK n : n = Len(a)
      OBVIOUS
    <3>2. n \in 0 .. Len(s)
      BY <2>3, <3>1
    <3>3. \E p \in Seq(Tags), X \in Seq(Tags) : s = p \o X /\ Len(p) = n
      BY <3>2, Parts
    <3> QED BY <3>1, <3>3
  <2>5. \A i \in 1 .. Len(p) : s[i] = p[i]
    BY <2>4, ConcatElements
  <2>6. p = a
    BY <1>2, <2>2, <2>4, <2>5, SameSeq
  <2>7. X # <<>>
    <3> SUFFICES ASSUME X = <<>> PROVE FALSE
      OBVIOUS
    <3>1. s = p
      BY <2>4, ConcatFacts
    <3> QED BY <2>1, <2>6, <3>1
  <2>8. A = A \o <<>> /\ s = TypesOf(A) \o X
    BY <1>1, <1>3, <2>4, <2>6
  <2> QED BY <1>1, <1>3, <2>1, <2>7, <2>8
<1> QED BY <1>1, <1>4, <1>5, <1>6 DEF Comparable

-----------------------------------------------------------------------------(* The inductive invariant, a part for each place the call can be in.      *)

\* rpcc::call marshals: what is in the buffer and what is left are the
\* arguments.
AtArgs == at = "args" => Writes(args, todo, m) /\ res = <<>> /\ got = <<>>

\* The request is on its way: its header reads as packed, and behind it are
\* the bytes of the arguments, and no other.
AtRequest ==
  at = "request" =>
    /\ hdr \in Headers /\ res = <<>> /\ got = <<>>
    /\ unpack_req_header(u) = [u |-> Reader(u.buf, RPC_HEADER_SZ), h |-> hdr]
    /\ Carries(u.buf, RPC_HEADER_SZ, Flatten(args))

\* The handler reads: it has failed already, which it does only when the types
\* differ, or what it has read and what is left are the arguments.
FnReads ==
  \/ Failed(u) /\ sig # TypesOf(args)
  \/ \E r, X, Y : /\ Reads(args, want, got, u, r, X, Y) /\ (X = <<>> \/ Y = <<>>)
                  /\ (X = <<>> /\ Y = <<>>) <=> sig = TypesOf(args)

\* The handler was called.  When the first difference between the types is
\* that one list ends, it reads as above; when two types differ it may read
\* anything.
AtFn ==
  at = "fn" =>
    /\ hdr \in Headers /\ hdr_in = hdr /\ m = NewMarshall /\ res = <<>>
    /\ Comparable(sig, args) => FnReads

\* okdone let the method run.
AtMeth ==
  at = "meth" =>
    /\ hdr \in Headers /\ hdr_in = hdr /\ m = NewMarshall
    /\ Comparable(sig, args) => sig = TypesOf(args) /\ got = Flatten(args)

\* The handler marshals its result into a buffer that was empty.
AtResult ==
  at = "result" =>
    /\ hdr_in \in Headers /\ Writes(res, todo, m)
    /\ \E r \in Values : res = <<r>>

\* The reply is on its way; without an error it carries the result.
AtReply ==
  at = "reply" =>
    /\ hdr \in [xid : UInt, ret : UInt]
    /\ unpack_reply_header(u) = [u |-> Reader(u.buf, RPC_HEADER_SZ), h |-> hdr]
    /\ ~Negative(hdr.ret) => /\ Carries(u.buf, RPC_HEADER_SZ, Flatten(res))
                             /\ \E r \in Values : res = <<r>>

\* call_m reads the result, with the type it was written with.
AtCall_m == at = "call_m" => hdr_in = hdr /\ \E r : Reads(res, want, got, u, r, <<>>, <<>>)

\* The call is over.
AtLast ==
  /\ at \in {"returned", "failed", "aborted"} => hdr_in = hdr
  /\ at = "returned" => got = Flatten(res)
  /\ at = "aborted" => sig # TypesOf(args) /\ res = <<>>

\* The invariant.
MIInv ==
  /\ at \in {"args", "request", "fn", "meth", "result", "reply", "call_m", "returned", "failed",
             "aborted"}
  /\ Fits(m) /\ args \in Seq(Values) /\ Len(args) <= MaxArgs
  /\ AtArgs /\ AtRequest /\ AtFn /\ AtMeth /\ AtResult /\ AtReply /\ AtCall_m /\ AtLast

\* The invariant of Marshall holds at first.
LEMMA MInitInv == MInit => MIInv
<1> SUFFICES ASSUME MInit PROVE MIInv
  OBVIOUS
<1>1. PICK n \in 0 .. MaxArgs : args \in [1 .. n -> Values]
  BY DEF MInit, SeqOf
<1>2. n \in Nat /\ MaxArgs \in Nat
  BY SizeAssumption
<1>3. args \in Seq(Values) /\ Len(args) = n
  BY <1>1, <1>2
<1>4. Fits(m) /\ Writes(args, todo, m)
  BY <1>3, WritesBegins DEF MInit
<1>5. at = "args" /\ res = <<>> /\ got = <<>> /\ Len(args) <= MaxArgs
  BY <1>1, <1>2, <1>3 DEF MInit
<1> QED BY <1>3, <1>4, <1>5 DEF MIInv, AtArgs, AtRequest, AtFn, AtMeth, AtResult, AtReply, AtCall_m, AtLast

\* m << a, ret << r.
LEMMA MMarshall == MIInv /\ marshall_value => MIInv'
<1> SUFFICES ASSUME MIInv, marshall_value PROVE MIInv'
  OBVIOUS
<1>1. /\ Fits(m) /\ args \in Seq(Values) /\ Len(args) <= MaxArgs
      /\ todo # <<>> /\ m' = shl(m, Head(todo)) /\ todo' = Elements(Head(todo)) \o Tail(todo)
      /\ UNCHANGED <<at, args, sig, res, hdr, u, want, got, hdr_in>>
  BY DEF MIInv, marshall_value
<1>2. CASE at = "args"
  <2>1. Writes(args, todo, m) /\ res = <<>> /\ got = <<>>
    BY <1>2 DEF MIInv, AtArgs
  <2>2. Fits(m') /\ Writes(args, todo', m')
    BY <1>1, <2>1, WritesStep
  <2> QED BY <1>1, <1>2, <2>1, <2>2
          DEF MIInv, AtArgs, AtRequest, AtFn, AtMeth, AtResult, AtReply, AtCall_m, AtLast
<1>3. CASE at = "result"
  <2>1. Writes(res, todo, m) /\ hdr_in \in Headers /\ \E r \in Values : res = <<r>>
    BY <1>3 DEF MIInv, AtResult
  <2>2. Fits(m') /\ Writes(res, todo', m')
    BY <1>1, <2>1, WritesStep
  <2> QED BY <1>1, <1>3, <2>1, <2>2
          DEF MIInv, AtArgs, AtRequest, AtFn, AtMeth, AtResult, AtReply, AtCall_m, AtLast
<1> QED BY <1>2, <1>3 DEF marshall_value

\* call1 packs the header.
LEMMA MCall1 == ASSUME NEW h \in Headers PROVE MIInv /\ call1_packs(h) => MIInv'
<1> SUFFICES ASSUME MIInv, call1_packs(h) PROVE MIInv'
  OBVIOUS
<1>1. /\ at = "args" /\ todo = <<>> /\ at' = "request" /\ hdr' = h
      /\ m' = pack_req_header(m, h) /\ u' = NewUnmarshall(Pdu(m'))
      /\ args' = args /\ res' = res /\ got' = got
  BY DEF call1_packs
<1>2. /\ Fits(m) /\ args \in Seq(Values) /\ Len(args) <= MaxArgs
      /\ Writes(args, <<>>, m) /\ res = <<>> /\ got = <<>>
  BY <1>1 DEF MIInv, AtArgs
<1>3. Flatten(args) \in Seq(Flats) /\ Filled(m, Flatten(args)) /\ m.ind < Word
  BY <1>2, WritesEnds
<1>4. PICK b : b = Pdu(m')
  OBVIOUS
<1>5. /\ Fits(m') /\ unpack_req_header(NewUnmarshall(b)) = [u |-> Reader(b, RPC_HEADER_SZ), h |-> h]
      /\ Carries(b, RPC_HEADER_SZ, Flatten(args))
  BY <1>1, <1>2, <1>3, <1>4, ReqSent
<1>6. u' = NewUnmarshall(b) /\ u'.buf = b
  BY <1>1, <1>4 DEF NewUnmarshall
<1>7. AtRequest'
  BY <1>1, <1>2, <1>5, <1>6 DEF AtRequest
<1> QED BY <1>1, <1>2, <1>5, <1>7 DEF MIInv, AtArgs, AtFn, AtMeth, AtResult, AtReply, AtCall_m, AtLast

\* dispatch calls the handler.
LEMMA MDispatch == ASSUME NEW s \in SeqOf(Types, MaxArgs) PROVE MIInv /\ dispatch_calls(s) => MIInv'
<1> SUFFICES ASSUME MIInv, dispatch_calls(s) PROVE MIInv'
  OBVIOUS
<1>1. PICK r : r = unpack_req_header(u)
  OBVIOUS
<1>2. /\ at = "request" /\ at' = (IF r.u.ok THEN "fn" ELSE "dropped") /\ u' = r.u /\ hdr_in' = r.h
      /\ m' = NewMarshall /\ sig' = s /\ want' = s /\ args' = args /\ res' = res /\ hdr' = hdr
      /\ got' = got
  BY <1>1 DEF dispatch_calls
<1>3. /\ hdr \in Headers /\ res = <<>> /\ got = <<>>
      /\ r = [u |-> Reader(u.buf, RPC_HEADER_SZ), h |-> hdr]
      /\ Carries(u.buf, RPC_HEADER_SZ, Flatten(args))
      /\ args \in Seq(Values) /\ Len(args) <= MaxArgs
  BY <1>1, <1>2 DEF MIInv, AtRequest
<1>4. r.u = Reader(u.buf, RPC_HEADER_SZ) /\ r.h = hdr
  BY <1>3
<1>5. at' = "fn" /\ u' = Reader(u.buf, RPC_HEADER_SZ) /\ hdr_in' = hdr
  <2>1. Reader(u.buf, RPC_HEADER_SZ).ok
    BY DEF Reader
  <2> QED BY <1>2, <1>4, <2>1
<1>6. Fits(m')
  BY <1>2, <1>3, WritesBegins
<1>7. s \in Seq(Tags)
  <2>1. PICK n \in 0 .. MaxArgs : s \in [1 .. n -> Types]
    BY DEF SeqOf
  <2>2. n \in Nat
    BY SizeAssumption
  <2>3. Types \subseteq Tags
    BY Tagged DEF Types, Prims
  <2>4. s \in [1 .. n -> Tags]
    BY <2>1, <2>3
  <2> QED BY <2>2, <2>4
<1>8. ASSUME Comparable(s, args)
      PROVE  \E q, X, Y : /\ Reads(args, s, <<>>, u', q, X, Y) /\ (X = <<>> \/ Y = <<>>)
                          /\ (X = <<>> /\ Y = <<>>) <=> s = TypesOf(args)
  <2>1. args \in Seq(Prims)
    BY <1>3, CodedBound
  <2>2. PICK q \in Seq(Prims), X \in Seq(Tags), Y \in Seq(Prims) :
           /\ args = q \o Y /\ s = TypesOf(q) \o X /\ (X = <<>> \/ Y = <<>>)
           /\ (X = <<>> /\ Y = <<>>) <=> s = TypesOf(args)
    BY <1>7, <1>8, <2>1, Matches
  <2>3. Reads(args, s, <<>>, u', q, X, Y)
    BY <1>3, <1>5, <2>2, ReadsBegins
  <2> QED BY <2>2, <2>3
<1>9. AtFn'
  <2>1. Comparable(sig', args') => FnReads'
    BY <1>2, <1>3, <1>8 DEF FnReads
  <2> QED BY <1>2, <1>3, <1>5, <2>1 DEF AtFn
<1> QED BY <1>2, <1>3, <1>5, <1>6, <1>9
        DEF MIInv, AtArgs, AtRequest, AtMeth, AtResult, AtReply, AtCall_m, AtLast

\* dispatch answers with a header alone.
LEMMA MRefuse == ASSUME NEW ret \in Rets PROVE MIInv /\ dispatch_refuses(ret) => MIInv'
<1> SUFFICES ASSUME MIInv, dispatch_refuses(ret) PROVE MIInv'
  OBVIOUS
<1>1. PICK r : r = unpack_req_header(u)
  OBVIOUS
<1>2. /\ at = "request" /\ Negative(ret) /\ at' = "reply" /\ hdr' = [xid |-> r.h.xid, ret |-> ret]
      /\ m' = pack_reply_header(NewMarshall, hdr') /\ u' = NewUnmarshall(Pdu(m'))
      /\ args' = args
  BY <1>1 DEF dispatch_refuses
<1>3. hdr \in Headers /\ r.h = hdr /\ args \in Seq(Values) /\ Len(args) <= MaxArgs
  BY <1>1, <1>2 DEF MIInv, AtRequest
<1>4. hdr' \in [xid : UInt, ret : UInt] /\ hdr'.ret = ret
  BY <1>2, <1>3, HeadersAssumption
<1>5. PICK x, w, b, h, y : x = NewMarshall /\ w = <<>> /\ b = Pdu(m') /\ h = hdr' /\ y = m'
  OBVIOUS
<1>6. Fits(x) /\ Filled(x, w) /\ x.ind < Word /\ w \in Seq(Flats)
  <2>1. Fits(NewMarshall) /\ Filled(NewMarshall, <<>>)
    BY <1>3, WritesBegins
  <2>2. x.ind = 24
    BY <1>5 DEF NewMarshall, RPC_HEADER_SZ
  <2>3. MaxBytes \in Nat /\ Word \in Nat /\ 24 + MaxBytes < Word
    BY Sizes, SizeAssumption, WordType DEF RPC_HEADER_SZ
  <2>4. w \in Seq(Flats)
    BY <1>5
  <2>5. x.ind < Word
    BY <2>2, <2>3
  <2> QED BY <1>5, <2>1, <2>4, <2>5
<1>7. /\ Fits(y)
      /\ unpack_reply_header(NewUnmarshall(b)) = [u |-> Reader(b, RPC_HEADER_SZ), h |-> h]
  <2>1. h \in [xid : UInt, ret : UInt]
    BY <1>4, <1>5
  <2>2. y = pack_reply_header(x, h)
    BY <1>2, <1>5
  <2>3. b = Pdu(y)
    BY <1>5
  <2> QED BY <1>6, <2>1, <2>2, <2>3, ReplySent
<1>8. u' = NewUnmarshall(b) /\ u'.buf = b
  BY <1>2, <1>5 DEF NewUnmarshall
<1>9. AtReply'
  BY <1>2, <1>4, <1>5, <1>7, <1>8 DEF AtReply
<1> QED BY <1>2, <1>3, <1>5, <1>7, <1>9
        DEF MIInv, AtArgs, AtRequest, AtFn, AtMeth, AtResult, AtCall_m, AtLast

\* dispatch packs a result.
LEMMA MReply == ASSUME NEW ret \in Rets PROVE MIInv /\ dispatch_replies(ret) => MIInv'
<1> SUFFICES ASSUME MIInv, dispatch_replies(ret) PROVE MIInv'
  OBVIOUS
<1>1. /\ at = "result" /\ todo = <<>> /\ at' = "reply" /\ hdr' = [xid |-> hdr_in.xid, ret |-> ret]
      /\ m' = pack_reply_header(m, hdr') /\ u' = NewUnmarshall(Pdu(m'))
      /\ args' = args /\ res' = res
  BY DEF dispatch_replies
<1>2. hdr_in \in Headers /\ Writes(res, <<>>, m) /\ Fits(m) /\ args \in Seq(Values) /\ Len(args) <= MaxArgs
  BY <1>1 DEF MIInv, AtResult
<1>3. PICK v \in Values : res = <<v>>
  BY <1>1 DEF MIInv, AtResult
<1>4. hdr' \in [xid : UInt, ret : UInt]
  BY <1>1, <1>2, HeadersAssumption
<1>5. res \in Seq(Values) /\ Len(res) = 1
  BY <1>3
<1>6. Flatten(res) \in Seq(Flats) /\ Filled(m, Flatten(res)) /\ m.ind < Word
  BY <1>2, <1>5, WritesEnds
<1>7. PICK b, h, y : b = Pdu(m') /\ h = hdr' /\ y = m'
  OBVIOUS
<1>8. /\ Fits(y) /\ Carries(b, RPC_HEADER_SZ, Flatten(res))
      /\ unpack_reply_header(NewUnmarshall(b)) = [u |-> Reader(b, RPC_HEADER_SZ), h |-> h]
  BY <1>1, <1>2, <1>4, <1>6, <1>7, ReplySent
<1>9. u' = NewUnmarshall(b) /\ u'.buf = b
  BY <1>1, <1>7 DEF NewUnmarshall
<1>10. AtReply'
  BY <1>1, <1>3, <1>4, <1>7, <1>8, <1>9 DEF AtReply
<1> QED BY <1>1, <1>2, <1>7, <1>8, <1>10
        DEF MIInv, AtArgs, AtRequest, AtFn, AtMeth, AtResult, AtCall_m, AtLast

\* args >> a, u >> r.
LEMMA MUnmarshall == MIInv /\ unmarshall_value => MIInv'
<1> SUFFICES ASSUME MIInv, unmarshall_value PROVE MIInv'
  OBVIOUS
<1>1. PICK t, s : t = Head(want) /\ s = shr(u, t)
  OBVIOUS
<1>2. /\ at \in {"fn", "call_m"} /\ want # <<>> /\ u' = s.u
      /\ got' = Append(got, [t |-> IF t = "vector" THEN "int" ELSE t, v |-> s.v])
      /\ want' = (IF t = "vector" THEN [i \in 1 .. s.v |-> "int"] ELSE <<>>) \o Tail(want)
      /\ UNCHANGED <<at, m, args, sig, res, todo, hdr, hdr_in>>
  BY <1>1 DEF unmarshall_value
<1>3. Fits(m) /\ args \in Seq(Values) /\ Len(args) <= MaxArgs
  BY DEF MIInv
<1>4. ASSUME NEW A, NEW r, NEW X, NEW Y, Reads(A, want, got, u, r, X, Y), r # <<>>
      PROVE  Reads(A, want', got', u', Elements(Head(r)) \o Tail(r), X, Y)
  BY <1>1, <1>2, <1>4, ReadsStep
<1>5. ASSUME NEW A, NEW X, NEW Y, Reads(A, want, got, u, <<>>, X, Y) PROVE X # <<>>
  <2>1. want = TypesOf(<<>>) \o X /\ X \in Seq(Tags)
    BY <1>5 DEF Reads
  <2>2. TypesOf(<<>>) = <<>>
    BY DEF TypesOf
  <2>3. <<>> \o X = X
    BY <2>1, ConcatFacts
  <2> QED BY <1>2, <2>1, <2>2, <2>3
<1>6. CASE at = "fn"
  <2>1. hdr \in Headers /\ hdr_in = hdr /\ m = NewMarshall /\ res = <<>>
    BY <1>6 DEF MIInv, AtFn
  <2>2. ASSUME Comparable(sig, args) PROVE FnReads'
    <3>1. FnReads
      BY <1>6, <2>2 DEF MIInv, AtFn
    <3>2. CASE Failed(u) /\ sig # TypesOf(args)
      <4>1. Failed(u')
        BY <1>1, <1>2, <3>2, ShrFails
      <4> QED BY <1>2, <3>2, <4>1 DEF FnReads
    <3>3. CASE ~(Failed(u) /\ sig # TypesOf(args))
      <4>1. PICK r, X, Y : /\ Reads(args, want, got, u, r, X, Y) /\ (X = <<>> \/ Y = <<>>)
                           /\ (X = <<>> /\ Y = <<>>) <=> sig = TypesOf(args)
        BY <3>1, <3>3 DEF FnReads
      <4>2. CASE r # <<>>
        <5>1. Reads(args, want', got', u', Elements(Head(r)) \o Tail(r), X, Y)
          BY <1>4, <4>1, <4>2
        <5> QED BY <1>2, <4>1, <5>1 DEF FnReads
      <4>3. CASE r = <<>>
        <5>1. X # <<>> /\ Y = <<>>
          BY <1>5, <4>1, <4>3
        <5>2. Failed(u')
          BY <1>1, <1>2, <4>1, <4>3, <5>1, ReadsBeyond
        <5> QED BY <1>2, <4>1, <5>1, <5>2 DEF FnReads
      <4> QED BY <4>2, <4>3
    <3> QED BY <3>2, <3>3
  <2>3. AtFn'
    BY <1>2, <2>1, <2>2 DEF AtFn
  <2> QED BY <1>2, <1>3, <1>6, <2>3
          DEF MIInv, AtArgs, AtRequest, AtMeth, AtResult, AtReply, AtCall_m, AtLast
<1>7. CASE at = "call_m"
  <2>1. hdr_in = hdr
    BY <1>7 DEF MIInv, AtCall_m
  <2>2. PICK r : Reads(res, want, got, u, r, <<>>, <<>>)
    BY <1>7 DEF MIInv, AtCall_m
  <2>3. r # <<>>
    BY <1>5, <2>2
  <2>4. Reads(res, want', got', u', Elements(Head(r)) \o Tail(r), <<>>, <<>>)
    BY <1>4, <2>2, <2>3
  <2>5. AtCall_m'
    BY <1>2, <2>1, <2>4 DEF AtCall_m
  <2> QED BY <1>2, <1>3, <1>7, <2>5
          DEF MIInv, AtArgs, AtRequest, AtFn, AtMeth, AtResult, AtReply, AtLast
<1> QED BY <1>2, <1>6, <1>7

\* The handler's okdone.
LEMMA MChecks == MIInv /\ fn_checks => MIInv'
<1> SUFFICES ASSUME MIInv, fn_checks PROVE MIInv'
  OBVIOUS
<1>1. /\ at = "fn" /\ want = <<>> /\ at' = (IF okdone(u) THEN "meth" ELSE "aborted")
      /\ UNCHANGED <<m, args, sig, res, todo, hdr, u, want, got, hdr_in>>
  BY DEF fn_checks
<1>2. /\ Fits(m) /\ args \in Seq(Values) /\ Len(args) <= MaxArgs
      /\ hdr \in Headers /\ hdr_in = hdr /\ m = NewMarshall /\ res = <<>>
      /\ (Comparable(sig, args) => FnReads)
  BY <1>1 DEF MIInv, AtFn
<1>3. ASSUME Comparable(sig, args)
      PROVE  (okdone(u) <=> sig = TypesOf(args)) /\ (sig = TypesOf(args) => got = Flatten(args))
  <2>1. CASE Failed(u) /\ sig # TypesOf(args)
    <3>1. ~u.ok
      BY <2>1 DEF Failed
    <3> QED BY <2>1, <3>1 DEF okdone
  <2>2. CASE ~(Failed(u) /\ sig # TypesOf(args))
    <3>1. PICK r, X, Y : /\ Reads(args, want, got, u, r, X, Y)
                         /\ (X = <<>> /\ Y = <<>>) <=> sig = TypesOf(args)
      BY <1>2, <1>3, <2>2 DEF FnReads
    <3>2. X = <<>> /\ (okdone(u) <=> Y = <<>>) /\ (Y = <<>> => got = Flatten(args))
      BY <1>1, <3>1, ReadsEnds
    <3> QED BY <3>1, <3>2
  <2> QED BY <2>1, <2>2
<1>4. CASE okdone(u)
  <2>1. AtMeth'
    BY <1>1, <1>2, <1>3, <1>4 DEF AtMeth
  <2> QED BY <1>1, <1>2, <1>4, <2>1
          DEF MIInv, AtArgs, AtRequest, AtFn, AtResult, AtReply, AtCall_m, AtLast
<1>5. CASE ~okdone(u)
  <2>1. sig # TypesOf(args)
    BY <1>3, <1>5 DEF Comparable
  <2> QED BY <1>1, <1>2, <1>5, <2>1
          DEF MIInv, AtArgs, AtRequest, AtFn, AtMeth, AtResult, AtReply, AtCall_m, AtLast
<1> QED BY <1>4, <1>5

\* The method returns.
LEMMA MReturns == ASSUME NEW r \in Values PROVE MIInv /\ fn_returns(r) => MIInv'
<1> SUFFICES ASSUME MIInv, fn_returns(r) PROVE MIInv'
  OBVIOUS
<1>1. /\ at = "meth" /\ at' = "result" /\ res' = <<r>> /\ todo' = <<r>>
      /\ UNCHANGED <<m, args, sig, hdr, u, want, got, hdr_in>>
  BY DEF fn_returns
<1>2. /\ Fits(m) /\ args \in Seq(Values) /\ Len(args) <= MaxArgs
      /\ hdr \in Headers /\ hdr_in = hdr /\ m = NewMarshall
  BY <1>1 DEF MIInv, AtMeth
<1>3. <<r>> \in Seq(Values)
  OBVIOUS
<1>4. Writes(<<r>>, <<r>>, NewMarshall)
  BY <1>3, WritesBegins
<1>5. AtResult'
  BY <1>1, <1>2, <1>4 DEF AtResult
<1> QED BY <1>1, <1>2, <1>5
        DEF MIInv, AtArgs, AtRequest, AtFn, AtMeth, AtReply, AtCall_m, AtLast

\* The caller takes the reply.
LEMMA MTakes == MIInv /\ got_pdu_takes => MIInv'
<1> SUFFICES ASSUME MIInv, got_pdu_takes PROVE MIInv'
  OBVIOUS
<1>1. PICK r : r = unpack_reply_header(u)
  OBVIOUS
<1>2. /\ at = "reply" /\ hdr_in' = r.h /\ got' = <<>> /\ u' = take_in(r.u)
      /\ at' = (IF ~r.u.ok THEN "dropped" ELSE IF Negative(r.h.ret) THEN "failed" ELSE "call_m")
      /\ want' = (IF res = <<>> THEN <<>> ELSE <<res[1].t>>)
      /\ UNCHANGED <<m, args, sig, res, todo, hdr>>
  BY <1>1 DEF got_pdu_takes
<1>3. Fits(m) /\ args \in Seq(Values) /\ Len(args) <= MaxArgs
  BY DEF MIInv
<1>4. r = [u |-> Reader(u.buf, RPC_HEADER_SZ), h |-> hdr]
  BY <1>1, <1>2 DEF MIInv, AtReply
<1>5. r.u = Reader(u.buf, RPC_HEADER_SZ) /\ r.h = hdr
  BY <1>4
<1>6. Reader(u.buf, RPC_HEADER_SZ).ok
  BY DEF Reader
<1>7. CASE Negative(hdr.ret)
  <2>1. at' = "failed" /\ hdr_in' = hdr'
    BY <1>2, <1>5, <1>6, <1>7
  <2> QED BY <1>2, <1>3, <2>1
          DEF MIInv, AtArgs, AtRequest, AtFn, AtMeth, AtResult, AtReply, AtCall_m, AtLast
<1>8. CASE ~Negative(hdr.ret)
  <2>1. at' = "call_m" /\ hdr_in' = hdr'
    BY <1>2, <1>5, <1>6, <1>8
  <2>2. Carries(u.buf, RPC_HEADER_SZ, Flatten(res))
    BY <1>2, <1>8 DEF MIInv, AtReply
  <2>3. PICK v \in Values : res = <<v>>
    BY <1>2, <1>8 DEF MIInv, AtReply
  <2>4. res \in Seq(Values) /\ res # <<>> /\ res[1] = v
    BY <2>3
  <2>5. want' = TypesOf(res) /\ TypesOf(res) = <<v.t>>
    BY <1>2, <2>3, <2>4 DEF TypesOf
  <2>6. u' = Reader(u.buf, RPC_HEADER_SZ)
    <3>1. res \in Seq(Prims)
      BY <2>4, CodedBound
    <3>2. RPC_HEADER_SZ <= Len(u.buf) /\ Len(u.buf) \in Nat
      BY <2>2, <3>1, SomeBytes DEF Carries
    <3>3. (Len(u.buf) >= RPC_HEADER_SZ) = TRUE
      BY <3>2 DEF RPC_HEADER_SZ
    <3>4. Reader(u.buf, RPC_HEADER_SZ).buf = u.buf
      BY DEF Reader
    <3>5. u' = [buf |-> u.buf, ind |-> RPC_HEADER_SZ, ok |-> Len(u.buf) >= RPC_HEADER_SZ]
      BY <1>2, <1>5, <3>4 DEF take_in
    <3> QED BY <3>3, <3>5 DEF Reader
  <2>7. Reads(res, TypesOf(res) \o <<>>, <<>>, Reader(u.buf, RPC_HEADER_SZ), res, <<>>, <<>>)
    <3>1. res \in Seq(Prims) /\ <<>> \in Seq(Prims) /\ <<>> \in Seq(Tags)
      BY <2>4, CodedBound
    <3>2. res = res \o <<>>
      BY <3>1, ConcatFacts
    <3> QED BY <2>2, <3>1, <3>2, ReadsBegins
  <2>8. TypesOf(res) \o <<>> = TypesOf(res)
    BY <2>5
  <2>9. AtCall_m'
    BY <1>2, <2>1, <2>5, <2>6, <2>7, <2>8 DEF AtCall_m
  <2> QED BY <1>2, <1>3, <2>1, <2>9
          DEF MIInv, AtArgs, AtRequest, AtFn, AtMeth, AtResult, AtReply, AtLast
<1> QED BY <1>7, <1>8

\* call_m returns.
LEMMA MCallm == MIInv /\ call_m_returns => MIInv'
<1> SUFFICES ASSUME MIInv, call_m_returns PROVE MIInv'
  OBVIOUS
<1>1. /\ at = "call_m" /\ want = <<>> /\ at' = (IF okdone(u) THEN "returned" ELSE "aborted")
      /\ UNCHANGED <<m, args, sig, res, todo, hdr, u, want, got, hdr_in>>
  BY DEF call_m_returns
<1>2. Fits(m) /\ args \in Seq(Values) /\ Len(args) <= MaxArgs /\ hdr_in = hdr
  BY <1>1 DEF MIInv, AtCall_m
<1>3. PICK r : Reads(res, want, got, u, r, <<>>, <<>>)
  BY <1>1 DEF MIInv, AtCall_m
<1>4. okdone(u) /\ got = Flatten(res)
  BY <1>1, <1>3, ReadsEnds
<1> QED BY <1>1, <1>2, <1>4
        DEF MIInv, AtArgs, AtRequest, AtFn, AtMeth, AtResult, AtReply, AtCall_m, AtLast

\* Every step keeps the invariant of Marshall.
LEMMA MStepInv == MIInv /\ [MNext]_callVars => MIInv'
<1> SUFFICES ASSUME MIInv, [MNext]_callVars PROVE MIInv'
  OBVIOUS
<1>1. CASE MNext
  BY <1>1, MMarshall, MUnmarshall, MCall1, MDispatch, MRefuse, MReply, MReturns, MChecks, MTakes, MCallm
     DEF MNext
<1>2. CASE UNCHANGED callVars
  BY <1>2 DEF callVars, MIInv, AtArgs, AtRequest, AtFn, FnReads, AtMeth, AtResult, AtReply, AtCall_m,
              AtLast
<1> QED BY <1>1, <1>2

\* What is in the buffers, at every place of a call, is what the caller or the
\* handler marshalled and what is left to be read: MIInv is inductive.
THEOREM CallInvariance == MSpec => []MIInv
  BY MInitInv, MStepInv, PTL DEF MSpec

\* No write of marshall leaves its buffer, whatever the arguments and the
\* results are and however often the buffer has to grow.
THEOREM WritesInside == MSpec => []Inside
<1>1. MIInv => Inside
  BY DEF MIInv, Fits, Inside
<1> QED BY <1>1, CallInvariance, PTL

\* A call arrives: for every radix, first buffer size, set of values and
\* headers, the handler gets the arguments and the header that were packed, or
\* does not run because an argument is missing or left over, and the caller
\* gets the result and the handler's return value.
THEOREM CallArrivesTheorem == MSpec => []CallArrives
<1>1. MIInv => CallArrives
  <2> SUFFICES ASSUME MIInv PROVE CallArrives
    OBVIOUS
  <2>1. at \notin {"args", "request", "reply"} => hdr_in = hdr \/ at = "result"
    BY DEF MIInv, AtFn, AtMeth, AtCall_m, AtLast
  <2>2. at = "meth" /\ sig = TypesOf(args) => got = Flatten(args)
    BY DEF MIInv, AtMeth, Comparable
  <2>3. at = "meth" => ~IsStrictPrefix(sig, TypesOf(args)) /\ ~IsStrictPrefix(TypesOf(args), sig)
    BY DEF MIInv, AtMeth, Comparable, IsStrictPrefix
  <2>4. /\ at = "aborted" => sig # TypesOf(args) /\ res = <<>>
        /\ at # "dropped" /\ (at = "returned" => got = Flatten(res))
    BY DEF MIInv, AtLast
  <2> QED BY <2>1, <2>2, <2>3, <2>4 DEF CallArrives
<1> QED BY <1>1, CallInvariance, PTL

-----------------------------------------------------------------------------
(* Deadline: a call gives up only once its timeout has passed, for every    *)
(* clock resolution and every timeout.                                     *)

(* Clock arithmetic.                                                       *)

\* What % and \div have to do with each other.
LEMMA Division ==
  ASSUME NEW b \in Nat
  PROVE  /\ b \div MsPerSec \in Nat /\ b % MsPerSec \in 0 .. MsPerSec - 1
         /\ b = (b \div MsPerSec) * MsPerSec + (b % MsPerSec)
BY ClockAssumption

\* Whole seconds.
LEMMA Multiples ==
  ASSUME NEW k \in Nat
  PROVE  (k * MsPerSec) % MsPerSec = 0 /\ k * MsPerSec \in Nat
BY ClockAssumption

\* What clock_gettime returns, and what add_timespec may make of it.
Clock == [tv_sec : Nat \ {0}, tv_nsec : 0 .. MsPerSec - 1]
Deadlines == [tv_sec : Nat \ {0}, tv_nsec : 0 .. MsPerSec]

\* add_timespec is exact: carried or not, the sum of the milliseconds is
\* kept, and a deadline the wait rejects comes only from a fraction of a
\* second.
LEMMA AddIsExact ==
  ASSUME NEW a \in Clock, NEW b \in Nat
  PROVE  /\ add_timespec(a, b) \in Deadlines
         /\ Millis(add_timespec(a, b)) = Millis(a) + b
         /\ Invalid(add_timespec(a, b)) => b % MsPerSec # 0
<1> DEFINE q == b \div MsPerSec
           r == b % MsPerSec
           s == a.tv_sec + q
           n == a.tv_nsec + r
<1>1. q \in Nat /\ r \in 0 .. MsPerSec - 1 /\ b = q * MsPerSec + r
  BY Division
<1>2. a.tv_sec \in Nat \ {0} /\ a.tv_nsec \in 0 .. MsPerSec - 1 /\ MsPerSec \in Nat \ {0}
  BY ClockAssumption DEF Clock
<1>3. add_timespec(a, b) = IF n > MsPerSec THEN [tv_sec |-> s + 1, tv_nsec |-> n - MsPerSec]
                           ELSE [tv_sec |-> s, tv_nsec |-> n]
  BY DEF add_timespec, Time
<1> HIDE DEF q, r
<1>4. CASE n > MsPerSec
  <2>1. add_timespec(a, b) = [tv_sec |-> s + 1, tv_nsec |-> n - MsPerSec]
    BY <1>3, <1>4
  <2>2. (s + 1) * MsPerSec = a.tv_sec * MsPerSec + q * MsPerSec + MsPerSec
    BY <1>1, <1>2
  <2>3. s + 1 \in Nat \ {0} /\ n - MsPerSec \in 0 .. MsPerSec - 1
    BY <1>1, <1>2, <1>4
  <2>4. Millis(add_timespec(a, b)) = (s + 1) * MsPerSec + (n - MsPerSec)
    BY <2>1 DEF Millis
  <2>5. a.tv_sec * MsPerSec \in Nat /\ q * MsPerSec \in Nat
    BY <1>1, <1>2
  <2>6. Millis(add_timespec(a, b)) = Millis(a) + b
    BY <1>1, <1>2, <2>2, <2>4, <2>5 DEF Millis
  <2> QED BY <1>1, <1>2, <2>1, <2>3, <2>6 DEF Deadlines, Invalid
<1>5. CASE ~(n > MsPerSec)
  <2>1. add_timespec(a, b) = [tv_sec |-> s, tv_nsec |-> n]
    BY <1>3, <1>5
  <2>2. s * MsPerSec = a.tv_sec * MsPerSec + q * MsPerSec
    BY <1>1, <1>2
  <2>3. s \in Nat \ {0} /\ n \in 0 .. MsPerSec
    BY <1>1, <1>2, <1>5
  <2>4. Millis(add_timespec(a, b)) = s * MsPerSec + n
    BY <2>1 DEF Millis
  <2>5. a.tv_sec * MsPerSec \in Nat /\ q * MsPerSec \in Nat
    BY <1>1, <1>2
  <2>6. Millis(add_timespec(a, b)) = Millis(a) + b
    BY <1>1, <1>2, <2>2, <2>4, <2>5 DEF Millis
  <2>7. Invalid(add_timespec(a, b)) => r # 0
    BY <1>1, <1>2, <2>1, <2>3 DEF Invalid
  <2> QED BY <2>1, <2>3, <2>6, <2>7 DEF Deadlines, r
<1> QED BY <1>4, <1>5

\* A valid deadline that is not later than the clock has passed.
LEMMA NotLaterIsPast ==
  ASSUME NEW d \in Deadlines, NEW t \in Clock, ~Invalid(d), ~Later(d, t)
  PROVE  Millis(t) >= Millis(d)
<1>1. d.tv_sec \in Nat /\ d.tv_nsec \in 0 .. MsPerSec - 1
      /\ t.tv_sec \in Nat /\ t.tv_nsec \in 0 .. MsPerSec - 1 /\ MsPerSec \in Nat
  BY ClockAssumption DEF Deadlines, Clock, Invalid
<1>2. CASE d.tv_sec = t.tv_sec
  BY <1>1, <1>2 DEF Millis, Later
<1>3. CASE d.tv_sec < t.tv_sec
  <2>1. PICK k \in Nat : t.tv_sec = d.tv_sec + 1 + k
    <3>1. t.tv_sec - d.tv_sec - 1 \in Nat
      BY <1>1, <1>3
    <3> QED BY <1>1, <3>1
  <2>2. t.tv_sec * MsPerSec = d.tv_sec * MsPerSec + MsPerSec + k * MsPerSec
    BY <1>1, <2>1
  <2>3. k * MsPerSec \in Nat /\ d.tv_sec * MsPerSec \in Nat
    BY <1>1
  <2> QED BY <1>1, <2>2, <2>3 DEF Millis
<1> QED BY <1>1, <1>2, <1>3 DEF Later

\* The clock after a tick is one millisecond on.
LEMMA TickIsOne ==
  ASSUME NEW t \in Clock, NEW next,
         next = IF t.tv_nsec + 1 = MsPerSec THEN Time(t.tv_sec + 1, 0)
             ELSE Time(t.tv_sec, t.tv_nsec + 1)
  PROVE  next \in Clock /\ Millis(next) = Millis(t) + 1 /\ Millis(t) \in Nat
<1>1. t.tv_sec \in Nat \ {0} /\ t.tv_nsec \in 0 .. MsPerSec - 1 /\ MsPerSec \in Nat \ {0}
  BY ClockAssumption DEF Clock
<1>2. (t.tv_sec + 1) * MsPerSec = t.tv_sec * MsPerSec + MsPerSec
      /\ t.tv_sec * MsPerSec \in Nat
  BY <1>1
<1> QED BY <1>1, <1>2 DEF Clock, Millis, Time

-----------------------------------------------------------------------------
(* The inductive invariant.                                                *)

ClockTypes ==
  /\ where \in {"start", "loop", "wait", "late", "over"} /\ done \in BOOLEAN
  /\ now \in Clock /\ to \in Nat /\ curr_to \in Nat

\* Where call1 keeps the deadline of the caller: in finaldeadline until the
\* last round, and in nextdeadline from then on.
Marking ==
  \/ finaldeadline = add_timespec(started, to)
  \/ /\ finaldeadline.tv_sec = 0 /\ nextdeadline = add_timespec(started, to)
     /\ where # "wait" /\ ~done => Millis(now) >= Millis(nextdeadline)

\* Waits are whole seconds, so only the last one can have a bad deadline.
Waits ==
  /\ \E k \in Nat : curr_to = k * MsPerSec
  /\ where \in {"wait", "late"} =>
       nextdeadline \in Deadlines /\ (Invalid(nextdeadline) => to % MsPerSec # 0)

DIInv ==
  /\ ClockTypes
  /\ where # "start" => started \in Clock /\ Marking /\ Waits
  /\ where = "over" /\ ~done => finaldeadline.tv_sec = 0

\* The invariant of Deadline holds at first.
LEMMA DInitially == DInit => DIInv
<1> SUFFICES ASSUME DInit PROVE DIInv
  OBVIOUS
<1>1. now \in Clock
  BY ClockAssumption DEF DInit, Time, Clock
<1> QED BY <1>1, ClockAssumption DEF DInit, DIInv, ClockTypes

\* Every step keeps it.
LEMMA DStep == DIInv /\ [DNext]_clockVars => DIInv'
<1> SUFFICES ASSUME DIInv, [DNext]_clockVars PROVE DIInv'
  OBVIOUS
<1>m. MsPerSec \in Nat \ {0}
  BY ClockAssumption
<1>1. CASE start
  <2>1. started' \in Clock /\ finaldeadline' = add_timespec(started', to')
    BY <1>1 DEF start, DIInv, ClockTypes
  <2>2. curr_to' = 1 * MsPerSec /\ curr_to' \in Nat
    BY <1>1, <1>m DEF start, to_min
  <2>3. \E k \in Nat : curr_to' = k * MsPerSec
    BY <2>2
  <2> QED BY <1>1, <2>1, <2>2, <2>3 DEF start, DIInv, ClockTypes, Marking, Waits
<1>2. CASE round
  <2> DEFINE d == add_timespec(now, curr_to)
             f == add_timespec(started, to)
  <2>1. /\ where = "loop" /\ started \in Clock /\ started' = started /\ now' = now /\ to' = to
        /\ to \in Nat /\ now \in Clock /\ done' = done /\ done \in BOOLEAN
        /\ curr_to' = curr_to /\ curr_to \in Nat
    BY <1>2 DEF round, DIInv, ClockTypes
  <2>2. PICK k \in Nat : curr_to = k * MsPerSec
    BY <2>1 DEF DIInv, Waits
  <2>3. d \in Deadlines /\ ~Invalid(d)
    <3>1. curr_to % MsPerSec = 0
      BY <2>2, Multiples
    <3> QED BY <2>1, <3>1, AddIsExact
  <2>4. f \in Deadlines /\ (Invalid(f) => to % MsPerSec # 0)
    BY <2>1, AddIsExact
  <2>5. CASE finaldeadline.tv_sec = 0
    <3>1. where' = "over" /\ finaldeadline' = finaldeadline /\ nextdeadline' = nextdeadline
      BY <1>2, <2>5 DEF round
    <3>2. f.tv_sec # 0
      BY <2>4 DEF Deadlines
    <3>3. Marking'
      BY <2>1, <2>5, <3>1, <3>2 DEF DIInv, Marking, Millis
    <3> QED BY <2>1, <2>2, <2>5, <3>1, <3>3 DEF DIInv, ClockTypes, Waits
  <2>6. CASE finaldeadline.tv_sec # 0
    <3>1. finaldeadline = f
      BY <2>1, <2>6 DEF DIInv, Marking
    <3>2. where' = "wait"
      BY <1>2, <2>6 DEF round
    <3>3. CASE Later(d, finaldeadline)
      <4>1. nextdeadline' = f /\ finaldeadline' = Marked(f)
        BY <1>2, <2>6, <3>1, <3>3 DEF round
      <4>2. finaldeadline'.tv_sec = 0
        BY <2>4, <4>1 DEF Marked, Deadlines
      <4> QED BY <2>1, <2>2, <2>4, <3>2, <4>1, <4>2 DEF DIInv, ClockTypes, Marking, Waits, Invalid
    <3>4. CASE ~Later(d, finaldeadline)
      <4>1. nextdeadline' = d /\ finaldeadline' = f
        BY <1>2, <2>6, <3>1, <3>4 DEF round
      <4> QED BY <2>1, <2>2, <2>3, <3>2, <4>1 DEF DIInv, ClockTypes, Marking, Waits, Invalid
    <3> QED BY <3>3, <3>4
  <2> QED BY <2>5, <2>6
<1>3. CASE wait_done
  BY <1>3 DEF wait_done, DIInv, ClockTypes, Marking, Waits, Invalid
<1>4. CASE wait_timeout
  <2>1. nextdeadline \in Deadlines /\ now \in Clock
    BY <1>4 DEF wait_timeout, DIInv, ClockTypes, Waits
  <2>2. Millis(now) >= Millis(nextdeadline)
    BY <1>4, <2>1, NotLaterIsPast DEF wait_timeout
  <2> QED BY <1>4, <2>2 DEF wait_timeout, DIInv, ClockTypes, Marking, Waits, Invalid, Millis
<1>5. ASSUME NEW dead \in BOOLEAN, again(dead) PROVE DIInv'
  <2>1. PICK k \in Nat : curr_to = k * MsPerSec
    BY <1>5 DEF again, DIInv, Waits
  <2>2. curr_to' = (2 * k) * MsPerSec /\ 2 * k \in Nat /\ curr_to' \in Nat
    BY <1>5, <1>m, <2>1 DEF again
  <2>3. \E j \in Nat : curr_to' = j * MsPerSec
    BY <2>2
  <2> QED BY <1>5, <2>2, <2>3 DEF again, DIInv, ClockTypes, Marking, Waits, Millis
<1>6. CASE answer
  BY <1>6 DEF answer, DIInv, ClockTypes, Marking, Waits, Invalid, Millis
<1>7. CASE tick
  <2>1. now' \in Clock /\ Millis(now') = Millis(now) + 1 /\ Millis(now) \in Nat
    BY <1>7, TickIsOne DEF tick, DIInv, ClockTypes
  <2>2. where # "start" /\ where # "over"
    BY <1>7 DEF tick
  <2>3. Marking'
    <3>1. CASE finaldeadline = add_timespec(started, to)
      BY <1>7, <3>1 DEF tick, Marking
    <3>2. CASE /\ finaldeadline.tv_sec = 0 /\ nextdeadline = add_timespec(started, to)
               /\ where # "wait" /\ ~done => Millis(now) >= Millis(nextdeadline)
      <4>1. Millis(nextdeadline) \in Int
        <5>1. to \in Nat /\ started \in Clock
          BY <2>2 DEF DIInv, ClockTypes
        <5>2. nextdeadline \in Deadlines
          BY <3>2, <5>1, AddIsExact
        <5> QED BY <1>m, <5>2 DEF Deadlines, Millis
      <4>2. Millis(now)' = Millis(now') /\ Millis(nextdeadline)' = Millis(nextdeadline)
        BY <1>7 DEF tick, Millis
      <4> QED BY <1>7, <2>1, <3>2, <4>1, <4>2 DEF tick, Marking
    <3> QED BY <2>2, <3>1, <3>2 DEF DIInv, Marking
  <2> QED BY <1>7, <2>1, <2>2, <2>3 DEF tick, DIInv, ClockTypes, Waits, Invalid
<1>8. CASE UNCHANGED clockVars
  BY <1>8 DEF clockVars, DIInv, ClockTypes, Marking, Waits, Invalid, Millis
<1> QED BY <1>1, <1>2, <1>3, <1>4, <1>5, <1>6, <1>7, <1>8 DEF DNext, call1_step

\* It implies that the call ends on time.
LEMMA DImplies == DIInv => GivesUpOnTime
<1> SUFFICES ASSUME DIInv PROVE GivesUpOnTime
  OBVIOUS
<1>1. ASSUME where = "over", ~done PROVE Millis(now) >= Millis(started) + to
  <2>1. started \in Clock /\ to \in Nat /\ Marking /\ finaldeadline.tv_sec = 0
    BY <1>1 DEF DIInv, ClockTypes
  <2>2. add_timespec(started, to) \in Deadlines
        /\ Millis(add_timespec(started, to)) = Millis(started) + to
    BY <2>1, AddIsExact
  <2>3. add_timespec(started, to).tv_sec # 0
    BY <2>2 DEF Deadlines
  <2> QED BY <1>1, <2>1, <2>2, <2>3 DEF Marking
<1>2. ASSUME where = "wait", Invalid(nextdeadline) PROVE to % MsPerSec # 0
  BY <1>2 DEF DIInv, Waits
<1> QED BY <1>1, <1>2 DEF GivesUpOnTime

\* rpcc::call1 returns timeout_failure only once the whole timeout has
\* passed since it was called, although it cuts rounds short and overwrites
\* finaldeadline to mark the last one; and it hands pthread_cond_timedwait a
\* deadline that is refused only for a timeout with a fraction of a second.
THEOREM CallGivesUpOnTime == DSpec => []GivesUpOnTime
<1>1. DInit => DIInv
  BY DInitially
<1>2. DIInv /\ [DNext]_clockVars => DIInv'
  BY DStep
<1>3. DIInv => GivesUpOnTime
  BY DImplies
<1> QED BY <1>1, <1>2, <1>3, PTL DEF DSpec

-----------------------------------------------------------------------------
(* XidWindow: the list holds what its front and the set above it say.      *)

\* Sorted, with every pair of places.
Ordered(w) == \A j, k \in 1 .. Len(w) : j <= k => w[j] <= w[k]

\* v is w with x put at place p, after the elements up to x.
PutAt(v, w, x, p) ==
  /\ v \in Seq(Nat) /\ Len(v) = Len(w) + 1
  /\ \A k \in 1 .. Len(w) + 1 : v[k] = IF k < p THEN w[k] ELSE IF k = p THEN x ELSE w[k - 1]
  /\ \A k \in 1 .. Len(w) : IF k < p THEN w[k] <= x ELSE w[k] >= x

\* The first place of a sequence where something holds.
LEMMA FirstPlace ==
  ASSUME NEW n \in Nat, NEW I \in SUBSET (1 .. n), I # {}
  PROVE  Min(I) \in I /\ \A k \in I : Min(I) <= k
<1>1. I \subseteq Nat
  OBVIOUS
<1>2. \E p \in I : \A k \in I : p <= k
  BY <1>1, LeastElement
<1> QED BY <1>2 DEF Min

\* The loop of update_xid_rep inserts x at some place, and changes nothing else.
LEMMA InsertIsPut ==
  ASSUME NEW w \in Seq(Nat), Ordered(w), NEW x \in Nat
  PROVE  \E p \in 1 .. Len(w) + 1 : PutAt(Insert(w, x), w, x, p)
<1> DEFINE I == {k \in 1 .. Len(w) : w[k] > x}
           v == Insert(w, x)
<1>0. Len(w) \in Nat /\ \A k \in 1 .. Len(w) : w[k] \in Nat
  OBVIOUS
<1>1. v = IF I = {} THEN Append(w, x)
          ELSE IF Min(I) = 0 THEN Append(w, x) ELSE InsertAt(w, Min(I), x)
  BY DEF Insert, SelectInSeq
<1>2. CASE I = {}
  <2>1. v = Append(w, x)
    BY <1>1, <1>2
  <2> HIDE DEF v
  <2>2. v \in Seq(Nat) /\ Len(v) = Len(w) + 1 /\ v[Len(w) + 1] = x
        /\ \A k \in 1 .. Len(w) : v[k] = w[k]
    BY <1>0, <2>1
  <2>3. \A k \in 1 .. Len(w) : w[k] <= x
    BY <1>0, <1>2
  <2>4. PutAt(v, w, x, Len(w) + 1)
    BY <1>0, <2>2, <2>3 DEF PutAt
  <2>5. Len(w) + 1 \in 1 .. Len(w) + 1
    BY <1>0
  <2> QED BY <2>4, <2>5 DEF v
<1>3. CASE I # {}
  <2>1. PICK p : p = Min(I)
    OBVIOUS
  <2>2. p \in I /\ \A k \in I : p <= k
    <3>1. I \in SUBSET (1 .. Len(w))
      OBVIOUS
    <3> HIDE DEF I
    <3> QED BY <1>0, <1>3, <2>1, <3>1, FirstPlace
  <2>3. p \in 1 .. Len(w) /\ w[p] > x /\ p # 0 /\ \A k \in 1 .. Len(w) : k < p => w[k] <= x
    BY <1>0, <2>2
  <2>4. \A k \in 1 .. Len(w) : ~(k < p) => w[k] >= x
    BY <1>0, <2>3 DEF Ordered
  <2> DEFINE a == SubSeq(w, 1, p - 1)
             c == SubSeq(w, p, Len(w))
             b == <<x>>
  <2>5. v = (a \o b) \o c
    BY <1>1, <1>3, <2>1, <2>3 DEF InsertAt
  <2>6. a \in Seq(Nat) /\ Len(a) = p - 1 /\ \A k \in 1 .. p - 1 : a[k] = w[k]
    BY <1>0, <2>3
  <2>7. /\ c \in Seq(Nat) /\ Len(c) = Len(w) - p + 1
        /\ \A k \in 1 .. Len(w) - p + 1 : c[k] = w[p + k - 1]
    BY <1>0, <2>3
  <2>8. b \in Seq(Nat) /\ Len(b) = 1 /\ b[1] = x
    OBVIOUS
  <2> HIDE DEF a, b, c, v
  <2> DEFINE d == a \o b
  <2>9. d \in Seq(Nat) /\ Len(d) = p /\ d[p] = x /\ \A k \in 1 .. p - 1 : d[k] = w[k]
    <3>1. a \in Seq(Nat) /\ b \in Seq(Nat)
      BY <2>6, <2>8
    <3>2. d \in Seq(Nat) /\ Len(d) = Len(a) + Len(b)
      BY <3>1
    <3>3. \A k \in 1 .. Len(a) + Len(b) : d[k] = IF k <= Len(a) THEN a[k] ELSE b[k - Len(a)]
      BY <3>1
    <3>4. Len(a) + Len(b) = p /\ p - Len(a) = 1 /\ p \in 1 .. p /\ ~(p <= Len(a))
      BY <2>3, <2>6, <2>8
    <3>5. d[p] = x
      BY <2>8, <3>3, <3>4
    <3>6. \A k \in 1 .. p - 1 : d[k] = w[k]
      BY <2>3, <2>6, <3>3, <3>4
    <3> QED BY <3>2, <3>4, <3>5, <3>6
  <2> HIDE DEF d
  <2>10. v \in Seq(Nat) /\ Len(v) = Len(w) + 1
         /\ \A k \in 1 .. Len(w) + 1 : v[k] = IF k <= p THEN d[k] ELSE c[k - p]
    <3>1. d \in Seq(Nat) /\ c \in Seq(Nat) /\ v = d \o c
      BY <2>5, <2>7, <2>9 DEF d
    <3>2. v \in Seq(Nat) /\ Len(v) = Len(d) + Len(c)
      BY <3>1
    <3>3. \A k \in 1 .. Len(d) + Len(c) : v[k] = IF k <= Len(d) THEN d[k] ELSE c[k - Len(d)]
      BY <3>1
    <3>4. Len(d) + Len(c) = Len(w) + 1 /\ Len(d) = p
      BY <1>0, <2>3, <2>7, <2>9
    <3> QED BY <3>2, <3>3, <3>4
  <2>11. ASSUME NEW k \in 1 .. Len(w) + 1
         PROVE  v[k] = IF k < p THEN w[k] ELSE IF k = p THEN x ELSE w[k - 1]
    <3>1. CASE k < p
      BY <2>3, <2>9, <2>10, <3>1, SMTT(30)
    <3>2. CASE k = p
      BY <2>3, <2>9, <2>10, <3>2
    <3>3. CASE k > p
      <4>1. k - p \in 1 .. Len(w) - p + 1 /\ p + (k - p) - 1 = k - 1
        BY <1>0, <2>3, <3>3
      <4>2. v[k] = c[k - p] /\ c[k - p] = w[p + (k - p) - 1]
        BY <2>3, <2>7, <2>10, <3>3, <4>1
      <4> QED BY <2>3, <3>3, <4>1, <4>2
    <3> QED BY <2>3, <3>1, <3>2, <3>3
  <2>12. PutAt(v, w, x, p)
    BY <2>3, <2>4, <2>10, <2>11 DEF PutAt
  <2>13. p \in 1 .. Len(w) + 1
    BY <1>0, <2>3
  <2> QED BY <2>12, <2>13 DEF v
<1> QED BY <1>2, <1>3

\* Put there, x leaves the list in order, and is all that is new in it.
LEMMA PutKeepsOrder ==
  ASSUME NEW w \in Seq(Nat), Ordered(w), NEW x \in Nat, NEW p \in 1 .. Len(w) + 1,
         NEW v, PutAt(v, w, x, p)
  PROVE  Ordered(v) /\ ToSet(v) = ToSet(w) \cup {x}
<1>0. /\ Len(w) \in Nat /\ p \in Nat /\ v \in Seq(Nat) /\ Len(v) = Len(w) + 1
      /\ \A k \in 1 .. Len(w) : w[k] \in Nat
  BY DEF PutAt
<1>1. \A k \in 1 .. Len(w) + 1 : v[k] = IF k < p THEN w[k] ELSE IF k = p THEN x ELSE w[k - 1]
  BY DEF PutAt
<1>2. \A k \in 1 .. Len(w) : IF k < p THEN w[k] <= x ELSE w[k] >= x
  BY DEF PutAt
<1>3. \A j, k \in 1 .. Len(w) : j <= k => w[j] <= w[k]
  BY DEF Ordered
<1>4. ASSUME NEW j \in 1 .. Len(w) + 1, NEW k \in 1 .. Len(w) + 1, j <= k
      PROVE  v[j] <= v[k]
  <2>1. CASE k < p
    <3>1. j \in 1 .. Len(w) /\ k \in 1 .. Len(w) /\ v[j] = w[j] /\ v[k] = w[k]
      BY <1>0, <1>1, <1>4, <2>1
    <3> QED BY <1>3, <1>4, <3>1
  <2>2. CASE k = p
    <3>1. CASE j = p
      BY <1>0, <1>1, <2>2, <3>1
    <3>2. CASE j < p
      <4>1. j \in 1 .. Len(w) /\ v[j] = w[j] /\ v[k] = x
        BY <1>0, <1>1, <2>2, <3>2
      <4> QED BY <1>2, <3>2, <4>1
    <3> QED BY <1>0, <1>4, <2>2, <3>1, <3>2
  <2>3. CASE k > p
    <3>1. k - 1 \in 1 .. Len(w) /\ v[k] = w[k - 1] /\ ~(k - 1 < p)
      BY <1>0, <1>1, <2>3
    <3>2. CASE j < p
      <4>1. j \in 1 .. Len(w) /\ v[j] = w[j] /\ j <= k - 1
        BY <1>0, <1>1, <2>3, <3>2
      <4> QED BY <1>3, <3>1, <4>1
    <3>3. CASE j = p
      <4>1. v[j] = x
        BY <1>1, <3>3, <1>0
      <4> QED BY <1>0, <1>2, <3>1, <4>1
    <3>4. CASE j > p
      <4>1. j - 1 \in 1 .. Len(w) /\ v[j] = w[j - 1] /\ j - 1 <= k - 1
        BY <1>0, <1>1, <1>4, <3>4
      <4> QED BY <1>3, <3>1, <4>1
    <3> QED BY <1>0, <3>2, <3>3, <3>4
  <2> QED BY <1>0, <2>1, <2>2, <2>3
<1>5. DOMAIN v = 1 .. Len(w) + 1 /\ DOMAIN w = 1 .. Len(w)
  BY <1>0
<1>6. ASSUME NEW k \in DOMAIN v PROVE v[k] \in ToSet(w) \cup {x}
  <2>1. k < p => k \in DOMAIN w
    BY <1>0, <1>5
  <2>2. ~(k < p) /\ k # p => k - 1 \in DOMAIN w
    BY <1>0, <1>5
  <2> QED BY <1>1, <1>5, <2>1, <2>2 DEF ToSet
<1>7. x \in ToSet(v)
  <2>1. p \in DOMAIN v /\ v[p] = x
    BY <1>0, <1>1, <1>5
  <2> QED BY <2>1 DEF ToSet
<1>8. ASSUME NEW k \in DOMAIN w PROVE w[k] \in ToSet(v)
  <2>1. CASE k < p
    <3>1. k \in DOMAIN v /\ v[k] = w[k]
      BY <1>0, <1>1, <1>5, <2>1
    <3> QED BY <3>1 DEF ToSet
  <2>2. CASE ~(k < p)
    <3>1. k + 1 \in DOMAIN v /\ v[k + 1] = w[(k + 1) - 1] /\ (k + 1) - 1 = k
      BY <1>0, <1>1, <1>5, <2>2
    <3> QED BY <3>1 DEF ToSet
  <2> QED BY <2>1, <2>2
<1>9. ToSet(v) = ToSet(w) \cup {x}
  BY <1>6, <1>7, <1>8 DEF ToSet
<1> QED BY <1>0, <1>4, <1>9 DEF Ordered

\* v is w from place k on.
From(v, w, k) ==
  /\ v \in Seq(Nat) /\ Len(v) = Len(w) - k + 1
  /\ \A j \in 1 .. Len(w) - k + 1 : v[j] = w[j + k - 1]

\* Popping leaves the rest of the list.
LEMMA PopType ==
  ASSUME NEW w \in Seq(Nat), NEW y PROVE PopWhile(w, y) \in Seq(Nat)
<1> DEFINE I == {k \in 1 .. Len(w) : w[k] + 1 # y}
<1>1. PopWhile(w, y) = IF I = {} THEN <<>>
                       ELSE IF Min(I) = 0 THEN <<>> ELSE SubSeq(w, Min(I), Len(w))
  BY DEF PopWhile, SelectInSeq
<1>2. CASE I = {}
  BY <1>1, <1>2
<1>3. CASE I # {}
  <2>1. Min(I) \in 1 .. Len(w)
    <3>1. I \in SUBSET (1 .. Len(w)) /\ Len(w) \in Nat
      OBVIOUS
    <3> HIDE DEF I
    <3> QED BY <1>3, <3>1, FirstPlace
  <2> HIDE DEF I
  <2> QED BY <1>1, <2>1
<1> QED BY <1>2, <1>3

\* From place k of an ordered list, where place n holds y: popping stops at
\* the first place that does not hold y - 1.
LEMMA PopStops ==
  ASSUME NEW w \in Seq(Nat), NEW k \in 1 .. Len(w), NEW v, From(v, w, k),
         NEW i \in k .. Len(w)
  PROVE  \E n \in k .. i : /\ From(PopWhile(v, w[i]), w, n)
                           /\ w[n] + 1 # w[i]
                           /\ \A j \in k .. n - 1 : w[j] + 1 = w[i]
<1> DEFINE y == w[i]
           I == {q \in 1 .. Len(v) : v[q] + 1 # y}
<1>0. /\ Len(w) \in Nat /\ k \in Nat /\ i \in Nat /\ k <= i /\ i <= Len(w) /\ 1 <= k
      /\ \A j \in 1 .. Len(w) : w[j] \in Nat
  OBVIOUS
<1>1. /\ v \in Seq(Nat) /\ Len(v) = Len(w) - k + 1
      /\ \A j \in 1 .. Len(w) - k + 1 : v[j] = w[j + k - 1]
  BY DEF From
<1>2. PopWhile(v, y) = IF I = {} THEN <<>>
                       ELSE IF Min(I) = 0 THEN <<>> ELSE SubSeq(v, Min(I), Len(v))
  BY DEF PopWhile, SelectInSeq
<1>3. i - k + 1 \in I
  <2>1. i - k + 1 \in 1 .. Len(v) /\ i - k + 1 \in 1 .. Len(w) - k + 1
        /\ (i - k + 1) + k - 1 = i /\ i \in 1 .. Len(w)
    BY <1>0, <1>1
  <2>2. v[i - k + 1] = w[i] /\ w[i] \in Nat
    BY <1>0, <1>1, <2>1
  <2> QED BY <2>1, <2>2
<1>4. PICK q : q = Min(I)
  OBVIOUS
<1>5. q \in I /\ \A j \in I : q <= j
  <2>1. I \in SUBSET (1 .. Len(v))
    OBVIOUS
  <2> HIDE DEF I
  <2>2. v \in Seq(Nat) /\ I # {}
    BY <1>1, <1>3
  <2>3. Len(v) \in Nat
    BY <2>2
  <2> QED BY <1>4, <2>1, <2>2, <2>3, FirstPlace
<1>6. q \in 1 .. Len(v) /\ v[q] + 1 # y /\ q <= i - k + 1 /\ q # 0
  BY <1>3, <1>5
<1>7. \A j \in 1 .. Len(v) : j < q => v[j] + 1 = y
  BY <1>5, <1>6
<1>8. PopWhile(v, y) = SubSeq(v, q, Len(v))
  <2> HIDE DEF I
  <2> QED BY <1>2, <1>3, <1>4, <1>6
<1>9. PICK n : n = q + k - 1
  OBVIOUS
<1>10. n \in k .. i /\ n \in Nat /\ Len(w) - n + 1 = Len(v) - q + 1
  BY <1>0, <1>1, <1>6, <1>9
<1> DEFINE t == SubSeq(v, q, Len(v))
<1>11. t \in Seq(Nat) /\ Len(t) = Len(v) - q + 1
       /\ \A j \in 1 .. Len(v) - q + 1 : t[j] = v[q + j - 1]
  <2>1. v \in Seq(Nat) /\ q \in 1 .. Len(v)
    BY <1>1, <1>6
  <2> QED BY <2>1
<1> HIDE DEF t, I
<1>12. From(t, w, n)
  <2>1. ASSUME NEW j \in 1 .. Len(w) - n + 1 PROVE t[j] = w[j + n - 1]
    <3>1. j \in 1 .. Len(v) - q + 1 /\ q + j - 1 \in 1 .. Len(w) - k + 1
          /\ (q + j - 1) + k - 1 = j + n - 1
      BY <1>0, <1>1, <1>6, <1>9, <1>10
    <3> QED BY <1>1, <1>11, <3>1
  <2> QED BY <1>10, <1>11, <2>1 DEF From
<1>13. w[n] + 1 # w[i]
  <2>1. v[q] = w[n]
    BY <1>0, <1>1, <1>6, <1>9
  <2> QED BY <1>6, <2>1
<1>14. ASSUME NEW j \in k .. n - 1 PROVE w[j] + 1 = w[i]
  <2>1. /\ j - k + 1 \in 1 .. Len(v) /\ j - k + 1 < q /\ j - k + 1 \in 1 .. Len(w) - k + 1
        /\ (j - k + 1) + k - 1 = j
    BY <1>0, <1>1, <1>6, <1>9, <1>10
  <2>2. v[j - k + 1] = w[j] /\ v[j - k + 1] + 1 = y
    BY <1>1, <1>7, <2>1
  <2> QED BY <2>2
<1> QED BY <1>8, <1>10, <1>12, <1>13, <1>14 DEF t

\* The numbers up to that at place k follow each other, and up to place n none
\* is the next.
Steady(w, k, n) ==
  /\ \A y \in w[1] .. w[k] : y \in ToSet(w)
  /\ \A j \in k .. n : w[j] # w[k] + 1

\* One visit of the loop at compress.
LEMMA VisitKeeps ==
  ASSUME NEW w \in Seq(Nat), Ordered(w), NEW i \in 2 .. Len(w), NEW k \in 1 .. i - 1,
         NEW v, From(v, w, k), Steady(w, k, i - 1)
  PROVE  \E n \in 1 .. i : From(PopWhile(v, w[i]), w, n) /\ Steady(w, n, i)
<1>0. /\ Len(w) \in Nat /\ k \in Nat /\ i \in Nat /\ i <= Len(w) /\ 1 <= k /\ k <= i - 1
      /\ \A j \in 1 .. Len(w) : w[j] \in Nat
  OBVIOUS
<1>1. k \in 1 .. Len(w) /\ i \in k .. Len(w) /\ i \in 1 .. Len(w) /\ 1 \in 1 .. Len(w)
  BY <1>0
<1>2. PICK n \in k .. i : /\ From(PopWhile(v, w[i]), w, n)
                          /\ w[n] + 1 # w[i]
                          /\ \A j \in k .. n - 1 : w[j] + 1 = w[i]
  BY <1>1, PopStops
<1>3. n \in Nat /\ n \in 1 .. Len(w) /\ n \in 1 .. i
  BY <1>0, <1>2
<1>4. CASE n = k
  <2>1. \A j \in k .. i : w[j] # w[k] + 1
    <3>1. \A j \in k .. i : j \in k .. i - 1 \/ j = i
      BY <1>0
    <3> QED BY <1>0, <1>2, <1>4, <3>1 DEF Steady
  <2>2. Steady(w, n, i)
    BY <1>4, <2>1 DEF Steady
  <2> QED BY <1>2, <1>3, <2>2
<1>5. CASE n # k
  <2>1. n - 1 \in k .. n - 1 /\ k \in k .. n - 1 /\ n - 1 \in 1 .. Len(w)
    BY <1>0, <1>2, <1>3, <1>5
  <2>2. w[n - 1] + 1 = w[i] /\ w[k] + 1 = w[i]
    BY <1>2, <2>1
  <2>3. w[n - 1] <= w[n] /\ w[n] <= w[i]
    <3>1. n - 1 <= n /\ n <= i
      BY <1>0, <1>2, <1>3
    <3> QED BY <1>1, <1>3, <2>1, <3>1 DEF Ordered
  <2>4. w[n] = w[i]
    <3>1. w[n] \in Nat /\ w[n - 1] \in Nat /\ w[i] \in Nat
      BY <1>0, <1>1, <1>3, <2>1
    <3>2. w[n] + 1 # w[i]
      BY <1>2
    <3>3. \A a, b, c \in Nat : a + 1 = c /\ a <= b /\ b <= c /\ b + 1 # c => b = c
      OBVIOUS
    <3> QED BY <2>2, <2>3, <3>1, <3>2, <3>3
  <2>5. \A y \in w[1] .. w[n] : y \in ToSet(w)
    <3>1. w[i] \in ToSet(w)
      <4>1. i \in DOMAIN w
        BY <1>1
      <4> QED BY <4>1 DEF ToSet
    <3>2. w[1] \in Nat /\ w[k] \in Nat /\ w[i] \in Nat
      BY <1>0, <1>1
    <3>3. \A y \in w[1] .. w[i] : y \in w[1] .. w[k] \/ y = w[i]
      BY <2>2, <3>2
    <3> QED BY <2>4, <3>1, <3>3 DEF Steady
  <2>6. ASSUME NEW j \in n .. i PROVE w[j] # w[n] + 1
    <3>1. j \in 1 .. Len(w) /\ j <= i
      BY <1>0, <1>3
    <3>2. w[j] <= w[i] /\ w[j] \in Nat /\ w[i] \in Nat
      BY <1>0, <1>1, <3>1 DEF Ordered
    <3> QED BY <2>4, <3>2
  <2>7. Steady(w, n, i)
    BY <2>5, <2>6 DEF Steady
  <2> QED BY <1>2, <1>3, <2>7
<1> QED BY <1>4, <1>5

\* What compress leaves: the list from the last number before the first gap.
Compressed(v, w) == \E k \in 1 .. Len(w) : From(v, w, k) /\ Steady(w, k, Len(w))

\* What the compress loop leaves of an ordered list.
LEMMA CompressResult ==
  ASSUME NEW w \in Seq(Nat), Ordered(w), Len(w) >= 2
  PROVE  Compressed(Compress(w), w)
<1> DEFINE S == [v : Seq(Nat), i : Nat]
           L == Len(w)
           T == {s \in S : s.i > L}
           val == [s \in T |-> s.v]
           onward(s) == [v |-> PopWhile(s.v, w[s.i]), i |-> s.i + 1]
           nxt == [s \in S \ T |-> onward(s)]
           mu == [s \in S |-> IF s.i > L THEN 0 ELSE (L + 1) - s.i]
           Body(f) == [s \in S |-> IF s.i > L THEN s.v ELSE f[onward(s)]]
           visit == CHOOSE f : f = Body(f)
           start_ == [v |-> w, i |-> 2]
<1>0. L \in Nat /\ \A s \in S : s.v \in Seq(Nat) /\ s.i \in Nat
  OBVIOUS
<1>1. Compress(w) = visit[start_]
  BY DEF Compress
<1>2. ASSUME NEW s \in S PROVE onward(s) \in S /\ onward(s).i = s.i + 1
                               /\ onward(s).v = PopWhile(s.v, w[s.i])
  <2>1. PopWhile(s.v, w[s.i]) \in Seq(Nat)
    BY <1>0, PopType
  <2> QED BY <1>0, <2>1
<1>3. IsLoop(S, T, Seq(Nat), val, nxt, mu)
  <2>1. T \subseteq S /\ val \in [T -> Seq(Nat)]
    BY <1>0
  <2>2. nxt \in [S \ T -> S]
    BY <1>2
  <2>3. mu \in [S -> Nat]
    BY <1>0
  <2>4. ASSUME NEW s \in S \ T PROVE mu[nxt[s]] < mu[s]
    <3>1. nxt[s] = onward(s) /\ s \in S /\ ~(s.i > L) /\ s.i \in Nat
      BY <1>0
    <3>2. onward(s) \in S /\ onward(s).i = s.i + 1
      BY <1>2, <3>1
    <3>3. mu[nxt[s]] = (IF s.i + 1 > L THEN 0 ELSE (L + 1) - (s.i + 1)) /\ mu[s] = (L + 1) - s.i
      <4> HIDE DEF onward, nxt, S, T, L
      <4> QED BY <3>1, <3>2
    <3> HIDE DEF mu, nxt, L
    <3> QED BY <1>0, <3>1, <3>3
  <2> HIDE DEF mu, nxt, val, T, S
  <2> QED BY <2>1, <2>2, <2>3, <2>4 DEF IsLoop
<1>4. IsResult(visit, S, T, val, nxt)
  <2>1. PICK g \in [S -> Seq(Nat)] : IsResult(g, S, T, val, nxt)
    <3> HIDE DEF S, T, val, nxt, mu
    <3> QED BY <1>3, LoopHasResult
  <2>2. g = Body(g)
    <3>1. ASSUME NEW s \in S PROVE g[s] = Body(g)[s]
      <4>1. g[s] = IF s \in T THEN val[s] ELSE g[nxt[s]]
        BY <2>1 DEF IsResult
      <4> HIDE DEF onward
      <4> QED BY <4>1
    <3>2. g = [s \in S |-> g[s]]
      OBVIOUS
    <3>3. Body(g) = [s \in S |-> Body(g)[s]]
      OBVIOUS
    <3> HIDE DEF Body
    <3> QED BY <3>1, <3>2, <3>3
  <2>3. visit = Body(visit)
    <3> HIDE DEF Body
    <3> QED BY <2>2
  <2> HIDE DEF visit, onward
  <2>4. ASSUME NEW s \in S PROVE visit[s] = IF s \in T THEN val[s] ELSE visit[nxt[s]]
    <3>1. visit[s] = Body(visit)[s]
      BY <2>3
    <3>2. Body(visit)[s] = IF s \in T THEN val[s] ELSE visit[nxt[s]]
      OBVIOUS
    <3> QED BY <3>1, <3>2
  <2> HIDE DEF S, T, val, nxt
  <2> QED BY <2>4 DEF IsResult
<1> DEFINE P == {s \in S : /\ s.i \in 2 .. L + 1
                           /\ \E k \in 1 .. s.i - 1 : From(s.v, w, k) /\ Steady(w, k, s.i - 1)}
           Q == {v \in Seq(Nat) : Compressed(v, w)}
<1>5. start_ \in P
  <2>1. start_ \in S /\ start_.i = 2 /\ start_.v = w /\ 2 \in 2 .. L + 1
    BY <1>0
  <2>2. 1 \in 1 .. L /\ 1 \in DOMAIN w /\ w[1] \in Nat /\ 1 \in 1 .. 2 - 1
    OBVIOUS
  <2>3. From(w, w, 1)
    BY DEF From
  <2>4. w[1] \in ToSet(w) /\ \A y \in w[1] .. w[1] : y = w[1]
    BY <2>2 DEF ToSet
  <2>5. Steady(w, 1, 2 - 1)
    <3>1. \A j \in 1 .. 2 - 1 : j = 1
      OBVIOUS
    <3> QED BY <2>2, <2>4, <3>1 DEF Steady
  <2>6. \E k \in 1 .. start_.i - 1 : From(start_.v, w, k) /\ Steady(w, k, start_.i - 1)
    BY <2>1, <2>2, <2>3, <2>5
  <2> HIDE DEF start_
  <2> QED BY <2>1, <2>6
<1>6. \A s \in P \ T : nxt[s] \in P
  <2> TAKE s \in P \ T
  <2>1. s \in S /\ s.i \in 2 .. L /\ nxt[s] = onward(s)
    OBVIOUS
  <2>2. PICK k \in 1 .. s.i - 1 : From(s.v, w, k) /\ Steady(w, k, s.i - 1)
    OBVIOUS
  <2>3. \E n \in 1 .. s.i : From(PopWhile(s.v, w[s.i]), w, n) /\ Steady(w, n, s.i)
    BY <2>1, <2>2, VisitKeeps
  <2>4. onward(s) \in S /\ onward(s).i = s.i + 1 /\ onward(s).v = PopWhile(s.v, w[s.i])
    BY <1>2, <2>1
  <2>5. s.i + 1 \in 2 .. L + 1 /\ (s.i + 1) - 1 = s.i
    BY <1>0, <2>1
  <2> HIDE DEF onward, nxt, T
  <2>6. \E n \in 1 .. onward(s).i - 1 :
          From(onward(s).v, w, n) /\ Steady(w, n, onward(s).i - 1)
    BY <2>3, <2>4, <2>5
  <2> QED BY <2>1, <2>4, <2>5, <2>6
<1>7. \A s \in P \cap T : val[s] \in Q
  <2> TAKE s \in P \cap T
  <2>1. s \in S /\ s.i \in 2 .. L + 1 /\ s.i > L /\ val[s] = s.v
    OBVIOUS
  <2>2. s.i - 1 = L
    BY <1>0, <2>1
  <2>3. \E k \in 1 .. L : From(s.v, w, k) /\ Steady(w, k, L)
    BY <2>2
  <2> QED BY <1>0, <2>1, <2>3 DEF Compressed
<1>8. P \subseteq S
  OBVIOUS
<1>9. IsInvariantOf(P, Q, S, T, val, nxt)
  <2> HIDE DEF P, Q, S, T, val, nxt
  <2> QED BY <1>6, <1>7, <1>8 DEF IsInvariantOf
<1>10. \A s \in P : visit[s] \in Q
  <2> HIDE DEF S, T, val, nxt, mu, visit, P, Q
  <2> QED BY <1>3, <1>4, <1>9, LoopInvariant
<1>11. visit[start_] \in Q
  <2> HIDE DEF visit, P, Q, start_
  <2> QED BY <1>5, <1>10
<1> HIDE DEF visit, start_
<1> QED BY <1>1, <1>11

\* The inductive invariant: WindowIsExact, with the list ordered at every
\* pair of places.
Exact(w, D) ==
  /\ w \in Seq(Nat) /\ Len(w) >= 1 /\ Ordered(w)
  /\ 1 .. w[1] \subseteq D /\ w[1] + 1 \notin D
  /\ \A x \in Nat : x > w[1] => (x \in ToSet(w) <=> x \in D)
WIInv == calls \in [Xids -> Nat] /\ Exact(xid_rep_window_, Done)

\* The invariant of XidWindow holds at first.
LEMMA WInitially == Init => WIInv
<1> SUFFICES ASSUME Init PROVE WIInv
  OBVIOUS
<1>1. xid_rep_window_ = <<0>> /\ calls = [x \in Xids |-> 0]
  BY DEF Init
<1>2. Done = {} /\ calls \in [Xids -> Nat]
  BY <1>1 DEF Done
<1> DEFINE w == <<0>>
<1>3. w \in Seq(Nat) /\ Len(w) = 1 /\ w[1] = 0 /\ DOMAIN w = {1}
  OBVIOUS
<1>4. Ordered(w) /\ ToSet(w) = {0}
  BY <1>3 DEF Ordered, ToSet
<1> HIDE DEF w
<1>5. Exact(w, {})
  BY <1>3, <1>4 DEF Exact
<1> QED BY <1>1, <1>2, <1>5 DEF WIInv, w

\* A new number above the front.
LEMMA ExactCompress ==
  ASSUME NEW w, NEW D, D \subseteq Nat, Exact(w, D), NEW x \in Nat, x > w[1]
  PROVE  Exact(Compress(Insert(w, x)), D \cup {x})
<1> DEFINE i == Insert(w, x)
           v == Compress(i)
           E == D \cup {x}
<1>0. /\ w \in Seq(Nat) /\ Len(w) >= 1 /\ Ordered(w) /\ w[1] \in Nat /\ Len(w) \in Nat
      /\ 1 .. w[1] \subseteq D /\ w[1] + 1 \notin D
      /\ \A y \in Nat : y > w[1] => (y \in ToSet(w) <=> y \in D)
  <2>1. w \in Seq(Nat) /\ Len(w) >= 1
    BY DEF Exact
  <2>2. w[1] \in Nat /\ Len(w) \in Nat
    BY <2>1
  <2> QED BY <2>1, <2>2 DEF Exact
<1>1. PICK p \in 1 .. Len(w) + 1 : PutAt(i, w, x, p)
  BY <1>0, InsertIsPut
<1>2. Ordered(i) /\ ToSet(i) = ToSet(w) \cup {x}
  BY <1>0, <1>1, PutKeepsOrder
<1> HIDE DEF i
<1>3. i \in Seq(Nat) /\ Len(i) = Len(w) + 1 /\ Len(i) \in Nat /\ i[1] = w[1]
  <2>1. i \in Seq(Nat) /\ Len(i) = Len(w) + 1
    BY <1>1 DEF PutAt
  <2>2. p # 1
    <3> SUFFICES ASSUME p = 1 PROVE FALSE
      OBVIOUS
    <3>1. 1 \in 1 .. Len(w) /\ ~(1 < p)
      BY <1>0
    <3>2. w[1] >= x
      BY <1>1, <3>1 DEF PutAt
    <3> QED BY <1>0, <3>2
  <2>3. 1 < p /\ 1 \in 1 .. Len(w) + 1
    BY <1>0, <2>2
  <2>4. i[1] = w[1]
    BY <1>1, <2>3 DEF PutAt
  <2> QED BY <1>0, <2>1, <2>4
<1>4. Compressed(v, i)
  BY <1>0, <1>2, <1>3, CompressResult
<1> HIDE DEF v
<1>5. PICK k \in 1 .. Len(i) : From(v, i, k) /\ Steady(i, k, Len(i))
  BY <1>4 DEF Compressed
<1>6. /\ v \in Seq(Nat) /\ Len(v) = Len(i) - k + 1 /\ k \in Nat
      /\ \A j \in 1 .. Len(i) - k + 1 : v[j] = i[j + k - 1]
  BY <1>5 DEF From
<1>7. /\ \A y \in i[1] .. i[k] : y \in ToSet(i)
      /\ \A j \in k .. Len(i) : i[j] # i[k] + 1
  BY <1>5 DEF Steady
<1>8. \A j \in 1 .. Len(i) : i[j] \in Nat
  BY <1>3
<1>9. Len(v) >= 1 /\ Len(v) \in Nat /\ v[1] = i[k] /\ v[1] \in Nat /\ w[1] <= v[1]
  <2>1. Len(v) >= 1 /\ 1 \in 1 .. Len(i) - k + 1 /\ 1 + k - 1 = k /\ 1 \in 1 .. Len(i) /\ 1 <= k
    BY <1>3, <1>6
  <2>2. i[1] <= i[k]
    BY <1>2, <2>1 DEF Ordered
  <2> QED BY <1>3, <1>6, <1>8, <2>1, <2>2
<1>10. Ordered(v)
  <2>1. ASSUME NEW a \in 1 .. Len(v), NEW b \in 1 .. Len(v), a <= b PROVE v[a] <= v[b]
    <3>1. /\ a \in 1 .. Len(i) - k + 1 /\ b \in 1 .. Len(i) - k + 1
          /\ a + k - 1 \in 1 .. Len(i) /\ b + k - 1 \in 1 .. Len(i) /\ a + k - 1 <= b + k - 1
      BY <1>3, <1>6, <2>1
    <3>2. i[a + k - 1] <= i[b + k - 1]
      BY <1>2, <3>1 DEF Ordered
    <3> QED BY <1>6, <3>1, <3>2
  <2> QED BY <2>1 DEF Ordered
<1>11. \A y \in Nat : y > w[1] => (y \in ToSet(i) <=> y \in E)
  BY <1>0, <1>2
<1>12. 1 .. v[1] \subseteq E
  <2>1. ASSUME NEW y \in 1 .. v[1] PROVE y \in E
    <3>1. CASE y <= w[1]
      <4>1. y \in 1 .. w[1]
        BY <1>0, <3>1
      <4> QED BY <1>0, <4>1
    <3>2. CASE ~(y <= w[1])
      <4>1. y \in i[1] .. i[k] /\ y \in Nat /\ y > w[1]
        BY <1>0, <1>3, <1>9, <3>2, SMTT(30)
      <4> QED BY <1>7, <1>11, <4>1
    <3> QED BY <3>1, <3>2
  <2> QED BY <2>1
<1>13. v[1] + 1 \notin E
  <2>1. v[1] + 1 \in Nat /\ v[1] + 1 > w[1]
    BY <1>0, <1>9, SMTT(30)
  <2>2. ASSUME NEW j \in DOMAIN i PROVE i[j] # v[1] + 1
    <3>1. j \in 1 .. Len(i) /\ i[j] \in Nat
      BY <1>3, <1>8
    <3>2. CASE j >= k
      <4>1. j \in k .. Len(i)
        BY <1>3, <1>6, <3>1, <3>2
      <4> QED BY <1>7, <1>9, <4>1
    <3>3. CASE ~(j >= k)
      <4>1. j <= k
        BY <1>6, <3>1, <3>3
      <4>2. i[j] <= i[k]
        BY <1>2, <3>1, <4>1 DEF Ordered
      <4> QED BY <1>9, <3>1, <4>2
    <3> QED BY <3>2, <3>3
  <2>3. v[1] + 1 \notin ToSet(i)
    BY <2>2 DEF ToSet
  <2> QED BY <1>11, <2>1, <2>3
<1>14. ASSUME NEW y \in Nat, y > v[1] PROVE y \in ToSet(v) <=> y \in E
  <2>1. y > w[1]
    BY <1>0, <1>9, <1>14
  <2>2. DOMAIN v = 1 .. Len(i) - k + 1 /\ DOMAIN i = 1 .. Len(i)
    BY <1>3, <1>6
  <2> DEFINE L == Len(i)
  <2>2a. L \in Nat /\ k \in 1 .. L
    BY <1>3
  <2> HIDE DEF L
  <2>3. ASSUME NEW j \in DOMAIN v PROVE v[j] \in ToSet(i)
    <3>1. j \in 1 .. L - k + 1 /\ j + k - 1 \in 1 .. L
      BY <2>2, <2>2a DEF L
    <3> QED BY <1>6, <2>2, <3>1 DEF ToSet, L
  <2>4. ASSUME NEW j \in DOMAIN i, i[j] = y PROVE y \in ToSet(v)
    <3>1. j \in 1 .. Len(i)
      BY <2>2
    <3>2. j >= k
      <4> SUFFICES ASSUME ~(j >= k) PROVE FALSE
        OBVIOUS
      <4>1. j <= k
        BY <1>6, <3>1
      <4>2. i[j] <= i[k]
        BY <1>2, <3>1, <4>1 DEF Ordered
      <4> QED BY <1>9, <1>14, <2>4, <4>2
    <3>3. /\ j - k + 1 \in 1 .. Len(i) - k + 1 /\ (j - k + 1) + k - 1 = j
          /\ j - k + 1 \in DOMAIN v
      <4>1. j \in 1 .. L /\ j >= k
        BY <3>1, <3>2 DEF L
      <4>2. j - k + 1 \in 1 .. L - k + 1 /\ (j - k + 1) + k - 1 = j
        BY <2>2a, <4>1
      <4> QED BY <2>2, <4>2 DEF L
    <3>4. v[j - k + 1] = y
      BY <1>6, <2>4, <3>3
    <3> QED BY <3>3, <3>4 DEF ToSet
  <2>5. y \in ToSet(v) <=> y \in ToSet(i)
    BY <2>3, <2>4 DEF ToSet
  <2> QED BY <1>11, <2>1, <2>5
<1>15. Exact(v, E)
  <2> HIDE DEF E
  <2> QED BY <1>6, <1>9, <1>10, <1>12, <1>13, <1>14 DEF Exact
<1> QED BY <1>15 DEF v, i

\* Every step keeps it.
LEMMA WStep == WIInv /\ [Next]_vars => WIInv'
<1> SUFFICES ASSUME WIInv, [Next]_vars PROVE WIInv'
  OBVIOUS
<1>1. ASSUME NEW x \in Xids, update_xid_rep(x) PROVE WIInv'
  <2>1. x \in Nat /\ x >= 1 /\ calls \in [Xids -> Nat] /\ calls' = [calls EXCEPT ![x] = @ + 1]
    BY <1>1, XidAssumption DEF WIInv, Xids, update_xid_rep
  <2>2. calls' \in [Xids -> Nat] /\ Done' = Done \cup {x} /\ Done \subseteq Nat
    <3>1. \A y \in Xids : calls'[y] = IF y = x THEN calls[y] + 1 ELSE calls[y]
      BY <2>1
    <3>2. \A y \in Xids : calls[y] \in Nat
      BY <2>1
    <3>3. Xids \subseteq Nat
      BY XidAssumption DEF Xids
    <3>4. Done' = Done \cup {x}
      BY <3>1, <3>2 DEF Done
    <3>5. calls' \in [Xids -> Nat]
      BY <2>1, <3>2
    <3>6. Done \subseteq Nat
      BY <3>3 DEF Done
    <3> QED BY <3>4, <3>5, <3>6
  <2> DEFINE w == xid_rep_window_
  <2>3. w \in Seq(Nat) /\ Len(w) >= 1 /\ Exact(w, Done)
    BY DEF WIInv, Exact
  <2>4. Head(w) = w[1] /\ w[1] \in Nat
    BY <2>3
  <2>5. xid_rep_window_' = IF x <= w[1] THEN w ELSE Compress(Insert(w, x))
    BY <1>1, <2>4 DEF update_xid_rep
  <2>6. CASE x <= w[1]
    <3>1. x \in 1 .. w[1]
      BY <2>1, <2>4, <2>6
    <3>2. Done' = Done
      BY <2>2, <2>3, <3>1 DEF Exact
    <3> QED BY <2>2, <2>3, <2>5, <2>6, <3>2 DEF WIInv
  <2>7. CASE ~(x <= w[1])
    <3>1. x > w[1] /\ xid_rep_window_' = Compress(Insert(w, x))
      BY <2>1, <2>4, <2>5, <2>7
    <3>2. Exact(Compress(Insert(w, x)), Done \cup {x})
      <4> HIDE DEF w
      <4> QED BY <2>1, <2>2, <2>3, <3>1, ExactCompress
    <3> QED BY <2>2, <3>1, <3>2 DEF WIInv
  <2> QED BY <2>6, <2>7
<1>2. CASE UNCHANGED vars
  BY <1>2 DEF vars, WIInv, Done
<1> QED BY <1>1, <1>2 DEF Next

\* update_xid_rep on the list computes the front and the set above it that Rpc
\* keeps, for every number of xids, every order of the calls and every number
\* of repetitions.
THEOREM WindowStaysExact == Spec => []WindowIsExact
<1>1. WIInv => WindowIsExact
  <2> SUFFICES ASSUME WIInv PROVE WindowIsExact
    OBVIOUS
  <2> DEFINE w == xid_rep_window_
  <2>1. Exact(w, Done)
    BY DEF WIInv
  <2>2. w \in Seq(Nat) /\ Len(w) >= 1 /\ Ordered(w)
    BY <2>1 DEF Exact
  <2>3. w # <<>> /\ Head(w) = w[1] /\ w[1] \in Nat /\ Len(w) \in Nat
    BY <2>2
  <2>4. Done \subseteq Nat /\ ToSet(w) \subseteq Nat
    <3>1. \A k \in DOMAIN w : w[k] \in Nat
      BY <2>2
    <3> QED BY <3>1, XidAssumption DEF Done, Xids, ToSet
  <2>5. {x \in ToSet(w) : x > w[1]} = {x \in Done : x > w[1]}
    BY <2>1, <2>4 DEF Exact
  <2>6. \A k \in 1 .. Len(w) - 1 : w[k] <= w[k + 1]
    <3> TAKE k \in 1 .. Len(w) - 1
    <3>1. k \in 1 .. Len(w) /\ k + 1 \in 1 .. Len(w) /\ k <= k + 1
      BY <2>3
    <3> QED BY <2>2, <3>1 DEF Ordered
  <2>7. 1 .. w[1] \subseteq Done /\ w[1] + 1 \notin Done
    BY <2>1 DEF Exact
  <2> QED BY <2>3, <2>5, <2>6, <2>7 DEF WindowIsExact
<1>2. QED
  BY WInitially, WStep, <1>1, PTL DEF Spec
=============================================================================
