----------------------------- MODULE HybiProofs -----------------------------
(* Hybi keeps the promise of MessageStream, for any messages, forms of headers,
   sizes of reads and fragments, and bounds.

   The invariant says what the bytes that have not been looked at are: frames, one
   behind the other, that lead from the fragments in hand and the messages handed on
   to the fragments and the messages of the server.  Reading moves bytes on, a round
   of the loop takes the first frame, the server adds a last one.             *)
EXTENDS Hybi, SequenceTheorems, TLAPS

\* The bits of a number are those it is made of.
LEMMA BitsOf ==
    ASSUME NEW a \in {0, 1}, NEW b \in {0, 1}, NEW c \in {0, 1}, NEW d \in {0, 1},
           NEW e \in {0, 1}, NEW f \in {0, 1}, NEW g \in {0, 1}, NEW h \in {0, 1},
           NEW n, n = 1 * a + 2 * b + 4 * c + 8 * d + 16 * e + 32 * f + 64 * g + 128 * h
    PROVE  /\ n \in Byte
           /\ Bit(n, 1) = a /\ Bit(n, 2) = b /\ Bit(n, 4) = c /\ Bit(n, 8) = d
           /\ Bit(n, 16) = e /\ Bit(n, 32) = f /\ Bit(n, 64) = g /\ Bit(n, 128) = h
  BY DEF Bit, Byte

\* A byte is made of its bits.
LEMMA BinaryOf ==
    ASSUME NEW a \in Byte
    PROVE  /\ a = 1 * Bit(a, 1) + 2 * Bit(a, 2) + 4 * Bit(a, 4) + 8 * Bit(a, 8)
                   + 16 * Bit(a, 16) + 32 * Bit(a, 32) + 64 * Bit(a, 64) + 128 * Bit(a, 128)
           /\ \A w \in {1, 2, 4, 8, 16, 32, 64, 128} : Bit(a, w) \in {0, 1}
  BY DEF Bit, Byte

\* A bit changed twice is as it was.
LEMMA Twice ==
    \A x, y \in {0, 1} : (x + y) % 2 \in {0, 1} /\ (((x + y) % 2) + y) % 2 = x
  OBVIOUS

\* Masking twice is not masking.
LEMMA XorTwice ==
    ASSUME NEW a \in Byte, NEW b \in Byte
    PROVE  Xor(a, b) \in Byte /\ Xor(Xor(a, b), b) = a
<1> DEFINE both(w) == (Bit(a, w) + Bit(b, w)) % 2
           n == Xor(a, b)
<1>1. \A w \in {1, 2, 4, 8, 16, 32, 64, 128} :
          both(w) \in {0, 1} /\ (both(w) + Bit(b, w)) % 2 = Bit(a, w)
  BY BinaryOf, Twice
<1>2. n = 1 * both(1) + 2 * both(2) + 4 * both(4) + 8 * both(8)
            + 16 * both(16) + 32 * both(32) + 64 * both(64) + 128 * both(128)
  BY DEF Xor
<1> HIDE DEF both, n
<1>3. n \in Byte /\ \A w \in {1, 2, 4, 8, 16, 32, 64, 128} : Bit(n, w) = both(w)
  BY <1>1, <1>2, BitsOf
<1>4. Xor(n, b) = 1 * Bit(a, 1) + 2 * Bit(a, 2) + 4 * Bit(a, 4) + 8 * Bit(a, 8)
                    + 16 * Bit(a, 16) + 32 * Bit(a, 32) + 64 * Bit(a, 64) + 128 * Bit(a, 128)
  BY <1>1, <1>3 DEF Xor
<1>5. Xor(n, b) = a
  BY <1>4, BinaryOf
<1> QED
  BY <1>3, <1>5 DEF n

\* Numbers to the base of 256.
LEMMA Digit ==
    ASSUME NEW n \in Nat
    PROVE  /\ n \div 256 \in Nat /\ n % 256 \in Byte
           /\ n = 256 * (n \div 256) + (n % 256)
  BY DEF Byte

\* What a length of so many more bytes can be.
Limited(n, extra) == \/ extra = 0 /\ n <= 125
                     \/ extra = 2 /\ n <= 65535
                     \/ extra = 8 /\ n <= LongestLength

\* Two bytes are enough for the second form, ...
LEMMA PairOf ==
    ASSUME NEW n \in Nat, Limited(n, 2)
    PROVE  256 * (n \div 256) + (n % 256) = n /\ n \div 256 \in Byte /\ n % 256 \in Byte
<1>1. /\ n \div 256 \in Nat /\ n % 256 \in 0 .. 255
      /\ n = 256 * (n \div 256) + (n % 256)
  BY Digit DEF Byte
<1>2. n \div 256 <= 255
  BY <1>1, SMT DEF Limited
<1> QED
  BY <1>1, <1>2 DEF Byte

\* Dividing goes byte by byte.
LEMMA DigitsOf ==
    ASSUME NEW n \in Nat
    PROVE  /\ n \div 65536 = (n \div 256) \div 256
           /\ n \div 16777216 = (n \div 65536) \div 256
  BY SMT

\* ... and four for the third, of which the first four are 0.
LEMMA BigEndianOf ==
    ASSUME NEW n \in Nat, Limited(n, 8)
    PROVE  /\ BigEndian(n) \in Seq(Byte) /\ Len(BigEndian(n)) = 4
           /\ Four(BigEndian(n), 1) = n
<1> DEFINE q1 == n \div 256
           q2 == n \div 65536
           q3 == n \div 16777216
           d == n % 256
           c == q1 % 256
           b == q2 % 256
           a == q3 % 256
<1>1. BigEndian(n) = <<a, b, c, d>>
  BY SMT DEF BigEndian
<1>2. q1 \in Nat /\ d \in Byte /\ n = 256 * q1 + d
  BY Digit
<1>3. q2 = q1 \div 256 /\ q3 = q2 \div 256
  BY DigitsOf, SMT
<1> HIDE DEF q1, d
<1>4. q2 \in Nat /\ c \in Byte /\ q1 = 256 * q2 + c
  BY <1>2, <1>3, Digit
<1> HIDE DEF q2, c
<1>5. q3 \in Nat /\ b \in Byte /\ q2 = 256 * q3 + b
  BY <1>3, <1>4, Digit
<1> HIDE DEF q3, b
<1>6. a \in Byte /\ a = q3
  <2>1. q3 \in 0 .. 255
    BY <1>2, <1>4, <1>5, SMT DEF Byte, Limited, LongestLength
  <2> QED
    BY <2>1 DEF Byte
<1> HIDE DEF a
<1>7. n = 65536 * (256 * a + b) + (256 * c + d)
  BY <1>2, <1>4, <1>5, <1>6, SMT DEF Byte
<1>8. Four(BigEndian(n), 1) = 65536 * (256 * a + b) + (256 * c + d)
  BY <1>1, SMT DEF Four, Two
<1>9. BigEndian(n) \in Seq(Byte) /\ Len(BigEndian(n)) = 4
  BY <1>1, <1>2, <1>4, <1>5, <1>6
<1> QED
  BY <1>7, <1>8, <1>9

\* What the forms of a header are.
Form(form) == /\ form.extra \in {0, 2, 8}
              /\ \/ form.mask = <<>>
                 \/ form.mask \in Seq(Byte) /\ Len(form.mask) = 4

\* The server uses no others.
LEMMA FormsAreForms == \A form \in Forms \cup {Short} : Form(form)
  BY HybiAssumption DEF Form, Short

\* What the provers must be told of joined sequences, ...
LEMMA Joined ==
    ASSUME NEW S, NEW s \in Seq(S), NEW t \in Seq(S)
    PROVE  /\ s \o t \in Seq(S)
           /\ Len(s) \in Nat /\ Len(t) \in Nat
           /\ Len(s \o t) = Len(s) + Len(t)
           /\ \A i \in 1 .. Len(s) : (s \o t)[i] = s[i]
           /\ \A i \in 1 .. Len(t) : (s \o t)[Len(s) + i] = t[i]
  OBVIOUS

\* ... of a part of one, ...
LEMMA Part ==
    ASSUME NEW S, NEW s \in Seq(S), NEW a \in Nat \ {0}, NEW b \in Nat, b <= Len(s), a <= b + 1
    PROVE  /\ SubSeq(s, a, b) \in Seq(S)
           /\ Len(SubSeq(s, a, b)) = (b + 1) - a
           /\ \A i \in 1 .. (b + 1) - a : SubSeq(s, a, b)[i] = s[(a - 1) + i]
<1>1. \A i \in a .. b : s[i] \in S
  BY ElementOfSeq
<1>2. /\ SubSeq(s, a, b) \in Seq(S)
      /\ Len(SubSeq(s, a, b)) = IF a <= b THEN b - a + 1 ELSE 0
      /\ \A i \in 1 .. b - a + 1 : SubSeq(s, a, b)[i] = s[a + i - 1]
  BY <1>1, SubSeqProperties
<1>3. \A i \in 1 .. (b + 1) - a : i \in 1 .. b - a + 1 /\ a + i - 1 = (a - 1) + i
  OBVIOUS
<1> QED
  BY <1>2, <1>3

\* ... and of equal ones,
LEMMA Same ==
    ASSUME NEW S, NEW s \in Seq(S), NEW t \in Seq(S), Len(s) = Len(t),
           \A i \in 1 .. Len(s) : s[i] = t[i]
    PROVE  s = t
  BY SeqEqual

\* and the same for bytes.
LEMMA JoinedBytes ==
    ASSUME NEW s \in Seq(Byte), NEW t \in Seq(Byte)
    PROVE  /\ s \o t \in Seq(Byte)
           /\ Len(s) \in Nat /\ Len(t) \in Nat
           /\ Len(s \o t) = Len(s) + Len(t)
           /\ \A i \in 1 .. Len(s) : (s \o t)[i] = s[i]
           /\ \A i \in 1 .. Len(t) : (s \o t)[Len(s) + i] = t[i]
  BY Joined

\* A part of some bytes.
LEMMA PartOfBytes ==
    ASSUME NEW s \in Seq(Byte), NEW a \in Nat \ {0}, NEW b \in Nat, b <= Len(s), a <= b + 1
    PROVE  /\ SubSeq(s, a, b) \in Seq(Byte)
           /\ Len(SubSeq(s, a, b)) = (b + 1) - a
           /\ \A i \in 1 .. (b + 1) - a : SubSeq(s, a, b)[i] = s[(a - 1) + i]
  BY Part

\* The last bytes of eight.
LEMMA LastOf ==
    ASSUME NEW all \in Seq(Byte), Len(all) = 8, NEW extra \in {0, 2, 8}
    PROVE  /\ SubSeq(all, 9 - extra, 8) \in Seq(Byte)
           /\ Len(SubSeq(all, 9 - extra, 8)) = extra
           /\ \A i \in 1 .. extra : SubSeq(all, 9 - extra, 8)[i] = all[(8 - extra) + i]
<1> DEFINE a == 9 - extra
           b == 8
           part == SubSeq(all, a, b)
<1>1. /\ a \in Nat \ {0} /\ b \in Nat /\ b <= Len(all) /\ a <= b + 1
      /\ (b + 1) - a = extra /\ a - 1 = 8 - extra
  OBVIOUS
<1> HIDE DEF a, b
<1>2. part \in Seq(Byte) /\ Len(part) = (b + 1) - a
  BY <1>1, PartOfBytes
<1>3. \A i \in 1 .. (b + 1) - a : part[i] = all[(a - 1) + i]
  BY <1>1, PartOfBytes
<1> HIDE DEF part
<1>4. /\ part \in Seq(Byte) /\ Len(part) = extra
      /\ \A i \in 1 .. extra : part[i] = all[(8 - extra) + i]
  BY <1>1, <1>2, <1>3
<1> QED
  BY <1>4 DEF part, a, b

\* The last two of eight bytes, or all of them.
LEMMA TwoOrEight ==
    ASSUME NEW all, NEW w, \A i \in 1 .. 4 : all[i] = 0, \A i \in 1 .. 4 : all[4 + i] = w[i],
           NEW extra \in {0, 2, 8}, NEW ext, \A i \in 1 .. extra : ext[i] = all[(8 - extra) + i]
    PROVE  /\ extra = 2 => ext[1] = w[3] /\ ext[2] = w[4]
           /\ extra = 8 => \A i \in 1 .. 4 : ext[i] = 0 /\ ext[4 + i] = w[i]
<1>1. all[7] = w[3] /\ all[8] = w[4]
  OBVIOUS
<1>2. ASSUME extra = 2 PROVE ext[1] = all[7] /\ ext[2] = all[8]
  BY <1>2
<1>3. ASSUME extra = 8 PROVE \A i \in 1 .. 4 : ext[i] = all[i] /\ ext[4 + i] = all[4 + i]
  BY <1>3
<1> QED
  BY <1>1, <1>2, <1>3

\* The bytes of an extended length.
LEMMA ExtendedBytes ==
    ASSUME NEW extra \in {0, 2, 8}, NEW z \in Seq(Byte), NEW w \in Seq(Byte),
           Len(z) = 4, Len(w) = 4, \A i \in 1 .. 4 : z[i] = 0
    PROVE  LET ext == SubSeq(z \o w, 9 - extra, 8)
           IN  /\ ext \in Seq(Byte) /\ Len(ext) = extra
               /\ extra = 2 => ext[1] = w[3] /\ ext[2] = w[4]
               /\ extra = 8 => \A i \in 1 .. 4 : ext[i] = 0 /\ ext[4 + i] = w[i]
<1> DEFINE all == z \o w
           ext == SubSeq(all, 9 - extra, 8)
<1>1. /\ all \in Seq(Byte) /\ Len(all) = Len(z) + Len(w)
      /\ \A i \in 1 .. Len(z) : all[i] = z[i]
      /\ \A i \in 1 .. Len(w) : all[Len(z) + i] = w[i]
  BY JoinedBytes
<1> HIDE DEF all
<1>2. /\ all \in Seq(Byte) /\ Len(all) = 8
      /\ \A i \in 1 .. 4 : all[i] = 0
      /\ \A i \in 1 .. 4 : all[4 + i] = w[i]
  BY <1>1
<1>3. /\ ext \in Seq(Byte) /\ Len(ext) = extra
      /\ \A i \in 1 .. extra : ext[i] = all[(8 - extra) + i]
  BY <1>2, LastOf
<1> HIDE DEF ext
<1>4. /\ extra = 2 => ext[1] = w[3] /\ ext[2] = w[4]
      /\ extra = 8 => \A i \in 1 .. 4 : ext[i] = 0 /\ ext[4 + i] = w[i]
  BY <1>2, <1>3, TwoOrEight
<1> QED
  BY <1>3, <1>4 DEF ext, all

\* An extended length is read as it was written.
LEMMA ExtendedLength ==
    ASSUME NEW extra \in {0, 2, 8}, NEW n \in Nat, Limited(n, extra)
    PROVE  LET ext == SubSeq(<<0, 0, 0, 0>> \o BigEndian(n), 9 - extra, 8)
           IN  /\ ext \in Seq(Byte) /\ Len(ext) = extra
               /\ extra = 2 => Two(ext, 1) = n
               /\ extra = 8 => Eight(ext, 1) = n
<1> DEFINE z == <<0, 0, 0, 0>>
           w == BigEndian(n)
           ext == SubSeq(z \o w, 9 - extra, 8)
<1>1. z \in Seq(Byte) /\ Len(z) = 4 /\ \A i \in 1 .. 4 : z[i] = 0
  BY DEF Byte
<1>2. Limited(n, 8)
  BY SMT DEF Limited, LongestLength
<1>3. w \in Seq(Byte) /\ Len(w) = 4 /\ Four(w, 1) = n
  BY <1>2, BigEndianOf
<1>4. w[3] = (n \div 256) % 256 /\ w[4] = n % 256
  BY SMT DEF BigEndian
<1> HIDE DEF z, w
<1>5. /\ ext \in Seq(Byte) /\ Len(ext) = extra
      /\ extra = 2 => ext[1] = w[3] /\ ext[2] = w[4]
      /\ extra = 8 => \A i \in 1 .. 4 : ext[i] = 0 /\ ext[4 + i] = w[i]
  BY <1>1, <1>3, ExtendedBytes
<1> HIDE DEF ext
<1>6. ASSUME extra = 2 PROVE Two(ext, 1) = n
  <2>1. 256 * (n \div 256) + (n % 256) = n /\ n \div 256 \in Byte
    BY <1>6, PairOf
  <2>2. (n \div 256) % 256 = n \div 256
    BY <2>1 DEF Byte
  <2> QED
    BY <1>4, <1>5, <1>6, <2>1, <2>2 DEF Two
<1>7. ASSUME extra = 8 PROVE Eight(ext, 1) = n
  <2>1. \A i \in 1 .. 4 : ext[i] = 0 /\ ext[4 + i] = w[i]
    BY <1>5, <1>7
  <2>2. /\ ext[1] = 0 /\ ext[2] = 0 /\ ext[3] = 0 /\ ext[4] = 0
        /\ ext[5] = w[1] /\ ext[6] = w[2] /\ ext[7] = w[3] /\ ext[8] = w[4]
    BY <2>1
  <2>3. /\ Two(ext, 1) = 0 /\ Two(ext, 3) = 0
        /\ Two(ext, 5) = Two(w, 1) /\ Two(ext, 7) = Two(w, 3)
    BY <2>2 DEF Two
  <2>4. Four(ext, 1) = 0 /\ Four(ext, 5) = n
    BY <1>3, <2>3, SMT DEF Four
  <2> QED
    BY <2>4, SMT DEF Eight
<1> QED
  BY <1>5, <1>6, <1>7 DEF ext, z, w

\* Four sequences, one behind the other.
MadeOf(all, p, q, r, t) ==
    /\ all \in Seq(Byte)
    /\ Len(all) = ((Len(p) + Len(q)) + Len(r)) + Len(t)
    /\ \A i \in 1 .. Len(p) : all[i] = p[i]
    /\ \A i \in 1 .. Len(q) : all[Len(p) + i] = q[i]
    /\ \A i \in 1 .. Len(r) : all[(Len(p) + Len(q)) + i] = r[i]
    /\ \A i \in 1 .. Len(t) : all[((Len(p) + Len(q)) + Len(r)) + i] = t[i]

\* A frame is made of four parts.
LEMMA FourParts ==
    ASSUME NEW p \in Seq(Byte), NEW q \in Seq(Byte), NEW r \in Seq(Byte), NEW t \in Seq(Byte)
    PROVE  MadeOf(p \o q \o r \o t, p, q, r, t)
<1> DEFINE pq == p \o q
           pqr == pq \o r
           all == pqr \o t
<1>1. /\ pq \in Seq(Byte) /\ Len(pq) = Len(p) + Len(q)
      /\ \A i \in 1 .. Len(p) : pq[i] = p[i]
      /\ \A i \in 1 .. Len(q) : pq[Len(p) + i] = q[i]
      /\ Len(p) \in Nat /\ Len(q) \in Nat
  BY JoinedBytes
<1> HIDE DEF pq
<1>2. /\ pqr \in Seq(Byte) /\ Len(pqr) = Len(pq) + Len(r)
      /\ \A i \in 1 .. Len(pq) : pqr[i] = pq[i]
      /\ \A i \in 1 .. Len(r) : pqr[Len(pq) + i] = r[i]
      /\ Len(r) \in Nat
  BY <1>1, JoinedBytes
<1> HIDE DEF pqr
<1>3. /\ all \in Seq(Byte) /\ Len(all) = Len(pqr) + Len(t)
      /\ \A i \in 1 .. Len(pqr) : all[i] = pqr[i]
      /\ \A i \in 1 .. Len(t) : all[Len(pqr) + i] = t[i]
      /\ Len(t) \in Nat
  BY <1>2, JoinedBytes
<1> HIDE DEF all
<1>4. ASSUME NEW i \in 1 .. Len(p) PROVE all[i] = p[i]
  <2>1. i \in 1 .. Len(pq) /\ i \in 1 .. Len(pqr)
    BY <1>1, <1>2
  <2> QED
    BY <1>1, <1>2, <1>3, <2>1
<1>5. ASSUME NEW i \in 1 .. Len(q) PROVE all[Len(p) + i] = q[i]
  <2>1. Len(p) + i \in 1 .. Len(pq) /\ Len(p) + i \in 1 .. Len(pqr)
    BY <1>1, <1>2
  <2> QED
    BY <1>1, <1>2, <1>3, <2>1
<1>6. ASSUME NEW i \in 1 .. Len(r) PROVE all[(Len(p) + Len(q)) + i] = r[i]
  <2>1. Len(pq) + i \in 1 .. Len(pqr)
    BY <1>1, <1>2
  <2> QED
    BY <1>1, <1>2, <1>3, <2>1
<1>7. Len(all) = ((Len(p) + Len(q)) + Len(r)) + Len(t)
  BY <1>1, <1>2, <1>3
<1>8. \A i \in 1 .. Len(t) : all[((Len(p) + Len(q)) + Len(r)) + i] = t[i]
  BY <1>1, <1>2, <1>3
<1>9. MadeOf(all, p, q, r, t)
  BY <1>3, <1>4, <1>5, <1>6, <1>7, <1>8 DEF MadeOf
<1> QED
  BY <1>9 DEF all, pqr, pq

\* The second byte of a frame, the mask aside.
Coded(extra, length) ==
    CASE extra = 0 -> length [] extra = 2 -> 126 [] OTHER -> 127

\* By cases.
LEMMA CodedIs ==
    ASSUME NEW extra \in {0, 2, 8}, NEW length \in Nat
    PROVE  /\ extra = 0 => Coded(extra, length) = length
           /\ extra = 2 => Coded(extra, length) = 126
           /\ extra = 8 => Coded(extra, length) = 127
  BY DEF Coded

\* The bit that announces a mask.
Code(form) == IF form.mask = <<>> THEN 0 ELSE 128

\* The bytes of a payload, as they are written.
Body(form, payload) ==
    [i \in 1 .. Len(payload) |-> IF form.mask = <<>> THEN payload[i]
                                 ELSE Xor(payload[i], form.mask[((i - 1) % 4) + 1])]

\* The payload is bytes on the wire too.
LEMMA BodyIs ==
    ASSUME NEW form, Form(form), NEW payload \in Seq(Byte)
    PROVE  /\ Body(form, payload) \in Seq(Byte)
           /\ Len(Body(form, payload)) = Len(payload)
           /\ \A i \in 1 .. Len(payload) :
                /\ form.mask = <<>> => Body(form, payload)[i] = payload[i]
                /\ form.mask # <<>> =>
                     /\ form.mask[((i - 1) % 4) + 1] \in Byte
                     /\ Body(form, payload)[i] = Xor(payload[i], form.mask[((i - 1) % 4) + 1])
<1> DEFINE l == Len(payload)
           at(i) == ((i - 1) % 4) + 1
           body == Body(form, payload)
<1>1. l \in Nat /\ \A i \in 1 .. l : payload[i] \in Byte
  BY LenProperties, ElementOfSeq
<1>2. ASSUME form.mask # <<>>, NEW i \in 1 .. l PROVE form.mask[at(i)] \in Byte
  <2>1. form.mask \in Seq(Byte) /\ Len(form.mask) = 4
    BY <1>2 DEF Form
  <2>2. at(i) \in 1 .. 4
    BY <1>1
  <2> HIDE DEF at
  <2> QED
    BY <2>1, <2>2, ElementOfSeq
<1>3. body = [i \in 1 .. l |-> IF form.mask = <<>> THEN payload[i]
                               ELSE Xor(payload[i], form.mask[at(i)])]
  BY DEF Body
<1> HIDE DEF l, at, body
<1>4. ASSUME NEW i \in 1 .. l
      PROVE  /\ form.mask = <<>> => body[i] = payload[i]
             /\ form.mask # <<>> => body[i] = Xor(payload[i], form.mask[at(i)])
             /\ body[i] \in Byte
  <2>1. CASE form.mask = <<>>
    BY <1>1, <1>3, <2>1
  <2>2. CASE form.mask # <<>>
    <3>1. body[i] = Xor(payload[i], form.mask[at(i)])
      BY <1>3, <2>2
    <3> QED
      BY <1>1, <1>2, <2>2, <3>1, XorTwice
  <2> QED
    BY <2>1, <2>2
<1>5. body \in Seq(Byte) /\ Len(body) = l
  BY <1>1, <1>3, <1>4
<1> QED
  BY <1>2, <1>4, <1>5 DEF body, at, l

\* Where the parts of a frame are.
LaidOut(frame, final, opcode, form, payload) ==
    LET e == form.extra
        k == Len(form.mask)
    IN  /\ frame \in Seq(Byte)
        /\ Len(frame) = ((2 + e) + k) + Len(payload)
        /\ frame[1] = (IF final THEN 128 ELSE 0) + opcode
        /\ frame[2] = Code(form) + Coded(e, Len(payload))
        /\ e = 2 => Two(frame, 3) = Len(payload)
        /\ e = 8 => Eight(frame, 3) = Len(payload)
        /\ \A j \in 1 .. k : frame[(2 + e) + j] = form.mask[j]
        /\ \A i \in 1 .. Len(payload) : frame[((2 + e) + k) + i] = Body(form, payload)[i]

\* The frame that the server writes.
LEMMA Layout ==
    ASSUME NEW final \in BOOLEAN, NEW opcode \in 0 .. 15, NEW form, Form(form),
           NEW payload \in Seq(Byte), Fits(form, Len(payload))
    PROVE  LaidOut(Frame(final, opcode, form, payload), final, opcode, form, payload)
<1> DEFINE l == Len(payload)
           e == form.extra
           k == Len(form.mask)
           b1 == (IF final THEN 128 ELSE 0) + opcode
           b2 == Code(form) + Coded(e, l)
           two == <<b1, b2>>
           ext == SubSeq(<<0, 0, 0, 0>> \o BigEndian(l), 9 - e, 8)
           body == Body(form, payload)
           frame == Frame(final, opcode, form, payload)
<1>1. frame = two \o ext \o form.mask \o body
  BY Zenon DEF Frame, Body, Code, Coded
<1>2. /\ l \in Nat /\ Limited(l, e)
      /\ e = 0 => l <= 125
      /\ e \in {0, 2, 8} /\ k \in {0, 4} /\ form.mask \in Seq(Byte)
      /\ form.mask = <<>> <=> k = 0
  <2>1. l \in Nat
    BY LenProperties
  <2>2. e \in {0, 2, 8} /\ k \in {0, 4} /\ form.mask \in Seq(Byte) /\ (form.mask = <<>> <=> k = 0)
    BY EmptySeq DEF Form
  <2> QED
    BY <2>1, <2>2, SMT DEF Fits, Limited
<1>3. two \in Seq(Byte) /\ Len(two) = 2 /\ two[1] = b1 /\ two[2] = b2
  <2>1. b1 \in Byte
    BY DEF Byte
  <2>2. Code(form) \in {0, 128}
    BY DEF Code
  <2>3. Coded(e, l) \in 0 .. 127
    <3> HIDE DEF e, l, k
    <3>1. e \in {0, 2, 8}
      BY <1>2
    <3>2. CASE e = 0
      <4>1. Coded(e, l) = l
        BY <1>2, <3>1, <3>2, CodedIs
      <4>2. l \in Nat /\ l <= 125
        BY <1>2, <3>2
      <4>3. l \in 0 .. 127
        BY <4>2
      <4> QED
        BY <4>1, <4>3
    <3>3. CASE e = 2
      <4>1. Coded(e, l) = 126
        BY <1>2, <3>1, <3>3, CodedIs
      <4> QED
        BY <4>1
    <3>4. CASE e = 8
      <4>1. Coded(e, l) = 127
        BY <1>2, <3>1, <3>4, CodedIs
      <4> QED
        BY <4>1
    <3> QED
      BY <3>1, <3>2, <3>3, <3>4
  <2>4. b2 \in Byte
    <3> DEFINE c == Code(form)
               d == Coded(e, l)
    <3> HIDE DEF c, d
    <3>1. c \in {0, 128} /\ d \in 0 .. 127
      BY <2>2, <2>3 DEF c, d
    <3>2. c + d \in Byte
      BY <3>1 DEF Byte
    <3> QED
      BY <3>2 DEF c, d
  <2> HIDE DEF b1, b2
  <2> QED
    BY <2>1, <2>4
<1>4. /\ ext \in Seq(Byte) /\ Len(ext) = e
      /\ e = 2 => Two(ext, 1) = l
      /\ e = 8 => Eight(ext, 1) = l
  <2> HIDE DEF l, e
  <2> QED
    BY <1>2, ExtendedLength
<1>5. body \in Seq(Byte) /\ Len(body) = l
  BY BodyIs
<1> HIDE DEF l, e, k, b1, b2, two, ext, body, frame
<1>6. /\ frame \in Seq(Byte)
      /\ Len(frame) = ((2 + e) + k) + l
      /\ \A i \in 1 .. 2 : frame[i] = two[i]
      /\ \A i \in 1 .. e : frame[2 + i] = ext[i]
      /\ \A i \in 1 .. k : frame[(2 + e) + i] = form.mask[i]
      /\ \A i \in 1 .. l : frame[((2 + e) + k) + i] = body[i]
  <2>1. /\ frame \in Seq(Byte)
        /\ Len(frame) = ((Len(two) + Len(ext)) + Len(form.mask)) + Len(body)
        /\ \A i \in 1 .. Len(two) : frame[i] = two[i]
        /\ \A i \in 1 .. Len(ext) : frame[Len(two) + i] = ext[i]
        /\ \A i \in 1 .. Len(form.mask) : frame[(Len(two) + Len(ext)) + i] = form.mask[i]
        /\ \A i \in 1 .. Len(body) : frame[((Len(two) + Len(ext)) + Len(form.mask)) + i] = body[i]
    <3>1. MadeOf(frame, two, ext, form.mask, body)
      BY <1>1, <1>2, <1>3, <1>4, <1>5, FourParts
    <3> QED
      BY <3>1 DEF MadeOf
  <2> QED
    BY <1>3, <1>4, <1>5, <2>1 DEF k
<1>7. frame[1] = b1 /\ frame[2] = b2
  BY <1>3, <1>6
<1>8. ASSUME e = 2 PROVE Two(frame, 3) = l
  <2>1. frame[3] = ext[1] /\ frame[4] = ext[2]
    BY <1>6, <1>8
  <2> QED
    BY <1>4, <1>8, <2>1 DEF Two
<1>9. ASSUME e = 8 PROVE Eight(frame, 3) = l
  <2>1. \A i \in 1 .. 8 : frame[2 + i] = ext[i]
    BY <1>6, <1>9
  <2>2. /\ Two(frame, 3) = Two(ext, 1) /\ Two(frame, 5) = Two(ext, 3)
        /\ Two(frame, 7) = Two(ext, 5) /\ Two(frame, 9) = Two(ext, 7)
    BY <2>1 DEF Two
  <2>3. Four(frame, 3) = Four(ext, 1) /\ Four(frame, 7) = Four(ext, 5)
    BY <2>2, SMT DEF Four
  <2>4. Eight(frame, 3) = Eight(ext, 1)
    BY <2>3, SMT DEF Eight
  <2> QED
    BY <1>4, <1>9, <2>4
<1>10. LaidOut(frame, final, opcode, form, payload)
  BY <1>6, <1>7, <1>8, <1>9 DEF LaidOut, b1, b2, l, e, k, body
<1> QED
  BY <1>10 DEF frame

\* Eight bytes that are the same are the same number.
LEMMA SameEight ==
    ASSUME NEW b, NEW c, \A i \in 3 .. 10 : b[i] = c[i]
    PROVE  Eight(b, 3) = Eight(c, 3)
<1>1. /\ Two(b, 3) = Two(c, 3) /\ Two(b, 5) = Two(c, 5)
      /\ Two(b, 7) = Two(c, 7) /\ Two(b, 9) = Two(c, 9)
  BY DEF Two
<1>2. Four(b, 3) = Four(c, 3) /\ Four(b, 7) = Four(c, 7)
  BY <1>1, SMT DEF Four
<1> QED
  BY <1>2, SMT DEF Eight

\* What is read of a frame at the front of the bytes.
Reads(bytes, final, opcode, length, payload) ==
    /\ Complete(bytes)
    /\ IsFinal(bytes) <=> final
    /\ Opcode(bytes) = opcode
    /\ HeaderLength(bytes) + PayloadLength(bytes) = length
    /\ Payload(bytes) = payload

\* The first bytes.
Starts(bytes, frame) ==
    /\ Len(frame) <= Len(bytes)
    /\ \A i \in 1 .. Len(frame) : bytes[i] = frame[i]

\* A frame is found again at the front of the bytes it begins.
LEMMA Parsed ==
    ASSUME NEW final \in BOOLEAN, NEW opcode \in 0 .. 15, NEW form, Form(form),
           NEW payload \in Seq(Byte), Fits(form, Len(payload)),
           NEW bytes \in Seq(Byte), Starts(bytes, Frame(final, opcode, form, payload))
    PROVE  Reads(bytes, final, opcode, Len(Frame(final, opcode, form, payload)), payload)
<1> DEFINE l == Len(payload)
           e == form.extra
           k == Len(form.mask)
           h == (2 + e) + k
           frame == Frame(final, opcode, form, payload)
           body == Body(form, payload)
           b1 == bytes[1]
           b2 == bytes[2]
<1>1. /\ l \in Nat /\ e \in {0, 2, 8} /\ k \in {0, 4}
      /\ form.mask = <<>> <=> k = 0
  BY LenProperties, EmptySeq DEF Form
<1>2. e = 0 => l <= 125
  BY <1>1, SMT DEF Fits
<1>3. /\ Len(frame) = h + l
      /\ frame[1] = (IF final THEN 128 ELSE 0) + opcode
      /\ frame[2] = Code(form) + Coded(e, l)
      /\ e = 2 => Two(frame, 3) = l
      /\ e = 8 => Eight(frame, 3) = l
      /\ \A j \in 1 .. k : frame[(2 + e) + j] = form.mask[j]
      /\ \A i \in 1 .. l : frame[h + i] = body[i]
  <2>1. LaidOut(frame, final, opcode, form, payload)
    BY Layout
  <2> HIDE DEF frame
  <2> QED
    BY <2>1 DEF LaidOut
<1>4. Len(frame) <= Len(bytes) /\ \A i \in 1 .. Len(frame) : bytes[i] = frame[i]
  BY DEF Starts
<1> HIDE DEF l, e, k, h, frame, body
<1>5. h \in Nat /\ h >= 2 + e /\ h >= 2
  BY <1>1 DEF h
<1>6. \A i \in 1 .. h + l : bytes[i] = frame[i]
  BY <1>3, <1>4
<1>7. b1 = (IF final THEN 128 ELSE 0) + opcode /\ b2 = Code(form) + Coded(e, l)
  <2>1. bytes[1] = frame[1] /\ bytes[2] = frame[2]
    BY <1>1, <1>5, <1>6
  <2> QED
    BY <1>3, <2>1
<1> HIDE DEF b1, b2
<1>8. (IsFinal(bytes) <=> final) /\ Opcode(bytes) = opcode
  <2>1. final => b1 = 128 + opcode
    BY <1>7
  <2>2. ~final => b1 = opcode
    BY <1>7
  <2>3. (b1 >= 128 <=> final) /\ b1 % 16 = opcode
    <3>1. CASE final
      <4>1. b1 = 128 + opcode
        BY <2>1, <3>1
      <4>2. b1 >= 128 /\ b1 % 16 = opcode
        BY <4>1
      <4> QED
        BY <3>1, <4>2
    <3>2. CASE ~final
      <4>1. b1 = opcode
        BY <2>2, <3>2
      <4>2. ~(b1 >= 128) /\ b1 % 16 = opcode
        BY <4>1
      <4> QED
        BY <3>2, <4>2
    <3> QED
      BY <3>1, <3>2
  <2> QED
    BY <2>3 DEF IsFinal, Opcode, b1
<1>9. /\ e = 0 => Coded(e, l) = l
      /\ e = 2 => Coded(e, l) = 126
      /\ e = 8 => Coded(e, l) = 127
  BY <1>1, CodedIs
<1>10. Coded(e, l) \in 0 .. 127
  <2>1. CASE e = 0
    <3>1. l \in 0 .. 127
      BY <1>1, <1>2, <2>1
    <3> QED
      BY <1>9, <2>1, <3>1
  <2>2. CASE e = 2
    BY <1>9, <2>2
  <2>3. CASE e = 8
    BY <1>9, <2>3
  <2> QED
    BY <1>1, <2>1, <2>2, <2>3
<1>11. RawLength(bytes) = Coded(e, l) /\ (IsMasked(bytes) <=> k = 4)
  <2> DEFINE c == Code(form)
             d == Coded(e, l)
  <2>1. (k = 4 => c = 128) /\ (k = 0 => c = 0)
    BY <1>1 DEF Code
  <2> HIDE DEF c, d
  <2>2. b2 = c + d
    BY <1>7 DEF c, d
  <2>3. d \in 0 .. 127
    BY <1>10 DEF d
  <2>4. b2 % 128 = d /\ (b2 >= 128 <=> k = 4)
    <3>1. CASE k = 0
      <4>1. b2 = d /\ k # 4
        BY <2>1, <2>2, <2>3, <3>1
      <4>2. b2 % 128 = d /\ ~(b2 >= 128)
        BY <2>3, <4>1
      <4> QED
        BY <4>1, <4>2
    <3>2. CASE k = 4
      <4>1. b2 = 128 + d
        BY <2>1, <2>2, <3>2
      <4>2. b2 % 128 = d /\ b2 >= 128
        BY <2>3, <4>1
      <4> QED
        BY <3>2, <4>2
    <3>3. k \in {0, 4}
      BY <1>1
    <3> QED
      BY <3>1, <3>2, <3>3
  <2> QED
    BY <2>4 DEF RawLength, IsMasked, b2, d
<1>12. Extra(bytes) = e
  <2>1. CASE e = 0
    <3>1. RawLength(bytes) # 126 /\ RawLength(bytes) # 127
      BY <1>1, <1>2, <1>9, <1>11, <2>1
    <3> QED
      BY <2>1, <3>1 DEF Extra
  <2>2. CASE e = 2
    BY <1>9, <1>11, <2>2 DEF Extra
  <2>3. CASE e = 8
    <3>1. RawLength(bytes) = 127
      BY <1>9, <1>11, <2>3
    <3> QED
      BY <2>3, <3>1 DEF Extra
  <2> QED
    BY <1>1, <2>1, <2>2, <2>3
<1>13. HeaderLength(bytes) = h
  <2>1. (IF IsMasked(bytes) THEN 4 ELSE 0) = k
    BY <1>1, <1>11
  <2> QED
    BY <1>12, <2>1 DEF HeaderLength, h
<1>14. PayloadLength(bytes) = l
  <2>1. CASE e = 0
    BY <1>9, <1>11, <1>12, <2>1 DEF PayloadLength
  <2>2. CASE e = 2
    <3>1. bytes[3] = frame[3] /\ bytes[4] = frame[4]
      BY <1>1, <1>5, <1>6, <2>2
    <3>2. Two(bytes, 3) = l
      BY <1>3, <2>2, <3>1 DEF Two
    <3> QED
      BY <1>12, <2>2, <3>2 DEF PayloadLength
  <2>3. CASE e = 8
    <3>1. \A i \in 3 .. 10 : bytes[i] = frame[i]
      BY <1>1, <1>5, <1>6, <2>3
    <3>2. Eight(bytes, 3) = l
      BY <1>3, <2>3, <3>1, SameEight
    <3> QED
      BY <1>12, <2>3, <3>2 DEF PayloadLength
  <2> QED
    BY <1>1, <2>1, <2>2, <2>3
<1>15. Complete(bytes)
  <2>1. Len(bytes) \in Nat /\ h + l <= Len(bytes)
    BY <1>3, <1>4, LenProperties
  <2> QED
    BY <1>1, <1>5, <1>12, <1>13, <1>14, <2>1 DEF Complete
<1>16. Payload(bytes) = payload
  <2> DEFINE p == Payload(bytes)
             at(i) == (h - 3) + ((i - 1) % 4)
  <2>1. p = [i \in 1 .. l |-> IF IsMasked(bytes) THEN Xor(bytes[h + i], bytes[at(i)])
                               ELSE bytes[h + i]]
    BY <1>13, <1>14 DEF Payload
  <2>2. payload = [i \in 1 .. l |-> payload[i]] /\ \A i \in 1 .. l : payload[i] \in Byte
    BY LenProperties, ElementOfSeq DEF l
  <2> HIDE DEF p
  <2>3. ASSUME NEW i \in 1 .. l PROVE p[i] = payload[i]
    <3>1. bytes[h + i] = body[i]
      <4>1. h + i \in 1 .. h + l
        BY <1>1, <1>5
      <4> QED
        BY <1>3, <1>6, <4>1
    <3>2. CASE k = 0
      <4>1. body[i] = payload[i]
        BY <1>1, <3>2, BodyIs DEF body, l
      <4>2. p[i] = bytes[h + i]
        BY <1>11, <2>1, <3>2
      <4> QED
        BY <3>1, <4>1, <4>2
    <3>3. CASE k = 4
      <4> DEFINE j == ((i - 1) % 4) + 1
      <4>1. j \in 1 .. k /\ at(i) = (2 + e) + j /\ (2 + e) + j \in 1 .. h + l
        BY <1>1, <3>3 DEF h
      <4>2. form.mask[j] \in Byte /\ body[i] = Xor(payload[i], form.mask[j])
        BY <1>1, <3>3, BodyIs DEF body, l
      <4> HIDE DEF at, j
      <4>3. bytes[at(i)] = form.mask[j]
        BY <1>3, <1>6, <4>1
      <4>4. p[i] = Xor(bytes[h + i], bytes[at(i)])
        BY <1>11, <2>1, <3>3
      <4> QED
        BY <2>2, <3>1, <4>2, <4>3, <4>4, XorTwice
    <3> QED
      BY <1>1, <3>2, <3>3
  <2>4. p = [i \in 1 .. l |-> p[i]]
    BY <2>1
  <2> QED
    BY <2>2, <2>3, <2>4 DEF p
<1> QED
  BY <1>3, <1>8, <1>13, <1>14, <1>15, <1>16 DEF Reads, frame

\* What makes a frame complete are bytes of its own.
LEMMA Prefixed ==
    ASSUME NEW b \in Seq(Byte), NEW c \in Seq(Byte), Complete(b), Len(b) <= Len(c),
           \A i \in 1 .. Len(b) : c[i] = b[i]
    PROVE  HeaderLength(c) = HeaderLength(b) /\ PayloadLength(c) = PayloadLength(b)
<1>1. Len(b) \in Nat /\ Len(b) >= 2 /\ Len(b) >= 2 + Extra(b)
  BY LenProperties DEF Complete
<1>2. c[1] = b[1] /\ c[2] = b[2]
  BY <1>1
<1>3. RawLength(c) = RawLength(b) /\ IsMasked(c) = IsMasked(b) /\ Extra(c) = Extra(b)
  BY <1>2 DEF RawLength, IsMasked, Extra
<1>4. HeaderLength(c) = HeaderLength(b)
  BY <1>3 DEF HeaderLength
<1>5. Extra(b) = 2 => Two(c, 3) = Two(b, 3)
  BY <1>1 DEF Two
<1>6. Extra(b) = 8 => Eight(c, 3) = Eight(b, 3)
  BY <1>1, SameEight
<1> QED
  BY <1>3, <1>4, <1>5, <1>6 DEF PayloadLength

----------------------------------------------------------------------------
(* The bytes that are not looked at yet are frames, one behind the other.     *)

\* What is written into a frame.
Records == {f \in [final : BOOLEAN, opcode : 0 .. 15, form : Forms \cup {Short},
                   payload : Seq(Byte)] : Fits(f.form, Len(f.payload))}

\* The frame.
Coding(f) == Frame(f.final, f.opcode, f.form, f.payload)

\* A frame is at least two bytes.
LEMMA CodingIs ==
    ASSUME NEW f \in Records
    PROVE  Coding(f) \in Seq(Byte) /\ Len(Coding(f)) \in Nat /\ Len(Coding(f)) >= 2
<1>1. /\ f.final \in BOOLEAN /\ f.opcode \in 0 .. 15 /\ f.form \in Forms \cup {Short}
      /\ f.payload \in Seq(Byte) /\ Fits(f.form, Len(f.payload))
  BY DEF Records
<1>2. Form(f.form)
  BY <1>1, FormsAreForms
<1>3. LaidOut(Coding(f), f.final, f.opcode, f.form, f.payload)
  BY <1>1, <1>2, Layout DEF Coding
<1>4. Len(f.payload) \in Nat /\ Len(f.form.mask) \in Nat /\ f.form.extra \in Nat
  BY <1>1, <1>2, LenProperties, EmptySeq DEF Form
<1>5. /\ Coding(f) \in Seq(Byte)
      /\ Len(Coding(f)) = ((2 + f.form.extra) + Len(f.form.mask)) + Len(f.payload)
  BY <1>3, Zenon DEF LaidOut
<1> DEFINE c == Coding(f)
           e == f.form.extra
           k == Len(f.form.mask)
           l == Len(f.payload)
<1>6. c \in Seq(Byte) /\ Len(c) = ((2 + e) + k) + l /\ l \in Nat /\ k \in Nat /\ e \in Nat
  BY <1>4, <1>5
<1> HIDE DEF c, e, k, l
<1>7. c \in Seq(Byte) /\ Len(c) \in Nat /\ Len(c) >= 2
  BY <1>6
<1> QED
  BY <1>7 DEF c

\* What a record is when it has come.
LEMMA Found ==
    ASSUME NEW f \in Records, NEW bytes \in Seq(Byte), Starts(bytes, Coding(f))
    PROVE  Reads(bytes, f.final, f.opcode, Len(Coding(f)), f.payload)
<1>1. /\ f.final \in BOOLEAN /\ f.opcode \in 0 .. 15 /\ f.form \in Forms \cup {Short}
      /\ f.payload \in Seq(Byte) /\ Fits(f.form, Len(f.payload))
  BY DEF Records
<1>2. Form(f.form)
  BY <1>1, FormsAreForms
<1> QED
  BY <1>1, <1>2, Parsed DEF Coding

\* It is taken for complete only when it has all come.
LEMMA NotBefore ==
    ASSUME NEW f \in Records, NEW all \in Seq(Byte), NEW bytes \in Seq(Byte),
           Starts(all, Coding(f)), Starts(all, bytes), Complete(bytes)
    PROVE  Starts(bytes, Coding(f))
<1> DEFINE c == Coding(f)
           h == HeaderLength(bytes) + PayloadLength(bytes)
<1>1. c \in Seq(Byte) /\ Len(c) \in Nat /\ Len(bytes) \in Nat
  BY CodingIs, LenProperties
<1>2. Len(bytes) <= Len(all) /\ \A i \in 1 .. Len(bytes) : all[i] = bytes[i]
  BY DEF Starts
<1>3. HeaderLength(all) + PayloadLength(all) = h
  BY <1>2, Prefixed
<1>4. HeaderLength(all) + PayloadLength(all) = Len(c)
  BY Found DEF Reads
<1>5. h <= Len(bytes)
  BY <1>1, <1>3, <1>4 DEF Complete
<1>6. \A i \in 1 .. Len(c) : all[i] = c[i]
  BY DEF Starts
<1> HIDE DEF c, h
<1>7. Len(c) <= Len(bytes)
  BY <1>3, <1>4, <1>5
<1>8. \A i \in 1 .. Len(c) : bytes[i] = c[i]
  BY <1>1, <1>2, <1>6, <1>7
<1> QED
  BY <1>7, <1>8 DEF Starts, c

\* The bytes from one place to another are a frame.
Holds(bytes, from, to, f) ==
    /\ to = from + Len(Coding(f))
    /\ \A i \in 1 .. Len(Coding(f)) : bytes[from + i] = Coding(f)[i]

\* They stay so when more is written behind them, ...
LEMMA StillHolds ==
    ASSUME NEW f \in Records, NEW p \in Seq(Byte), NEW t \in Seq(Byte),
           NEW from \in Nat, NEW to \in Nat, to <= Len(p), Holds(p, from, to, f)
    PROVE  Holds(p \o t, from, to, f)
<1> DEFINE c == Coding(f)
           all == p \o t
<1>1. Len(c) \in Nat /\ Len(p) \in Nat
  BY CodingIs, LenProperties
<1>2. \A i \in 1 .. Len(p) : all[i] = p[i]
  BY JoinedBytes
<1>3. to = from + Len(c) /\ \A i \in 1 .. Len(c) : p[from + i] = c[i]
  BY DEF Holds
<1> HIDE DEF c, all
<1>4. ASSUME NEW i \in 1 .. Len(c) PROVE all[from + i] = c[i]
  <2>1. from + i \in 1 .. Len(p)
    BY <1>1, <1>3
  <2> QED
    BY <1>2, <1>3, <2>1
<1> QED
  BY <1>3, <1>4 DEF Holds, c, all

\* ... a frame that is written last is there, ...
LEMMA HoldsLast ==
    ASSUME NEW f \in Records, NEW p \in Seq(Byte)
    PROVE  Holds(p \o Coding(f), Len(p), Len(p) + Len(Coding(f)), f)
<1> DEFINE c == Coding(f)
           all == p \o c
<1>1. c \in Seq(Byte)
  BY CodingIs
<1> HIDE DEF c
<1>2. \A i \in 1 .. Len(c) : all[Len(p) + i] = c[i]
  BY <1>1, JoinedBytes
<1> QED
  BY <1>2 DEF Holds, c

\* ... and they stay so when what is in front of them is taken away.
LEMMA HoldsBehind ==
    ASSUME NEW f \in Records, NEW p \in Seq(Byte), NEW from \in Nat, NEW to \in Nat,
           NEW m \in Nat, m <= from, to <= Len(p), Holds(p, from, to, f)
    PROVE  Holds(SubSeq(p, m + 1, Len(p)), from - m, to - m, f)
<1> DEFINE c == Coding(f)
           l == Len(p)
           a == m + 1
           rest == SubSeq(p, a, l)
<1>1. Len(c) \in Nat /\ l \in Nat
  BY CodingIs, LenProperties
<1>2. to = from + Len(c) /\ \A i \in 1 .. Len(c) : p[from + i] = c[i]
  BY DEF Holds
<1> HIDE DEF c
<1>3. a \in Nat \ {0} /\ a <= l + 1 /\ (l + 1) - a = l - m /\ a - 1 = m
  BY <1>1, <1>2
<1> HIDE DEF a
<1>4. \A i \in 1 .. (l + 1) - a : rest[i] = p[(a - 1) + i]
  BY <1>1, <1>3, PartOfBytes
<1> HIDE DEF l, rest
<1>5. ASSUME NEW i \in 1 .. Len(c) PROVE rest[(from - m) + i] = c[i]
  <2>1. (from - m) + i \in 1 .. (l + 1) - a /\ (a - 1) + ((from - m) + i) = from + i
    BY <1>1, <1>2, <1>3 DEF l
  <2> QED
    BY <1>2, <1>4, <2>1
<1>6. to - m = (from - m) + Len(c)
  BY <1>1, <1>2
<1> QED
  BY <1>5, <1>6 DEF Holds, c, rest, a, l

----------------------------------------------------------------------------
(* What the records do to the message in hand: p and q are its fragments before
   and after, c and d say how many messages of s have been handed on.         *)

\* A message that must be handed on.
Good(message) == message \in Messages \ Garbled /\ Len(message) >= 3

\* The PIN is not handed on; another message must be the next one.
Hands(message, s, c, d) ==
    \/ message = Pin /\ d = c
    \/ Good(message) /\ d = c + 1 /\ d <= Len(s) /\ s[d] = message

\* A record by the rules.
Moves(f, s, p, c, q, d) ==
    \/ f.opcode \in {Ping, Pong} /\ f.final /\ q = p /\ d = c
    \/ f.opcode = Text /\ p = NoBuffer /\ ~f.final /\ q = f.payload /\ d = c
    \/ f.opcode = Text /\ p = NoBuffer /\ f.final /\ q = NoBuffer /\ Hands(f.payload, s, c, d)
    \/ /\ f.opcode = Continuation /\ p # NoBuffer /\ ~f.final
       /\ q = p \o f.payload /\ d = c
    \/ /\ f.opcode = Continuation /\ p # NoBuffer /\ f.final
       /\ q = NoBuffer /\ Hands(p \o f.payload, s, c, d)

\* A message that must not be handed on.
Bad(message) == Len(message) < 3 \/ message \in Garbled

\* A record that breaks the rules.
Breaches(f, p) ==
    \/ f.opcode \in {Close, Other}
    \/ f.opcode \in {Ping, Pong} /\ ~f.final
    \/ f.opcode = Text /\ p # NoBuffer
    \/ f.opcode = Continuation /\ p = NoBuffer
    \/ f.opcode = Text /\ p = NoBuffer /\ f.final /\ Bad(f.payload)
    \/ f.opcode = Continuation /\ p # NoBuffer /\ f.final /\ Bad(p \o f.payload)

\* What is together of a message; NoBuffer when there is none in hand.
Fragments == Seq(Byte) \cup {NoBuffer}

(* The bytes from base on are n records, at cut, which move the fragments along frag
   and the number of messages along cnt; the last may break the rules.        *)
Chain(base, bytes, s, bad, n, fs, cut, frag, cnt) ==
    /\ n \in Nat
    /\ fs \in [1 .. n -> Records]
    /\ cut \in [0 .. n -> Nat]
    /\ frag \in [0 .. n -> Fragments]
    /\ cnt \in [0 .. n -> 0 .. Len(s)]
    /\ cut[0] = base /\ cut[n] = Len(bytes)
    /\ \A i, j \in 0 .. n : i <= j => cut[i] <= cut[j]
    /\ \A j \in 1 .. n : Holds(bytes, cut[j - 1], cut[j], fs[j])
    /\ \A j \in 1 .. n : \/ Moves(fs[j], s, frag[j - 1], cnt[j - 1], frag[j], cnt[j])
                         \/ j = n /\ bad /\ Breaches(fs[j], frag[j - 1])

\* Such a chain, which ends at q when all the messages are in it.
Links(base, bytes, s, bad, p, c, q) ==
    \E n, fs, cut, frag, cnt :
        /\ Chain(base, bytes, s, bad, n, fs, cut, frag, cnt)
        /\ frag[0] = p /\ cnt[0] = c
        /\ ~bad => frag[n] = q /\ cnt[n] = Len(s)

\* At the end, no record is left.
LEMMA NoLinks ==
    ASSUME NEW bytes \in Seq(Byte), NEW s, Len(s) \in Nat, NEW bad \in BOOLEAN,
           NEW p \in Fragments, NEW c \in 0 .. Len(s), NEW q,
           ~bad => p = q /\ c = Len(s)
    PROVE  Links(Len(bytes), bytes, s, bad, p, c, q)
<1> DEFINE fs == [j \in 1 .. 0 |-> {}]
           cut == [j \in 0 .. 0 |-> Len(bytes)]
           frag == [j \in 0 .. 0 |-> p]
           cnt == [j \in 0 .. 0 |-> c]
<1>1. Len(bytes) \in Nat
  BY LenProperties
<1>2. fs \in [1 .. 0 -> Records] /\ 1 .. 0 = {}
  OBVIOUS
<1>3. /\ cut \in [0 .. 0 -> Nat] /\ frag \in [0 .. 0 -> Fragments] /\ cnt \in [0 .. 0 -> 0 .. Len(s)]
      /\ cut[0] = Len(bytes) /\ frag[0] = p /\ cnt[0] = c
  BY <1>1
<1> HIDE DEF fs, cut, frag, cnt
<1>4. \A i, j \in 0 .. 0 : i <= j => cut[i] <= cut[j]
  BY <1>1, <1>3
<1>5. Chain(Len(bytes), bytes, s, bad, 0, fs, cut, frag, cnt)
  BY <1>1, <1>2, <1>3, <1>4 DEF Chain
<1> QED
  BY <1>3, <1>5 DEF Links

\* When the rules have been broken, nothing is asked of the end.
LEMMA LinksFail ==
    ASSUME NEW base, NEW bytes, NEW s, NEW bad \in BOOLEAN, NEW p, NEW c, NEW q,
           Links(base, bytes, s, bad, p, c, q)
    PROVE  \A r : Links(base, bytes, s, TRUE, p, c, r)
<1>1. PICK n, fs, cut, frag, cnt : /\ Chain(base, bytes, s, bad, n, fs, cut, frag, cnt)
                                   /\ frag[0] = p /\ cnt[0] = c
  BY DEF Links
<1>2. Chain(base, bytes, s, TRUE, n, fs, cut, frag, cnt)
  BY <1>1 DEF Chain
<1> QED
  BY <1>1, <1>2 DEF Links

\* Where a chain begins.
LEMMA LinksAre ==
    ASSUME NEW base, NEW bytes, NEW s, NEW bad, NEW p, NEW c, NEW q,
           Links(base, bytes, s, bad, p, c, q)
    PROVE  p \in Fragments /\ c \in 0 .. Len(s)
<1>1. PICK n, fs, cut, frag, cnt : /\ Chain(base, bytes, s, bad, n, fs, cut, frag, cnt)
                                   /\ frag[0] = p /\ cnt[0] = c
  BY DEF Links
<1> QED
  BY <1>1 DEF Chain

\* A record does the same when more messages have been sent.
LEMMA StillMoves ==
    ASSUME NEW f, NEW s, NEW t, Len(s) \in Nat, Len(t) \in Nat, Len(s) <= Len(t),
           \A i \in 1 .. Len(s) : t[i] = s[i],
           NEW p, NEW q, NEW c \in Nat, NEW d \in Nat, Moves(f, s, p, c, q, d)
    PROVE  Moves(f, t, p, c, q, d)
<1>1. ASSUME NEW message, Hands(message, s, c, d) PROVE Hands(message, t, c, d)
  <2>1. CASE message = Pin /\ d = c
    BY <2>1 DEF Hands
  <2>2. CASE Good(message) /\ d = c + 1 /\ d <= Len(s) /\ s[d] = message
    <3>1. d \in 1 .. Len(s) /\ d <= Len(t)
      BY <2>2
    <3>2. t[d] = message
      BY <2>2, <3>1
    <3> QED
      BY <2>2, <3>1, <3>2 DEF Hands
  <2> QED
    BY <1>1, <2>1, <2>2 DEF Hands
<1> QED
  BY <1>1 DEF Moves

\* One more record at the end.
LEMMA LinksGrow ==
    ASSUME NEW base, NEW bytes \in Seq(Byte), NEW s, NEW t, Len(s) \in Nat, Len(t) \in Nat,
           Len(s) <= Len(t), \A i \in 1 .. Len(s) : t[i] = s[i],
           NEW bad \in BOOLEAN, NEW p, NEW c, NEW q, Links(base, bytes, s, FALSE, p, c, q),
           NEW f \in Records, NEW r \in Fragments,
           Moves(f, t, q, Len(s), r, Len(t)) \/ (bad /\ Breaches(f, q))
    PROVE  Links(base, bytes \o Coding(f), t, bad, p, c, r)
<1>1. PICK n, fs, cut, frag, cnt :
          /\ Chain(base, bytes, s, FALSE, n, fs, cut, frag, cnt)
          /\ frag[0] = p /\ cnt[0] = c /\ frag[n] = q /\ cnt[n] = Len(s)
  BY DEF Links
<1> DEFINE l == Len(bytes)
           k == Len(Coding(f))
           all == bytes \o Coding(f)
           fs2 == [j \in 1 .. n + 1 |-> IF j = n + 1 THEN f ELSE fs[j]]
           cut2 == [j \in 0 .. n + 1 |-> IF j = n + 1 THEN l + k ELSE cut[j]]
           frag2 == [j \in 0 .. n + 1 |-> IF j = n + 1 THEN r ELSE frag[j]]
           cnt2 == [j \in 0 .. n + 1 |-> IF j = n + 1 THEN Len(t) ELSE cnt[j]]
<1>2. /\ n \in Nat /\ fs \in [1 .. n -> Records] /\ cut \in [0 .. n -> Nat]
      /\ frag \in [0 .. n -> Fragments] /\ cnt \in [0 .. n -> 0 .. Len(s)]
      /\ cut[0] = base /\ cut[n] = l
      /\ \A i, j \in 0 .. n : i <= j => cut[i] <= cut[j]
  BY <1>1 DEF Chain
<1>3. \A j \in 1 .. n : Holds(bytes, cut[j - 1], cut[j], fs[j])
  BY <1>1 DEF Chain
<1>4. \A j \in 1 .. n : Moves(fs[j], s, frag[j - 1], cnt[j - 1], frag[j], cnt[j])
  BY <1>1 DEF Chain
<1>5. l \in Nat /\ k \in Nat /\ Coding(f) \in Seq(Byte)
  BY LenProperties, CodingIs
<1>6. all \in Seq(Byte) /\ Len(all) = l + k
  BY <1>5, JoinedBytes
<1>7. Holds(all, l, l + k, f)
  BY HoldsLast
<1>8. ASSUME NEW j \in 1 .. n PROVE Holds(all, cut[j - 1], cut[j], fs[j])
  <2>1. /\ j - 1 \in 0 .. n /\ j \in 0 .. n /\ n \in 0 .. n
        /\ cut[j - 1] \in Nat /\ cut[j] \in Nat /\ fs[j] \in Records
    BY <1>2
  <2>2. cut[j] <= l
    BY <1>2, <2>1
  <2>3. Holds(bytes, cut[j - 1], cut[j], fs[j])
    BY <1>3
  <2> HIDE DEF l
  <2> QED
    BY <1>5, <2>1, <2>2, <2>3, StillHolds DEF l
<1>9. ASSUME NEW j \in 1 .. n PROVE Moves(fs[j], t, frag[j - 1], cnt[j - 1], frag[j], cnt[j])
  <2>1. cnt[j - 1] \in Nat /\ cnt[j] \in Nat
    BY <1>2
  <2> QED
    BY <1>4, <2>1, StillMoves
<1> HIDE DEF l, k, all
<1>10. /\ n + 1 \in Nat /\ fs2 \in [1 .. n + 1 -> Records] /\ cut2 \in [0 .. n + 1 -> Nat]
       /\ frag2 \in [0 .. n + 1 -> Fragments] /\ cnt2 \in [0 .. n + 1 -> 0 .. Len(t)]
  <2>1. n + 1 \in Nat /\ fs2 \in [1 .. n + 1 -> Records]
    <3>1. \A j \in 1 .. n + 1 : j = n + 1 \/ j \in 1 .. n
      BY <1>2
    <3> QED
      BY <1>2, <3>1
  <2>2. \A j \in 0 .. n + 1 : j = n + 1 \/ j \in 0 .. n
    BY <1>2
  <2>3. cut2 \in [0 .. n + 1 -> Nat]
    BY <1>2, <1>5, <2>2
  <2>4. frag2 \in [0 .. n + 1 -> Fragments]
    BY <1>2, <2>2
  <2>5. cnt2 \in [0 .. n + 1 -> 0 .. Len(t)]
    <3>1. \A j \in 0 .. n : cnt[j] \in 0 .. Len(t)
      BY <1>2
    <3> QED
      BY <2>2, <3>1
  <2> QED
    BY <2>1, <2>3, <2>4, <2>5
<1>11. /\ \A j \in 0 .. n : cut2[j] = cut[j] /\ frag2[j] = frag[j] /\ cnt2[j] = cnt[j]
       /\ \A j \in 1 .. n : fs2[j] = fs[j]
       /\ fs2[n + 1] = f /\ cut2[n + 1] = l + k /\ frag2[n + 1] = r /\ cnt2[n + 1] = Len(t)
  BY <1>2
<1> HIDE DEF fs2, cut2, frag2, cnt2
<1>12. 0 \in 0 .. n /\ n \in 0 .. n
  BY <1>2
<1>13. ASSUME NEW i \in 0 .. n + 1, NEW j \in 0 .. n + 1, i <= j PROVE cut2[i] <= cut2[j]
  <2>1. CASE j \in 0 .. n
    <3>1. i \in 0 .. n
      BY <1>2, <1>13, <2>1
    <3> QED
      BY <1>2, <1>11, <1>13, <2>1, <3>1
  <2>2. CASE i \in 0 .. n /\ j = n + 1
    <3>1. cut[i] <= l /\ cut[i] \in Nat
      BY <1>2, <1>12, <2>2
    <3> QED
      BY <1>5, <1>11, <2>2, <3>1
  <2>3. CASE i = n + 1 /\ j = n + 1
    BY <1>5, <1>11, <2>3
  <2> QED
    BY <1>2, <1>13, <2>1, <2>2, <2>3
<1>14. ASSUME NEW j \in 1 .. n + 1
       PROVE  /\ Holds(all, cut2[j - 1], cut2[j], fs2[j])
              /\ \/ Moves(fs2[j], t, frag2[j - 1], cnt2[j - 1], frag2[j], cnt2[j])
                 \/ j = n + 1 /\ bad /\ Breaches(fs2[j], frag2[j - 1])
  <2>1. CASE j = n + 1
    <3>1. j - 1 = n
      BY <1>2, <2>1
    <3> QED
      BY <1>1, <1>2, <1>7, <1>11, <1>12, <2>1, <3>1
  <2>2. CASE j \in 1 .. n
    <3>1. j - 1 \in 0 .. n /\ j \in 0 .. n
      BY <1>2, <2>2
    <3> QED
      BY <1>8, <1>9, <1>11, <2>2, <3>1
  <2> QED
    BY <1>2, <2>1, <2>2
<1>15. Chain(base, all, t, bad, n + 1, fs2, cut2, frag2, cnt2)
  BY <1>2, <1>6, <1>10, <1>11, <1>12, <1>13, <1>14 DEF Chain
<1>16. frag2[0] = p /\ cnt2[0] = c
  BY <1>1, <1>11, <1>12
<1>17. Links(base, all, t, bad, p, c, r)
  BY <1>11, <1>15, <1>16 DEF Links
<1> QED
  BY <1>17 DEF all

\* The base of the bytes is not seen in what follows.
LEMMA LinksBehind ==
    ASSUME NEW base \in Nat, NEW bytes \in Seq(Byte), NEW s, NEW bad, NEW p, NEW c, NEW q,
           Links(base, bytes, s, bad, p, c, q)
    PROVE  Links(0, SubSeq(bytes, base + 1, Len(bytes)), s, bad, p, c, q)
<1>1. PICK n, fs, cut, frag, cnt :
          /\ Chain(base, bytes, s, bad, n, fs, cut, frag, cnt)
          /\ frag[0] = p /\ cnt[0] = c /\ (~bad => frag[n] = q /\ cnt[n] = Len(s))
  BY DEF Links
<1> DEFINE l == Len(bytes)
           rest == SubSeq(bytes, base + 1, l)
           cut2 == [j \in 0 .. n |-> cut[j] - base]
<1>2. /\ n \in Nat /\ fs \in [1 .. n -> Records] /\ cut \in [0 .. n -> Nat]
      /\ cut[0] = base /\ cut[n] = l
      /\ \A i, j \in 0 .. n : i <= j => cut[i] <= cut[j]
      /\ 0 \in 0 .. n /\ n \in 0 .. n
  <2>1. /\ n \in Nat /\ fs \in [1 .. n -> Records] /\ cut \in [0 .. n -> Nat]
        /\ cut[0] = base /\ cut[n] = l
        /\ \A i, j \in 0 .. n : i <= j => cut[i] <= cut[j]
    BY <1>1, Zenon DEF Chain
  <2>2. 0 \in 0 .. n /\ n \in 0 .. n
    BY <2>1
  <2> QED
    BY <2>1, <2>2, Zenon
<1>3. \A j \in 1 .. n : Holds(bytes, cut[j - 1], cut[j], fs[j])
  BY <1>1 DEF Chain
<1>4. l \in Nat
  BY LenProperties
<1>5. ASSUME NEW j \in 0 .. n PROVE base <= cut[j] /\ cut[j] <= l /\ cut[j] \in Nat
  <2>1. cut[0] <= cut[j] /\ cut[j] <= cut[n]
    <3>1. n \in Nat
      BY <1>2, Zenon
    <3>2. 0 <= j /\ j <= n
      BY <3>1
    <3> QED
      BY <1>2, <3>2, Zenon
  <2> QED
    BY <1>2, <2>1
<1>6. rest \in Seq(Byte) /\ Len(rest) = l - base
  <2> DEFINE a == base + 1
  <2>1. a \in Nat \ {0} /\ a <= l + 1 /\ (l + 1) - a = l - base
    BY <1>2, <1>4, <1>5
  <2> HIDE DEF a
  <2>2. SubSeq(bytes, a, l) \in Seq(Byte) /\ Len(SubSeq(bytes, a, l)) = (l + 1) - a
    BY <1>4, <2>1, PartOfBytes
  <2> QED
    BY <2>1, <2>2 DEF a
<1>7. ASSUME NEW j \in 1 .. n PROVE Holds(rest, cut[j - 1] - base, cut[j] - base, fs[j])
  <2>1. j - 1 \in 0 .. n /\ j \in 0 .. n /\ fs[j] \in Records
    BY <1>2
  <2>2. Holds(bytes, cut[j - 1], cut[j], fs[j])
    BY <1>3
  <2> QED
    BY <1>5, <2>1, <2>2, HoldsBehind
<1> HIDE DEF l, rest
<1>8. cut2 \in [0 .. n -> Nat] /\ \A j \in 0 .. n : cut2[j] = cut[j] - base
  BY <1>5
<1> HIDE DEF cut2
<1>9. cut2[0] = 0 /\ cut2[n] = Len(rest)
  BY <1>2, <1>6, <1>8
<1>10. \A i, j \in 0 .. n : i <= j => cut2[i] <= cut2[j]
  BY <1>2, <1>5, <1>8
<1>11. ASSUME NEW j \in 1 .. n PROVE Holds(rest, cut2[j - 1], cut2[j], fs[j])
  <2>1. j - 1 \in 0 .. n /\ j \in 0 .. n
    BY <1>2
  <2> QED
    BY <1>7, <1>8, <2>1
<1>12. Chain(0, rest, s, bad, n, fs, cut2, frag, cnt)
  BY <1>1, <1>8, <1>9, <1>10, <1>11 DEF Chain
<1>13. Links(0, rest, s, bad, p, c, q)
  BY <1>1, <1>12 DEF Links
<1> QED
  BY <1>13 DEF rest, l

\* The first record and what is behind it.
Leads(base, bytes, s, bad, p, c, q) ==
    \E f \in Records, next \in Nat, r \in Fragments, d \in 0 .. Len(s) :
        /\ Holds(bytes, base, next, f)
        /\ next <= Len(bytes)
        /\ Links(next, bytes, s, bad, r, d, q)
        /\ \/ Moves(f, s, p, c, r, d)
           \/ bad /\ Breaches(f, p) /\ next = Len(bytes)

\* A chain is empty, or a record leads to the rest of it.
LEMMA LinksTail ==
    ASSUME NEW base, NEW bytes \in Seq(Byte), NEW s, NEW bad, NEW p, NEW c, NEW q,
           Links(base, bytes, s, bad, p, c, q)
    PROVE  \/ base = Len(bytes) /\ (~bad => p = q /\ c = Len(s))
           \/ Leads(base, bytes, s, bad, p, c, q)
<1>1. PICK n, fs, cut, frag, cnt :
          /\ Chain(base, bytes, s, bad, n, fs, cut, frag, cnt)
          /\ frag[0] = p /\ cnt[0] = c /\ (~bad => frag[n] = q /\ cnt[n] = Len(s))
  BY DEF Links
<1>2. /\ n \in Nat /\ fs \in [1 .. n -> Records] /\ cut \in [0 .. n -> Nat]
      /\ frag \in [0 .. n -> Fragments] /\ cnt \in [0 .. n -> 0 .. Len(s)]
      /\ cut[0] = base /\ cut[n] = Len(bytes)
      /\ \A i, j \in 0 .. n : i <= j => cut[i] <= cut[j]
  BY <1>1 DEF Chain
<1>3. \A j \in 1 .. n : Holds(bytes, cut[j - 1], cut[j], fs[j])
  BY <1>1 DEF Chain
<1>4. \A j \in 1 .. n : \/ Moves(fs[j], s, frag[j - 1], cnt[j - 1], frag[j], cnt[j])
                        \/ j = n /\ bad /\ Breaches(fs[j], frag[j - 1])
  BY <1>1 DEF Chain
<1>5. CASE n = 0
  BY <1>1, <1>2, <1>5
<1>6. CASE n # 0
  <2> DEFINE m == n - 1
             fs2 == [j \in 1 .. m |-> fs[j + 1]]
             cut2 == [j \in 0 .. m |-> cut[j + 1]]
             frag2 == [j \in 0 .. m |-> frag[j + 1]]
             cnt2 == [j \in 0 .. m |-> cnt[j + 1]]
  <2>1. m \in Nat /\ m + 1 = n /\ 1 \in 1 .. n /\ 1 - 1 = 0 /\ 1 \in 0 .. n /\ n \in 0 .. n
    BY <1>2, <1>6
  <2>2. /\ fs[1] \in Records /\ cut[1] \in Nat /\ cut[1] <= cut[n]
    BY <1>2, <2>1
  <2>3. Holds(bytes, base, cut[1], fs[1])
    BY <1>2, <1>3, <2>1
  <2>4. \/ Moves(fs[1], s, p, c, frag[1], cnt[1])
        \/ bad /\ Breaches(fs[1], p) /\ n = 1
    BY <1>1, <1>4, <2>1
  <2> HIDE DEF m
  <2>5. /\ \A j \in 1 .. m : j + 1 \in 1 .. n
        /\ \A j \in 0 .. m : j + 1 \in 0 .. n /\ j + 1 \in 1 .. n
        /\ 0 \in 0 .. m /\ m \in 0 .. m
    BY <1>2, <2>1
  <2>6. /\ fs2 \in [1 .. m -> Records] /\ cut2 \in [0 .. m -> Nat]
        /\ frag2 \in [0 .. m -> Fragments] /\ cnt2 \in [0 .. m -> 0 .. Len(s)]
    BY <1>2, <2>5
  <2>7. /\ \A j \in 0 .. m : cut2[j] = cut[j + 1] /\ frag2[j] = frag[j + 1] /\ cnt2[j] = cnt[j + 1]
        /\ \A j \in 1 .. m : fs2[j] = fs[j + 1]
    OBVIOUS
  <2> HIDE DEF fs2, cut2, frag2, cnt2
  <2>8. cut2[0] = cut[1] /\ frag2[0] = frag[1] /\ cnt2[0] = cnt[1]
    <3>1. 0 + 1 = 1
      OBVIOUS
    <3> QED
      BY <2>5, <2>7, <3>1
  <2>9. cut2[m] = cut[n] /\ frag2[m] = frag[n] /\ cnt2[m] = cnt[n]
    BY <2>1, <2>5, <2>7
  <2>10. ASSUME NEW i \in 0 .. m, NEW j \in 0 .. m, i <= j PROVE cut2[i] <= cut2[j]
    <3>1. i + 1 \in 0 .. n /\ j + 1 \in 0 .. n /\ i + 1 <= j + 1
      BY <2>1, <2>5, <2>10
    <3> QED
      BY <1>2, <2>7, <3>1
  <2>11. ASSUME NEW j \in 1 .. m
         PROVE  /\ Holds(bytes, cut2[j - 1], cut2[j], fs2[j])
                /\ \/ Moves(fs2[j], s, frag2[j - 1], cnt2[j - 1], frag2[j], cnt2[j])
                   \/ j = m /\ bad /\ Breaches(fs2[j], frag2[j - 1])
    <3>1. /\ j + 1 \in 1 .. n /\ (j + 1) - 1 = j /\ j - 1 \in 0 .. m /\ (j - 1) + 1 = j
          /\ j \in 0 .. m /\ (j + 1 = n => j = m)
      BY <2>1, <2>5
    <3>2. /\ cut2[j - 1] = cut[j] /\ frag2[j - 1] = frag[j] /\ cnt2[j - 1] = cnt[j]
          /\ cut2[j] = cut[j + 1] /\ frag2[j] = frag[j + 1] /\ cnt2[j] = cnt[j + 1]
          /\ fs2[j] = fs[j + 1]
      BY <2>7, <3>1
    <3>3. Holds(bytes, cut[j], cut[j + 1], fs[j + 1])
      BY <1>3, <3>1
    <3>4. \/ Moves(fs[j + 1], s, frag[j], cnt[j], frag[j + 1], cnt[j + 1])
          \/ j = m /\ bad /\ Breaches(fs[j + 1], frag[j])
      BY <1>4, <3>1
    <3>5. Holds(bytes, cut2[j - 1], cut2[j], fs2[j])
      BY <3>2, <3>3
    <3>6. \/ Moves(fs2[j], s, frag2[j - 1], cnt2[j - 1], frag2[j], cnt2[j])
          \/ j = m /\ bad /\ Breaches(fs2[j], frag2[j - 1])
      BY <3>2, <3>4
    <3> QED
      BY <3>5, <3>6
  <2>12. Chain(cut[1], bytes, s, bad, m, fs2, cut2, frag2, cnt2)
    <3>1. m \in Nat /\ cut2[0] = cut[1] /\ cut2[m] = Len(bytes)
      BY <1>2, <2>1, <2>8, <2>9
    <3> QED
      BY <2>6, <2>10, <2>11, <3>1 DEF Chain
  <2>13. Links(cut[1], bytes, s, bad, frag[1], cnt[1], q)
    BY <1>1, <2>8, <2>9, <2>12 DEF Links
  <2>14. cut[1] <= Len(bytes) /\ (n = 1 => cut[1] = Len(bytes))
    BY <1>2, <2>2
  <2>15. \/ Moves(fs[1], s, p, c, frag[1], cnt[1])
         \/ bad /\ Breaches(fs[1], p) /\ cut[1] = Len(bytes)
    BY <2>4, <2>14
  <2>16. fs[1] \in Records /\ cut[1] \in Nat /\ cut[1] <= Len(bytes)
    <3>1. fs[1] \in Records /\ cut[1] \in Nat
      BY <2>2
    <3>2. cut[1] <= Len(bytes)
      BY <2>14
    <3> QED
      BY <3>1, <3>2
  <2>17. frag[1] \in Fragments /\ cnt[1] \in 0 .. Len(s)
    <3>1. /\ frag \in [0 .. n -> Fragments] /\ cnt \in [0 .. n -> 0 .. Len(s)]
          /\ 1 \in 0 .. n
      BY <1>2, <2>1, Zenon
    <3> DEFINE Counts == 0 .. Len(s)
    <3>2. cnt \in [0 .. n -> Counts]
      BY <3>1
    <3> HIDE DEF Counts
    <3>3. cnt[1] \in Counts
      BY <3>1, <3>2
    <3>4. frag[1] \in Fragments
      BY <3>1
    <3> QED
      BY <3>3, <3>4 DEF Counts
  <2> QED
    BY <2>3, <2>13, <2>15, <2>16, <2>17, Zenon DEF Leads
<1> QED
  BY <1>5, <1>6

----------------------------------------------------------------------------
(* Bytes that are moved from one buffer to another.                           *)

\* Two parts that make up the whole.
LEMMA TwoParts ==
    ASSUME NEW s \in Seq(Byte), NEW k \in 0 .. Len(s)
    PROVE  /\ SubSeq(s, 1, k) \in Seq(Byte) /\ SubSeq(s, k + 1, Len(s)) \in Seq(Byte)
           /\ SubSeq(s, 1, k) \o SubSeq(s, k + 1, Len(s)) = s
           /\ Len(SubSeq(s, 1, k)) = k
<1>1. Len(s) \in Nat
  BY LenProperties
<1>2. SubSeq(s, 1, k) \in Seq(Byte) /\ Len(SubSeq(s, 1, k)) = k
  <2> DEFINE a == 1
  <2>1. a \in Nat \ {0} /\ k \in Nat /\ k <= Len(s) /\ a <= k + 1 /\ (k + 1) - a = k
    BY <1>1
  <2> HIDE DEF a
  <2>2. SubSeq(s, a, k) \in Seq(Byte) /\ Len(SubSeq(s, a, k)) = (k + 1) - a
    BY <2>1, PartOfBytes
  <2> QED
    BY <2>1, <2>2 DEF a
<1>3. SubSeq(s, k + 1, Len(s)) \in Seq(Byte)
  <2> DEFINE a == k + 1
             b == Len(s)
  <2>1. a \in Nat \ {0} /\ b \in Nat /\ b <= Len(s) /\ a <= b + 1
    BY <1>1
  <2> HIDE DEF a, b
  <2>2. SubSeq(s, a, b) \in Seq(Byte)
    BY <2>1, PartOfBytes
  <2> QED
    BY <2>2 DEF a, b
<1>4. SubSeq(s, 1, k) \o SubSeq(s, k + 1, Len(s)) = SubSeq(s, 1, Len(s))
  <2>1. 1 \in 1 .. Len(s) + 1 /\ k \in 1 - 1 .. Len(s) /\ Len(s) \in k .. Len(s)
    BY <1>1
  <2> QED
    BY <2>1, ConcatAdjacentSubSeq
<1>5. SubSeq(s, 1, Len(s)) = s
  BY SubSeqFull
<1> QED
  BY <1>2, <1>3, <1>4, <1>5

\* The second of them.
LEMMA RestOf ==
    ASSUME NEW s \in Seq(Byte), NEW k \in 0 .. Len(s)
    PROVE  SubSeq(s, k + 1, Len(s)) \in Seq(Byte)
  BY TwoParts

\* Taking away from the front leaves the bytes behind it alone.
LEMMA BehindFront ==
    ASSUME NEW a \in Seq(Byte), NEW b \in Seq(Byte), NEW k \in 0 .. Len(a)
    PROVE  SubSeq(a \o b, k + 1, Len(a \o b)) = SubSeq(a, k + 1, Len(a)) \o b
<1> DEFINE m == k + 1
           la == Len(a)
           ab == a \o b
           l == Len(ab)
           r == SubSeq(ab, m, l)
           u == SubSeq(a, m, la)
           v == u \o b
<1>1. la \in Nat /\ Len(b) \in Nat /\ ab \in Seq(Byte) /\ l = la + Len(b)
  BY JoinedBytes
<1>2. /\ \A i \in 1 .. la : ab[i] = a[i]
      /\ \A i \in 1 .. Len(b) : ab[la + i] = b[i]
  BY JoinedBytes
<1>3. m \in Nat \ {0} /\ m <= la + 1 /\ m <= l + 1 /\ l \in Nat /\ m - 1 = k /\ k \in Nat
  BY <1>1
<1> HIDE DEF m
<1>4. r \in Seq(Byte) /\ Len(r) = (l + 1) - m /\ \A i \in 1 .. (l + 1) - m : r[i] = ab[(m - 1) + i]
  <2>1. l <= Len(ab)
    BY <1>1
  <2> HIDE DEF l, ab
  <2> QED
    BY <1>1, <1>3, <2>1, PartOfBytes
<1>5. u \in Seq(Byte) /\ Len(u) = (la + 1) - m /\ \A i \in 1 .. (la + 1) - m : u[i] = a[(m - 1) + i]
  BY <1>1, <1>3, PartOfBytes
<1> HIDE DEF u, r
<1>6. /\ v \in Seq(Byte) /\ Len(v) = Len(u) + Len(b)
      /\ \A i \in 1 .. Len(u) : v[i] = u[i]
      /\ \A i \in 1 .. Len(b) : v[Len(u) + i] = b[i]
  BY <1>5, JoinedBytes
<1> HIDE DEF v, ab, l, la
<1>7. Len(r) = Len(v) /\ Len(r) = l - k /\ Len(u) = la - k
  BY <1>1, <1>3, <1>4, <1>5, <1>6
<1>8. ASSUME NEW i \in 1 .. Len(r) PROVE r[i] = v[i]
  <2>1. r[i] = ab[k + i]
    BY <1>1, <1>3, <1>4, <1>7
  <2>2. CASE i <= la - k
    <3>1. i \in 1 .. Len(u) /\ k + i \in 1 .. la
      BY <1>1, <1>3, <1>7, <2>2
    <3>2. v[i] = u[i] /\ u[i] = a[k + i]
      BY <1>1, <1>3, <1>5, <1>6, <1>7, <3>1
    <3> QED
      BY <1>2, <2>1, <3>1, <3>2
  <2>3. CASE ~(i <= la - k)
    <3> DEFINE j == i - (la - k)
    <3>1. j \in 1 .. Len(b) /\ Len(u) + j = i /\ la + j = k + i
      BY <1>1, <1>3, <1>7, <2>3
    <3> HIDE DEF j
    <3>2. v[i] = b[j]
      BY <1>6, <3>1
    <3>3. ab[k + i] = b[j]
      BY <1>2, <3>1
    <3> QED
      BY <2>1, <3>2, <3>3
  <2> QED
    BY <2>2, <2>3
<1>9. r = v
  BY <1>4, <1>6, <1>7, <1>8, Same
<1> QED
  BY <1>9 DEF r, v, u, ab, l, la, m

\* Joining is associative.
LEMMA Regrouped ==
    ASSUME NEW r \in Seq(Byte), NEW s \in Seq(Byte), NEW t \in Seq(Byte)
    PROVE  (r \o s) \o t = r \o (s \o t)
  BY ConcatAssociative

\* The bytes in three buffers.
Whole(first, second, third) == first \o second \o third

\* They begin with those of the first.
LEMMA WholeIs ==
    ASSUME NEW a \in Seq(Byte), NEW b \in Seq(Byte), NEW c \in Seq(Byte)
    PROVE  /\ Whole(a, b, c) \in Seq(Byte)
           /\ Len(Whole(a, b, c)) = (Len(a) + Len(b)) + Len(c)
           /\ Starts(Whole(a, b, c), a)
           /\ Whole(a, b, c) = a \o (b \o c)
<1> DEFINE bc == b \o c
<1>1. Whole(a, b, c) = a \o bc
  BY ConcatAssociative DEF Whole
<1>2. bc \in Seq(Byte) /\ Len(bc) = Len(b) + Len(c) /\ Len(b) \in Nat /\ Len(c) \in Nat
  BY JoinedBytes
<1> HIDE DEF bc
<1> DEFINE w == Whole(a, b, c)
<1>3. /\ w \in Seq(Byte) /\ Len(w) = Len(a) + Len(bc) /\ Len(a) \in Nat
      /\ \A i \in 1 .. Len(a) : w[i] = a[i]
  <2>1. /\ a \o bc \in Seq(Byte) /\ Len(a \o bc) = Len(a) + Len(bc) /\ Len(a) \in Nat
        /\ \A i \in 1 .. Len(a) : (a \o bc)[i] = a[i]
    BY <1>2, JoinedBytes
  <2>2. w = a \o bc
    BY <1>1
  <2> QED
    BY <2>1, <2>2
<1> HIDE DEF w
<1>4. Len(w) = (Len(a) + Len(b)) + Len(c)
  BY <1>2, <1>3
<1>5. Starts(w, a)
  BY <1>2, <1>3, <1>4 DEF Starts
<1> QED
  BY <1>1, <1>3, <1>4, <1>5 DEF w, bc

\* Reading moves bytes on and loses none.
ReadTo(a, b, c, n, k, a2, b2, c2) ==
    LET ready == b \o SubSeq(c, 1, n)
    IN  /\ a2 = a \o SubSeq(ready, 1, k)
        /\ b2 = SubSeq(ready, k + 1, Len(ready))
        /\ c2 = SubSeq(c, n + 1, Len(c))

\* ... and none of them is lost, changed or moved past another.
LEMMA ReadKeeps ==
    ASSUME NEW a \in Seq(Byte), NEW b \in Seq(Byte), NEW c \in Seq(Byte),
           NEW n \in 0 .. Len(c), NEW k \in 0 .. Len(b \o SubSeq(c, 1, n)),
           NEW a2, NEW b2, NEW c2, ReadTo(a, b, c, n, k, a2, b2, c2)
    PROVE  /\ a2 \in Seq(Byte) /\ b2 \in Seq(Byte) /\ c2 \in Seq(Byte)
           /\ Whole(a2, b2, c2) = Whole(a, b, c)
<1> DEFINE c1 == SubSeq(c, 1, n)
           ready == b \o c1
           r1 == SubSeq(ready, 1, k)
<1>1. a2 = a \o r1 /\ b2 = SubSeq(ready, k + 1, Len(ready)) /\ c2 = SubSeq(c, n + 1, Len(c))
  BY DEF ReadTo
<1>2. c1 \in Seq(Byte) /\ c2 \in Seq(Byte) /\ c1 \o c2 = c
  BY <1>1, TwoParts
<1>3. k \in 0 .. Len(ready)
  OBVIOUS
<1> HIDE DEF c1
<1>4. ready \in Seq(Byte)
  BY <1>2, JoinedBytes
<1> HIDE DEF ready
<1>5. r1 \in Seq(Byte) /\ b2 \in Seq(Byte) /\ r1 \o b2 = ready
  BY <1>1, <1>3, <1>4, TwoParts
<1> HIDE DEF r1
<1>6. a2 \in Seq(Byte)
  BY <1>1, <1>5, JoinedBytes
<1>7. Whole(a2, b2, c2) = Whole(a, b, c)
  <2>1. a2 \o b2 = a \o ready
    <3>1. r1 \in Seq(Byte) /\ b2 \in Seq(Byte)
      BY <1>5
    <3>2. (a \o r1) \o b2 = a \o (r1 \o b2)
      BY <3>1, Regrouped
    <3> QED
      BY <1>1, <1>5, <3>2
  <2>2. a \o ready = (a \o b) \o c1
    <3>1. c1 \in Seq(Byte)
      BY <1>2
    <3>2. (a \o b) \o c1 = a \o (b \o c1)
      BY <3>1, Regrouped
    <3> QED
      BY <3>2 DEF ready
  <2>3. a \o b \in Seq(Byte)
    BY JoinedBytes
  <2>4. ((a \o b) \o c1) \o c2 = (a \o b) \o (c1 \o c2)
    BY <1>2, <2>3, Regrouped
  <2>5. (a2 \o b2) \o c2 = (a \o b) \o c
    BY <1>2, <2>1, <2>2, <2>4
  <2> QED
    BY <2>5 DEF Whole
<1> QED
  BY <1>2, <1>5, <1>6, <1>7

\* What is taken out of the first is taken off the whole.
LEMMA WholeBehind ==
    ASSUME NEW a \in Seq(Byte), NEW b \in Seq(Byte), NEW c \in Seq(Byte), NEW k \in 0 .. Len(a)
    PROVE  Whole(SubSeq(a, k + 1, Len(a)), b, c) =
               SubSeq(Whole(a, b, c), k + 1, Len(Whole(a, b, c)))
<1> DEFINE bc == b \o c
           u == SubSeq(a, k + 1, Len(a))
<1>1. bc \in Seq(Byte) /\ u \in Seq(Byte)
  <2>1. bc \in Seq(Byte)
    BY JoinedBytes
  <2>2. u \in Seq(Byte)
    BY RestOf
  <2> QED
    BY <2>1, <2>2
<1> HIDE DEF u
<1>2. Whole(a, b, c) = a \o bc /\ Whole(u, b, c) = u \o bc
  <2>1. Whole(a, b, c) = a \o bc
    BY WholeIs
  <2>2. Whole(u, b, c) = u \o bc
    BY <1>1, WholeIs
  <2> QED
    BY <2>1, <2>2
<1> HIDE DEF bc
<1>3. SubSeq(a \o bc, k + 1, Len(a \o bc)) = u \o bc
  BY <1>1, BehindFront DEF u
<1> QED
  BY <1>2, <1>3 DEF u

----------------------------------------------------------------------------
(* The inductive invariant.                                                   *)

\* All the bytes that have not been looked at, from the plugin to the network.
All == Whole(rx_buf, held, socket)

\* The fragments of the message in hand, when all that is sent has been taken.
Partial == IF saying = <<>> THEN NoBuffer ELSE SubSeq(saying, 1, gone)

\* The reply to the handshake is in front of the frames until it is taken.
Base == IF status = "handshake" THEN 8 ELSE 0

\* They begin with the reply to the handshake.
Opened(all, bad) ==
    /\ Len(all) >= 8
    /\ \E first \in {0, OK} : /\ \A i \in 1 .. 8 : all[i] = Reply(first)[i]
                              /\ first = 0 => bad

\* The types of the variables.
Types ==
    /\ status \in {"handshake", "identify"}
    /\ rx_buf \in Seq(Byte) /\ held \in Seq(Byte) /\ socket \in Seq(Byte)
    /\ processing \in BOOLEAN /\ error \in BOOLEAN /\ faulty \in BOOLEAN
    /\ saying \in Messages \cup {<<>>}
    /\ gone \in Nat /\ gone <= Len(saying)
    /\ sent \in Seq(Messages) /\ delivered \in Seq(Messages)
    /\ frames \in 0 .. MaxFrames + 1
    /\ saying # <<>> => frames <= MaxFrames
    /\ processing => status = "identify"

\* What is handed on is the beginning of what was sent.
HandedOn == /\ Len(delivered) <= Len(sent)
            /\ \A i \in 1 .. Len(delivered) : delivered[i] = sent[i]

\* The reply is there as long as it has not been taken.
Unanswered == status = "handshake" => Opened(All, faulty)

\* Between events there is no whole reply and no whole frame in the buffer.
NothingWaits ==
    ~processing /\ ~faulty =>
        /\ status = "handshake" => Len(rx_buf) < 8
        /\ status = "identify" => ~Complete(rx_buf)

\* An error is not for nothing.
Blamed == error => faulty

\* All that has not been looked at is frames that lead from here to what is sent.
Framed == Links(Base, All, sent, faulty, frame_buffer, Len(delivered), Partial)

\* The inductive invariant.
Inv == Types /\ HandedOn /\ Unanswered /\ NothingWaits /\ Blamed /\ Framed

\* The messages are bytes, and the values that stand for none are not messages.
LEMMA MessagesAreBytes ==
    /\ \A m \in Messages \cup {<<>>, Pin} : m \in Seq(Byte) /\ Len(m) \in Nat
    /\ <<>> \notin Messages /\ Pin \notin Messages
    /\ NoBuffer \notin Seq(Byte)
<1>1. Messages \cup {Pin} \subseteq Seq(Byte) /\ <<>> \notin Messages /\ Pin \notin Messages
      /\ NoBuffer \notin Seq(Byte)
  BY HybiAssumption
<1>2. <<>> \in Seq(Byte)
  BY EmptySeq
<1> QED
  BY <1>1, <1>2, LenProperties

\* The reply is eight bytes.
LEMMA ReplyIs ==
    ASSUME NEW first \in {0, OK}
    PROVE  /\ Reply(first) \in Seq(Byte) /\ Len(Reply(first)) = 8
           /\ Reply(first)[1] = first
  BY DEF Reply, Byte, OK, CR, LF

\* The reply stays in front when more is written behind it.
LEMMA StillOpened ==
    ASSUME NEW a \in Seq(Byte), NEW t \in Seq(Byte), NEW bad \in BOOLEAN, NEW bad2 \in BOOLEAN,
           bad => bad2, Opened(a, bad)
    PROVE  Opened(a \o t, bad2)
<1> DEFINE at == a \o t
<1>1. /\ Len(a) \in Nat /\ Len(t) \in Nat /\ Len(at) = Len(a) + Len(t)
      /\ \A i \in 1 .. Len(a) : at[i] = a[i]
  BY JoinedBytes
<1> HIDE DEF at
<1>2. PICK first \in {0, OK} : (\A i \in 1 .. 8 : a[i] = Reply(first)[i]) /\ (first = 0 => bad)
  BY DEF Opened
<1>3. Len(a) >= 8
  BY DEF Opened
<1>4. ASSUME NEW i \in 1 .. 8 PROVE at[i] = Reply(first)[i]
  <2>1. i \in 1 .. Len(a)
    BY <1>1, <1>3
  <2>2. at[i] = a[i] /\ a[i] = Reply(first)[i]
    BY <1>1, <1>2, <2>1
  <2> QED
    BY <2>2
<1>5. Len(at) >= 8
  BY <1>1, <1>3
<1>6. Opened(at, bad2)
  BY <1>2, <1>4, <1>5 DEF Opened
<1> QED
  BY <1>6 DEF at

\* The invariant holds at the start.
LEMMA InitInv == Init => Inv
<1> SUFFICES ASSUME Init PROVE Inv
  OBVIOUS
<1> DEFINE first == IF faulty THEN 0 ELSE OK
<1>1. /\ socket = Reply(first) /\ first \in {0, OK} /\ (first = 0 => faulty)
      /\ faulty \in BOOLEAN
  BY DEF Init, OK
<1>2. /\ status = "handshake" /\ rx_buf = <<>> /\ frame_buffer = NoBuffer /\ held = <<>>
      /\ processing = FALSE /\ error = FALSE /\ saying = <<>> /\ gone = 0
      /\ sent = <<>> /\ delivered = <<>> /\ frames = 0
  BY DEF Init
<1> HIDE DEF first
<1>3. socket \in Seq(Byte) /\ Len(socket) = 8
  BY <1>1, ReplyIs
<1>4. <<>> \in Seq(Byte) /\ <<>> \in Seq(Messages) /\ Len(<<>>) = 0
  BY EmptySeq
<1>5. Types
  <2>1. 0 \in 0 .. MaxFrames + 1
    BY HybiAssumption
  <2>2. gone \in Nat /\ gone <= Len(saying)
    BY <1>2, <1>4
  <2> QED
    BY <1>1, <1>2, <1>3, <1>4, <2>1, <2>2 DEF Types
<1>6. All = socket
  <2>1. <<>> \o <<>> = <<>> /\ <<>> \o socket = socket
    BY <1>3, <1>4, ConcatEmptySeq
  <2> QED
    BY <1>2, <2>1 DEF All, Whole
<1>7. HandedOn
  BY <1>2, <1>4 DEF HandedOn
<1>8. Unanswered
  <2>1. Len(socket) >= 8
    BY <1>3
  <2>2. Opened(socket, faulty)
    BY <1>1, <2>1 DEF Opened
  <2> QED
    BY <1>6, <2>2 DEF Unanswered
<1>9. NothingWaits
  <2>1. Len(rx_buf) < 8
    BY <1>2, <1>4
  <2> QED
    BY <1>2, <2>1 DEF NothingWaits
<1>10. Framed
  <2>1. Links(Len(socket), socket, <<>>, faulty, NoBuffer, 0, NoBuffer)
    <3>1. NoBuffer \in Fragments /\ 0 \in 0 .. Len(<<>>) /\ Len(<<>>) \in Nat
      BY <1>4 DEF Fragments
    <3> QED
      BY <1>1, <1>3, <1>4, <3>1, NoLinks
  <2>2. Base = Len(socket) /\ Partial = NoBuffer /\ Len(delivered) = 0
    BY <1>2, <1>3, <1>4 DEF Base, Partial
  <2>3. Links(Base, All, sent, faulty, frame_buffer, Len(delivered), Partial)
    BY <1>2, <1>6, <2>1, <2>2, Zenon
  <2> QED
    BY <2>3 DEF Framed
<1> QED
  BY <1>2, <1>5, <1>7, <1>8, <1>9, <1>10 DEF Inv, Blamed

\* What is left alone.
LEMMA Unread ==
    ASSUME UNCHANGED <<status, rx_buf, held, socket>>
    PROVE  UNCHANGED <<All, Base>>
  BY DEF All, Base

\* A read that fails.
LEMMA ReadFailsInv == Inv /\ ReadFails => Inv'
<1> SUFFICES ASSUME Inv, ReadFails PROVE Inv'
  OBVIOUS
<1> USE DEF ReadFails, server
<1>1. Types'
  BY DEF Inv, Types
<1>2. UNCHANGED <<All, Base, Partial>> /\ faulty' = TRUE
  BY Unread DEF Partial
<1>3. Unanswered'
  BY <1>2 DEF Inv, Unanswered, Opened
<1>4. Framed'
  <2>1. Links(Base, All, sent, TRUE, frame_buffer, Len(delivered), Partial)
    BY LinksFail DEF Inv, Framed, Types
  <2> QED
    BY <1>2, <2>1 DEF Framed
<1> QED
  BY <1>1, <1>3, <1>4 DEF Inv, HandedOn, NothingWaits, Blamed

\* The end of the loop: what is left is no frame yet.
LEMMA NoFrameInv == Inv /\ NoFrame => Inv'
<1> SUFFICES ASSUME Inv, NoFrame PROVE Inv'
  OBVIOUS
<1> USE DEF NoFrame, server
<1>1. Types'
  BY DEF Inv, Types
<1>2. UNCHANGED <<All, Base, Partial>>
  BY Unread DEF Partial
<1>3. Unanswered' /\ Framed' /\ HandedOn' /\ Blamed'
  BY <1>2 DEF Inv, Unanswered, Framed, HandedOn, Blamed
<1>4. NothingWaits'
  BY DEF Inv, NothingWaits, Types, Complete
<1> QED
  BY <1>1, <1>3, <1>4 DEF Inv

\* Nothing happens.
LEMMA StutterInv == Inv /\ UNCHANGED vars => Inv'
<1> SUFFICES ASSUME Inv, UNCHANGED vars PROVE Inv'
  OBVIOUS
<1> USE DEF vars
<1>1. Types' /\ HandedOn' /\ Blamed'
  BY DEF Inv, Types, HandedOn, Blamed
<1>2. UNCHANGED <<All, Base, Partial>>
  BY Unread DEF Partial
<1>3. Unanswered' /\ Framed'
  BY <1>2 DEF Inv, Unanswered, Framed
<1>4. NothingWaits'
  BY DEF Inv, NothingWaits
<1> QED
  BY <1>1, <1>3, <1>4 DEF Inv

\* There are fragments just when the server is in the middle of a message.
LEMMA PartialIs ==
    ASSUME Inv
    PROVE  /\ Partial \in Fragments
           /\ saying = <<>> => Partial = NoBuffer
           /\ saying # <<>> => Partial # NoBuffer /\ Partial \in Seq(Byte)
<1>1. CASE saying = <<>>
  BY <1>1 DEF Partial, Fragments
<1>2. CASE saying # <<>>
  <2>1. saying \in Seq(Byte) /\ gone \in 0 .. Len(saying)
    BY <1>2, MessagesAreBytes DEF Inv, Types
  <2>2. SubSeq(saying, 1, gone) \in Seq(Byte)
    BY <2>1, TwoParts
  <2> QED
    BY <1>2, <2>2, MessagesAreBytes DEF Partial, Fragments
<1> QED
  BY <1>1, <1>2

----------------------------------------------------------------------------
(* What the server writes.                                                    *)

\* A record that is written behind all others keeps the invariant.
LEMMA Written ==
    ASSUME Inv, ~faulty, UNCHANGED plugin, Types', Len(sent) <= Len(sent'),
           \A i \in 1 .. Len(sent) : sent'[i] = sent[i],
           NEW f \in Records, socket' = socket \o Coding(f),
           NEW r \in Fragments, Partial' = r \/ faulty',
           \/ Moves(f, sent', Partial, Len(sent), r, Len(sent'))
           \/ faulty' /\ Breaches(f, Partial)
    PROVE  Inv'
<1> DEFINE c == Coding(f)
<1>1. c \in Seq(Byte)
  BY CodingIs
<1>2. /\ rx_buf \in Seq(Byte) /\ held \in Seq(Byte) /\ socket \in Seq(Byte)
      /\ faulty \in BOOLEAN /\ faulty' \in BOOLEAN
      /\ sent \in Seq(Messages) /\ sent' \in Seq(Messages)
  BY DEF Inv, Types
<1>3. Len(sent) \in Nat /\ Len(sent') \in Nat
  BY <1>2, LenProperties
<1>4. /\ rx_buf' = rx_buf /\ held' = held /\ socket' = socket \o c /\ Base' = Base
      /\ status' = status /\ processing' = processing /\ error' = error
      /\ delivered' = delivered /\ frame_buffer' = frame_buffer
  BY DEF plugin, Base
<1> HIDE DEF c
<1>5. All \in Seq(Byte) /\ All' = All \o c
  <2>1. All \in Seq(Byte)
    BY <1>2, WholeIs DEF All
  <2>2. rx_buf \o held \in Seq(Byte)
    BY <1>2, JoinedBytes
  <2>3. ((rx_buf \o held) \o socket) \o c = (rx_buf \o held) \o (socket \o c)
    BY <1>1, <1>2, <2>2, Regrouped
  <2> QED
    BY <1>4, <2>1, <2>3 DEF All, Whole
<1>6. HandedOn'
  <2>1. Len(delivered) \in Nat
    BY LenProperties DEF Inv, Types
  <2> QED
    BY <1>3, <1>4, <2>1 DEF Inv, HandedOn
<1>7. Unanswered'
  BY <1>1, <1>2, <1>4, <1>5, StillOpened DEF Inv, Unanswered
<1>8. NothingWaits'
  BY <1>4 DEF Inv, NothingWaits
<1>9. Blamed'
  BY <1>4 DEF Inv, Blamed
<1>10. Framed'
  <2>1. Links(Base, All, sent, FALSE, frame_buffer, Len(delivered), Partial)
    <3>1. faulty = FALSE
      BY <1>2
    <3> QED
      BY <3>1 DEF Inv, Framed
  <2>2. Links(Base, All \o c, sent', faulty', frame_buffer, Len(delivered), r)
    BY <1>2, <1>3, <1>5, <2>1, LinksGrow DEF c
  <2>3. CASE Partial' = r
    BY <1>4, <1>5, <2>2, <2>3 DEF Framed
  <2>4. CASE faulty'
    <3>1. faulty' = TRUE
      BY <1>2, <2>4
    <3>2. Links(Base, All \o c, sent', TRUE, frame_buffer, Len(delivered), Partial')
      BY <1>2, <2>2, LinksFail
    <3> QED
      BY <1>4, <1>5, <3>1, <3>2 DEF Framed
  <2> QED
    BY <2>3, <2>4
<1> QED
  BY <1>6, <1>7, <1>8, <1>9, <1>10 DEF Inv

\* The form of most frames.
LEMMA ShortIs == Short \in Forms \cup {Short} /\ Short.extra = 0
  BY DEF Short

\* What is written is a record.
LEMMA Recorded ==
    ASSUME NEW final \in BOOLEAN, NEW opcode \in 0 .. 15, NEW form \in Forms \cup {Short},
           NEW payload \in Seq(Byte), Fits(form, Len(payload))
    PROVE  LET f == [final |-> final, opcode |-> opcode, form |-> form, payload |-> payload]
           IN  f \in Records /\ Coding(f) = Frame(final, opcode, form, payload)
  BY DEF Records, Coding

\* A frame of control.
LEMMA ControlInv == \A opcode \in {Ping, Pong} : Inv /\ Control(opcode) => Inv'
<1> SUFFICES ASSUME NEW opcode \in {Ping, Pong}, Inv, Control(opcode) PROVE Inv'
  OBVIOUS
<1> DEFINE f == [final |-> TRUE, opcode |-> opcode, form |-> Short, payload |-> <<7>>]
<1>1. /\ Fits(Short, Len(<<7>>)) /\ ~faulty /\ frames' = frames + 1 /\ frames < MaxFrames
      /\ socket' = socket \o Frame(TRUE, opcode, Short, <<7>>)
      /\ UNCHANGED plugin /\ UNCHANGED <<saying, gone, sent, faulty>>
  BY DEF Control, Write
<1>2. opcode \in 0 .. 15
  BY DEF Ping, Pong
<1>3. <<7>> \in Seq(Byte)
  BY DEF Byte
<1>4. f \in Records /\ Coding(f) = Frame(TRUE, opcode, Short, <<7>>)
  BY <1>1, <1>2, <1>3, ShortIs, Recorded
<1>5. f.opcode \in {Ping, Pong} /\ f.final
  OBVIOUS
<1> HIDE DEF f
<1>6. socket' \in Seq(Byte)
  <2>1. socket \in Seq(Byte) /\ Coding(f) \in Seq(Byte)
    BY <1>4, CodingIs DEF Inv, Types
  <2> QED
    BY <1>1, <1>4, <2>1, JoinedBytes
<1>7. Types'
  <2>1. frames + 1 \in 0 .. MaxFrames + 1 /\ frames + 1 <= MaxFrames
    BY <1>1, HybiAssumption DEF Inv, Types
  <2> QED
    BY <1>1, <1>6, <2>1 DEF Inv, Types, plugin
<1>8. Partial' = Partial /\ Partial \in Fragments
  <2>1. Partial' = Partial
    BY <1>1 DEF Partial
  <2>2. Partial \in Fragments
    BY PartialIs
  <2> QED
    BY <2>1, <2>2
<1>9. Len(sent) \in Nat
  BY LenProperties DEF Inv, Types
<1>10. Moves(f, sent', Partial, Len(sent), Partial, Len(sent'))
  BY <1>1, <1>5 DEF Moves
<1>11. socket' = socket \o Coding(f) /\ UNCHANGED plugin /\ ~faulty
  BY <1>1, <1>4
<1>12. sent' = sent
  BY <1>1
<1>13. Len(sent) <= Len(sent') /\ \A i \in 1 .. Len(sent) : sent'[i] = sent[i]
  BY <1>9, <1>12
<1> QED
  BY <1>4, <1>7, <1>8, <1>10, <1>11, <1>13, Written

\* A PIN.
LEMMA KeepAliveInv == Inv /\ KeepAlive => Inv'
<1> SUFFICES ASSUME Inv, KeepAlive PROVE Inv'
  OBVIOUS
<1> DEFINE f == [final |-> TRUE, opcode |-> Text, form |-> Short, payload |-> Pin]
<1>1. /\ socket = <<>> /\ saying = <<>> /\ ~faulty
      /\ socket' = Frame(TRUE, Text, Short, Pin)
      /\ UNCHANGED plugin /\ UNCHANGED <<saying, gone, sent, frames, faulty>>
  BY DEF KeepAlive, server
<1>2. Text \in 0 .. 15
  BY DEF Text
<1>3. Pin \in Seq(Byte)
  BY MessagesAreBytes
<1>4. Fits(Short, Len(Pin))
  <2> DEFINE n == Len(Pin)
  <2>1. n \in 3 .. 125
    BY HybiAssumption
  <2> HIDE DEF n
  <2>2. n <= 125
    BY <2>1
  <2>3. Fits(Short, n)
    BY <2>2, ShortIs DEF Fits
  <2> QED
    BY <2>3 DEF n
<1>5. f \in Records /\ Coding(f) = Frame(TRUE, Text, Short, Pin)
  BY <1>2, <1>3, <1>4, ShortIs, Recorded
<1>6. f.opcode = Text /\ f.final /\ f.payload = Pin
  OBVIOUS
<1> HIDE DEF f
<1>7. Coding(f) \in Seq(Byte)
  BY <1>5, CodingIs
<1>8. socket' = socket \o Coding(f)
  BY <1>1, <1>5, <1>7, ConcatEmptySeq
<1>9. Types'
  BY <1>1, <1>5, <1>7 DEF Inv, Types, plugin
<1>10. Partial' = NoBuffer /\ Partial = NoBuffer /\ NoBuffer \in Fragments
  BY <1>1 DEF Partial, Fragments
<1>11. Len(sent) \in Nat
  BY LenProperties DEF Inv, Types
<1>12. Moves(f, sent', NoBuffer, Len(sent), NoBuffer, Len(sent'))
  BY <1>1, <1>6 DEF Moves, Hands
<1>13. sent' = sent /\ UNCHANGED plugin /\ ~faulty
  BY <1>1
<1>14. Len(sent) <= Len(sent') /\ \A i \in 1 .. Len(sent) : sent'[i] = sent[i]
  BY <1>11, <1>13
<1> QED
  BY <1>5, <1>8, <1>9, <1>10, <1>12, <1>13, <1>14, Written

\* A frame that breaks the rules.
LEMMA BreakInv == \A frame \in Forbidden : Inv /\ Break(frame) => Inv'
<1> SUFFICES ASSUME NEW frame \in Forbidden, Inv, Break(frame) PROVE Inv'
  OBVIOUS
<1> DEFINE f == [final |-> frame.final, opcode |-> frame.opcode, form |-> Short, payload |-> <<>>]
<1>1. /\ Fits(Short, Len(<<>>)) /\ ~faulty /\ frames' = frames + 1 /\ frames < MaxFrames
      /\ socket' = socket \o Frame(frame.final, frame.opcode, Short, <<>>)
      /\ UNCHANGED plugin /\ UNCHANGED <<saying, gone, sent>> /\ faulty' = TRUE
  BY DEF Break, Write
<1>2. \/ frame.final = TRUE /\ frame.opcode \in {Close, Other}
      \/ frame.final = FALSE /\ frame.opcode \in {Ping, Pong}
      \/ frame.final = TRUE /\ frame.opcode = Continuation /\ saying = <<>>
      \/ frame.final = TRUE /\ frame.opcode = Text /\ saying # <<>>
  BY DEF Forbidden
<1>3. frame.opcode \in 0 .. 15 /\ frame.final \in BOOLEAN
  <2>1. {Close, Other, Ping, Pong, Continuation, Text} \subseteq 0 .. 15
    BY DEF Close, Other, Ping, Pong, Continuation, Text
  <2>2. frame.opcode \in {Close, Other, Ping, Pong, Continuation, Text}
    BY <1>2
  <2>3. frame.final \in {TRUE, FALSE}
    BY <1>2
  <2> QED
    BY <2>1, <2>2, <2>3
<1>4. <<>> \in Seq(Byte)
  BY EmptySeq
<1>5. f \in Records /\ Coding(f) = Frame(frame.final, frame.opcode, Short, <<>>)
  BY <1>1, <1>3, <1>4, ShortIs, Recorded
<1>6. f.opcode = frame.opcode /\ f.final = frame.final
  OBVIOUS
<1> HIDE DEF f
<1>7. socket' \in Seq(Byte)
  <2>1. socket \in Seq(Byte) /\ Coding(f) \in Seq(Byte)
    BY <1>5, CodingIs DEF Inv, Types
  <2> QED
    BY <1>1, <1>5, <2>1, JoinedBytes
<1>8. Types'
  <2>1. frames + 1 \in 0 .. MaxFrames + 1 /\ frames + 1 <= MaxFrames
    BY <1>1, HybiAssumption DEF Inv, Types
  <2> QED
    BY <1>1, <1>7, <2>1 DEF Inv, Types, plugin
<1>9. Partial \in Fragments /\ Partial' = Partial
  BY <1>1, PartialIs DEF Partial
<1>10. Breaches(f, Partial)
  <2>1. /\ saying = <<>> => Partial = NoBuffer
        /\ saying # <<>> => Partial # NoBuffer
    BY PartialIs
  <2> QED
    BY <1>2, <1>6, <2>1 DEF Breaches
<1>11. Len(sent) \in Nat
  BY LenProperties DEF Inv, Types
<1>12. sent' = sent /\ UNCHANGED plugin /\ ~faulty /\ faulty' /\ socket' = socket \o Coding(f)
  BY <1>1, <1>5
<1>13. Len(sent) <= Len(sent') /\ \A i \in 1 .. Len(sent) : sent'[i] = sent[i]
  BY <1>11, <1>12
<1> QED
  BY <1>5, <1>8, <1>9, <1>10, <1>12, <1>13, Written

\* The part of a message that comes next.
LEMMA NextPart ==
    ASSUME NEW s \in Seq(Byte), NEW k \in Nat, NEW m \in Nat, k <= m, m <= Len(s)
    PROVE  /\ SubSeq(s, k + 1, m) \in Seq(Byte) /\ SubSeq(s, 1, m) \in Seq(Byte)
           /\ SubSeq(s, 1, k) \o SubSeq(s, k + 1, m) = SubSeq(s, 1, m)
<1>1. Len(s) \in Nat
  BY LenProperties
<1>2. SubSeq(s, k + 1, m) \in Seq(Byte)
  <2> DEFINE a == k + 1
  <2>1. a \in Nat \ {0} /\ a <= m + 1
    BY <1>1
  <2> HIDE DEF a
  <2>2. SubSeq(s, a, m) \in Seq(Byte)
    BY <2>1, PartOfBytes
  <2> QED
    BY <2>2 DEF a
<1>3. SubSeq(s, 1, m) \in Seq(Byte)
  BY <1>1, TwoParts
<1>4. SubSeq(s, 1, k) \o SubSeq(s, k + 1, m) = SubSeq(s, 1, m)
  <2>1. 1 \in 1 .. Len(s) + 1 /\ k \in 1 - 1 .. Len(s) /\ m \in k .. Len(s)
    BY <1>1
  <2> QED
    BY <2>1, ConcatAdjacentSubSeq
<1> QED
  BY <1>2, <1>3, <1>4

\* A frame of a message: a fragment, or the last one.
LEMMA SendInv ==
    ASSUME Inv, NEW message \in Messages, NEW from \in Nat, NEW opcode, NEW form \in Forms,
           NEW n \in Nat, from + n <= Len(message), Send(message, from, opcode, form, n),
           frames < MaxFrames \/ (saying # <<>> /\ from + n = Len(message)),
           \/ opcode = Text /\ from = 0 /\ saying = <<>>
           \/ opcode = Continuation /\ saying = message /\ from = gone
    PROVE  Inv'
<1> DEFINE now == from + n
           all == now = Len(message)
           good == Len(message) >= 3 /\ message \notin Garbled
           used == IF good THEN form ELSE Short
           payload == SubSeq(message, from + 1, now)
           f == [final |-> all, opcode |-> opcode, form |-> used, payload |-> payload]
           r == IF all THEN NoBuffer ELSE SubSeq(message, 1, now)
<1>1. /\ Fits(used, Len(payload)) /\ ~faulty /\ frames' = frames + 1
      /\ socket' = socket \o Frame(all, opcode, used, payload)
      /\ UNCHANGED plugin
      /\ saying' = IF all THEN <<>> ELSE message
      /\ gone' = IF all THEN 0 ELSE now
      /\ sent' = IF all /\ good THEN Append(sent, message) ELSE sent
      /\ faulty' = (faulty \/ (all /\ ~good))
  BY DEF Send, Write
<1>2. /\ message \in Seq(Byte) /\ Len(message) \in Nat /\ message # <<>>
      /\ now \in Nat /\ from <= now /\ now <= Len(message)
  BY MessagesAreBytes
<1>3. /\ payload \in Seq(Byte) /\ SubSeq(message, 1, now) \in Seq(Byte)
      /\ SubSeq(message, 1, from) \o payload = SubSeq(message, 1, now)
  BY <1>2, NextPart
<1>4. all => SubSeq(message, 1, now) = message
  BY <1>2, SubSeqFull
<1>5. opcode \in 0 .. 15
  BY DEF Text, Continuation
<1>6. used \in Forms \cup {Short} /\ all \in BOOLEAN /\ good \in BOOLEAN
  BY ShortIs
<1> HIDE DEF used, payload, now, all, good
<1>7. f \in Records /\ Coding(f) = Frame(all, opcode, used, payload)
  BY <1>1, <1>3, <1>5, <1>6, Recorded
<1>8. f.opcode = opcode /\ f.final = all /\ f.payload = payload
  OBVIOUS
<1> HIDE DEF f
<1>9. sent \in Seq(Messages) /\ Len(sent) \in Nat /\ faulty \in BOOLEAN
  BY LenProperties DEF Inv, Types
<1>10. /\ sent' \in Seq(Messages) /\ Len(sent') \in Nat /\ Len(sent) <= Len(sent')
       /\ \A i \in 1 .. Len(sent) : sent'[i] = sent[i]
       /\ all /\ good => Len(sent') = Len(sent) + 1 /\ sent'[Len(sent')] = message
       /\ ~(all /\ good) => Len(sent') = Len(sent)
  <2>1. CASE all /\ good
    <3>1. sent' = Append(sent, message)
      BY <1>1, <2>1
    <3> DEFINE t == Append(sent, message)
    <3>2. /\ t \in Seq(Messages) /\ Len(t) = Len(sent) + 1
          /\ \A i \in 1 .. Len(sent) : t[i] = sent[i]
          /\ t[Len(sent) + 1] = message
      BY <1>9, AppendProperties
    <3> HIDE DEF t
    <3>3. t[Len(t)] = message /\ Len(t) \in Nat /\ Len(sent) <= Len(t)
      BY <1>9, <3>2
    <3>4. sent' = t
      BY <3>1 DEF t
    <3> QED
      BY <2>1, <3>2, <3>3, <3>4
  <2>2. CASE ~(all /\ good)
    <3>1. sent' = sent
      BY <1>1, <2>2
    <3> QED
      BY <1>9, <2>2, <3>1
  <2> QED
    BY <2>1, <2>2
<1>11. socket' \in Seq(Byte) /\ socket' = socket \o Coding(f)
  <2>1. socket \in Seq(Byte) /\ Coding(f) \in Seq(Byte)
    BY <1>7, CodingIs DEF Inv, Types
  <2> QED
    BY <1>1, <1>7, <2>1, JoinedBytes
<1>12. Types'
  <2>1. frames' \in 0 .. MaxFrames + 1 /\ (saying' # <<>> => frames' <= MaxFrames)
    <3>1. frames \in Nat /\ MaxFrames \in Nat
      BY HybiAssumption DEF Inv, Types
    <3>2. CASE frames < MaxFrames
      BY <1>1, <3>1, <3>2
    <3>3. CASE saying # <<>> /\ from + n = Len(message)
      <4>1. all
        BY <3>3 DEF all, now
      <4>2. frames <= MaxFrames
        BY <3>3 DEF Inv, Types
      <4>3. saying' = <<>> /\ frames' = frames + 1
        BY <1>1, <4>1
      <4> QED
        BY <3>1, <4>2, <4>3
    <3> QED
      BY <3>2, <3>3
  <2>2. gone' \in Nat /\ gone' <= Len(saying') /\ saying' \in Messages \cup {<<>>}
    <3>1. CASE all
      <4>1. gone' = 0 /\ saying' = <<>> /\ Len(<<>>) = 0
        BY <1>1, <3>1, EmptySeq
      <4> QED
        BY <4>1
    <3>2. CASE ~all
      BY <1>1, <1>2, <3>2
    <3> QED
      BY <3>1, <3>2
  <2>3. faulty' \in BOOLEAN
    BY <1>1, <1>6, <1>9
  <2> QED
    BY <1>1, <1>10, <1>11, <2>1, <2>2, <2>3 DEF Inv, Types, plugin
<1>13. Partial' = r /\ r \in Fragments
  <2>1. CASE all
    BY <1>1, <2>1 DEF Partial, Fragments
  <2>2. CASE ~all
    BY <1>1, <1>2, <1>3, <2>2 DEF Partial, Fragments
  <2> QED
    BY <2>1, <2>2
<1>14. good => Good(message)
  BY DEF good, Good
<1>15. ~good => Bad(message)
  BY <1>2 DEF good, Bad
<1>16. all /\ ~good => faulty'
  BY <1>1
<1>17. all /\ good => Hands(message, sent', Len(sent), Len(sent'))
  BY <1>9, <1>10, <1>14 DEF Hands
<1>18. \/ Moves(f, sent', Partial, Len(sent), r, Len(sent'))
       \/ faulty' /\ Breaches(f, Partial)
  <2>1. CASE opcode = Text /\ from = 0 /\ saying = <<>>
    <3>1. Partial = NoBuffer
      BY <2>1 DEF Partial
    <3>2. payload = SubSeq(message, 1, now)
      BY <2>1 DEF payload
    <3>3. CASE all /\ good
      BY <1>4, <1>8, <1>17, <2>1, <3>1, <3>2, <3>3 DEF Moves
    <3>4. CASE all /\ ~good
      BY <1>4, <1>8, <1>15, <1>16, <2>1, <3>1, <3>2, <3>4 DEF Breaches
    <3>5. CASE ~all
      BY <1>8, <1>10, <2>1, <3>1, <3>2, <3>5 DEF Moves
    <3> QED
      BY <3>3, <3>4, <3>5
  <2>2. CASE opcode = Continuation /\ saying = message /\ from = gone
    <3>1. Partial = SubSeq(message, 1, from) /\ Partial # NoBuffer
      BY <1>2, <2>2, PartialIs DEF Partial
    <3>2. Partial \o payload = SubSeq(message, 1, now)
      BY <1>3, <3>1
    <3>3. CASE all /\ good
      BY <1>4, <1>8, <1>17, <2>2, <3>1, <3>2, <3>3 DEF Moves
    <3>4. CASE all /\ ~good
      BY <1>4, <1>8, <1>15, <1>16, <2>2, <3>1, <3>2, <3>4 DEF Breaches
    <3>5. CASE ~all
      BY <1>8, <1>10, <2>2, <3>1, <3>2, <3>5 DEF Moves
    <3> QED
      BY <3>3, <3>4, <3>5
  <2> QED
    BY <2>1, <2>2
<1> HIDE DEF r
<1>19. UNCHANGED plugin /\ ~faulty
  BY <1>1
<1> QED
  BY <1>7, <1>10, <1>11, <1>12, <1>13, <1>18, <1>19, Written

\* Whatever the server writes.
LEMMA ServerInv == Inv /\ Server => Inv'
<1> SUFFICES ASSUME Inv, Server PROVE Inv'
  OBVIOUS
<1>1. ASSUME NEW message \in Messages, NEW form \in Forms, NEW n \in Pieces \cup {Len(message)},
             n <= Len(message), Begin(message, form, n)
      PROVE  Inv'
  <2>1. n \in Nat /\ 0 + n <= Len(message)
    BY <1>1, MessagesAreBytes, HybiAssumption
  <2> QED
    BY <1>1, <2>1, SendInv DEF Begin
<1>2. ASSUME NEW form \in Forms, NEW n \in Pieces \cup {Len(saying) - gone},
             gone + n <= Len(saying), Continue(form, n)
      PROVE  Inv'
  <2>1. saying \in Messages /\ gone \in Nat
    BY <1>2 DEF Continue, Inv, Types
  <2>2. n \in Nat
    <3>1. Len(saying) \in Nat /\ gone <= Len(saying)
      BY <2>1, MessagesAreBytes DEF Inv, Types
    <3>2. Pieces \subseteq Nat
      BY HybiAssumption
    <3> QED
      BY <2>1, <3>1, <3>2
  <2> QED
    BY <1>2, <2>1, <2>2, SendInv DEF Continue
<1> QED
  BY <1>1, <1>2, ControlInv, BreakInv DEF Server

----------------------------------------------------------------------------
(* What the plugin does with a frame.                                         *)

\* Nothing is handed on, or the next message that was sent.
HandsNext ==
    \/ delivered' = delivered
    \/ /\ Len(delivered) < Len(sent)
       /\ delivered' = Append(delivered, sent[Len(delivered) + 1])

\* A frame for which nothing is handed on.
LEMMA NothingHanded ==
    ASSUME delivered \in Seq(Messages), Handled(<<>>)
    PROVE  delivered' = delivered /\ processing' = TRUE /\ error' = error
<1>1. delivered \o <<>> = delivered
  BY ConcatEmptySeq
<1> QED
  BY <1>1 DEF Handled, GoesOn

\* A message that is complete and good is the next one.
LEMMA Dispatched ==
    ASSUME Inv, NEW message, NEW d, Hands(message, sent, Len(delivered), d),
           ~Bad(message) =>
               delivered' = delivered \o (IF message = Pin THEN <<>> ELSE <<message>>)
    PROVE  HandsNext /\ Len(delivered') = d /\ ~Bad(message)
<1>1. delivered \in Seq(Messages) /\ Len(delivered) \in Nat
  BY LenProperties DEF Inv, Types
<1>2. CASE message = Pin /\ d = Len(delivered)
  <2> DEFINE n == Len(message)
  <2>1. n \in 3 .. 125 /\ message \notin Garbled
    BY <1>2, MessagesAreBytes, HybiAssumption
  <2> HIDE DEF n
  <2>2. ~(n < 3)
    BY <2>1
  <2>3. ~Bad(message)
    BY <2>1, <2>2 DEF Bad, n
  <2>4. delivered' = delivered
    <3>1. delivered' = delivered \o <<>>
      BY <1>2, <2>3
    <3> QED
      BY <1>1, <3>1, ConcatEmptySeq
  <2> QED
    BY <1>1, <1>2, <2>3, <2>4 DEF HandsNext
<1>3. CASE Good(message) /\ d = Len(delivered) + 1 /\ d <= Len(sent) /\ sent[d] = message
  <2>1. message \in Messages /\ message \notin Garbled /\ message # Pin /\ Len(message) \in Nat
    BY <1>3, MessagesAreBytes DEF Good
  <2>2. ~Bad(message)
    BY <1>3, <2>1 DEF Good, Bad
  <2>3. delivered' = delivered \o <<message>>
    BY <2>1, <2>2
  <2>4. delivered' = Append(delivered, message)
    <3>1. Append(delivered, message) = delivered \o <<message>>
      BY <1>1, <2>1, AppendIsConcat
    <3> QED
      BY <2>3, <3>1
  <2>5. Len(delivered') = d
    BY <1>1, <1>3, <2>1, <2>4, AppendProperties
  <2>6. Len(delivered) < Len(sent)
    <3>1. Len(sent) \in Nat
      BY LenProperties DEF Inv, Types
    <3> QED
      BY <1>1, <1>3, <3>1
  <2>7. HandsNext
    BY <1>3, <2>4, <2>6 DEF HandsNext
  <2> QED
    BY <2>2, <2>5, <2>7
<1> QED
  BY <1>2, <1>3 DEF Hands

\* What is handed on stays the beginning of what was sent.
LEMMA HandedNext ==
    ASSUME Inv, HandsNext, UNCHANGED sent
    PROVE  HandedOn' /\ delivered' \in Seq(Messages)
<1>1. /\ delivered \in Seq(Messages) /\ Len(delivered) \in Nat
      /\ sent \in Seq(Messages) /\ Len(sent) \in Nat
  BY LenProperties DEF Inv, Types
<1>2. CASE delivered' = delivered
  BY <1>1, <1>2 DEF Inv, HandedOn
<1>3. CASE Len(delivered) < Len(sent) /\ delivered' = Append(delivered, sent[Len(delivered) + 1])
  <2> DEFINE m == sent[Len(delivered) + 1]
             t == Append(delivered, m)
             l == Len(delivered)
  <2>1. m \in Messages
    <3>1. Len(delivered) + 1 \in 1 .. Len(sent)
      BY <1>1, <1>3
    <3> QED
      BY <1>1, <3>1, ElementOfSeq
  <2>2. /\ t \in Seq(Messages) /\ Len(t) = l + 1
        /\ \A i \in 1 .. l : t[i] = delivered[i]
        /\ t[l + 1] = m
    BY <1>1, <2>1, AppendProperties
  <2>3. \A i \in 1 .. l : delivered[i] = sent[i]
    BY DEF Inv, HandedOn
  <2>4. m = sent[l + 1] /\ l < Len(sent) /\ l \in Nat
    BY <1>1, <1>3
  <2>5. delivered' = t
    BY <1>3
  <2> HIDE DEF t, m, l
  <2>6. Len(t) <= Len(sent)
    BY <1>1, <2>2, <2>4
  <2>7. ASSUME NEW i \in 1 .. Len(t) PROVE t[i] = sent[i]
    <3>1. i \in 1 .. l \/ i = l + 1
      BY <2>2, <2>4
    <3> QED
      BY <2>2, <2>3, <2>4, <3>1
  <2> QED
    BY <2>2, <2>5, <2>6, <2>7 DEF HandedOn
<1> QED
  BY <1>2, <1>3 DEF HandsNext

\* A frame by the rules moves the fragments and the messages as its record says.
LEMMA MovesOn ==
    ASSUME Inv, TakeFrame, NEW f \in Records, NEW r, NEW d,
           Reads(rx_buf, f.final, f.opcode, Len(Coding(f)), f.payload),
           Moves(f, sent, frame_buffer, Len(delivered), r, d)
    PROVE  /\ HandsNext /\ Len(delivered') = d /\ frame_buffer' = r
           /\ processing' = TRUE /\ error' = error
<1>1. /\ IsFinal(rx_buf) <=> f.final
      /\ Opcode(rx_buf) = f.opcode /\ Payload(rx_buf) = f.payload
  BY DEF Reads
<1>2. /\ Opcode(rx_buf) = Text => DataFrame(Payload(rx_buf))
      /\ Opcode(rx_buf) = Continuation => ContinuationFrame(Payload(rx_buf))
      /\ Opcode(rx_buf) \in {Ping, Pong} => ControlFrame
  BY DEF TakeFrame, Text, Binary, Continuation, Ping, Pong
<1>3. delivered \in Seq(Messages)
  BY DEF Inv, Types
<1>4. CASE f.opcode \in {Ping, Pong} /\ f.final /\ r = frame_buffer /\ d = Len(delivered)
  <2>1. Handled(<<>>) /\ frame_buffer' = frame_buffer
    BY <1>1, <1>2, <1>4 DEF ControlFrame
  <2> QED
    BY <1>3, <1>4, <2>1, NothingHanded DEF HandsNext
<1>5. CASE /\ f.opcode = Text /\ frame_buffer = NoBuffer /\ ~f.final
           /\ r = f.payload /\ d = Len(delivered)
  <2>1. Handled(<<>>) /\ frame_buffer' = f.payload
    BY <1>1, <1>2, <1>5 DEF DataFrame
  <2> QED
    BY <1>3, <1>5, <2>1, NothingHanded DEF HandsNext
<1>6. CASE /\ f.opcode = Text /\ frame_buffer = NoBuffer /\ f.final
           /\ r = NoBuffer /\ Hands(f.payload, sent, Len(delivered), d)
  <2>1. Dispatch(f.payload) /\ frame_buffer' = frame_buffer
    BY <1>1, <1>2, <1>6 DEF DataFrame
  <2>2. Hands(f.payload, sent, Len(delivered), d)
    BY <1>6
  <2> DEFINE m == f.payload
  <2>3. ~Bad(m) => /\ delivered' = delivered \o (IF m = Pin THEN <<>> ELSE <<m>>)
                   /\ processing' = TRUE /\ error' = error
    BY <2>1 DEF Bad, Dispatch, Handled, GoesOn
  <2> HIDE DEF m
  <2>4. HandsNext /\ Len(delivered') = d /\ ~Bad(m)
    BY <2>2, <2>3, Dispatched DEF m
  <2>5. HandsNext /\ Len(delivered') = d /\ processing' = TRUE /\ error' = error
    BY <2>3, <2>4
  <2>6. frame_buffer' = r
    BY <1>6, <2>1
  <2> QED
    BY <2>5, <2>6
<1>7. CASE /\ f.opcode = Continuation /\ frame_buffer # NoBuffer /\ ~f.final
           /\ r = frame_buffer \o f.payload /\ d = Len(delivered)
  <2>1. Handled(<<>>) /\ frame_buffer' = frame_buffer \o f.payload
    BY <1>1, <1>2, <1>7 DEF ContinuationFrame
  <2> QED
    BY <1>3, <1>7, <2>1, NothingHanded DEF HandsNext
<1>8. CASE /\ f.opcode = Continuation /\ frame_buffer # NoBuffer /\ f.final
           /\ r = NoBuffer /\ Hands(frame_buffer \o f.payload, sent, Len(delivered), d)
  <2>1. Dispatch(frame_buffer \o f.payload) /\ frame_buffer' = NoBuffer
    BY <1>1, <1>2, <1>8 DEF ContinuationFrame, NoFragments
  <2>2. Hands(frame_buffer \o f.payload, sent, Len(delivered), d)
    BY <1>8
  <2> DEFINE m == frame_buffer \o f.payload
  <2>3. ~Bad(m) => /\ delivered' = delivered \o (IF m = Pin THEN <<>> ELSE <<m>>)
                   /\ processing' = TRUE /\ error' = error
    BY <2>1 DEF Bad, Dispatch, Handled, GoesOn
  <2> HIDE DEF m
  <2>4. HandsNext /\ Len(delivered') = d /\ ~Bad(m)
    BY <2>2, <2>3, Dispatched DEF m
  <2>5. HandsNext /\ Len(delivered') = d /\ processing' = TRUE /\ error' = error
    BY <2>3, <2>4
  <2>6. frame_buffer' = r
    BY <1>8, <2>1
  <2> QED
    BY <2>5, <2>6
<1> QED
  BY <1>4, <1>5, <1>6, <1>7, <1>8 DEF Moves

\* A frame against the rules is refused.
LEMMA RefusedIt ==
    ASSUME Inv, TakeFrame, NEW f \in Records,
           Reads(rx_buf, f.final, f.opcode, Len(Coding(f)), f.payload),
           Breaches(f, frame_buffer)
    PROVE  /\ Refused /\ frame_buffer' \in Fragments
<1>1. /\ IsFinal(rx_buf) <=> f.final
      /\ Opcode(rx_buf) = f.opcode /\ Payload(rx_buf) = f.payload
  BY DEF Reads
<1>2. /\ Opcode(rx_buf) = Text => DataFrame(Payload(rx_buf))
      /\ Opcode(rx_buf) = Continuation => ContinuationFrame(Payload(rx_buf))
      /\ Opcode(rx_buf) \in {Ping, Pong, Close, Other} => ControlFrame
  BY DEF TakeFrame, Text, Binary, Continuation, Ping, Pong, Close, Other
<1>3. frame_buffer \in Fragments /\ NoBuffer \in Fragments
  BY LinksAre DEF Inv, Framed, Fragments
<1>4. \A message : Bad(message) /\ Dispatch(message) => Refused
  BY DEF Bad, Dispatch
<1>5. CASE f.opcode \in {Close, Other}
  <2>1. Opcode(rx_buf) \notin {Ping, Pong}
    BY <1>1, <1>5 DEF Close, Other, Ping, Pong
  <2> QED
    BY <1>1, <1>2, <1>3, <1>5, <2>1 DEF ControlFrame
<1>6. CASE f.opcode \in {Ping, Pong} /\ ~f.final
  BY <1>1, <1>2, <1>3, <1>6 DEF ControlFrame
<1>7. CASE f.opcode = Text /\ frame_buffer # NoBuffer
  BY <1>1, <1>2, <1>3, <1>7 DEF DataFrame
<1>8. CASE f.opcode = Continuation /\ frame_buffer = NoBuffer
  BY <1>1, <1>2, <1>3, <1>8 DEF ContinuationFrame
<1>9. CASE f.opcode = Text /\ frame_buffer = NoBuffer /\ f.final /\ Bad(f.payload)
  BY <1>1, <1>2, <1>3, <1>4, <1>9 DEF DataFrame
<1>10. CASE /\ f.opcode = Continuation /\ frame_buffer # NoBuffer /\ f.final
            /\ Bad(frame_buffer \o f.payload)
  BY <1>1, <1>2, <1>3, <1>4, <1>10 DEF ContinuationFrame, NoFragments
<1> QED
  BY <1>5, <1>6, <1>7, <1>8, <1>9, <1>10 DEF Breaches

\* The frame at the front of the buffer is the first of the records.
LEMMA FirstIs ==
    ASSUME Inv, status = "identify", Complete(rx_buf)
    PROVE  \E f \in Records, r \in Fragments, d \in 0 .. Len(sent) :
             /\ Reads(rx_buf, f.final, f.opcode, Len(Coding(f)), f.payload)
             /\ Whole(After(rx_buf), held, socket) \in Seq(Byte) /\ After(rx_buf) \in Seq(Byte)
             /\ Links(0, Whole(After(rx_buf), held, socket), sent, faulty, r, d, Partial)
             /\ \/ Moves(f, sent, frame_buffer, Len(delivered), r, d)
                \/ /\ faulty /\ Breaches(f, frame_buffer)
                   /\ Len(Whole(After(rx_buf), held, socket)) = 0
<1>1. /\ rx_buf \in Seq(Byte) /\ held \in Seq(Byte) /\ socket \in Seq(Byte)
      /\ Len(rx_buf) \in Nat /\ Len(rx_buf) >= 2
  BY LenProperties DEF Inv, Types, Complete
<1>2. /\ All \in Seq(Byte) /\ Starts(All, rx_buf) /\ Len(All) \in Nat /\ Len(rx_buf) <= Len(All)
  <2>1. All \in Seq(Byte) /\ Starts(All, rx_buf)
    BY <1>1, WholeIs DEF All
  <2> QED
    BY <2>1, LenProperties DEF Starts
<1>3. Links(0, All, sent, faulty, frame_buffer, Len(delivered), Partial)
  BY DEF Inv, Framed, Base
<1>4. Len(All) # 0
  BY <1>1, <1>2
<1>5. PICK f \in Records, next \in Nat, r \in Fragments, d \in 0 .. Len(sent) :
          /\ Holds(All, 0, next, f)
          /\ next <= Len(All)
          /\ Links(next, All, sent, faulty, r, d, Partial)
          /\ \/ Moves(f, sent, frame_buffer, Len(delivered), r, d)
             \/ faulty /\ Breaches(f, frame_buffer) /\ next = Len(All)
  <2>1. 0 = Len(All) \/ Leads(0, All, sent, faulty, frame_buffer, Len(delivered), Partial)
    BY <1>2, <1>3, LinksTail
  <2> QED
    BY <1>4, <2>1 DEF Leads
<1> DEFINE c == Coding(f)
<1>6. c \in Seq(Byte) /\ Len(c) \in Nat
  BY CodingIs
<1>7. next = Len(c) /\ \A i \in 1 .. Len(c) : All[i] = c[i]
  BY <1>5, <1>6 DEF Holds
<1> HIDE DEF c
<1>8. Starts(All, c)
  BY <1>5, <1>7 DEF Starts
<1>9. Starts(rx_buf, c)
  BY <1>1, <1>2, <1>8, NotBefore DEF c
<1>10. Reads(rx_buf, f.final, f.opcode, Len(c), f.payload)
  BY <1>1, <1>9, Found DEF c
<1>11. After(rx_buf) = SubSeq(rx_buf, next + 1, Len(rx_buf)) /\ next \in 0 .. Len(rx_buf)
  <2>1. HeaderLength(rx_buf) + PayloadLength(rx_buf) = next
    BY <1>7, <1>10 DEF Reads
  <2>2. next <= Len(rx_buf)
    BY <1>7, <1>9 DEF Starts
  <2>3. next \in 0 .. Len(rx_buf)
    BY <1>1, <2>2
  <2>4. After(rx_buf) = SubSeq(rx_buf, next + 1, Len(rx_buf))
    BY <2>1 DEF After
  <2> QED
    BY <2>3, <2>4
<1> DEFINE rest == Whole(After(rx_buf), held, socket)
           tail == SubSeq(All, next + 1, Len(All))
<1>12. rest = tail
  BY <1>1, <1>11, WholeBehind DEF All
<1>13. After(rx_buf) \in Seq(Byte)
  BY <1>1, <1>11, TwoParts
<1>14. rest \in Seq(Byte)
  BY <1>1, <1>13, WholeIs
<1>15. Links(0, tail, sent, faulty, r, d, Partial)
  BY <1>2, <1>5, LinksBehind
<1>16. next = Len(All) => Len(tail) = 0
  <2>1. SubSeq(All, Len(All) + 1, Len(All)) = <<>>
    BY <1>2, SubSeqEmpty
  <2> QED
    BY <2>1
<1> HIDE DEF rest, tail
<1>17. /\ Reads(rx_buf, f.final, f.opcode, Len(Coding(f)), f.payload)
       /\ rest \in Seq(Byte) /\ After(rx_buf) \in Seq(Byte)
       /\ Links(0, rest, sent, faulty, r, d, Partial)
       /\ \/ Moves(f, sent, frame_buffer, Len(delivered), r, d)
          \/ faulty /\ Breaches(f, frame_buffer) /\ Len(rest) = 0
  BY <1>5, <1>10, <1>12, <1>13, <1>14, <1>15, <1>16 DEF c
<1> QED
  BY <1>17 DEF rest

\* One round of the loop.
LEMMA TakeFrameInv ==
    Inv /\ TakeFrame =>
        /\ Inv'
        /\ (HandsNext /\ error' = error) \/ (faulty' /\ error' = TRUE /\ delivered' = delivered)
<1> SUFFICES ASSUME Inv, TakeFrame
             PROVE  /\ Inv'
                    /\ \/ HandsNext /\ error' = error
                       \/ faulty' /\ error' = TRUE /\ delivered' = delivered
  OBVIOUS
<1>1. /\ processing /\ Complete(rx_buf) /\ status = "identify" /\ rx_buf' = After(rx_buf)
      /\ UNCHANGED <<status, held, socket, faulty, saying, gone, sent, frames>>
  BY DEF TakeFrame, server, Inv, Types
<1> DEFINE rest == Whole(After(rx_buf), held, socket)
<1>2. PICK f \in Records, r \in Fragments, d \in 0 .. Len(sent) :
          /\ Reads(rx_buf, f.final, f.opcode, Len(Coding(f)), f.payload)
          /\ rest \in Seq(Byte) /\ After(rx_buf) \in Seq(Byte)
          /\ Links(0, rest, sent, faulty, r, d, Partial)
          /\ \/ Moves(f, sent, frame_buffer, Len(delivered), r, d)
             \/ faulty /\ Breaches(f, frame_buffer) /\ Len(rest) = 0
  BY <1>1, FirstIs
<1>3. All' = rest /\ Base' = 0 /\ Partial' = Partial
  BY <1>1 DEF All, Base, Partial
<1> HIDE DEF rest
<1>4. Unanswered'
  BY <1>1 DEF Unanswered
<1>5. CASE Moves(f, sent, frame_buffer, Len(delivered), r, d)
  <2>1. /\ HandsNext /\ Len(delivered') = d /\ frame_buffer' = r
        /\ processing' = TRUE /\ error' = error
    BY <1>2, <1>5, MovesOn
  <2>2. HandedOn' /\ delivered' \in Seq(Messages)
    BY <1>1, <2>1, HandedNext
  <2>3. Types'
    BY <1>1, <1>2, <2>1, <2>2 DEF Inv, Types
  <2>4. Framed'
    BY <1>1, <1>2, <1>3, <2>1 DEF Framed
  <2>5. NothingWaits' /\ Blamed'
    BY <1>1, <2>1 DEF Inv, NothingWaits, Blamed
  <2> QED
    BY <1>4, <2>1, <2>2, <2>3, <2>4, <2>5 DEF Inv
<1>6. CASE faulty /\ Breaches(f, frame_buffer) /\ Len(rest) = 0
  <2>1. /\ error' = TRUE /\ processing' = FALSE /\ delivered' = delivered
        /\ frame_buffer' \in Fragments
    BY <1>2, <1>6, RefusedIt DEF Refused
  <2>2. Types'
    BY <1>1, <1>2, <2>1 DEF Inv, Types
  <2>3. HandedOn' /\ NothingWaits' /\ Blamed' /\ faulty'
    BY <1>1, <1>6, <2>1 DEF Inv, HandedOn, NothingWaits, Blamed
  <2>4. Framed'
    <3>1. Len(delivered) \in 0 .. Len(sent) /\ Len(sent) \in Nat /\ faulty = TRUE
      BY <1>6, LenProperties DEF Inv, Types, HandedOn
    <3>2. Links(Len(rest), rest, sent, TRUE, frame_buffer', Len(delivered), Partial)
      BY <1>2, <2>1, <3>1, NoLinks
    <3> QED
      BY <1>1, <1>3, <1>6, <2>1, <3>1, <3>2 DEF Framed
  <2> QED
    BY <1>4, <2>1, <2>2, <2>3, <2>4 DEF Inv
<1> QED
  BY <1>2, <1>5, <1>6

----------------------------------------------------------------------------
(* What the plugin reads.                                                     *)

\* The reply, byte by byte.
LEMMA ReplyBytes ==
    ASSUME NEW first \in {0, OK}
    PROVE  /\ Reply(first)[1] # CR /\ (Reply(first)[1] = OK <=> first = OK)
           /\ Reply(first)[2] = CR /\ Reply(first)[3] = LF /\ Reply(first)[4] = 65
           /\ Reply(first)[5] = CR /\ Reply(first)[6] = LF
           /\ Reply(first)[7] = CR /\ Reply(first)[8] = LF
  BY DEF Reply, OK, CR, LF

\* Where the lines of the reply end.
LEMMA LinesOf ==
    ASSUME NEW bytes \in Seq(Byte), NEW first \in {0, OK},
           \A i \in 1 .. 8 : i <= Len(bytes) => bytes[i] = Reply(first)[i]
    PROVE  /\ \A i \in Breaks(bytes) : i = 2 \/ i = 5 \/ i >= 7
           /\ Len(bytes) >= 8 => 5 \in Breaks(bytes) /\ 7 \in Breaks(bytes)
           /\ Breaks(bytes) # {} => Len(bytes) >= 1
           /\ Breaks(bytes) \subseteq 1 .. Len(bytes) - 1
<1> DEFINE l == Len(bytes)
           re(i) == Reply(first)[i]
<1>1. l \in Nat
  BY LenProperties
<1>2. /\ re(1) # CR /\ re(2) = CR /\ re(3) = LF /\ re(4) = 65 /\ re(5) = CR /\ re(6) = LF
      /\ re(7) = CR /\ re(8) = LF /\ LF # CR /\ CR # 65
  BY ReplyBytes DEF CR, LF
<1>3. \A i \in 1 .. 8 : i <= l => bytes[i] = re(i)
  OBVIOUS
<1> HIDE DEF re
<1>4. ASSUME NEW i \in Breaks(bytes) PROVE i = 2 \/ i = 5 \/ i >= 7
  <2>1. i \in 1 .. l - 1 /\ bytes[i] = CR
    BY DEF Breaks
  <2>2. SUFFICES ASSUME i < 7 PROVE i = 2 \/ i = 5
    BY <1>1, <2>1
  <2>3. i \in {1, 2, 3, 4, 5, 6} /\ i <= l
    BY <1>1, <2>1, <2>2
  <2>4. bytes[i] = re(i)
    BY <1>3, <2>3
  <2> QED
    BY <1>2, <2>1, <2>3, <2>4
<1>5. ASSUME l >= 8 PROVE 5 \in Breaks(bytes) /\ 7 \in Breaks(bytes)
  <2>1. bytes[5] = CR /\ bytes[6] = LF /\ bytes[7] = CR /\ bytes[8] = LF
    BY <1>1, <1>2, <1>3, <1>5
  <2>2. 5 \in 1 .. l - 1 /\ 7 \in 1 .. l - 1
    BY <1>1, <1>5
  <2> QED
    BY <2>1, <2>2 DEF Breaks
<1>6. Breaks(bytes) \subseteq 1 .. l - 1
  BY DEF Breaks
<1>7. Breaks(bytes) # {} => l >= 1
  BY <1>1, <1>6
<1> QED
  BY <1>4, <1>5, <1>6, <1>7

\* The first empty line of the reply is its end.
LEMMA BlanksOf ==
    ASSUME NEW bytes \in Seq(Byte), NEW first \in {0, OK},
           \A i \in 1 .. 8 : i <= Len(bytes) => bytes[i] = Reply(first)[i]
    PROVE  /\ \A i \in Blanks(bytes) : i \in Nat /\ i >= 7 /\ i <= Len(bytes) - 1
           /\ Len(bytes) >= 8 => 7 \in Blanks(bytes)
<1>1. /\ \A i \in Breaks(bytes) : i = 2 \/ i = 5 \/ i >= 7
      /\ Len(bytes) >= 8 => 5 \in Breaks(bytes) /\ 7 \in Breaks(bytes)
      /\ Breaks(bytes) \subseteq 1 .. Len(bytes) - 1
  BY LinesOf
<1>2. Len(bytes) \in Nat
  BY LenProperties
<1>3. ASSUME NEW i \in Blanks(bytes) PROVE i \in Nat /\ i >= 7 /\ i <= Len(bytes) - 1
  <2>1. i \in Breaks(bytes) /\ (i = 1 \/ i - 2 \in Breaks(bytes))
    BY DEF Blanks
  <2>2. i \in 1 .. Len(bytes) - 1
    BY <1>1, <2>1
  <2>3. i - 2 \in Breaks(bytes) => i - 2 = 2 \/ i - 2 = 5 \/ i - 2 >= 7
    BY <1>1
  <2>4. i = 2 \/ i = 5 \/ i >= 7
    BY <1>1, <2>1
  <2>5. i \in Nat /\ i <= Len(bytes) - 1
    BY <1>2, <2>2
  <2>6. i >= 7
    BY <2>1, <2>3, <2>4, <2>5
  <2> QED
    BY <2>5, <2>6
<1>4. ASSUME Len(bytes) >= 8 PROVE 7 \in Blanks(bytes)
  <2>1. 7 - 2 = 5
    OBVIOUS
  <2>2. 5 \in Breaks(bytes) /\ 7 \in Breaks(bytes)
    BY <1>1, <1>4
  <2> QED
    BY <2>1, <2>2 DEF Blanks
<1> QED
  BY <1>3, <1>4

\* What the least element is.
LEMMA MinIs ==
    ASSUME NEW S, NEW m \in S, \A x \in S : x \in Nat /\ x >= m
    PROVE  Min(S) = m
<1>1. \A y \in S : m <= y
  OBVIOUS
<1>2. Min(S) \in S /\ \A y \in S : Min(S) <= y
  BY <1>1 DEF Min
<1> QED
  BY <1>2

\* The reply is taken for what it is, and no frame with it.
LEMMA ReplySeen ==
    ASSUME NEW bytes \in Seq(Byte), NEW all \in Seq(Byte), Starts(all, bytes),
           NEW bad \in BOOLEAN, Opened(all, bad)
    PROVE  /\ Breaks(bytes) # {} /\ bytes[1] # OK => bad
           /\ Blanks(bytes) = {} => Len(bytes) < 8
           /\ Blanks(bytes) # {} =>
                Len(bytes) >= 8 /\ AfterReply(bytes, Min(Blanks(bytes))) = SubSeq(bytes, 9, Len(bytes))
<1>1. PICK first \in {0, OK} : (\A i \in 1 .. 8 : all[i] = Reply(first)[i]) /\ (first = 0 => bad)
  BY DEF Opened
<1>2. Len(bytes) \in Nat
  BY LenProperties
<1>3. \A i \in 1 .. Len(bytes) : all[i] = bytes[i]
  BY DEF Starts
<1>4. \A i \in 1 .. 8 : i <= Len(bytes) => bytes[i] = Reply(first)[i]
  BY <1>1, <1>2, <1>3
<1>5. ASSUME Breaks(bytes) # {}, bytes[1] # OK PROVE bad
  <2>1. Len(bytes) >= 1
    BY <1>4, <1>5, LinesOf
  <2>2. bytes[1] = Reply(first)[1]
    BY <1>4, <2>1
  <2> QED
    BY <1>1, <1>5, <2>2, ReplyBytes
<1>6. /\ \A i \in Blanks(bytes) : i \in Nat /\ i >= 7 /\ i <= Len(bytes) - 1
      /\ Len(bytes) >= 8 => 7 \in Blanks(bytes)
  BY <1>4, BlanksOf
<1>7. Blanks(bytes) = {} => Len(bytes) < 8
  BY <1>2, <1>6
<1>8. ASSUME Blanks(bytes) # {}
      PROVE  Len(bytes) >= 8 /\ AfterReply(bytes, Min(Blanks(bytes))) = SubSeq(bytes, 9, Len(bytes))
  <2>1. Len(bytes) >= 8
    BY <1>2, <1>6, <1>8
  <2>2. 7 \in Blanks(bytes) /\ \A i \in Blanks(bytes) : i \in Nat /\ i >= 7
    BY <1>6, <2>1
  <2>3. Min(Blanks(bytes)) = 7
    BY <2>2, MinIs
  <2>4. 7 + 2 = 9
    OBVIOUS
  <2> QED
    BY <2>1, <2>3, <2>4 DEF AfterReply
<1> QED
  BY <1>5, <1>7, <1>8

\* An event of the event loop, while the handshake is under way or after it.
LEMMA ReadInv ==
    Inv /\ Read => /\ Inv'
                   /\ UNCHANGED <<sent, delivered, faulty>>
                   /\ error' = error \/ (faulty /\ error' = TRUE)
<1> SUFFICES ASSUME Inv, Read
             PROVE  /\ Inv'
                    /\ UNCHANGED <<sent, delivered, faulty>>
                    /\ error' = error \/ (faulty /\ error' = TRUE)
  OBVIOUS
<1>1. /\ ~processing
      /\ UNCHANGED <<frame_buffer, delivered, faulty, saying, gone, sent, frames>>
  BY DEF Read, server
<1>2. PICK n \in (IF held = <<>> THEN 1 .. Len(socket) ELSE {0}) :
         LET ready == held \o SubSeq(socket, 1, n)
             k     == IF Len(ready) < BufferSize THEN Len(ready) ELSE BufferSize
             bytes == rx_buf \o SubSeq(ready, 1, k)
         IN  /\ held' = SubSeq(ready, k + 1, Len(ready))
             /\ socket' = SubSeq(socket, n + 1, Len(socket))
             /\ IF status = "handshake" THEN Handshake(bytes)
                ELSE rx_buf' = bytes /\ processing' = TRUE /\ UNCHANGED <<status, error>>
  BY DEF Read
<1> DEFINE ready == held \o SubSeq(socket, 1, n)
           k == IF Len(ready) < BufferSize THEN Len(ready) ELSE BufferSize
           bytes == rx_buf \o SubSeq(ready, 1, k)
<1>3. /\ ReadTo(rx_buf, held, socket, n, k, bytes, held', socket')
      /\ IF status = "handshake" THEN Handshake(bytes)
         ELSE rx_buf' = bytes /\ processing' = TRUE /\ UNCHANGED <<status, error>>
  BY <1>2 DEF ReadTo
<1>4. rx_buf \in Seq(Byte) /\ held \in Seq(Byte) /\ socket \in Seq(Byte) /\ faulty \in BOOLEAN
  BY DEF Inv, Types
<1>5. n \in 0 .. Len(socket)
  BY <1>4, LenProperties
<1>6. k \in 0 .. Len(ready)
  <2>1. ready \in Seq(Byte)
    <3>1. SubSeq(socket, 1, n) \in Seq(Byte)
      BY <1>4, <1>5, TwoParts
    <3> QED
      BY <1>4, <3>1, JoinedBytes
  <2>2. Len(ready) \in Nat /\ BufferSize \in Nat
    BY <2>1, LenProperties, HybiAssumption
  <2> HIDE DEF ready
  <2> QED
    BY <2>2
<1> HIDE DEF k, bytes
<1>7. /\ bytes \in Seq(Byte) /\ held' \in Seq(Byte) /\ socket' \in Seq(Byte)
      /\ Whole(bytes, held', socket') = All
  BY <1>3, <1>4, <1>5, <1>6, ReadKeeps DEF All
<1> HIDE DEF ready
<1>8. All \in Seq(Byte) /\ Starts(All, bytes)
  BY <1>7, WholeIs
<1>9. HandedOn' /\ Partial' = Partial
  BY <1>1 DEF Inv, HandedOn, Partial
<1>10. ASSUME rx_buf' = bytes, status' = status, processing' \in BOOLEAN,
              processing' => status = "identify", error' \in BOOLEAN
       PROVE  Types' /\ Unanswered' /\ Framed'
  <2>1. Types'
    BY <1>1, <1>7, <1>10 DEF Inv, Types
  <2>2. All' = All /\ Base' = Base
    BY <1>7, <1>10 DEF All, Base
  <2> QED
    BY <1>1, <1>9, <1>10, <2>1, <2>2 DEF Inv, Unanswered, Framed
<1>11. CASE status # "handshake"
  <2>1. rx_buf' = bytes /\ processing' = TRUE /\ status' = status /\ error' = error
    BY <1>3, <1>11
  <2>2. Types' /\ Unanswered' /\ Framed'
    BY <1>10, <1>11, <2>1 DEF Inv, Types
  <2>3. NothingWaits' /\ Blamed'
    BY <1>1, <2>1 DEF Inv, NothingWaits, Blamed
  <2> QED
    BY <1>1, <1>9, <2>1, <2>2, <2>3 DEF Inv
<1>12. CASE status = "handshake"
  <2>1. Handshake(bytes)
    BY <1>3, <1>12
  <2>2. /\ Breaks(bytes) # {} /\ bytes[1] # OK => faulty
        /\ Blanks(bytes) = {} => Len(bytes) < 8
        /\ Blanks(bytes) # {} =>
             Len(bytes) >= 8 /\ AfterReply(bytes, Min(Blanks(bytes))) = SubSeq(bytes, 9, Len(bytes))
    BY <1>4, <1>7, <1>8, <1>12, ReplySeen DEF Inv, Unanswered
  <2>3. CASE Breaks(bytes) # {} /\ bytes[1] # OK
    <3>1. error' = TRUE /\ rx_buf' = bytes /\ status' = status /\ processing' = processing
      BY <2>1, <2>3 DEF Handshake
    <3>2. faulty /\ faulty'
      BY <1>1, <2>2, <2>3
    <3>3. Types' /\ Unanswered' /\ Framed'
      BY <1>1, <1>10, <3>1 DEF Inv, Types
    <3>4. NothingWaits' /\ Blamed'
      BY <3>2 DEF NothingWaits, Blamed
    <3> QED
      BY <1>1, <1>9, <3>1, <3>2, <3>3, <3>4 DEF Inv
  <2>4. CASE ~(Breaks(bytes) # {} /\ bytes[1] # OK) /\ Blanks(bytes) = {}
    <3>1. error' = error /\ rx_buf' = bytes /\ status' = status /\ processing' = processing
      BY <2>1, <2>4 DEF Handshake
    <3>2. Types' /\ Unanswered' /\ Framed'
      BY <1>1, <1>10, <3>1 DEF Inv, Types
    <3>3. NothingWaits' /\ Blamed'
      BY <1>1, <1>12, <2>2, <2>4, <3>1 DEF Inv, NothingWaits, Blamed
    <3> QED
      BY <1>1, <1>9, <3>1, <3>2, <3>3 DEF Inv
  <2>5. CASE ~(Breaks(bytes) # {} /\ bytes[1] # OK) /\ Blanks(bytes) # {}
    <3> DEFINE rest == SubSeq(bytes, 8 + 1, Len(bytes))
    <3>1. /\ error' = error /\ status' = "identify" /\ processing' = TRUE
          /\ rx_buf' = AfterReply(bytes, Min(Blanks(bytes)))
      BY <2>1, <2>5 DEF Handshake
    <3>2. rx_buf' = rest /\ Len(bytes) >= 8 /\ 8 \in 0 .. Len(bytes)
      <4>1. Len(bytes) \in Nat /\ 8 + 1 = 9
        BY <1>7, LenProperties
      <4> QED
        BY <2>2, <2>5, <3>1, <4>1
    <3>3. rest \in Seq(Byte)
      BY <1>7, <3>2, TwoParts
    <3>4. Whole(rest, held', socket') = SubSeq(All, 8 + 1, Len(All))
      BY <1>7, <3>2, WholeBehind
    <3>5. All' = SubSeq(All, 8 + 1, Len(All)) /\ Base' = 0
      BY <3>1, <3>2, <3>4 DEF All, Base
    <3> HIDE DEF rest
    <3>6. Types'
      BY <1>1, <1>7, <3>1, <3>2, <3>3 DEF Inv, Types
    <3>7. Links(0, SubSeq(All, 8 + 1, Len(All)), sent, faulty, frame_buffer, Len(delivered), Partial)
      <4>1. Links(8, All, sent, faulty, frame_buffer, Len(delivered), Partial)
        BY <1>12 DEF Inv, Framed, Base
      <4> QED
        BY <1>8, <4>1, LinksBehind
    <3>8. Framed'
      BY <1>1, <1>9, <3>5, <3>7 DEF Framed
    <3>9. Unanswered' /\ NothingWaits' /\ Blamed'
      BY <1>1, <3>1 DEF Inv, Unanswered, NothingWaits, Blamed
    <3> QED
      BY <1>1, <1>9, <3>1, <3>6, <3>8, <3>9 DEF Inv
  <2> QED
    BY <2>3, <2>4, <2>5
<1> QED
  BY <1>11, <1>12
----------------------------------------------------------------------------
(* What holds in every behaviour.                                             *)

\* The invariant holds after every step, ...
LEMMA NextInv == Inv /\ [Next]_vars => Inv'
<1> SUFFICES ASSUME Inv, [Next]_vars PROVE Inv'
  OBVIOUS
<1> QED
  BY ReadInv, ReadFailsInv, TakeFrameInv, NoFrameInv, ServerInv, KeepAliveInv, StutterInv DEF Next

\* ... and so always: the bytes between the server and the handlers are frames that
\* lead from what has been handed on to what was sent (flist_recv,
\* flist_process_hybi).
THEOREM InvAlways == Spec => []Inv
<1> QED
  BY InitInv, NextInv, PTL DEF Spec

\* The invariant has the types.
LEMMA InvTypes == Inv => TypeOK
<1> SUFFICES ASSUME Inv PROVE TypeOK
  OBVIOUS
<1>1. frame_buffer \in Fragments
  BY LinksAre DEF Inv, Framed
<1> QED
  BY <1>1 DEF Inv, Types, Fragments, TypeOK

\* The variables keep their types: what is put together from bytes that came over the
\* network is bytes, and what is handed on is something the chat server says.
THEOREM TypeCorrect == Spec => []TypeOK
<1> QED
  BY InvAlways, InvTypes, PTL

\* When no byte is under way, the chain of frames is empty.
LEMMA InvLeaves == Inv => NothingIsLeft
<1> SUFFICES ASSUME Inv, ~processing, socket = <<>>, held = <<>>, ~faulty
             PROVE  delivered = sent
  BY InvTypes DEF NothingIsLeft
<1>1. /\ rx_buf \in Seq(Byte) /\ status \in {"handshake", "identify"}
      /\ delivered \in Seq(Messages) /\ sent \in Seq(Messages)
  BY DEF Inv, Types
<1>2. All = rx_buf
  BY <1>1, ConcatEmptySeq DEF All, Whole
<1>3. status = "identify"
  <2>1. ASSUME status = "handshake" PROVE FALSE
    <3>1. Len(rx_buf) >= 8
      BY <1>2, <2>1 DEF Inv, Unanswered, Opened
    <3>2. Len(rx_buf) < 8 /\ Len(rx_buf) \in Nat
      BY <1>1, <2>1, LenProperties DEF Inv, NothingWaits
    <3> QED
      BY <3>1, <3>2
  <2> QED
    BY <1>1, <2>1
<1>4. ~Complete(rx_buf)
  BY <1>3 DEF Inv, NothingWaits
<1>5. Links(0, rx_buf, sent, FALSE, frame_buffer, Len(delivered), Partial)
  <2>1. faulty = FALSE
    BY DEF Inv, Types
  <2> QED
    BY <1>2, <1>3, <2>1 DEF Inv, Framed, Base
<1>6. ~Leads(0, rx_buf, sent, FALSE, frame_buffer, Len(delivered), Partial)
  <2> SUFFICES ASSUME NEW f \in Records, NEW next \in Nat, Holds(rx_buf, 0, next, f), next <= Len(rx_buf)
               PROVE  FALSE
    BY DEF Leads
  <2>1. Len(Coding(f)) \in Nat /\ Coding(f) \in Seq(Byte)
    BY CodingIs, LenProperties
  <2>2. /\ Len(Coding(f)) <= Len(rx_buf)
        /\ \A i \in 1 .. Len(Coding(f)) : rx_buf[i] = Coding(f)[i]
    BY <2>1 DEF Holds
  <2>3. Complete(rx_buf)
    BY <1>1, <2>2, Found DEF Starts, Reads
  <2> QED
    BY <1>4, <2>3
<1>7. Len(delivered) = Len(sent)
  BY <1>1, <1>5, <1>6, LinksTail
<1>8. \A i \in 1 .. Len(delivered) : delivered[i] = sent[i]
  BY DEF Inv, HandedOn
<1> QED
  BY <1>1, <1>7, <1>8, SeqEqual

\* However the bytes were cut into reads, frames and fragments, an event leaves no
\* message behind that has arrived as a whole (flist_recv, flist_process_hybi).
THEOREM NothingIsEverLeft == Spec => []NothingIsLeft
<1> QED
  BY InvAlways, InvLeaves, PTL
----------------------------------------------------------------------------
(* The headers that the plugin writes.                                        *)

\* What a reader finds in the first two bytes.
LEMMA FirstTwo ==
    ASSUME NEW opcode \in {Text, Pong}, NEW raw \in 0 .. 127, NEW h \in Seq(Byte),
           h[1] = 128 + opcode, h[2] = 128 + raw
    PROVE  /\ IsFinal(h) /\ IsMasked(h) /\ Opcode(h) = opcode
           /\ RawLength(h) = raw
  BY DEF Text, Pong, IsFinal, IsMasked, Opcode, RawLength

\* The three forms of a header.
First(opcode)       == <<128 + opcode>>
ShortForm(length)   == <<128 + length>>
LongForm(length)    == <<254, length \div 256, length % 256>>
LongestForm(length) == <<255, 0, 0, 0, 0>> \o BigEndian(length)

\* Which form a header takes.
LEMMA ShortHeader ==
    ASSUME NEW opcode, NEW length \in Nat, length < 126
    PROVE  Header(opcode, length) = First(opcode) \o ShortForm(length)
  BY SMT DEF Header, First, ShortForm

\* Two more bytes.
LEMMA LongHeader ==
    ASSUME NEW opcode, NEW length \in Nat, length >= 126, length < 65536
    PROVE  Header(opcode, length) = First(opcode) \o LongForm(length)
  BY SMT DEF Header, First, LongForm

\* The length takes more than two bytes.
Long(length) == length >= 65536

\* Eight more bytes.
LEMMA LongestHeader ==
    ASSUME NEW opcode, NEW length \in Nat, Long(length)
    PROVE  Header(opcode, length) = First(opcode) \o LongestForm(length)
  BY SMT DEF Header, First, LongestForm, Long

\* The bound is a number.
LEMMA LongestIs == LongestLength \in Nat
  BY SMT DEF LongestLength

\* Each form is read as it was written.
LEMMA ReadableHeader ==
    ASSUME NEW opcode \in {Text, Pong}, NEW length \in 0 .. LongestLength
    PROVE  LET header == Header(opcode, length)
           IN  /\ header \in Seq(Byte)
               /\ IsFinal(header) /\ IsMasked(header) /\ Opcode(header) = opcode
               /\ HeaderLength(header) = Len(header) + 4
               /\ PayloadLength(header) = length
<1> DEFINE first == First(opcode)
           short == ShortForm(length)
           long == LongForm(length)
           longer == LongestForm(length)
           header == Header(opcode, length)
<1>1. length \in Nat /\ Limited(length, 8)
  <2>1. length \in Nat /\ length <= LongestLength
    BY LongestIs
  <2> QED
    BY <2>1 DEF Limited
<1>2. first \in Seq(Byte) /\ Len(first) = 1 /\ first[1] = 128 + opcode
  BY DEF Text, Pong, Byte, First
<1>3. CASE length < 126
  <2>1. header = first \o short
    BY <1>1, <1>3, ShortHeader
  <2>2. short \in Seq(Byte) /\ Len(short) = 1 /\ short[1] = 128 + length
    BY <1>1, <1>3 DEF Byte, ShortForm
  <2> HIDE DEF first, short, header
  <2>3. /\ header \in Seq(Byte) /\ Len(header) = 2
        /\ header[1] = 128 + opcode /\ header[2] = 128 + length
    <3> DEFINE h == first \o short
    <3>1. /\ h \in Seq(Byte) /\ Len(h) = Len(first) + Len(short)
          /\ \A i \in 1 .. Len(first) : h[i] = first[i]
          /\ \A i \in 1 .. Len(short) : h[Len(first) + i] = short[i]
      BY <1>2, <2>2, JoinedBytes
    <3> HIDE DEF h
    <3>2. /\ h \in Seq(Byte) /\ Len(h) = 2
          /\ h[1] = 128 + opcode /\ h[2] = 128 + length
      BY <1>2, <2>2, <3>1
    <3> QED
      BY <2>1, <3>2 DEF h
  <2>4. /\ IsFinal(header) /\ IsMasked(header) /\ Opcode(header) = opcode
        /\ RawLength(header) = length
    <3>1. length \in 0 .. 127
      BY <1>1, <1>3
    <3>2. header \in Seq(Byte) /\ header[1] = 128 + opcode /\ header[2] = 128 + length
      BY <2>3
    <3> QED
      BY <3>1, <3>2, FirstTwo, Zenon
  <2>5. Extra(header) = 0
    BY <1>1, <1>3, <2>4 DEF Extra
  <2>6. PayloadLength(header) = length
    BY <2>4, <2>5 DEF PayloadLength
  <2>7. HeaderLength(header) = Len(header) + 4
    BY <2>3, <2>4, <2>5 DEF HeaderLength
  <2> QED
    BY <2>3, <2>4, <2>6, <2>7 DEF header
<1>4. CASE ~(length < 126) /\ length < 65536
  <2>1. header = first \o long
    <3>1. length >= 126
      BY <1>1, <1>4
    <3> QED
      BY <1>1, <1>4, <3>1, LongHeader
  <2>2. 256 * (length \div 256) + (length % 256) = length /\ length \div 256 \in Byte
        /\ length % 256 \in Byte
    <3>1. Limited(length, 2)
      BY <1>1, <1>4, SMT DEF Limited
    <3> QED
      BY <1>1, <3>1, PairOf
  <2>3. /\ long \in Seq(Byte) /\ Len(long) = 3 /\ long[1] = 254
        /\ long[2] = length \div 256 /\ long[3] = length % 256
    BY <2>2 DEF Byte, LongForm
  <2> HIDE DEF first, long, header
  <2>4. /\ header \in Seq(Byte) /\ Len(header) = 4
        /\ header[1] = 128 + opcode /\ header[2] = 128 + 126
        /\ header[3] = length \div 256 /\ header[4] = length % 256
    <3> DEFINE h == first \o long
    <3>1. first \in Seq(Byte) /\ long \in Seq(Byte)
      BY <1>2, <2>3
    <3>2. /\ h \in Seq(Byte) /\ Len(h) = Len(first) + Len(long)
          /\ \A i \in 1 .. Len(first) : h[i] = first[i]
          /\ \A i \in 1 .. Len(long) : h[Len(first) + i] = long[i]
      BY <3>1, JoinedBytes
    <3> HIDE DEF h
    <3>3. h[1] = first[1] /\ h[1 + 1] = long[1] /\ h[1 + 2] = long[2] /\ h[1 + 3] = long[3]
      BY <1>2, <2>3, <3>2
    <3>4. /\ h \in Seq(Byte) /\ Len(h) = 4
          /\ h[1] = 128 + opcode /\ h[2] = 128 + 126
          /\ h[3] = length \div 256 /\ h[4] = length % 256
      BY <1>2, <2>3, <3>2, <3>3
    <3> QED
      BY <2>1, <3>4 DEF h
  <2>5. /\ IsFinal(header) /\ IsMasked(header) /\ Opcode(header) = opcode
        /\ RawLength(header) = 126
    BY <2>4, FirstTwo
  <2>6. Extra(header) = 2
    BY <2>5 DEF Extra
  <2>7. PayloadLength(header) = length
    <3>1. Two(header, 3) = length
      BY <2>2, <2>4 DEF Two
    <3> QED
      BY <2>6, <3>1 DEF PayloadLength
  <2>8. HeaderLength(header) = Len(header) + 4
    BY <2>4, <2>5, <2>6 DEF HeaderLength
  <2> QED
    BY <2>4, <2>5, <2>7, <2>8 DEF header
<1>5. CASE Long(length)
  <2>1. header = first \o longer
    BY <1>1, <1>5, LongestHeader
  <2> DEFINE w == BigEndian(length)
             z == <<255, 0, 0, 0, 0>>
  <2>2. w \in Seq(Byte) /\ Len(w) = 4 /\ Four(w, 1) = length
    BY <1>1, BigEndianOf
  <2>3. /\ z \in Seq(Byte) /\ Len(z) = 5 /\ z[1] = 255
        /\ z[2] = 0 /\ z[3] = 0 /\ z[4] = 0 /\ z[5] = 0
    BY DEF Byte
  <2>4. longer = z \o w
    BY DEF LongestForm
  <2> HIDE DEF first, w, z, longer, header
  <2>5. /\ longer \in Seq(Byte) /\ Len(longer) = 9
        /\ longer[1] = 255 /\ longer[2] = 0 /\ longer[3] = 0 /\ longer[4] = 0 /\ longer[5] = 0
        /\ longer[6] = w[1] /\ longer[7] = w[2] /\ longer[8] = w[3] /\ longer[9] = w[4]
    <3> DEFINE h == z \o w
    <3>1. z \in Seq(Byte) /\ w \in Seq(Byte)
      BY <2>2, <2>3
    <3>2. /\ h \in Seq(Byte) /\ Len(h) = Len(z) + Len(w)
          /\ \A i \in 1 .. Len(z) : h[i] = z[i]
          /\ \A i \in 1 .. Len(w) : h[Len(z) + i] = w[i]
      BY <3>1, JoinedBytes
    <3> HIDE DEF h
    <3>3. /\ h[1] = z[1] /\ h[2] = z[2] /\ h[3] = z[3] /\ h[4] = z[4] /\ h[5] = z[5]
          /\ h[5 + 1] = w[1] /\ h[5 + 2] = w[2] /\ h[5 + 3] = w[3] /\ h[5 + 4] = w[4]
      BY <2>2, <2>3, <3>2
    <3>4. /\ h \in Seq(Byte) /\ Len(h) = 9
          /\ h[1] = 255 /\ h[2] = 0 /\ h[3] = 0 /\ h[4] = 0 /\ h[5] = 0
          /\ h[6] = w[1] /\ h[7] = w[2] /\ h[8] = w[3] /\ h[9] = w[4]
      BY <2>2, <2>3, <3>2, <3>3
    <3> QED
      BY <2>4, <3>4 DEF h
  <2>6. /\ header \in Seq(Byte) /\ Len(header) = 10
        /\ header[1] = 128 + opcode /\ header[2] = 128 + 127
        /\ header[3] = 0 /\ header[4] = 0 /\ header[5] = 0 /\ header[6] = 0
        /\ header[7] = w[1] /\ header[8] = w[2] /\ header[9] = w[3] /\ header[10] = w[4]
    <3> DEFINE h == first \o longer
    <3>1. first \in Seq(Byte) /\ longer \in Seq(Byte)
      BY <1>2, <2>5
    <3>2. /\ h \in Seq(Byte) /\ Len(h) = Len(first) + Len(longer)
          /\ \A i \in 1 .. Len(first) : h[i] = first[i]
          /\ \A i \in 1 .. Len(longer) : h[Len(first) + i] = longer[i]
      BY <3>1, JoinedBytes
    <3> HIDE DEF h
    <3>3. /\ h[1] = first[1] /\ \A i \in 1 .. 9 : h[1 + i] = longer[i]
          /\ h \in Seq(Byte) /\ Len(h) = 10
      BY <1>2, <2>5, <3>2
    <3>4. /\ h[1 + 1] = longer[1] /\ h[1 + 2] = longer[2] /\ h[1 + 3] = longer[3]
          /\ h[1 + 4] = longer[4] /\ h[1 + 5] = longer[5] /\ h[1 + 6] = longer[6]
          /\ h[1 + 7] = longer[7] /\ h[1 + 8] = longer[8] /\ h[1 + 9] = longer[9]
      BY <3>3
    <3>5. /\ 1 + 1 = 2 /\ 1 + 2 = 3 /\ 1 + 3 = 4 /\ 1 + 4 = 5 /\ 1 + 5 = 6
          /\ 1 + 6 = 7 /\ 1 + 7 = 8 /\ 1 + 8 = 9 /\ 1 + 9 = 10 /\ 128 + 127 = 255
      OBVIOUS
    <3>6. /\ h[2] = 255 /\ h[3] = 0 /\ h[4] = 0 /\ h[5] = 0 /\ h[6] = 0
          /\ h[7] = w[1] /\ h[8] = w[2] /\ h[9] = w[3] /\ h[10] = w[4]
      BY <2>5, <3>4, <3>5
    <3> QED
      BY <1>2, <2>1, <3>3, <3>5, <3>6, Zenon DEF h
  <2>7. /\ IsFinal(header) /\ IsMasked(header) /\ Opcode(header) = opcode
        /\ RawLength(header) = 127
    BY <2>6, FirstTwo
  <2>8. Extra(header) = 8
    BY <2>7 DEF Extra
  <2>9. PayloadLength(header) = length
    <3>1. /\ Two(header, 3) = 0 /\ Two(header, 5) = 0
          /\ Two(header, 7) = Two(w, 1) /\ Two(header, 9) = Two(w, 3)
      BY <2>6 DEF Two
    <3>2. Four(header, 3) = 0 /\ Four(header, 7) = length
      BY <2>2, <3>1, SMT DEF Four
    <3>3. Eight(header, 3) = length
      BY <1>1, <3>2, SMT DEF Eight
    <3> QED
      BY <2>8, <3>3 DEF PayloadLength
  <2>10. HeaderLength(header) = Len(header) + 4
    BY <2>6, <2>7, <2>8 DEF HeaderLength
  <2> QED
    BY <2>6, <2>7, <2>9, <2>10 DEF header
<1> QED
  BY <1>1, <1>3, <1>4, <1>5, SMT DEF Long

\* What the plugin writes in front of a message of any length, the server reads: the
\* length in the shortest of the three forms, and where the mask begins
\* (flist_write_hybi).
THEOREM HeadersAlwaysReadable == Spec => []HeadersAreReadable
<1>1. HeadersAreReadable
  <2>1. Lengths \subseteq 0 .. LongestLength
    BY HybiAssumption
  <2> QED
    BY <2>1, ReadableHeader DEF HeadersAreReadable
<1> QED
  BY <1>1, PTL
----------------------------------------------------------------------------
(* The stream of messages.                                                    *)

\* What the stream of messages is about.
Seen == <<sent, delivered, faulty, error>>

\* A frame of a message is a message that was sent, a fault, or nothing yet.
LEMMA SendIsSeen ==
    ASSUME Inv, NEW message \in Messages, NEW from, NEW opcode, NEW form, NEW n,
           Send(message, from, opcode, form, n)
    PROVE  Stream!Send \/ Stream!Fail \/ UNCHANGED Seen
<1> DEFINE all == from + n = Len(message)
           good == Len(message) >= 3 /\ message \notin Garbled
<1>1. /\ UNCHANGED <<delivered, error>>
      /\ sent' = IF all /\ good THEN Append(sent, message) ELSE sent
      /\ faulty' = (faulty \/ (all /\ ~good))
      /\ faulty \in BOOLEAN
  BY DEF Send, Write, plugin, Inv, Types
<1> HIDE DEF all, good
<1>2. CASE all /\ good
  <2>1. sent' = Append(sent, message) /\ faulty' = faulty
    BY <1>1, <1>2
  <2> DEFINE t == Append(sent, message)
  <2>2. /\ t \in Seq(Messages) /\ Len(t) = Len(sent) + 1 /\ sent \in Seq(Messages)
        /\ \A i \in 1 .. Len(sent) : t[i] = sent[i]
    BY AppendProperties DEF Inv, Types
  <2>3. SubSeq(t, 1, Len(sent)) = sent
    <3> DEFINE u == SubSeq(t, 1, Len(sent))
    <3>1. Len(sent) \in Nat
      BY <2>2, LenProperties
    <3> HIDE DEF t
    <3>2. /\ u \in Seq(Messages) /\ Len(u) = Len(sent)
          /\ \A i \in 1 .. Len(u) : u[i] = t[i]
      <4>1. 1 \in 1 .. Len(t) + 1 /\ Len(sent) \in 0 .. Len(t)
        BY <2>2, <3>1
      <4> QED
        BY <2>2, <3>1, <4>1, SubSeqProperties
    <3> HIDE DEF u
    <3>3. u = sent
      BY <2>2, <3>1, <3>2, SeqEqual
    <3> QED
      BY <3>3 DEF u
  <2> HIDE DEF t
  <2>4. sent' = t
    BY <2>1 DEF t
  <2>5. Stream!Send
    BY <1>1, <2>1, <2>2, <2>3, <2>4 DEF Stream!Send
  <2> QED
    BY <2>5
<1>3. CASE all /\ ~good
  BY <1>1, <1>3 DEF Stream!Fail
<1>4. CASE ~all
  BY <1>1, <1>4 DEF Seen
<1> QED
  BY <1>2, <1>3, <1>4

\* Each step is a step of the stream, or none.
LEMMA StepIsSeen == Inv /\ [Next]_vars => [Stream!Next]_Seen
<1> SUFFICES ASSUME Inv, Next PROVE Stream!Next \/ UNCHANGED Seen
  BY DEF vars, Seen
<1>1. CASE Read
  <2>1. UNCHANGED <<sent, delivered, faulty>> /\ (error' = error \/ (faulty /\ error' = TRUE))
    BY <1>1, ReadInv
  <2> QED
    BY <2>1 DEF Stream!Next, Stream!GiveUp, Seen
<1>2. CASE ReadFails
  BY <1>2 DEF ReadFails, server, Stream!Next, Stream!GiveUp
<1>3. CASE TakeFrame
  <2>1. UNCHANGED <<sent, faulty>>
    BY <1>3 DEF TakeFrame, server
  <2>2. \/ HandsNext /\ error' = error
        \/ faulty' /\ error' = TRUE /\ delivered' = delivered
    BY <1>3, TakeFrameInv
  <2> QED
    BY <2>1, <2>2 DEF HandsNext, Stream!Next, Stream!Deliver, Stream!GiveUp, Seen
<1>4. CASE NoFrame
  BY <1>4 DEF NoFrame, server, Seen
<1>5. CASE Server
  <2>1. ASSUME NEW message \in Messages, NEW form \in Forms, NEW n, Begin(message, form, n)
        PROVE  Stream!Next \/ UNCHANGED Seen
    BY <2>1, SendIsSeen DEF Begin, Stream!Next
  <2>2. ASSUME NEW form \in Forms, NEW n, Continue(form, n)
        PROVE  Stream!Next \/ UNCHANGED Seen
    <3>1. saying \in Messages /\ Send(saying, gone, Continuation, form, n)
      BY <2>2 DEF Continue, Inv, Types
    <3> QED
      BY <3>1, SendIsSeen DEF Stream!Next
  <2>3. ASSUME NEW opcode, Control(opcode) PROVE UNCHANGED Seen
    BY <2>3 DEF Control, Write, plugin, Seen
  <2>4. ASSUME NEW frame, Break(frame) PROVE Stream!Next
    BY <2>4 DEF Break, Write, plugin, Stream!Next, Stream!Fail
  <2> QED
    BY <1>5, <2>1, <2>2, <2>3, <2>4 DEF Server
<1>6. CASE KeepAlive
  BY <1>6 DEF KeepAlive, plugin, server, Seen
<1> QED
  BY <1>1, <1>2, <1>3, <1>4, <1>5, <1>6 DEF Next

\* What libpurple and the handlers see is the stream of messages that a WebSocket
\* promises: the next message or none, and no giving up for nothing
\* (flist_process_hybi, flist_handle_handshake, flist_dispatch).
THEOREM FramesImplementStream == Spec => ImplementsStream
<1>1. Init => Stream!Init
  BY DEF Init, Stream!Init
<1> QED
  BY <1>1, InitInv, NextInv, StepIsSeen, PTL
     DEF Spec, ImplementsStream, Stream!Spec, Seen

=============================================================================
