--------------------- MODULE SchedulerConnectionProofs ---------------------
(***************************************************************************)
(* The network path, for any schedulers, datagrams and messages: decode    *)
(* undoes encode; the handshake agrees on one version, and only the        *)
(* network asked for is shown; and the connection is a channel of          *)
(* messages, wherever its stream of bytes is cut.                          *)
(*                                                                         *)
(* Decoding is a statement about a cursor in a buffer: each piece of a     *)
(* message is read as the value it was written for, wherever it stands,    *)
(* and moves the cursor to the next.                                       *)
(*                                                                         *)
(* That the version read as the peer's confirmation is its confirmation is *)
(* a statement about streams: at each read of the handshake, either the    *)
(* four bytes that are due are the whole stream, or the stream ended       *)
(* within them and the read fails.  So the peer's version cannot be taken  *)
(* for its confirmation, nor a piece of one for the other.                 *)
(*                                                                         *)
(* So is the channel: what was said and not received is carried by frames  *)
(* of which the stream has a beginning, at the end of a frame while a      *)
(* length is awaited and of a length while a payload is.                   *)
(***************************************************************************)
EXTENDS SchedulerConnection, DataProofs

(* The middle of three pieces is found where the first ends.               *)
LEMMA Middle ==
    ASSUME NEW E, NEW pre \in Seq(E), NEW mid \in Seq(E), NEW post \in Seq(E)
    PROVE  LET s == pre \o (mid \o post) IN
           /\ s \in Seq(E) /\ Len(s) = Len(pre) + Len(mid) + Len(post)
           /\ SubSeq(s, Len(pre) + 1, Len(pre) + Len(mid)) = mid
<1> DEFINE t == mid \o post
           s == pre \o t
           p == Len(pre)
           m == Len(mid)
           q == Len(post)
<1>1. p \in Nat /\ m \in Nat /\ q \in Nat
  BY LenProperties
<1>2. t \in Seq(E) /\ Len(t) = m + q /\ \A i \in 1..m : t[i] = mid[i]
  <2> HIDE DEF t, m, q
  <2>1. t \in Seq(E) /\ Len(t) = m + q
        /\ \A i \in 1..(m + q) : t[i] = IF i <= m THEN mid[i] ELSE post[i - m]
    BY ConcatProperties DEF t, m, q
  <2> QED BY <1>1, <2>1
<1>3. s \in Seq(E) /\ Len(s) = p + m + q /\ \A i \in 1..m : s[p + i] = mid[i]
  <2> HIDE DEF t, s, m, q, p
  <2>1. s \in Seq(E) /\ Len(s) = p + Len(t)
        /\ \A i \in 1..(p + Len(t)) : s[i] = IF i <= p THEN pre[i] ELSE t[i - p]
    BY <1>2, ConcatProperties DEF s, p
  <2> QED BY <1>1, <1>2, <2>1
<1>4. \A i \in 1..m : mid[i] \in E
  BY ElementOfSeq
<1> DEFINE u == SubSeq(s, p + 1, p + m)
<1>5. u = mid
  <2> HIDE DEF t, s, p, q
  <2>1. \A i \in (p + 1)..(p + m) : s[i] \in E
    <3> TAKE i \in (p + 1)..(p + m)
    <3>1. i - p \in 1..m /\ i = p + (i - p)
      BY <1>1
    <3> QED BY <1>3, <1>4, <3>1
  <2> HIDE DEF m
  <2>2. u \in Seq(E) /\ Len(u) = m /\ \A i \in 1..m : u[i] = s[p + i]
    <3>1. p + 1 \in Int /\ p + m \in Int
      BY <1>1
    <3>2. /\ u \in Seq(E) /\ Len(u) = IF p + 1 <= p + m THEN (p + m) - (p + 1) + 1 ELSE 0
          /\ \A i \in 1..((p + m) - (p + 1) + 1) : u[i] = s[(p + 1) + i - 1]
      BY <2>1, <3>1, SubSeqProperties DEF u
    <3> HIDE DEF u
    <3>3. \A i \in 1..m : u[i] = s[p + i]
      <4> TAKE i \in 1..m
      <4>1. i \in 1..((p + m) - (p + 1) + 1) /\ (p + 1) + i - 1 = p + i
        BY <1>1
      <4> QED BY <3>2, <4>1
    <3> QED BY <1>1, <3>2, <3>3
  <2> HIDE DEF u
  <2>3. Len(mid) = m
    BY DEF m
  <2> QED BY <1>3, <2>2, <2>3, SeqEqual
<1> QED BY <1>3, <1>5

(* Two ways to cut one sequence: the longer beginning starts with the      *)
(* shorter, and what is left of it goes on as the other does.              *)
Makes(a, b, c) == a \o b = c

LEMMA CutTwice ==
    ASSUME NEW E, NEW a \in Seq(E), NEW b \in Seq(E), NEW c \in Seq(E), NEW d \in Seq(E),
           a \o b = c \o d, Len(a) >= Len(c)
    PROVE  /\ SubSeq(a, 1, Len(c)) = c
           /\ SubSeq(a, Len(c) + 1, Len(a)) \in Seq(E)
           /\ Makes(SubSeq(a, Len(c) + 1, Len(a)), b, d)
<1> DEFINE n == Len(a)
           k == Len(c)
           u == SubSeq(a, 1, k)
           v == SubSeq(a, k + 1, n)
<1>1. n \in Nat /\ k \in Nat /\ k <= n /\ Len(b) \in Nat /\ Len(d) \in Nat
  BY LenProperties
<1>2. \A i \in 1..n : a[i] \in E
  BY ElementOfSeq
<1>3. \A i \in 1..k : a[i] = c[i]
  <2> TAKE i \in 1..k
  <2>1. (a \o b)[i] = a[i]
    BY <1>1, ConcatProperties
  <2>2. (c \o d)[i] = c[i]
    BY <1>1, ConcatProperties
  <2> QED BY <2>1, <2>2
<1>4. u \in Seq(E) /\ v \in Seq(E) /\ Len(u) = k /\ \A i \in 1..k : u[i] = a[i]
  <2>1. 1 \in Int /\ k \in Int /\ k + 1 \in Int /\ n \in Int
    BY <1>1
  <2>2. (\A i \in 1..k : a[i] \in E) /\ (\A i \in (k + 1)..n : a[i] \in E)
    BY <1>1, <1>2
  <2> HIDE DEF n, k
  <2>3. u \in Seq(E) /\ Len(u) = (IF 1 <= k THEN k - 1 + 1 ELSE 0)
        /\ \A i \in 1..(k - 1 + 1) : u[i] = a[1 + i - 1]
    BY <2>1, <2>2, SubSeqProperties
  <2>4. v \in Seq(E)
    BY <2>1, <2>2, SubSeqProperties
  <2> HIDE DEF u, v
  <2>5. \A i \in 1..k : i \in 1..(k - 1 + 1) /\ 1 + i - 1 = i
    BY <1>1 DEF k
  <2> QED BY <1>1, <2>3, <2>4, <2>5
<1>5. u = c
  <2> HIDE DEF u
  <2> QED BY <1>3, <1>4, SeqEqual
<1>6. a = u \o v
  <2>1. 1 \in 1..(n + 1) /\ k \in (1 - 1)..n /\ n \in k..n
    BY <1>1
  <2> HIDE DEF k
  <2>2. u \o v = SubSeq(a, 1, n)
    BY <2>1, ConcatAdjacentSubSeq
  <2> QED BY <2>2, SubSeqFull
<1>7. c \o (v \o b) = c \o d
  <2> HIDE DEF u, v
  <2>1. (u \o v) \o b = u \o (v \o b)
    BY <1>4, ConcatAssociative
  <2> QED BY <1>5, <1>6, <2>1
<1>8. v \o b = d
  <2> HIDE DEF v
  <2>1. v \o b \in Seq(E)
    BY <1>4, ConcatProperties
  <2> QED BY <1>7, <2>1, ConcatSimplifications
<1> QED BY <1>4, <1>5, <1>8 DEF Makes

-----------------------------------------------------------------------------
(* Integers and texts come back from their bytes, wherever in a buffer     *)
(* these are.                                                              *)

LEMMA BigEndianBytes ==
    ASSUME NEW n, IsU32(n)
    PROVE  /\ BigEndian(n) \in Seq(Byte) /\ Len(BigEndian(n)) = 4
           /\ FromBigEndian(BigEndian(n)) = n
<1> DEFINE a == n \div 16777216
           b == (n \div 65536) % 256
           c == (n \div 256) % 256
           d == n % 256
<1>1. BigEndian(n) = <<a, b, c, d>>
  BY DEF BigEndian
<1>2. a \in Byte /\ b \in Byte /\ c \in Byte /\ d \in Byte
  BY DEF IsU32, Byte
<1>3. n = ((a * 256 + b) * 256 + c) * 256 + d
  BY DEF IsU32
<1> HIDE DEF a, b, c, d
<1> QED BY <1>1, <1>2, <1>3 DEF FromBigEndian

LEMMA IntegerRead ==
    ASSUME NEW n, IsU32(n), NEW pre \in Seq(Byte), NEW post \in Seq(Byte)
    PROVE  LET data == pre \o (BigEndian(n) \o post) IN
           /\ data \in Seq(Byte) /\ Len(data) = Len(pre) + 4 + Len(post)
           /\ FitsU32(data, Len(pre)) /\ decode_u32(data, Len(pre)) = n
<1> DEFINE p == BigEndian(n)
           data == pre \o (p \o post)
           at == Len(pre)
<1>1. p \in Seq(Byte)
  BY BigEndianBytes
<1>2. Len(p) = 4 /\ FromBigEndian(p) = n
  BY BigEndianBytes
<1>3. at \in Nat /\ Len(post) \in Nat
  BY LenProperties
<1> HIDE DEF p
<1>4. /\ data \in Seq(Byte) /\ Len(data) = at + Len(p) + Len(post)
      /\ SubSeq(data, at + 1, at + Len(p)) = p
  BY <1>1, Middle
<1> HIDE DEF data, at
<1>5. Len(data) = at + 4 + Len(post) /\ SubSeq(data, at + 1, at + 4) = p
  BY <1>2, <1>4
<1>6. FitsU32(data, at)
  BY <1>3, <1>5 DEF FitsU32
<1>7. decode_u32(data, at) = n
  BY <1>2, <1>5 DEF decode_u32
<1> QED BY <1>4, <1>5, <1>6, <1>7 DEF data, at, p

(* The bytes of a text, of any bytes that it has.                          *)
LEMMA TextRead ==
    ASSUME NEW s \in Seq(Byte), IsU32(Len(s) + 1), NEW pre \in Seq(Byte), NEW post \in Seq(Byte)
    PROVE  LET p == encode_string(s)
               data == pre \o (p \o post)
               at == Len(pre)
           IN  /\ p \in Seq(Byte) /\ Len(p) = Len(s) + 5
               /\ data \in Seq(Byte) /\ Len(data) = at + Len(p) + Len(post)
               /\ FitsU32(data, at) /\ decode_u32(data, at) = Len(s) + 1
               /\ decode_string(data, at) = s
<1> DEFINE b == BigEndian(Len(s) + 1)
           z == <<0>>
           p == encode_string(s)
           data == pre \o (p \o post)
           at == Len(pre)
           n == Len(s)
<1>1. b \in Seq(Byte) /\ z \in Seq(Byte)
  BY BigEndianBytes DEF Byte
<1>2. Len(b) = 4 /\ Len(z) = 1
  BY BigEndianBytes
<1>3. at \in Nat /\ n \in Nat /\ Len(post) \in Nat
  BY LenProperties
<1>4. p = (b \o s) \o z
  BY DEF encode_string, encode_u32
<1> HIDE DEF b, z, p
<1>5. s \o z \in Seq(Byte) /\ Len(s \o z) = n + 1 /\ p = b \o (s \o z)
  <2>1. s \o z \in Seq(Byte) /\ Len(s \o z) = n + 1
    <3>1. s \o z \in Seq(Byte) /\ Len(s \o z) = Len(s) + Len(z)
      BY <1>1, ConcatProperties
    <3> QED BY <1>2, <3>1
  <2>2. (b \o s) \o z = b \o (s \o z)
    BY <1>1, ConcatAssociative
  <2> QED BY <1>4, <2>1, <2>2
<1> DEFINE sz == s \o z
<1>6. p \in Seq(Byte) /\ Len(p) = n + 5
  <2> HIDE DEF sz
  <2>1. p = b \o sz /\ sz \in Seq(Byte) /\ Len(sz) = n + 1
    BY <1>5 DEF sz
  <2>2. p \in Seq(Byte) /\ Len(p) = Len(b) + Len(sz)
    BY <1>1, <2>1, ConcatProperties
  <2> QED BY <1>2, <1>3, <2>1, <2>2
<1>7. data \in Seq(Byte) /\ Len(data) = at + Len(p) + Len(post)
  <2>1. p \in Seq(Byte)
    BY <1>6
  <2> QED BY <2>1, Middle
<1>8. data = pre \o (b \o (sz \o post)) /\ sz \o post \in Seq(Byte)
  <2> HIDE DEF sz
  <2>1. p = b \o sz /\ sz \in Seq(Byte)
    BY <1>5 DEF sz
  <2>2. (b \o sz) \o post = b \o (sz \o post)
    BY <1>1, <2>1, ConcatAssociative
  <2> QED BY <2>1, <2>2, ConcatProperties
<1>9. FitsU32(data, at) /\ decode_u32(data, at) = n + 1
  <2> DEFINE r == sz \o post
  <2>1. r \in Seq(Byte) /\ data = pre \o (b \o r) /\ IsU32(n + 1) /\ b = BigEndian(n + 1)
    BY <1>8 DEF b
  <2> HIDE DEF r, data, n
  <2> QED BY <2>1, IntegerRead
<1>10. data = (pre \o b) \o (s \o (z \o post)) /\ pre \o b \in Seq(Byte) /\ Len(pre \o b) = at + 4
  <2>1. sz \o post = s \o (z \o post) /\ z \o post \in Seq(Byte)
    BY <1>1, ConcatAssociative, ConcatProperties
  <2> DEFINE r == s \o (z \o post)
  <2>2. data = pre \o (b \o r)
    BY <1>8, <2>1
  <2>5. r \in Seq(Byte)
    BY <1>8, <2>1
  <2> HIDE DEF r
  <2>3. pre \o (b \o r) = (pre \o b) \o r
    BY <1>1, <2>5, ConcatAssociative
  <2>4. pre \o b \in Seq(Byte) /\ Len(pre \o b) = at + 4
    <3>1. pre \o b \in Seq(Byte) /\ Len(pre \o b) = Len(pre) + Len(b)
      BY <1>1, ConcatProperties
    <3> QED BY <1>2, <3>1
  <2> QED BY <2>2, <2>3, <2>4 DEF r
<1>11. SubSeq(data, at + 5, at + 4 + n) = s
  <2> DEFINE q == pre \o b
             r == z \o post
  <2>1. q \in Seq(Byte) /\ r \in Seq(Byte)
    BY <1>1, <1>10, ConcatProperties
  <2>4. data = q \o (s \o r)
    BY <1>10
  <2>5. Len(q) = at + 4
    BY <1>10
  <2> HIDE DEF q, r, data, at
  <2>2. SubSeq(data, Len(q) + 1, Len(q) + Len(s)) = s
    BY <2>1, <2>4, Middle
  <2>3. Len(q) + 1 = at + 5 /\ Len(q) + Len(s) = at + 4 + n
    BY <1>3, <2>5
  <2> QED BY <2>2, <2>3
<1>12. decode_string(data, at) = s
  <2> HIDE DEF data, at, n
  <2>1. at + 4 + decode_u32(data, at) - 1 = at + 4 + n
    BY <1>3, <1>9
  <2> QED BY <1>11, <2>1 DEF decode_string
<1> QED BY <1>6, <1>7, <1>9, <1>12 DEF p

(* A piece of a message that is read as a value of a field, wherever it    *)
(* stands, and one that is refused.                                        *)
Reads(name, p, v) ==
    \A pre, post \in Seq(Byte) :
        LET data == pre \o (p \o post) IN
        /\ Fits(name, data, Len(pre)) /\ Value(name, data, Len(pre)) = v
        /\ After(name, data, Len(pre)) = Len(pre) + Len(p)
Refuses(name, p) == \A pre \in Seq(Byte) : ~Fits(name, pre \o p, Len(pre))

LEMMA NumberReads ==
    ASSUME NEW name, name \notin TextField, NEW n, IsU32(n)
    PROVE  Reads(name, BigEndian(n), IF name = "lang" THEN LanguageFrom(n) ELSE n)
<1> SUFFICES ASSUME NEW pre \in Seq(Byte), NEW post \in Seq(Byte)
             PROVE  LET data == pre \o (BigEndian(n) \o post) IN
                    /\ Fits(name, data, Len(pre))
                    /\ Value(name, data, Len(pre)) = IF name = "lang" THEN LanguageFrom(n) ELSE n
                    /\ After(name, data, Len(pre)) = Len(pre) + Len(BigEndian(n))
  BY DEF Reads
<1> DEFINE data == pre \o (BigEndian(n) \o post)
<1>1. FitsU32(data, Len(pre)) /\ decode_u32(data, Len(pre)) = n
  BY IntegerRead
<1>2. Len(BigEndian(n)) = 4
  BY BigEndianBytes
<1> HIDE DEF data
<1>3. /\ Fits(name, data, Len(pre))
      /\ Value(name, data, Len(pre)) = IF name = "lang" THEN LanguageFrom(n) ELSE n
      /\ After(name, data, Len(pre)) = Len(pre) + 4
  BY <1>1 DEF Fits, Value, After
<1> QED BY <1>2, <1>3 DEF data

LEMMA TextReads ==
    ASSUME NEW name \in TextField, NEW s \in Seq(Byte), IsU32(Len(s) + 1)
    PROVE  /\ IsUtf8(s) => Reads(name, encode_string(s), s)
           /\ ~IsUtf8(s) => Refuses(name, encode_string(s))
<1>1. ASSUME IsUtf8(s), NEW pre \in Seq(Byte), NEW post \in Seq(Byte)
      PROVE  LET data == pre \o (encode_string(s) \o post) IN
             /\ Fits(name, data, Len(pre)) /\ Value(name, data, Len(pre)) = s
             /\ After(name, data, Len(pre)) = Len(pre) + Len(encode_string(s))
  <2> DEFINE p == encode_string(s)
             data == pre \o (p \o post)
             at == Len(pre)
  <2>1. /\ Len(p) = Len(s) + 5 /\ Len(data) = at + Len(p) + Len(post)
        /\ FitsU32(data, at) /\ decode_u32(data, at) = Len(s) + 1
        /\ decode_string(data, at) = s
    BY TextRead
  <2>2. at \in Nat /\ Len(s) \in Nat /\ Len(post) \in Nat
    BY LenProperties
  <2> HIDE DEF p, data, at
  <2>3. FitsString(data, at) /\ AfterString(data, at) = at + Len(p)
    BY <1>1, <2>1, <2>2 DEF FitsString, AfterString
  <2>4. name \in TextField
    OBVIOUS
  <2>5. Fits(name, data, at)
    BY <2>3, <2>4 DEF Fits
  <2>6. Value(name, data, at) = s
    BY <2>1, <2>4 DEF Value, TextField
  <2>7. After(name, data, at) = at + Len(p)
    BY <2>3, <2>4 DEF After
  <2> QED BY <2>5, <2>6, <2>7 DEF p, data, at
<1>2. ASSUME ~IsUtf8(s), NEW pre \in Seq(Byte)
      PROVE  ~Fits(name, pre \o encode_string(s), Len(pre))
  <2> DEFINE p == encode_string(s)
             none == <<>>
             data == pre \o (p \o none)
             at == Len(pre)
  <2>1. none \in Seq(Byte)
    OBVIOUS
  <2> HIDE DEF none
  <2>2. p \in Seq(Byte) /\ decode_string(data, at) = s
    BY <2>1, TextRead
  <2> HIDE DEF p
  <2>3. p \o none = p
    BY <2>2, ConcatEmptySeq DEF none
  <2>4. ~FitsString(pre \o p, at)
    BY <1>2, <2>2, <2>3 DEF FitsString
  <2> QED BY <2>4 DEF Fits, p
<1> QED BY <1>1, <1>2 DEF Reads, Refuses

(* Every field of a message is read as the value it was written for.       *)
LEMMA FieldReads ==
    ASSUME NEW name, NEW v, IsValue(name, v)
    PROVE  /\ EncodeField(name, v) \in Seq(Byte)
           /\ Reads(name, EncodeField(name, v), v)
<1>1. CASE name \in TextField
  <2>1. v \in Seq(Byte) /\ IsUtf8(v) /\ IsU32(Len(v) + 1) /\ EncodeField(name, v) = encode_string(v)
    BY <1>1 DEF IsValue, EncodeField, TextField
  <2>2. Reads(name, encode_string(v), v)
    BY <1>1, <2>1, TextReads
  <2>3. encode_string(v) \in Seq(Byte)
    BY <2>1, TextRead, EmptySeq
  <2> QED BY <2>1, <2>2, <2>3
<1>2. CASE name \notin TextField
  <2>1. IsU32(v) /\ EncodeField(name, v) = BigEndian(v) /\ (name = "lang" => LanguageFrom(v) = v)
    <3>1. name = "lang" => v \in 0..4
      BY <1>2 DEF IsValue, TextField, Custom
    <3>2. name = "lang" => IsU32(v) /\ LanguageFrom(v) = v
      <4> SUFFICES ASSUME name = "lang" PROVE IsU32(v) /\ LanguageFrom(v) = v
        OBVIOUS
      <4>1. v \in {0, 1, 2, 3, 4}
        BY <3>1
      <4> QED BY <4>1 DEF IsU32, LanguageFrom, Custom
    <3>3. name # "lang" => IsU32(v)
      BY <1>2 DEF IsValue
    <3> QED BY <1>2, <3>2, <3>3 DEF EncodeField, encode_u32
  <2>2. Reads(name, BigEndian(v), IF name = "lang" THEN LanguageFrom(v) ELSE v)
    BY <1>2, <2>1, NumberReads
  <2>3. (IF name = "lang" THEN LanguageFrom(v) ELSE v) = v
    BY <2>1
  <2> QED BY <2>1, <2>2, <2>3, BigEndianBytes
<1> QED BY <1>1, <1>2

(* A string of length 0, which no encode writes, is an empty text.         *)
LEMMA NoTextReads ==
    ASSUME NEW name \in TextField
    PROVE  Reads(name, BigEndian(0), <<>>)
<1> SUFFICES ASSUME NEW pre \in Seq(Byte), NEW post \in Seq(Byte)
             PROVE  LET data == pre \o (BigEndian(0) \o post) IN
                    /\ Fits(name, data, Len(pre)) /\ Value(name, data, Len(pre)) = <<>>
                    /\ After(name, data, Len(pre)) = Len(pre) + Len(BigEndian(0))
  BY DEF Reads
<1> DEFINE data == pre \o (BigEndian(0) \o post)
           at == Len(pre)
<1>1. IsU32(0)
  BY DEF IsU32
<1>2. /\ Len(data) = at + 4 + Len(post)
      /\ FitsU32(data, at) /\ decode_u32(data, at) = 0
  BY <1>1, IntegerRead
<1>3. at \in Nat /\ Len(post) \in Nat
  BY LenProperties
<1>4. Len(BigEndian(0)) = 4
  BY <1>1, BigEndianBytes
<1> HIDE DEF data, at
<1>5. decode_string(data, at) = <<>>
  <2>1. SubSeq(data, at + 5, at + 4 + 0 - 1) = <<>>
    BY <1>3, SubSeqEmpty
  <2> QED BY <1>2, <2>1 DEF decode_string
<1>6. FitsString(data, at) /\ AfterString(data, at) = at + 4
  <2>1. IsUtf8(<<>>)
    BY DEF IsUtf8
  <2>2. at + 4 + 0 <= Len(data) /\ at + 4 + 0 = at + 4
    BY <1>2, <1>3
  <2> QED BY <1>2, <1>5, <2>1, <2>2 DEF FitsString, AfterString
<1>7. name \in TextField
  OBVIOUS
<1>8. Fits(name, data, at)
  BY <1>6, <1>7 DEF Fits
<1>9. Value(name, data, at) = <<>>
  BY <1>5, <1>7 DEF Value, TextField
<1>10. After(name, data, at) = at + 4
  BY <1>6, <1>7 DEF After
<1> QED BY <1>4, <1>8, <1>9, <1>10 DEF data, at

(* A field whose last byte is missing at the end of the buffer is refused. *)
LEMMA CutFieldRefused ==
    ASSUME NEW name, NEW v, IsValue(name, v)
    PROVE  LET p == EncodeField(name, v)
               cut == SubSeq(p, 1, Len(p) - 1)
           IN  /\ cut \in Seq(Byte) /\ Refuses(name, cut)
               /\ Len(p) \in Nat \ {0}
<1> DEFINE p == EncodeField(name, v)
           cut == SubSeq(p, 1, Len(p) - 1)
<1>1. p \in Seq(Byte)
  BY FieldReads
<1>2. CASE name \in TextField
  <2> DEFINE b == BigEndian(Len(v) + 1)
             z == <<0>>
             c == b \o v
             none == <<>>
  <2>1. v \in Seq(Byte)
    BY <1>2 DEF IsValue, TextField
  <2>2. IsU32(Len(v) + 1) /\ p = c \o z
    BY <1>2 DEF IsValue, TextField, EncodeField, encode_string, encode_u32
  <2>3. b \in Seq(Byte) /\ z \in Seq(Byte) /\ none \in Seq(Byte)
    BY <2>2, BigEndianBytes DEF Byte
  <2>4. Len(z) = 1 /\ Len(b) = 4 /\ Len(v) \in Nat
    BY <2>1, <2>2, BigEndianBytes, LenProperties
  <2> HIDE DEF b, z, none, p
  <2>5. c \in Seq(Byte) /\ Len(c) = Len(b) + Len(v)
    BY <2>1, <2>3, ConcatProperties
  <2> HIDE DEF c
  <2>6. Len(p) = Len(c) + Len(z)
    BY <2>2, <2>3, <2>5, ConcatProperties
  <2>7. p \o none = c \o z
    BY <1>1, <2>2, ConcatEmptySeq DEF none
  <2>8. Len(p) >= Len(c) /\ Len(p) - 1 = Len(c) /\ Len(c) \in Nat /\ Len(p) \in Nat \ {0}
    BY <2>4, <2>5, <2>6
  <2>9. SubSeq(p, 1, Len(c)) = c
    <3>1. p \in Seq(Byte) /\ none \in Seq(Byte) /\ c \in Seq(Byte) /\ z \in Seq(Byte)
      BY <1>1, <2>3, <2>5
    <3>2. Len(p) >= Len(c)
      BY <2>8
    <3> QED BY ONLY <2>7, <3>1, <3>2, CutTwice
  <2>10. cut = c
    BY <2>8, <2>9
  <2>11. ASSUME NEW pre \in Seq(Byte)
         PROVE  ~Fits(name, pre \o c, Len(pre))
    <3> DEFINE data == pre \o (b \o v)
               at == Len(pre)
    <3>1. Len(data) = at + 4 + Len(v) /\ decode_u32(data, at) = Len(v) + 1
      BY <2>1, <2>2, IntegerRead DEF b
    <3>2. at \in Nat
      BY LenProperties
    <3> HIDE DEF data, at
    <3>3. ~(at + 4 + decode_u32(data, at) <= Len(data))
      BY <2>4, <3>1, <3>2
    <3>4. ~Fits(name, data, at)
      BY <1>2, <3>3 DEF Fits, FitsString
    <3> QED BY <3>4 DEF data, at, c
  <2> QED BY <2>5, <2>8, <2>10, <2>11 DEF Refuses, p
<1>3. CASE name \notin TextField
  <2>1. Len(p) = 4
    <3>1. p = BigEndian(v)
      BY <1>3 DEF EncodeField, encode_u32
    <3> QED BY <3>1 DEF BigEndian
  <2> HIDE DEF p
  <2>2. cut \in Seq(Byte) /\ Len(cut) = 3
    <3>1. \A i \in 1..3 : p[i] \in Byte
      BY <1>1, <2>1, ElementOfSeq
    <3>2. SubSeq(p, 1, 3) \in Seq(Byte) /\ Len(SubSeq(p, 1, 3)) = 3
      BY <3>1, SubSeqProperties
    <3> QED BY <2>1, <3>2
  <2> HIDE DEF cut
  <2>3. ASSUME NEW pre \in Seq(Byte)
        PROVE  ~Fits(name, pre \o cut, Len(pre))
    <3>1. Len(pre \o cut) = Len(pre) + Len(cut)
      BY <2>2, ConcatProperties
    <3>2. Len(pre) \in Nat
      BY LenProperties
    <3>3. ~(Len(pre) + 4 <= Len(pre \o cut))
      BY <2>2, <3>1, <3>2
    <3> QED BY <1>3, <3>3 DEF Fits, FitsU32
  <2> QED BY <2>1, <2>2, <2>3 DEF Refuses, cut, p
<1> QED BY <1>2, <1>3

-----------------------------------------------------------------------------
(* Message::decode on a buffer that is made of the pieces of a message.    *)

LEMMA Layouts ==
    ASSUME NEW kind \in Kind
    PROVE  /\ FieldsRead[kind] = Fields[kind]
           /\ Len(Fields[kind]) \in Nat /\ DOMAIN Fields[kind] = 1..Len(Fields[kind])
           /\ \A i, j \in 1..Len(Fields[kind]) : Fields[kind][i] = Fields[kind][j] => i = j
           /\ IsU32(MessageType[kind])
           /\ \A k \in Kind : MessageType[k] = MessageType[kind] => k = kind
<1>1. Kind = {"Ping", "End", "JobLocalDone", "MonLogin", "MonGetCs", "MonJobBegin",
              "MonJobDone", "MonLocalJobBegin", "MonStats"}
  BY DEF Kind, MessageType
<1>2. FieldsRead[kind] = Fields[kind]
  BY DEF FieldsRead, Fields
<1>3. kind \in {"Ping", "End", "MonLogin"} \/ kind = "JobLocalDone" \/ kind = "MonGetCs"
      \/ kind = "MonJobBegin" \/ kind = "MonJobDone" \/ kind = "MonLocalJobBegin"
      \/ kind = "MonStats"
  BY <1>1
<1>4. /\ Len(Fields[kind]) \in Nat /\ DOMAIN Fields[kind] = 1..Len(Fields[kind])
      /\ \A i, j \in 1..Len(Fields[kind]) : Fields[kind][i] = Fields[kind][j] => i = j
  <2>1. CASE kind \in {"Ping", "End", "MonLogin"}
    BY <2>1 DEF Fields
  <2>2. CASE kind = "JobLocalDone"
    BY <2>2 DEF Fields
  <2>3. CASE kind = "MonGetCs"
    BY <2>3 DEF Fields
  <2>4. CASE kind = "MonJobBegin"
    BY <2>4 DEF Fields
  <2>5. CASE kind = "MonJobDone"
    BY <2>5 DEF Fields
  <2>6. CASE kind = "MonLocalJobBegin"
    BY <2>6 DEF Fields
  <2>7. CASE kind = "MonStats"
    BY <2>7 DEF Fields
  <2> QED BY <1>3, <2>1, <2>2, <2>3, <2>4, <2>5, <2>6, <2>7
<1>5. MessageType[kind] \in 0..100
  BY <1>1 DEF MessageType
<1>6. IsU32(MessageType[kind])
  BY <1>5 DEF IsU32
<1>7. \A k \in Kind : MessageType[k] = MessageType[kind] => k = kind
  BY <1>1 DEF MessageType
<1> QED BY <1>2, <1>4, <1>6, <1>7

(* The cursor at each field, and after the last.                           *)
IsCursor(g, names, data) ==
    g = [i \in 1..(Len(names) + 1) |-> IF i = 1 THEN 4 ELSE After(names[i - 1], data, g[i - 1])]

(* What is read with a cursor.                                             *)
ReadWith(g, kind, names, data) ==
    IF \E i \in DOMAIN names : ~Fits(names[i], data, g[i]) THEN Garbage
    ELSE [kind |-> kind,
          fields |-> [f \in ToSet(names) |->
              Value(f, data, g[CHOOSE i \in DOMAIN names : names[i] = f])]]

LEMMA DecodedByCursor ==
    ASSUME NEW kind \in Kind, NEW data, NEW g, IsCursor(g, Fields[kind], data)
    PROVE  DecodeFields(kind, data) = ReadWith(g, kind, Fields[kind], data)
<1> DEFINE names == FieldsRead[kind]
           n == Len(names)
           Is(h) == h = [i \in 1..(n + 1) |->
                           IF i = 1 THEN 4 ELSE After(names[i - 1], data, h[i - 1])]
           at == CHOOSE h : Is(h)
<1>1. DecodeFields(kind, data) = ReadWith(at, kind, names, data)
  BY DEF DecodeFields, ReadWith
<1>0. names = Fields[kind] /\ n \in Nat
  BY Layouts
<1>2. Is(g)
  <2> HIDE DEF names
  <2>1. IsCursor(g, names, data)
    BY <1>0
  <2> QED BY <2>1 DEF IsCursor
<1>3. n \in Nat
  BY <1>0
<1> HIDE DEF Is
<1>4. Is(at)
  BY <1>2
<1> HIDE DEF at, names, n
<1>5. ASSUME NEW h, Is(h)
      PROVE  /\ h = [i \in 1..(n + 1) |-> h[i]] /\ h[1] = 4
             /\ \A i \in 1..n : h[i + 1] = After(names[i], data, h[i])
  <2>1. h = [i \in 1..(n + 1) |->
                IF i = 1 THEN 4 ELSE After(names[i - 1], data, h[i - 1])]
    BY <1>5 DEF Is
  <2>2. h[1] = 4
    BY <1>3, <2>1
  <2>3. ASSUME NEW i \in 1..n PROVE h[i + 1] = After(names[i], data, h[i])
    <3>1. i + 1 \in 1..(n + 1) /\ i + 1 # 1 /\ (i + 1) - 1 = i
      BY <1>3
    <3>2. h[i + 1] = After(names[(i + 1) - 1], data, h[(i + 1) - 1])
      BY <2>1, <3>1, Zenon
    <3> QED BY <3>1, <3>2
  <2>4. h = [i \in 1..(n + 1) |-> h[i]]
    BY <2>1, Zenon
  <2> QED BY <2>2, <2>3, <2>4
<1> DEFINE T == {m \in Nat : m \in 0..n => at[m + 1] = g[m + 1]}
<1>6. 0 \in T
  BY <1>2, <1>4, <1>5
<1>7. ASSUME NEW m \in T PROVE m + 1 \in T
  <2>1. CASE m + 1 \in 0..n
    <3>1. m + 1 \in 1..n /\ at[m + 1] = g[m + 1]
      BY <1>3, <2>1
    <3> QED BY <1>2, <1>4, <1>5, <3>1
  <2> QED BY <2>1
<1>8. \A i \in 1..(n + 1) : at[i] = g[i]
  <2>1. T = Nat
    <3> HIDE DEF T
    <3> QED BY <1>6, <1>7, NumberInduction DEF T
  <2> TAKE i \in 1..(n + 1)
  <2>2. i - 1 \in 0..n /\ i - 1 \in Nat /\ (i - 1) + 1 = i
    BY <1>3
  <2>3. i - 1 \in T
    BY <2>1, <2>2, Zenon
  <2>4. at[(i - 1) + 1] = g[(i - 1) + 1]
    BY <2>2, <2>3, Zenon
  <2> QED BY <2>2, <2>4
<1>9. at = g
  <2>1. at = [i \in 1..(n + 1) |-> at[i]] /\ g = [i \in 1..(n + 1) |-> g[i]]
    BY <1>2, <1>4, <1>5
  <2> QED BY <1>8, <2>1
<1> QED BY <1>0, <1>1, <1>9

(* The type of a message and its first pieces.                             *)
Begun(kind, pieces, i) == BigEndian(MessageType[kind]) \o FlattenSeq(SubSeq(pieces, 1, i))

LEMMA BegunLaws ==
    ASSUME NEW kind \in Kind, NEW pieces \in Seq(Seq(Byte))
    PROVE  /\ Begun(kind, pieces, 0) = BigEndian(MessageType[kind])
           /\ Len(Begun(kind, pieces, 0)) = 4
           /\ Begun(kind, pieces, Len(pieces)) = BigEndian(MessageType[kind]) \o FlattenSeq(pieces)
           /\ \A i \in 0..Len(pieces) : Begun(kind, pieces, i) \in Seq(Byte)
           /\ \A i \in 1..Len(pieces) :
                /\ pieces[i] \in Seq(Byte)
                /\ Begun(kind, pieces, i) = Begun(kind, pieces, i - 1) \o pieces[i]
<1> DEFINE b == BigEndian(MessageType[kind])
           n == Len(pieces)
           none == <<>>
<1>1. b \in Seq(Byte)
  BY Layouts, BigEndianBytes
<1>2. Len(b) = 4
  BY Layouts, BigEndianBytes
<1>3. n \in Nat
  BY LenProperties
<1>4. \A i \in 1..n : pieces[i] \in Seq(Byte)
  BY ElementOfSeq
<1> HIDE DEF b, n
<1>5. none \in Seq(Seq(Byte)) /\ none \in Seq(Byte)
  OBVIOUS
<1> HIDE DEF none
<1>6. FlattenSeq(none) = none
  BY <1>5, FlattenLaws DEF none
<1>7. SubSeq(pieces, 1, 0) = none /\ SubSeq(pieces, 1, n) = pieces
  BY SubSeqEmpty, SubSeqFull DEF none, n
<1>8. Begun(kind, pieces, 0) = b
  <2>1. b \o none = b
    BY <1>1, ConcatEmptySeq DEF none
  <2> QED BY <1>6, <1>7, <2>1 DEF Begun, b
<1>9. \A i \in 0..n : SubSeq(pieces, 1, i) \in Seq(Seq(Byte))
  <2> TAKE i \in 0..n
  <2>1. \A j \in 1..i : pieces[j] \in Seq(Byte)
    BY <1>3, <1>4
  <2>2. 1 \in Int /\ i \in Int
    BY <1>3
  <2> QED BY <2>1, <2>2, SubSeqProperties
<1>10. \A i \in 0..n : FlattenSeq(SubSeq(pieces, 1, i)) \in Seq(Byte)
  BY <1>9, FlattenIsFold
<1>11. \A i \in 0..n : Begun(kind, pieces, i) \in Seq(Byte)
  <2> TAKE i \in 0..n
  <2> DEFINE f == FlattenSeq(SubSeq(pieces, 1, i))
  <2>1. f \in Seq(Byte)
    BY <1>10
  <2> HIDE DEF f
  <2>2. b \o f \in Seq(Byte)
    BY <1>1, <2>1, ConcatProperties
  <2> QED BY <2>2 DEF Begun, b, f
<1>12. ASSUME NEW i \in 1..n
       PROVE  Begun(kind, pieces, i) = Begun(kind, pieces, i - 1) \o pieces[i]
  <2> DEFINE front == SubSeq(pieces, 1, i - 1)
             p == pieces[i]
  <2>1. i - 1 \in 0..n
    BY <1>3
  <2>2. front \in Seq(Seq(Byte)) /\ p \in Seq(Byte)
    BY <1>4, <1>9, <2>1
  <2>3. SubSeq(pieces, 1, i) = front \o <<p>>
    <3>1. 1 \in 1..Len(pieces) /\ i \in 1..Len(pieces)
      BY <1>3 DEF n
    <3> QED BY <3>1, SubSeqRecursiveSecond
  <2> HIDE DEF front, p
  <2>4. Append(front, p) = front \o <<p>>
    BY <2>2, AppendIsConcat
  <2> DEFINE f == FlattenSeq(front)
  <2>5. FlattenSeq(SubSeq(pieces, 1, i)) = f \o p
    <3>1. FlattenSeq(Append(front, p)) = FlattenSeq(front) \o p
      BY <2>2, FlattenLaws
    <3> QED BY <2>3, <2>4, <3>1
  <2>6. f \in Seq(Byte) /\ p \in Seq(Byte)
    BY <1>10, <2>1, <2>2 DEF front
  <2> HIDE DEF f
  <2>7. b \o (f \o p) = (b \o f) \o p
    BY <1>1, <2>6, ConcatAssociative
  <2> QED BY <2>5, <2>7 DEF Begun, b, f, p, front
<1>13. Begun(kind, pieces, n) = b \o FlattenSeq(pieces)
  BY <1>7 DEF Begun, b
<1>14. \A i \in 1..n : /\ pieces[i] \in Seq(Byte)
                      /\ Begun(kind, pieces, i) = Begun(kind, pieces, i - 1) \o pieces[i]
  BY <1>4, <1>12
<1> QED BY <1>2, <1>8, <1>11, <1>13, <1>14 DEF b, n

(* Each piece stands where the ones before it end.                         *)
LEMMA PieceInPlace ==
    ASSUME NEW kind \in Kind, NEW pieces \in Seq(Seq(Byte)), NEW rest \in Seq(Byte)
    PROVE  \A i \in 0..Len(pieces) : \E r \in Seq(Byte) :
             Begun(kind, pieces, Len(pieces)) \o rest = Begun(kind, pieces, i) \o r
<1> DEFINE n == Len(pieces)
           data == Begun(kind, pieces, n) \o rest
           Rest(i) == \E r \in Seq(Byte) : data = Begun(kind, pieces, i) \o r
           T == {j \in Nat : j \in 0..n => Rest(n - j)}
<1>1. n \in Nat
  BY LenProperties
<1>2. 0 \in T
  <2>1. Rest(n)
    OBVIOUS
  <2>2. n - 0 = n
    BY <1>1
  <2> HIDE DEF Rest, n
  <2> QED BY <2>1, <2>2
<1>3. ASSUME NEW j \in T PROVE j + 1 \in T
  <2>1. CASE j + 1 \in 0..n
    <3> DEFINE i == n - j
    <3>1. i \in 1..n /\ i \in 0..n /\ i - 1 = n - (j + 1) /\ j \in 0..n /\ i - 1 \in 0..n
      BY <1>1, <2>1
    <3>2. Rest(i)
      BY <3>1
    <3>3. PICK r \in Seq(Byte) : data = Begun(kind, pieces, i) \o r
      BY <3>2
    <3> DEFINE b == Begun(kind, pieces, i - 1)
               p == pieces[i]
    <3>4. b \in Seq(Byte) /\ p \in Seq(Byte) /\ Begun(kind, pieces, i) = b \o p
      BY <3>1, BegunLaws
    <3> HIDE DEF b, p, i
    <3>5. (b \o p) \o r = b \o (p \o r) /\ p \o r \in Seq(Byte)
      BY <3>4, ConcatAssociative, ConcatProperties
    <3>6. Rest(i - 1)
      <4> SUFFICES \E x \in Seq(Byte) : data = b \o x
        BY DEF b
      <4> QED BY <3>3, <3>4, <3>5
    <3>7. Rest(n - (j + 1))
      BY <3>1, <3>6
    <3> HIDE DEF Rest
    <3> QED BY <3>7
  <2> HIDE DEF Rest
  <2> QED BY <2>1
<1>4. T = Nat
  <2> HIDE DEF T
  <2> QED BY <1>2, <1>3, NumberInduction DEF T
<1> HIDE DEF Rest
<1> SUFFICES ASSUME NEW i \in 0..n PROVE Rest(i)
  BY DEF Rest
<1>5. n - i \in Nat /\ n - i \in 0..n /\ n - (n - i) = i
  BY <1>1
<1>6. n - i \in T
  BY <1>4, <1>5
<1>7. Rest(n - (n - i))
  BY <1>5, <1>6
<1> QED BY <1>5, <1>7

(* The message of a kind with these values for its fields, in their order. *)
Told(kind, vals) ==
    [kind |-> kind,
     fields |-> [f \in ToSet(Fields[kind]) |->
                   vals[CHOOSE i \in DOMAIN Fields[kind] : Fields[kind][i] = f]]]

(* A buffer that has the pieces of a message, or all but the last of them  *)
(* and something that is refused in its place.                             *)
LEMMA DecodePieces ==
    ASSUME NEW kind \in Kind, NEW pieces \in Seq(Seq(Byte)), NEW vals, NEW rest \in Seq(Byte),
           \A i \in 1..Len(pieces) : Reads(Fields[kind][i], pieces[i], vals[i]),
           Len(pieces) = Len(Fields[kind]) \/ Len(pieces) + 1 = Len(Fields[kind])
    PROVE  LET names == Fields[kind]
               data == (BigEndian(MessageType[kind]) \o FlattenSeq(pieces)) \o rest
           IN  /\ Len(pieces) = Len(names) => decode(data) = Told(kind, vals)
               /\ Len(pieces) + 1 = Len(names) /\ Refuses(names[Len(names)], rest) =>
                    decode(data) = Garbage
<1> DEFINE names == Fields[kind]
           n == Len(names)
           k == Len(pieces)
           data == (BigEndian(MessageType[kind]) \o FlattenSeq(pieces)) \o rest
           Bg(i) == Begun(kind, pieces, i)
           pos(i) == Len(Bg(i - 1))
           g == [i \in 1..(n + 1) |->
                    IF i <= k + 1 THEN pos(i) ELSE After(names[i - 1], data, pos(i - 1))]
<1>1. n \in Nat /\ k \in Nat /\ DOMAIN names = 1..n /\ (k = n \/ k + 1 = n)
  BY Layouts, LenProperties
<1>2. data = Bg(k) \o rest
  BY BegunLaws
<1>3. \A i \in 1..k : Reads(names[i], pieces[i], vals[i])
  OBVIOUS
<1> HIDE DEF data, k, n, names
<1>4. \A i \in 1..k : /\ Fits(names[i], data, pos(i))
                      /\ Value(names[i], data, pos(i)) = vals[i]
                      /\ After(names[i], data, pos(i)) = pos(i + 1)
  <2> TAKE i \in 1..k
  <2> DEFINE b == Bg(i - 1)
             p == pieces[i]
  <2>1. i \in 0..k /\ i - 1 \in 0..k /\ (i + 1) - 1 = i
    BY <1>1
  <2>2. b \in Seq(Byte) /\ p \in Seq(Byte)
    BY <2>1, BegunLaws DEF k
  <2>3. Bg(i) = b \o p
    BY BegunLaws DEF k
  <2>4. PICK r \in Seq(Byte) : data = Bg(i) \o r
    <3>1. data = Begun(kind, pieces, Len(pieces)) \o rest
      BY <1>2 DEF k
    <3>2. \A j \in 0..Len(pieces) : \E x \in Seq(Byte) :
            Begun(kind, pieces, Len(pieces)) \o rest = Begun(kind, pieces, j) \o x
      BY PieceInPlace
    <3>3. i \in 0..Len(pieces)
      BY <2>1 DEF k
    <3> QED BY <3>1, <3>2, <3>3
  <2>5. Reads(names[i], p, vals[i])
    BY <1>3
  <2>6. pos(i) = Len(b) /\ pos(i + 1) = Len(Bg(i))
    BY <2>1
  <2> HIDE DEF b, p, Bg
  <2>7. data = b \o (p \o r)
    <3>0. r \in Seq(Byte)
      OBVIOUS
    <3>1. (b \o p) \o r = b \o (p \o r)
      BY <2>2, <3>0, ConcatAssociative
    <3> QED BY <2>3, <2>4, <3>1
  <2>8. Len(Bg(i)) = Len(b) + Len(p)
    BY <2>2, <2>3, ConcatProperties
  <2>9. /\ Fits(names[i], data, Len(b)) /\ Value(names[i], data, Len(b)) = vals[i]
        /\ After(names[i], data, Len(b)) = Len(b) + Len(p)
    BY <2>2, <2>4, <2>5, <2>7 DEF Reads
  <2> HIDE DEF pos
  <2> QED BY <2>6, <2>8, <2>9
<1>5. pos(1) = 4
  <2>1. Len(Bg(0)) = 4
    BY BegunLaws
  <2>2. 1 - 1 = 0
    OBVIOUS
  <2> QED BY <2>1, <2>2
<1> HIDE DEF pos
<1>6. IsCursor(g, names, data)
  <2>1. ASSUME NEW i \in 1..(n + 1)
        PROVE  g[i] = IF i = 1 THEN 4 ELSE After(names[i - 1], data, g[i - 1])
    <3>1. CASE i = 1
      BY <1>1, <1>5, <3>1
    <3>2. CASE i # 1 /\ i <= k + 1
      <4>1. i - 1 \in 1..k /\ (i - 1) + 1 = i /\ i - 1 \in 1..(n + 1) /\ i - 1 <= k + 1
        BY <1>1, <3>2
      <4>2. g[i] = pos(i) /\ g[i - 1] = pos(i - 1)
        BY <3>2, <4>1
      <4>3. After(names[i - 1], data, pos(i - 1)) = pos((i - 1) + 1)
        BY <1>4, <4>1
      <4> HIDE DEF g
      <4> QED BY <3>2, <4>1, <4>2, <4>3
    <3>3. CASE i # 1 /\ ~(i <= k + 1)
      <4>1. i - 1 \in 1..(n + 1) /\ i - 1 <= k + 1
        BY <1>1, <3>3
      <4>2. g[i] = After(names[i - 1], data, pos(i - 1)) /\ g[i - 1] = pos(i - 1)
        BY <3>3, <4>1
      <4> HIDE DEF g
      <4> QED BY <3>3, <4>2
    <3> QED BY <3>1, <3>2, <3>3
  <2>2. g = [i \in 1..(n + 1) |-> g[i]]
    OBVIOUS
  <2> HIDE DEF g
  <2>3. g = [i \in 1..(n + 1) |-> IF i = 1 THEN 4 ELSE After(names[i - 1], data, g[i - 1])]
    BY <2>1, <2>2
  <2> QED BY <2>3 DEF IsCursor, n
<1>7. decode(data) = DecodeFields(kind, data)
  <2> DEFINE t == MessageType[kind]
             b == BigEndian(t)
             f == FlattenSeq(pieces)
             none == <<>>
  <2>1. b \in Seq(Byte) /\ f \in Seq(Byte) /\ none \in Seq(Byte)
    BY Layouts, BigEndianBytes, FlattenIsFold
  <2>2. IsU32(t) /\ \A l \in Kind : MessageType[l] = t => l = kind
    BY Layouts
  <2>3. data = (b \o f) \o rest /\ Len(none) = 0
    BY DEF data
  <2> HIDE DEF f, none
  <2>4. f \o rest \in Seq(Byte)
    BY <2>1, ConcatProperties
  <2>5. data = none \o (b \o (f \o rest))
    <3> HIDE DEF b
    <3>1. (b \o f) \o rest = b \o (f \o rest)
      BY <2>1, ConcatAssociative
    <3>2. b \o (f \o rest) \in Seq(Byte)
      BY <2>1, <2>4, ConcatProperties
    <3>3. none \o (b \o (f \o rest)) = b \o (f \o rest)
      BY <3>2, ConcatEmptySeq DEF none
    <3> QED BY <2>3, <3>1, <3>3
  <2> DEFINE r == f \o rest
  <2> HIDE DEF t, r
  <2>6. FitsU32(data, Len(none)) /\ decode_u32(data, Len(none)) = t
    BY <2>1, <2>2, <2>4, <2>5, IntegerRead DEF r
  <2>7. FitsU32(data, 0) /\ decode_u32(data, 0) = t
    BY <2>3, <2>6
  <2>8. (CHOOSE l \in Kind : MessageType[l] = t) = kind
    BY <2>2 DEF t
  <2>9. MessageType[kind] = t
    BY DEF t
  <2> QED BY <2>7, <2>8, <2>9 DEF decode
<1>8. DecodeFields(kind, data) = ReadWith(g, kind, names, data)
  <2> HIDE DEF g
  <2> QED BY <1>6, DecodedByCursor DEF names
<1>9. \A i \in 1..(k + 1) : i \in 1..(n + 1) => g[i] = pos(i)
  BY <1>1
<1>10. ASSUME k = n
       PROVE  decode(data) = Told(kind, vals)
  <2>1. \A i \in DOMAIN names : /\ Fits(names[i], data, g[i])
                                /\ Value(names[i], data, g[i]) = vals[i]
    <3> TAKE i \in DOMAIN names
    <3>1. i \in 1..k /\ i \in 1..(k + 1) /\ i \in 1..(n + 1)
      BY <1>1, <1>10
    <3>2. g[i] = pos(i)
      BY <1>9, <3>1
    <3> HIDE DEF g
    <3> QED BY <1>4, <3>1, <3>2
  <2> HIDE DEF g
  <2> DEFINE Place(f) == CHOOSE i \in DOMAIN names : names[i] = f
  <2>2. ASSUME NEW f \in ToSet(names)
        PROVE  Value(f, data, g[Place(f)]) = vals[Place(f)]
    <3>1. \E i \in DOMAIN names : names[i] = f
      BY DEF ToSet
    <3>2. Place(f) \in DOMAIN names /\ names[Place(f)] = f
      BY <3>1
    <3> HIDE DEF Place
    <3> QED BY <2>1, <3>2
  <2>3. [f \in ToSet(names) |-> Value(f, data, g[Place(f)])] = [f \in ToSet(names) |-> vals[Place(f)]]
    <3> HIDE DEF Place
    <3> QED BY <2>2
  <2>4. Told(kind, vals) = [kind |-> kind, fields |-> [f \in ToSet(names) |-> vals[Place(f)]]]
    BY DEF Told, names
  <2> HIDE DEF Place
  <2>5. ReadWith(g, kind, names, data) =
          [kind |-> kind, fields |-> [f \in ToSet(names) |-> Value(f, data, g[Place(f)])]]
    BY <2>1 DEF ReadWith, Place
  <2> QED BY <1>7, <1>8, <2>3, <2>4, <2>5
<1>11. ASSUME k + 1 = n, Refuses(names[n], rest)
       PROVE  decode(data) = Garbage
  <2>1. n \in DOMAIN names /\ n \in 1..(k + 1) /\ n \in 1..(n + 1) /\ n - 1 = k
    BY <1>1, <1>11
  <2>2. g[n] = pos(n)
    BY <1>9, <2>1
  <2>3. pos(n) = Len(Bg(k))
    BY <2>1 DEF pos
  <2>4. Bg(k) \in Seq(Byte)
    <3>1. k \in 0..k
      BY <1>1
    <3> QED BY <3>1, BegunLaws DEF k
  <2> HIDE DEF g, Bg
  <2>5. ~Fits(names[n], data, pos(n))
    BY <1>2, <1>11, <2>3, <2>4 DEF Refuses
  <2> QED BY <1>7, <1>8, <2>1, <2>2, <2>5 DEF ReadWith
<1> HIDE DEF g, Bg
<1> QED BY <1>10, <1>11 DEF data, names, n, k

(* A sequence without its last element.                                    *)
LEMMA CutEnd ==
    ASSUME NEW E, NEW x \in Seq(E), NEW p \in Seq(E), Len(p) \in Nat \ {0}
    PROVE  SubSeq(x \o p, 1, Len(x \o p) - 1) = x \o SubSeq(p, 1, Len(p) - 1)
<1> DEFINE n == Len(p)
           cut == SubSeq(p, 1, n - 1)
           end == SubSeq(p, n, n)
           none == <<>>
           a == x \o p
           c == x \o cut
<1>1. n \in Nat /\ n >= 1 /\ Len(x) \in Nat
  BY LenProperties
<1>2. \A i \in 1..n : p[i] \in E
  BY ElementOfSeq
<1>3. cut \in Seq(E) /\ Len(cut) = n - 1
  <2>1. 1 \in Int /\ n - 1 \in Int /\ \A i \in 1..(n - 1) : p[i] \in E
    BY <1>1, <1>2
  <2> HIDE DEF n
  <2>2. cut \in Seq(E) /\ Len(cut) = IF 1 <= n - 1 THEN (n - 1) - 1 + 1 ELSE 0
    BY <2>1, SubSeqProperties
  <2> HIDE DEF cut
  <2> QED BY <1>1, <2>2
<1>4. end \in Seq(E)
  <2>1. n \in Int /\ \A i \in n..n : p[i] \in E
    BY <1>1, <1>2
  <2> HIDE DEF n
  <2> QED BY <2>1, SubSeqProperties
<1>5. cut \o end = p
  <2>1. 1 \in 1..(Len(p) + 1) /\ n - 1 \in (1 - 1)..Len(p) /\ Len(p) \in (n - 1)..Len(p)
        /\ (n - 1) + 1 = n
    BY <1>1
  <2>2. SubSeq(p, 1, n - 1) \o SubSeq(p, (n - 1) + 1, Len(p)) = SubSeq(p, 1, Len(p))
    <3> HIDE DEF n
    <3> QED BY <2>1, ConcatAdjacentSubSeq
  <2>3. SubSeq(p, 1, Len(p)) = p
    BY SubSeqFull
  <2>4. SubSeq(p, (n - 1) + 1, Len(p)) = end
    BY <2>1
  <2> QED BY <2>2, <2>3, <2>4
<1> HIDE DEF cut, end, n, none
<1>6. a \in Seq(E) /\ c \in Seq(E) /\ none \in Seq(E)
  BY <1>3, ConcatProperties DEF none
<1>7. a \o none = c \o end
  <2>1. (x \o cut) \o end = x \o (cut \o end)
    BY ONLY x \in Seq(E), <1>3, <1>4, ConcatAssociative
  <2>2. a \o none = a
    BY <1>6, ConcatEmptySeq DEF none
  <2>3. c \o end = x \o p
    BY ONLY <1>5, <2>1
  <2> QED BY <2>2, <2>3
<1>8. Len(a) = Len(x) + Len(p)
  BY ConcatProperties
<1>9. Len(c) = Len(x) + Len(cut)
  BY <1>3, ConcatProperties
<1>10. Len(c) = Len(a) - 1 /\ Len(a) >= Len(c)
  BY <1>1, <1>3, <1>8, <1>9 DEF n
<1> HIDE DEF a, c
<1>11. SubSeq(a, 1, Len(c)) = c
  <2>1. a \in Seq(E) /\ c \in Seq(E)
    BY <1>6
  <2>2. none \in Seq(E)
    BY <1>6
  <2>3. end \in Seq(E)
    BY <1>4
  <2>4. Len(a) >= Len(c)
    BY <1>10
  <2> QED BY <1>7, <2>1, <2>2, <2>3, <2>4, CutTwice
<1> QED BY <1>10, <1>11 DEF a, c, cut, n

-----------------------------------------------------------------------------
(* Messages.                                                               *)

(* The pieces of a message, and what is read for each of them.             *)
Pieces(m) ==
    [i \in 1..Len(Fields[m.kind]) |->
        EncodeField(Fields[m.kind][i], m.fields[Fields[m.kind][i]])]
Values(m) == [i \in 1..Len(Fields[m.kind]) |-> m.fields[Fields[m.kind][i]]]

LEMMA PiecesOfMessage ==
    ASSUME NEW m, IsMessage(m)
    PROVE  LET names == Fields[m.kind] IN
           /\ m.kind \in Kind
           /\ Pieces(m) \in Seq(Seq(Byte)) /\ Len(Pieces(m)) = Len(names)
           /\ \A i \in 1..Len(names) :
                /\ IsValue(names[i], Values(m)[i])
                /\ Pieces(m)[i] = EncodeField(names[i], Values(m)[i])
                /\ Reads(names[i], Pieces(m)[i], Values(m)[i])
           /\ encode(m) = BigEndian(MessageType[m.kind]) \o FlattenSeq(Pieces(m))
           /\ encode(m) \in Seq(Byte)
<1> DEFINE names == Fields[m.kind]
           n == Len(names)
<1>1. m.kind \in Kind /\ \A f \in ToSet(names) : IsValue(f, m.fields[f])
  BY DEF IsMessage
<1>2. n \in Nat /\ DOMAIN names = 1..n
  BY <1>1, Layouts
<1>3. \A i \in 1..n : names[i] \in ToSet(names)
  BY <1>2 DEF ToSet
<1>4. encode(m) = BigEndian(MessageType[m.kind]) \o FlattenSeq(Pieces(m))
  BY <1>2 DEF encode, encode_u32, Pieces
<1>5. \A i \in 1..n : /\ Values(m)[i] = m.fields[names[i]]
                      /\ Pieces(m)[i] = EncodeField(names[i], m.fields[names[i]])
  BY DEF Values, Pieces
<1>6. Pieces(m) = [i \in 1..n |-> Pieces(m)[i]] /\ DOMAIN Pieces(m) = 1..n
  BY DEF Pieces
<1> HIDE DEF names, n
<1>7. \A i \in 1..n : /\ IsValue(names[i], Values(m)[i])
                      /\ Pieces(m)[i] = EncodeField(names[i], Values(m)[i])
  BY <1>1, <1>3, <1>5
<1>8. \A i \in 1..n : Pieces(m)[i] \in Seq(Byte) /\ Reads(names[i], Pieces(m)[i], Values(m)[i])
  BY <1>7, FieldReads
<1>9. Pieces(m) \in Seq(Seq(Byte)) /\ Len(Pieces(m)) = n
  BY <1>2, <1>6, <1>8
<1>10. encode(m) \in Seq(Byte)
  <2> DEFINE b == BigEndian(MessageType[m.kind])
             f == FlattenSeq(Pieces(m))
  <2>1. b \in Seq(Byte) /\ f \in Seq(Byte)
    BY <1>1, <1>9, Layouts, BigEndianBytes, FlattenIsFold
  <2> HIDE DEF b, f
  <2>2. b \o f \in Seq(Byte)
    BY <2>1, ConcatProperties
  <2> QED BY <1>4, <2>2 DEF b, f
<1> QED BY <1>1, <1>4, <1>7, <1>8, <1>9, <1>10 DEF names, n

(* decode undoes encode: whatever message is sent, it is read as it was,   *)
(* and what a newer protocol has after its fields is not looked at         *)
(* (Message::encode and decode, messages.rs:122-288; codec.rs).            *)
THEOREM RoundTrip ==
    ASSUME NEW m, IsMessage(m), NEW rest \in Seq(Byte)
    PROVE  decode(encode(m) \o rest) = m
<1> DEFINE names == Fields[m.kind]
           Place(f) == CHOOSE i \in DOMAIN names : names[i] = f
<1>1. /\ m.kind \in Kind /\ Pieces(m) \in Seq(Seq(Byte)) /\ Len(Pieces(m)) = Len(names)
      /\ \A i \in 1..Len(Pieces(m)) : Reads(names[i], Pieces(m)[i], Values(m)[i])
      /\ encode(m) = BigEndian(MessageType[m.kind]) \o FlattenSeq(Pieces(m))
  BY PiecesOfMessage
<1>2. decode(encode(m) \o rest) = Told(m.kind, Values(m))
  <2> DEFINE kind == m.kind
             ps == Pieces(m)
             vs == Values(m)
  <2>1. kind \in Kind /\ ps \in Seq(Seq(Byte)) /\ Len(ps) = Len(Fields[kind])
    BY <1>1
  <2>2. \A i \in 1..Len(ps) : Reads(Fields[kind][i], ps[i], vs[i])
    BY <1>1
  <2>3. encode(m) = BigEndian(MessageType[kind]) \o FlattenSeq(ps)
    BY <1>1
  <2> HIDE DEF kind, ps, vs
  <2>4. decode((BigEndian(MessageType[kind]) \o FlattenSeq(ps)) \o rest) = Told(kind, vs)
    BY <2>1, <2>2, DecodePieces
  <2> QED BY <2>3, <2>4 DEF kind, vs
<1>3. ASSUME NEW f \in ToSet(names)
      PROVE  Values(m)[Place(f)] = m.fields[f]
  <2>1. DOMAIN names = 1..Len(names) /\ \E i \in DOMAIN names : names[i] = f
    BY <1>1, Layouts DEF ToSet
  <2>2. Place(f) \in 1..Len(names) /\ names[Place(f)] = f
    BY <2>1
  <2> HIDE DEF Place
  <2> QED BY <2>2 DEF Values
<1>4. [f \in ToSet(names) |-> Values(m)[Place(f)]] = [f \in ToSet(names) |-> m.fields[f]]
  <2> HIDE DEF Place
  <2> QED BY <1>3
<1>5. m = [kind |-> m.kind, fields |-> [f \in ToSet(names) |-> m.fields[f]]]
  BY DEF IsMessage
<1>6. Told(m.kind, Values(m)) =
        [kind |-> m.kind, fields |-> [f \in ToSet(names) |-> Values(m)[Place(f)]]]
  BY DEF Told
<1> HIDE DEF Place, names
<1> QED BY <1>2, <1>4, <1>5, <1>6

(* A message that lacks its last byte is none.                             *)
LEMMA CutMessage ==
    ASSUME NEW m, IsMessage(m)
    PROVE  LET cut == SubSeq(encode(m), 1, Len(encode(m)) - 1) IN
           /\ cut \in Seq(Byte) /\ Len(cut) = Len(encode(m)) - 1
           /\ decode(cut) = Garbage
<1> DEFINE names == Fields[m.kind]
           n == Len(names)
           x == encode(m)
           b == BigEndian(MessageType[m.kind])
           ps == Pieces(m)
           cut == SubSeq(x, 1, Len(x) - 1)
<1>1. /\ m.kind \in Kind /\ ps \in Seq(Seq(Byte)) /\ Len(ps) = n
      /\ \A i \in 1..n : /\ Reads(names[i], ps[i], Values(m)[i])
                         /\ IsValue(names[i], Values(m)[i])
                         /\ ps[i] = EncodeField(names[i], Values(m)[i])
      /\ x = b \o FlattenSeq(ps) /\ x \in Seq(Byte)
  BY PiecesOfMessage
<1>2. n \in Nat /\ b \in Seq(Byte) /\ Len(b) = 4 /\ FlattenSeq(ps) \in Seq(Byte)
  BY <1>1, Layouts, BigEndianBytes, FlattenIsFold
<1> HIDE DEF b, ps, x, n, names
<1>3. Len(x) \in Nat /\ Len(x) >= 4
  <2> DEFINE f == FlattenSeq(ps)
  <2> HIDE DEF f
  <2>1. b \in Seq(Byte) /\ f \in Seq(Byte)
    BY <1>2 DEF f
  <2>2. Len(b \o f) = Len(b) + Len(f)
    BY <2>1, ConcatProperties
  <2>3. Len(f) \in Nat
    BY <2>1, LenProperties
  <2>4. Len(x) = 4 + Len(f)
    BY <1>1, <1>2, <2>2 DEF f
  <2> QED BY <2>3, <2>4
<1>4. cut \in Seq(Byte) /\ Len(cut) = Len(x) - 1
  <2>1. x \in Seq(Byte)
    BY <1>1
  <2>2. \A i \in 1..Len(x) : x[i] \in Byte
    BY <2>1, ElementOfSeq
  <2>3. 1 \in Int /\ Len(x) - 1 \in Int /\ \A i \in 1..(Len(x) - 1) : x[i] \in Byte
    BY <1>3, <2>2
  <2>4. cut \in Seq(Byte) /\ Len(cut) = IF 1 <= Len(x) - 1 THEN (Len(x) - 1) - 1 + 1 ELSE 0
    BY <2>3, SubSeqProperties
  <2> QED BY <1>3, <2>4
<1>5. CASE n = 0
  <2>1. Len(x) = 4
    <3> DEFINE none == <<>>
    <3>1. ps = none
      BY <1>1, <1>5, EmptySeq
    <3>5. none \in Seq(Byte) /\ none \in Seq(Seq(Byte))
      OBVIOUS
    <3> HIDE DEF none
    <3>2. FlattenSeq(none) = none
      BY <3>5, FlattenLaws DEF none
    <3>3. b \in Seq(Byte)
      BY <1>2
    <3>4. b \o none = b
      BY <3>3, ConcatEmptySeq DEF none
    <3> QED BY <1>1, <1>2, <3>1, <3>2, <3>4
  <2>2. ~FitsU32(cut, 0)
    BY <1>4, <2>1 DEF FitsU32
  <2> QED BY <1>4, <2>2 DEF decode, x
<1>6. CASE n # 0
  <2> DEFINE front == SubSeq(ps, 1, n - 1)
             p == ps[n]
             v == Values(m)[n]
             f == FlattenSeq(front)
             e == SubSeq(p, 1, Len(p) - 1)
  <2>1. n \in 1..n /\ n - 1 \in 0..n /\ n \in 1..Len(ps) /\ 1 \in 1..Len(ps)
    BY <1>1, <1>2, <1>6
  <2>2. IsValue(names[n], v) /\ p = EncodeField(names[n], v)
    BY <1>1, <2>1
  <2>3. e \in Seq(Byte) /\ Refuses(names[n], e) /\ Len(p) \in Nat \ {0}
    BY <2>2, CutFieldRefused
  <2>4. p \in Seq(Byte)
    BY <2>2, FieldReads
  <2>5. front \in Seq(Seq(Byte)) /\ Len(front) = n - 1 /\ \A i \in 1..(n - 1) : front[i] = ps[i]
    <3>1. \A i \in 1..n : ps[i] \in Seq(Byte)
      BY <1>1, ElementOfSeq
    <3>2. 1 \in Int /\ n - 1 \in Int /\ \A i \in 1..(n - 1) : ps[i] \in Seq(Byte)
      BY <1>2, <3>1
    <3>3. /\ front \in Seq(Seq(Byte))
          /\ Len(front) = IF 1 <= n - 1 THEN (n - 1) - 1 + 1 ELSE 0
          /\ \A i \in 1..((n - 1) - 1 + 1) : front[i] = ps[1 + i - 1]
      BY <3>2, SubSeqProperties
    <3> HIDE DEF front
    <3>4. \A i \in 1..(n - 1) : i \in 1..((n - 1) - 1 + 1) /\ 1 + i - 1 = i
      BY <1>2
    <3> QED BY <1>2, <1>6, <3>3, <3>4
  <2>6. ps = front \o <<p>>
    <3>1. SubSeq(ps, 1, n) = front \o <<p>>
      BY <1>1, <2>1, SubSeqRecursiveSecond
    <3>2. SubSeq(ps, 1, n) = ps
      BY <1>1, SubSeqFull
    <3> QED BY <3>1, <3>2
  <2> HIDE DEF front, p, v, e
  <2>7. f \in Seq(Byte) /\ FlattenSeq(ps) = f \o p
    <3>1. front \in Seq(Seq(Byte))
      BY <2>5
    <3>2. Append(front, p) = front \o <<p>>
      BY <2>4, <3>1, AppendIsConcat
    <3>3. FlattenSeq(Append(front, p)) = FlattenSeq(front) \o p
      BY <2>4, <3>1, FlattenLaws
    <3>4. FlattenSeq(front) \in Seq(Byte)
      BY <3>1, FlattenIsFold
    <3> QED BY <2>6, <3>2, <3>3, <3>4
  <2> HIDE DEF f
  <2>8. b \in Seq(Byte) /\ f \in Seq(Byte)
    BY <1>2, <2>7
  <2>9. b \o f \in Seq(Byte)
    BY <2>8, ConcatProperties
  <2>10. x = (b \o f) \o p
    <3>1. (b \o f) \o p = b \o (f \o p)
      BY <2>4, <2>8, ConcatAssociative
    <3> QED BY <1>1, <2>7, <3>1
  <2>11. cut = (b \o f) \o e
    <3> DEFINE y == b \o f
    <3>1. y \in Seq(Byte) /\ x = y \o p
      BY <2>9, <2>10
    <3> HIDE DEF y
    <3>2. SubSeq(y \o p, 1, Len(y \o p) - 1) = y \o e
      BY <2>3, <2>4, <3>1, CutEnd DEF e
    <3> QED BY <3>1, <3>2 DEF y
  <2>12. \A i \in 1..Len(front) : Reads(names[i], front[i], Values(m)[i])
    BY <1>1, <1>2, <2>5
  <2>13. Len(front) + 1 = n
    BY <1>2, <2>5
  <2>14. decode((b \o f) \o e) = Garbage
    <3> USE DEF names, n
    <3>1. \A i \in 1..Len(front) : Reads(Fields[m.kind][i], front[i], Values(m)[i])
      BY <2>12
    <3>2. Len(front) + 1 = Len(Fields[m.kind]) /\ Refuses(Fields[m.kind][Len(Fields[m.kind])], e)
      BY <2>3, <2>13
    <3>3. m.kind \in Kind /\ front \in Seq(Seq(Byte)) /\ e \in Seq(Byte)
      BY <1>1, <2>3, <2>5
    <3> HIDE DEF names, n
    <3> QED BY <3>1, <3>2, <3>3, DecodePieces DEF b, f
  <2> QED BY <1>4, <2>11, <2>14 DEF x
<1> QED BY <1>5, <1>6

-----------------------------------------------------------------------------
(* What a peer says, and the frames it says it in.                         *)

LEMMA Joined ==
    ASSUME NEW E, NEW a \in Seq(E), NEW b \in Seq(E)
    PROVE  a \o b \in Seq(E) /\ Len(a \o b) = Len(a) + Len(b)
BY ConcatProperties

LEMMA SmallNumber ==
    ASSUME NEW n \in 0..2000
    PROVE  IsU32(n)
BY DEF IsU32

(* Tuples that are written out.                                            *)
LEMMA OneMore ==
    ASSUME NEW V, NEW s \in Seq(V), NEW t \in Seq(V), Len(t) = Len(s) + 1,
           \A i \in 1..Len(s) : t[i] = s[i]
    PROVE  Append(s, t[Len(s) + 1]) = t
<1>1. Len(s) \in Nat
  BY LenProperties
<1> DEFINE b == t[Len(s) + 1]
<1>2. b \in V
  BY <1>1, ElementOfSeq
<1> HIDE DEF b
<1>3. /\ Append(s, b) \in Seq(V) /\ Len(Append(s, b)) = Len(s) + 1
      /\ (\A i \in 1..Len(s) : Append(s, b)[i] = s[i]) /\ Append(s, b)[Len(s) + 1] = b
  BY <1>2, AppendProperties
<1>4. \A i \in 1..Len(t) : Append(s, b)[i] = t[i]
  BY <1>1, <1>3 DEF b
<1> QED BY <1>3, <1>4, SeqEqual DEF b

LEMMA AppendToTuple ==
    ASSUME NEW V, NEW a \in V, NEW b \in V, NEW c \in V, NEW d \in V
    PROVE  /\ Append(<<a>>, b) = <<a, b>> /\ Append(<<a, b>>, c) = <<a, b, c>>
           /\ Append(<<a, b, c>>, d) = <<a, b, c, d>>
<1> DEFINE w == <<a, b, c, d>>
           x == <<a, b, c>>
           y == <<a, b>>
           z == <<a>>
<1>1. w \in Seq(V) /\ x \in Seq(V) /\ y \in Seq(V) /\ z \in Seq(V)
  OBVIOUS
<1>2. Len(w) = 4 /\ Len(x) = 3 /\ Len(y) = 2 /\ Len(z) = 1
  OBVIOUS
<1>3. w[4] = d /\ x[3] = c /\ y[2] = b
  OBVIOUS
<1>4. (\A i \in 1..3 : w[i] = x[i]) /\ (\A i \in 1..2 : x[i] = y[i]) /\ (\A i \in 1..1 : y[i] = z[i])
  OBVIOUS
<1> HIDE DEF w, x, y, z
<1>5. Append(z, y[Len(z) + 1]) = y
  <2>1. z \in Seq(V) /\ y \in Seq(V)
    BY <1>1
  <2>2. Len(y) = Len(z) + 1
    BY <1>2
  <2>3. \A i \in 1..Len(z) : y[i] = z[i]
    BY <1>2, <1>4
  <2> QED BY <2>1, <2>2, <2>3, OneMore
<1>6. Append(y, x[Len(y) + 1]) = x
  <2>1. y \in Seq(V) /\ x \in Seq(V)
    BY <1>1
  <2>2. Len(x) = Len(y) + 1
    BY <1>2
  <2>3. \A i \in 1..Len(y) : x[i] = y[i]
    BY <1>2, <1>4
  <2> QED BY <2>1, <2>2, <2>3, OneMore
<1>7. Append(x, w[Len(x) + 1]) = w
  <2>1. x \in Seq(V) /\ w \in Seq(V)
    BY <1>1
  <2>2. Len(w) = Len(x) + 1
    BY <1>2
  <2>3. \A i \in 1..Len(x) : w[i] = x[i]
    BY <1>2, <1>4
  <2> QED BY <2>1, <2>2, <2>3, OneMore
<1> QED BY <1>2, <1>3, <1>5, <1>6, <1>7 DEF w, x, y, z

(* A few pieces one after another.                                         *)
One(a) == <<a>>
Two(a, b) == <<a, b>>
Four(a, b, c, d) == <<a, b, c, d>>
InARow(a, b, c, d) == ((a \o b) \o c) \o d

LEMMA FewPieces ==
    ASSUME NEW E, NEW a \in Seq(E), NEW b \in Seq(E), NEW c \in Seq(E), NEW d \in Seq(E)
    PROVE  /\ One(a) \in Seq(Seq(E)) /\ Two(a, b) \in Seq(Seq(E))
           /\ Four(a, b, c, d) \in Seq(Seq(E))
BY DEF One, Two, Four

LEMMA FlattenFew ==
    ASSUME NEW E, NEW a \in Seq(E), NEW b \in Seq(E), NEW c \in Seq(E), NEW d \in Seq(E)
    PROVE  /\ FlattenSeq(One(a)) = a /\ FlattenSeq(Two(a, b)) = a \o b
           /\ FlattenSeq(Four(a, b, c, d)) = InARow(a, b, c, d)
<1> DEFINE none == <<>>
           one == Append(none, a)
           two == Append(one, b)
           three == Append(two, c)
           four == Append(three, d)
<1>1. none \in Seq(E) /\ none \in Seq(Seq(E))
  OBVIOUS
<1>2. one = One(a) /\ two = Two(a, b) /\ four = Four(a, b, c, d)
  <2>1. one = <<a>>
    OBVIOUS
  <2>2. /\ Append(<<a>>, b) = <<a, b>> /\ Append(<<a, b>>, c) = <<a, b, c>>
        /\ Append(<<a, b, c>>, d) = <<a, b, c, d>>
    BY AppendToTuple
  <2> HIDE DEF one
  <2> QED BY <2>1, <2>2 DEF One, Two, Four
<1> HIDE DEF none, one, two, three, four
<1>3. one \in Seq(Seq(E))
  BY <1>1, AppendProperties DEF one
<1>4. two \in Seq(Seq(E))
  BY <1>3, AppendProperties DEF two
<1>5. three \in Seq(Seq(E))
  BY <1>4, AppendProperties DEF three
<1>6. four \in Seq(Seq(E))
  BY <1>5, AppendProperties DEF four
<1>7. FlattenSeq(one) = a
  <2>1. FlattenSeq(none) = none
    BY <1>1, FlattenLaws DEF none
  <2>2. FlattenSeq(one) = FlattenSeq(none) \o a
    BY <1>1, FlattenLaws DEF one
  <2>3. none \o a = a
    BY ConcatEmptySeq DEF none
  <2> QED BY <2>1, <2>2, <2>3
<1>8. FlattenSeq(two) = a \o b
  <2>1. FlattenSeq(two) = FlattenSeq(one) \o b
    BY <1>3, FlattenLaws DEF two
  <2> QED BY <1>7, <2>1
<1>9. FlattenSeq(three) = (a \o b) \o c
  <2>1. FlattenSeq(three) = FlattenSeq(two) \o c
    BY <1>4, FlattenLaws DEF three
  <2> QED BY <1>8, <2>1
<1>10. FlattenSeq(four) = InARow(a, b, c, d)
  <2>1. FlattenSeq(four) = FlattenSeq(three) \o d
    BY <1>5, FlattenLaws DEF four
  <2> QED BY <1>9, <2>1 DEF InARow
<1> QED BY <1>2, <1>3, <1>4, <1>6, <1>7, <1>8, <1>10

(* Values in the order of the layout are the message.                      *)
LEMMA ToldValues ==
    ASSUME NEW m, m.kind \in Kind,
           m = [kind |-> m.kind, fields |-> [f \in ToSet(Fields[m.kind]) |-> m.fields[f]]]
    PROVE  Told(m.kind, Values(m)) = m
<1> DEFINE names == Fields[m.kind]
           Place(f) == CHOOSE i \in DOMAIN names : names[i] = f
<1>1. ASSUME NEW f \in ToSet(names)
      PROVE  Values(m)[Place(f)] = m.fields[f]
  <2>1. DOMAIN names = 1..Len(names) /\ \E i \in DOMAIN names : names[i] = f
    BY Layouts DEF ToSet
  <2>2. Place(f) \in 1..Len(names) /\ names[Place(f)] = f
    BY <2>1
  <2> HIDE DEF Place
  <2> QED BY <2>2 DEF Values
<1>2. [f \in ToSet(names) |-> Values(m)[Place(f)]] = [f \in ToSet(names) |-> m.fields[f]]
  <2> HIDE DEF Place
  <2> QED BY <1>1
<1>3. Told(m.kind, Values(m)) =
        [kind |-> m.kind, fields |-> [f \in ToSet(names) |-> Values(m)[Place(f)]]]
  BY DEF Told
<1>4. m = [kind |-> m.kind, fields |-> [f \in ToSet(names) |-> m.fields[f]]]
  OBVIOUS
<1> HIDE DEF Place, names
<1> QED BY <1>2, <1>3, <1>4

(* A text of length 0, which has no NUL.                                   *)
LEMMA NoStatus ==
    LET x == BigEndian(87) \o BigEndian(1) \o BigEndian(0) IN
    /\ x \in Seq(Byte) /\ Len(x) = 12
    /\ decode(x) = [kind |-> "MonStats", fields |-> [host_id |-> 1, statmsg |-> <<>>]]
<1> DEFINE m == [kind |-> "MonStats", fields |-> [host_id |-> 1, statmsg |-> <<>>]]
           t == BigEndian(87)
           p == BigEndian(1)
           q == BigEndian(0)
           x == (t \o p) \o q
           vs == Values(m)
           ps == Two(p, q)
           none == <<>>
<1>1. "MonStats" \in Kind /\ MessageType["MonStats"] = 87
  BY DEF Kind, MessageType
<1>2. Fields["MonStats"] = <<"host_id", "statmsg">>
  BY DEF Fields
<1>3. IsU32(87) /\ IsU32(1) /\ IsU32(0)
  BY SmallNumber
<1>4. t \in Seq(Byte) /\ p \in Seq(Byte) /\ q \in Seq(Byte)
  BY <1>3, BigEndianBytes
<1>5. Len(t) = 4 /\ Len(p) = 4 /\ Len(q) = 4
  BY <1>3, BigEndianBytes
<1>6. vs[1] = 1 /\ vs[2] = none
  <2>1. vs = [i \in 1..2 |-> m.fields[<<"host_id", "statmsg">>[i]]]
    BY <1>2 DEF Values
  <2> QED BY <2>1
<1>7. Told("MonStats", vs) = m
  <2>1. ToSet(Fields["MonStats"]) = {"host_id", "statmsg"}
    BY <1>2 DEF ToSet
  <2>2. m.fields = [f \in {"host_id", "statmsg"} |-> m.fields[f]]
    OBVIOUS
  <2>3. m.kind = "MonStats" /\ m = [kind |-> m.kind, fields |-> m.fields]
    OBVIOUS
  <2> HIDE DEF m
  <2> QED BY <1>1, <2>1, <2>2, <2>3, ToldValues
<1>8. none \in Seq(Byte)
  OBVIOUS
<1> HIDE DEF t, p, q
<1>9. ps \in Seq(Seq(Byte)) /\ Len(ps) = 2 /\ ps[1] = p /\ ps[2] = q
  <2>1. ps \in Seq(Seq(Byte))
    BY <1>4, FewPieces
  <2>2. Len(ps) = 2 /\ ps[1] = p /\ ps[2] = q
    BY DEF Two
  <2> QED BY <2>1, <2>2
<1> HIDE DEF none
<1>10. Reads("host_id", p, 1) /\ Reads("statmsg", q, none)
  <2>1. Reads("host_id", p, 1)
    BY <1>3, NumberReads DEF TextField, p
  <2>2. Reads("statmsg", q, none)
    BY NoTextReads DEF TextField, q, none
  <2> QED BY <2>1, <2>2
<1> HIDE DEF m, vs, ps
<1>11. \A i \in 1..Len(ps) : Reads(Fields["MonStats"][i], ps[i], vs[i])
  BY <1>2, <1>6, <1>9, <1>10
<1>12. decode((t \o FlattenSeq(ps)) \o none) = m
  <2>1. ps \in Seq(Seq(Byte))
    BY <1>9
  <2>2. Len(ps) = Len(Fields["MonStats"])
    BY <1>2, <1>9
  <2>3. t = BigEndian(MessageType["MonStats"])
    BY <1>1 DEF t
  <2> QED BY <1>1, <1>7, <1>8, <1>11, <2>1, <2>2, <2>3, DecodePieces
<1>13. (t \o FlattenSeq(ps)) \o none = x
  <2>1. FlattenSeq(ps) = p \o q
    BY <1>4, FlattenFew DEF ps
  <2>2. t \o (p \o q) = x
    BY <1>4, ConcatAssociative
  <2>3. x \in Seq(Byte)
    BY <1>4, Joined
  <2> HIDE DEF x
  <2>4. x \o none = x
    BY <2>3, ConcatEmptySeq DEF none
  <2> QED BY <2>1, <2>2, <2>4
<1>14. x \in Seq(Byte) /\ Len(x) = 12
  <2> DEFINE y == t \o p
  <2>1. y \in Seq(Byte)
    BY <1>4, Joined
  <2>2. Len(y) = 8
    <3>1. Len(y) = Len(t) + Len(p)
      BY <1>4, Joined
    <3> QED BY <1>5, <3>1
  <2> HIDE DEF y
  <2>3. y \o q \in Seq(Byte)
    BY <1>4, <2>1, Joined
  <2>4. Len(y \o q) = Len(y) + Len(q)
    BY <1>4, <2>1, Joined
  <2> QED BY <1>5, <2>2, <2>3, <2>4 DEF y
<1> QED BY <1>12, <1>13, <1>14 DEF m, t, p, q

(* A language that is not known.                                           *)
LEMMA OtherLanguage ==
    LET x == BigEndian(83) \o encode_string(<<>>) \o BigEndian(9) \o BigEndian(1) \o BigEndian(2) IN
    /\ x \in Seq(Byte) /\ Len(x) = 21
    /\ decode(x) = [kind |-> "MonGetCs", fields |->
                      [filename |-> <<>>, lang |-> Custom, job_id |-> 1, client_id |-> 2]]
<1> DEFINE none == <<>>
           m == [kind |-> "MonGetCs", fields |->
                   [filename |-> none, lang |-> Custom, job_id |-> 1, client_id |-> 2]]
           t == BigEndian(83)
           a == encode_string(none)
           b == BigEndian(9)
           c == BigEndian(1)
           d == BigEndian(2)
           x == (((t \o a) \o b) \o c) \o d
           vs == Values(m)
           ps == Four(a, b, c, d)
<1>1. "MonGetCs" \in Kind /\ MessageType["MonGetCs"] = 83
  BY DEF Kind, MessageType
<1>2. Fields["MonGetCs"] = <<"filename", "lang", "job_id", "client_id">>
  BY DEF Fields
<1>3. IsU32(83) /\ IsU32(9) /\ IsU32(1) /\ IsU32(2)
  BY SmallNumber
<1>4. none \in Seq(Byte) /\ Len(none) = 0 /\ IsUtf8(none) /\ IsU32(Len(none) + 1)
  <2>1. IsUtf8(none)
    BY DEF IsUtf8
  <2> QED BY <1>3, <2>1
<1>5. vs[1] = none /\ vs[2] = Custom /\ vs[3] = 1 /\ vs[4] = 2
  <2>1. vs = [i \in 1..4 |-> m.fields[<<"filename", "lang", "job_id", "client_id">>[i]]]
    BY <1>2 DEF Values
  <2> QED BY <2>1
<1>6. Told("MonGetCs", vs) = m
  <2>1. ToSet(Fields["MonGetCs"]) = {"filename", "lang", "job_id", "client_id"}
    BY <1>2 DEF ToSet
  <2>2. m.fields = [f \in {"filename", "lang", "job_id", "client_id"} |-> m.fields[f]]
    OBVIOUS
  <2>3. m.kind = "MonGetCs" /\ m = [kind |-> m.kind, fields |-> m.fields]
    OBVIOUS
  <2> HIDE DEF m
  <2> QED BY <1>1, <2>1, <2>2, <2>3, ToldValues
<1> HIDE DEF none
<1>7. a \in Seq(Byte) /\ Len(a) = 5
  <2>1. a \in Seq(Byte) /\ Len(a) = Len(none) + 5
    BY <1>4, TextRead
  <2> QED BY <1>4, <2>1
<1>8. Reads("filename", a, none)
  BY <1>4, TextReads DEF TextField
<1>9. t \in Seq(Byte) /\ b \in Seq(Byte) /\ c \in Seq(Byte) /\ d \in Seq(Byte)
  BY <1>3, BigEndianBytes
<1>10. Len(t) = 4 /\ Len(b) = 4 /\ Len(c) = 4 /\ Len(d) = 4
  BY <1>3, BigEndianBytes
<1>11. Reads("lang", b, Custom) /\ Reads("job_id", c, 1) /\ Reads("client_id", d, 2)
  BY <1>3, NumberReads DEF TextField, LanguageFrom, Custom
<1> HIDE DEF t, a, b, c, d
<1>12. ps \in Seq(Seq(Byte))
  BY <1>7, <1>9, FewPieces
<1>13. Len(ps) = 4 /\ ps[1] = a /\ ps[2] = b /\ ps[3] = c /\ ps[4] = d
  BY DEF Four
<1> HIDE DEF m, vs, ps
<1>14. \A i \in 1..Len(ps) : Reads(Fields["MonGetCs"][i], ps[i], vs[i])
  BY <1>2, <1>5, <1>8, <1>11, <1>13
<1>15. decode((t \o FlattenSeq(ps)) \o none) = m
  <2>1. Len(ps) = Len(Fields["MonGetCs"])
    BY <1>2, <1>13
  <2>2. t = BigEndian(MessageType["MonGetCs"])
    BY <1>1 DEF t
  <2>3. none \in Seq(Byte)
    BY <1>4
  <2> QED BY <1>1, <1>6, <1>12, <1>14, <2>1, <2>2, <2>3, DecodePieces
<1> DEFINE ab == a \o b
           abc == ab \o c
           abcd == abc \o d
<1>16. ab \in Seq(Byte) /\ abc \in Seq(Byte) /\ abcd \in Seq(Byte)
  <2>1. ab \in Seq(Byte)
    BY <1>7, <1>9, Joined
  <2> HIDE DEF ab
  <2>2. abc \in Seq(Byte)
    BY <1>9, <2>1, Joined
  <2> HIDE DEF abc
  <2>3. abcd \in Seq(Byte)
    BY <1>9, <2>2, Joined
  <2> QED BY <2>1, <2>2, <2>3
<1>17. FlattenSeq(ps) = abcd
  <2>1. a \in Seq(Byte) /\ b \in Seq(Byte) /\ c \in Seq(Byte) /\ d \in Seq(Byte)
    BY <1>7, <1>9
  <2>2. FlattenSeq(Four(a, b, c, d)) = InARow(a, b, c, d)
    BY <2>1, FlattenFew
  <2> QED BY <2>2 DEF ps, InARow
<1>18. t \o abcd = x /\ x \in Seq(Byte) /\ Len(x) = 21
  <2> DEFINE ta == t \o a
             tab == ta \o b
             tabc == tab \o c
  <2>1. a \in Seq(Byte) /\ t \in Seq(Byte) /\ b \in Seq(Byte) /\ c \in Seq(Byte) /\ d \in Seq(Byte)
    BY <1>7, <1>9
  <2>2. t \o ab = tab
    BY <2>1, ConcatAssociative
  <2>3. ta \in Seq(Byte) /\ Len(ta) = Len(t) + Len(a)
    BY <2>1, Joined
  <2> HIDE DEF ab, ta
  <2>4. tab \in Seq(Byte) /\ Len(tab) = Len(ta) + Len(b)
    BY <2>1, <2>3, Joined
  <2> HIDE DEF tab
  <2>5. t \o abc = tabc
    <3>1. t \o (ab \o c) = (t \o ab) \o c
      <4>1. t \in Seq(Byte) /\ ab \in Seq(Byte) /\ c \in Seq(Byte)
        BY <1>16, <2>1
      <4> QED BY <4>1, ConcatAssociative
    <3> QED BY <2>2, <3>1
  <2>6. tabc \in Seq(Byte) /\ Len(tabc) = Len(tab) + Len(c)
    BY <2>1, <2>4, Joined
  <2> HIDE DEF abc, tabc
  <2>7. t \o abcd = tabc \o d
    <3>1. t \o (abc \o d) = (t \o abc) \o d
      <4>1. t \in Seq(Byte) /\ abc \in Seq(Byte) /\ d \in Seq(Byte)
        BY <1>16, <2>1
      <4> QED BY <4>1, ConcatAssociative
    <3> QED BY <2>5, <3>1
  <2>8. tabc \o d \in Seq(Byte) /\ Len(tabc \o d) = Len(tabc) + Len(d)
    BY <2>1, <2>6, Joined
  <2>9. tabc \o d = x
    BY DEF tabc, tab, ta
  <2>10. Len(tabc \o d) = 21
    BY <1>7, <1>10, <2>3, <2>4, <2>6, <2>8
  <2> HIDE DEF x, abcd
  <2> QED BY <2>7, <2>8, <2>9, <2>10
<1>19. x \o none = x
  <2> HIDE DEF x
  <2> QED BY <1>18, ConcatEmptySeq DEF none
<1> HIDE DEF x, abcd
<1>20. decode(x) = m
  BY <1>15, <1>17, <1>18, <1>19
<1> QED BY <1>18, <1>20 DEF x, m, t, a, b, c, d, none

(* A text that is not UTF-8.                                               *)
LEMMA NotUtf8 ==
    LET x == BigEndian(87) \o BigEndian(1) \o encode_string(<<233>>) IN
    x \in Seq(Byte) /\ Len(x) = 14 /\ decode(x) = Garbage
<1> DEFINE s == <<233>>
           t == BigEndian(87)
           p == BigEndian(1)
           a == encode_string(s)
           x == (t \o p) \o a
           ps == One(p)
           vs == <<1>>
<1>1. "MonStats" \in Kind /\ MessageType["MonStats"] = 87
  BY DEF Kind, MessageType
<1>2. Fields["MonStats"] = <<"host_id", "statmsg">>
  BY DEF Fields
<1>3. IsU32(87) /\ IsU32(1) /\ IsU32(2)
  BY SmallNumber
<1>4. s \in Seq(Byte)
  BY DEF Byte
<1>5. Len(s) = 1 /\ ~IsUtf8(s) /\ vs[1] = 1
  BY DEF IsUtf8
<1> HIDE DEF s, vs
<1>6. IsU32(Len(s) + 1)
  BY <1>3, <1>5
<1>7. a \in Seq(Byte) /\ Len(a) = 6
  <2>0. <<>> \in Seq(Byte)
    OBVIOUS
  <2>1. a \in Seq(Byte) /\ Len(a) = Len(s) + 5
    BY <1>4, <1>6, <2>0, TextRead
  <2> QED BY <1>5, <2>1
<1>8. Refuses("statmsg", a)
  BY <1>4, <1>5, <1>6, TextReads DEF TextField
<1>9. t \in Seq(Byte) /\ p \in Seq(Byte)
  BY <1>3, BigEndianBytes
<1>10. Len(t) = 4 /\ Len(p) = 4
  BY <1>3, BigEndianBytes
<1>11. Reads("host_id", p, 1)
  BY <1>3, NumberReads DEF TextField
<1> HIDE DEF t, p, a
<1>12. ps \in Seq(Seq(Byte)) /\ FlattenSeq(ps) = p
  <2>1. ps \in Seq(Seq(Byte))
    BY <1>9, FewPieces
  <2>2. FlattenSeq(ps) = p
    BY <1>9, FlattenFew
  <2> QED BY <2>1, <2>2
<1>13. Len(ps) = 1 /\ ps[1] = p
  BY DEF One
<1> HIDE DEF ps
<1>14. \A i \in 1..Len(ps) : Reads(Fields["MonStats"][i], ps[i], vs[i])
  BY <1>2, <1>5, <1>11, <1>13
<1>15. decode((t \o FlattenSeq(ps)) \o a) = Garbage
  <2>1. ps \in Seq(Seq(Byte)) /\ a \in Seq(Byte)
    BY <1>7, <1>12
  <2>2. Len(ps) + 1 = Len(Fields["MonStats"])
    BY <1>2, <1>13
  <2>3. t = BigEndian(MessageType["MonStats"])
    BY <1>1 DEF t
  <2>4. Refuses(Fields["MonStats"][Len(Fields["MonStats"])], a)
    BY <1>2, <1>8
  <2> QED BY <1>1, <1>14, <2>1, <2>2, <2>3, <2>4, DecodePieces
<1>16. x \in Seq(Byte) /\ Len(x) = 14
  <2> DEFINE y == t \o p
  <2>1. y \in Seq(Byte)
    BY <1>9, Joined
  <2>2. Len(y) = Len(t) + Len(p)
    BY <1>9, Joined
  <2>3. a \in Seq(Byte)
    BY <1>7
  <2> HIDE DEF y
  <2>4. y \o a \in Seq(Byte)
    BY <2>1, <2>3, Joined
  <2>5. Len(y \o a) = Len(y) + Len(a)
    BY <2>1, <2>3, Joined
  <2>6. Len(y \o a) = 14
    BY <1>7, <1>10, <2>2, <2>5
  <2> QED BY <2>4, <2>6 DEF y
<1> QED BY <1>12, <1>15, <1>16 DEF t, p, a, s

(* A type that decode has no arm for, and no type at all.                  *)
LEMMA NoSuchType ==
    /\ BigEndian(71) \in Seq(Byte) /\ Len(BigEndian(71)) = 4
    /\ decode(BigEndian(71)) = Garbage
    /\ decode(<<>>) = Garbage
<1> DEFINE none == <<>>
           t == BigEndian(71)
<1>1. IsU32(71)
  BY SmallNumber
<1>2. t \in Seq(Byte) /\ Len(t) = 4
  BY <1>1, BigEndianBytes
<1>3. none \in Seq(Byte) /\ Len(none) = 0
  OBVIOUS
<1>4. decode(none) = Garbage
  <2> HIDE DEF none
  <2>1. ~FitsU32(none, 0)
    BY <1>3 DEF FitsU32
  <2> QED BY <2>1 DEF decode
<1>5. decode(t) = Garbage
  <2> DEFINE data == none \o (t \o none)
  <2> HIDE DEF none
  <2>0. none \in Seq(Byte)
    BY <1>3
  <2>1. decode_u32(data, Len(none)) = 71
    BY <1>1, <2>0, IntegerRead
  <2>2. data = t
    <3> HIDE DEF t
    <3>1. t \o none = t
      BY <1>2, ConcatEmptySeq DEF none
    <3>2. none \o t = t
      BY <1>2, ConcatEmptySeq DEF none
    <3> QED BY <3>1, <3>2
  <2> HIDE DEF t, data
  <2>3. decode_u32(t, 0) = 71
    BY <1>3, <2>1, <2>2
  <2>4. \A k \in Kind : MessageType[k] # 71
    BY DEF Kind, MessageType
  <2> QED BY <2>3, <2>4 DEF decode
<1> QED BY <1>2, <1>4, <1>5

(* What is said with s is what its frame is read as, or the frame is       *)
(* longer than allowed and that is all of it.                              *)
IsFrame(s, x) ==
    x \in Seq(Byte) /\ IsU32(Len(x)) /\ s[2] = Framed(x) /\ decode(x) = s[1]
Oversized(s) == s[1] = Garbage /\ s[2] = BigEndian(MAX_MSG_SIZE + 1)

LEMMA SpeechMeans ==
    ASSUME NEW s \in Speech
    PROVE  /\ (\E x \in Seq(Byte) : IsFrame(s, x)) \/ Oversized(s)
           /\ s[1].kind = "End" => s[1] \in Messages
<1> DEFINE none == <<>>
<1>1. none \in Seq(Byte)
  OBVIOUS
<1> HIDE DEF none
<1>2. ASSUME NEW m \in Messages
      PROVE  /\ IsMessage(m) /\ encode(m) \in Seq(Byte) /\ Len(encode(m)) \in Nat
             /\ IsU32(Len(encode(m))) /\ IsU32(Len(encode(m)) + 4)
             /\ m.kind \in Kind
  <2>1. IsMessage(m) /\ IsU32(Len(encode(m)) + 4)
    BY ConnectionAssumption DEF ConnectionAssumption
  <2>2. encode(m) \in Seq(Byte) /\ m.kind \in Kind
    BY <2>1, PiecesOfMessage
  <2> DEFINE n == Len(encode(m))
  <2>3. n \in Nat
    BY <2>2, LenProperties
  <2> HIDE DEF n
  <2>4. IsU32(n + 4) => IsU32(n)
    BY <2>3 DEF IsU32
  <2> QED BY <2>1, <2>2, <2>3, <2>4 DEF n
<1>3. Garbage.kind # "End"
  BY DEF Garbage
<1>4. CASE \E m \in Messages : s = <<m, encode_framed(m)>>
  <2>1. PICK m \in Messages : s = <<m, encode_framed(m)>>
    BY <1>4
  <2>2. decode(encode(m)) = m
    <3> DEFINE x == encode(m)
    <3>1. x \in Seq(Byte) /\ IsMessage(m)
      BY <1>2
    <3>2. decode(x \o none) = m
      BY <1>1, <3>1, RoundTrip
    <3> HIDE DEF x
    <3>3. x \o none = x
      BY <3>1, ConcatEmptySeq DEF none
    <3> QED BY <3>2, <3>3 DEF x
  <2>3. s[1] = m /\ s[2] = Framed(encode(m))
    BY <2>1 DEF encode_framed, Framed
  <2>4. IsFrame(s, encode(m))
    BY <1>2, <2>2, <2>3 DEF IsFrame
  <2> QED BY <1>2, <2>3, <2>4
<1>5. CASE \E m \in Revised : s = <<m, Framed(encode(m) \o BigEndian(1))>>
  <2>1. PICK m \in Revised : s = <<m, Framed(encode(m) \o BigEndian(1))>>
    BY <1>5
  <2>2. m \in Messages
    BY ConnectionAssumption DEF ConnectionAssumption
  <2> DEFINE x == encode(m)
             p == BigEndian(1)
  <2>3. x \in Seq(Byte) /\ IsMessage(m)
    BY <1>2, <2>2
  <2>4. IsU32(1)
    BY SmallNumber
  <2>5. p \in Seq(Byte)
    BY <2>4, BigEndianBytes
  <2>6. Len(p) = 4
    BY <2>4, BigEndianBytes
  <2> HIDE DEF p
  <2>7. decode(x \o p) = m
    BY <2>3, <2>5, RoundTrip
  <2>8. x \o p \in Seq(Byte) /\ Len(x \o p) = Len(x) + Len(p)
    <3> HIDE DEF x
    <3> QED BY <2>3, <2>5, Joined
  <2>9. IsU32(Len(x \o p))
    BY <1>2, <2>2, <2>6, <2>8
  <2>10. s[1] = m /\ s[2] = Framed(x \o p)
    BY <2>1 DEF p
  <2> HIDE DEF x
  <2>11. IsFrame(s, x \o p)
    BY <2>7, <2>8, <2>9, <2>10 DEF IsFrame
  <2> QED BY <2>2, <2>8, <2>10, <2>11
<1>6. CASE \E m \in Revised : s = <<Garbage, Framed(SubSeq(encode(m), 1, Len(encode(m)) - 1))>>
  <2>1. PICK m \in Revised : s = <<Garbage, Framed(SubSeq(encode(m), 1, Len(encode(m)) - 1))>>
    BY <1>6
  <2>2. m \in Messages
    BY ConnectionAssumption DEF ConnectionAssumption
  <2> DEFINE n == Len(encode(m))
             cut == SubSeq(encode(m), 1, n - 1)
  <2>3. IsMessage(m) /\ IsU32(n) /\ n \in Nat
    BY <1>2, <2>2
  <2>4. cut \in Seq(Byte) /\ Len(cut) = n - 1 /\ decode(cut) = Garbage
    BY <2>3, CutMessage
  <2>5. s[1] = Garbage /\ s[2] = Framed(cut)
    BY <2>1
  <2> HIDE DEF n, cut
  <2>6. Len(cut) \in Nat
    BY <2>4, LenProperties
  <2>7. IsU32(Len(cut))
    BY <2>3, <2>4, <2>6 DEF IsU32
  <2>8. IsFrame(s, cut)
    BY <2>4, <2>5, <2>7 DEF IsFrame
  <2> QED BY <1>3, <2>4, <2>5, <2>8
<1>8. CASE s = <<[kind |-> "MonStats", fields |-> [host_id |-> 1, statmsg |-> <<>>]],
                 Framed(BigEndian(87) \o BigEndian(1) \o BigEndian(0))>>
  <2> DEFINE x == BigEndian(87) \o BigEndian(1) \o BigEndian(0)
             m == [kind |-> "MonStats", fields |-> [host_id |-> 1, statmsg |-> <<>>]]
  <2>1. x \in Seq(Byte) /\ Len(x) = 12 /\ decode(x) = m
    BY NoStatus
  <2>2. s = <<m, Framed(x)>> /\ m.kind # "End"
    BY <1>8
  <2> HIDE DEF x, m
  <2>3. s[1] = m /\ s[2] = Framed(x)
    BY <2>2
  <2>4. IsFrame(s, x)
    <3>1. IsU32(12)
      BY SmallNumber
    <3> QED BY <2>1, <2>3, <3>1 DEF IsFrame
  <2> QED BY <2>1, <2>2, <2>3, <2>4
<1>9. CASE s = <<[kind |-> "MonGetCs", fields |->
                    [filename |-> <<>>, lang |-> Custom, job_id |-> 1, client_id |-> 2]],
                 Framed(BigEndian(83) \o encode_string(<<>>) \o BigEndian(9)
                          \o BigEndian(1) \o BigEndian(2))>>
  <2> DEFINE x == BigEndian(83) \o encode_string(<<>>) \o BigEndian(9)
                    \o BigEndian(1) \o BigEndian(2)
             m == [kind |-> "MonGetCs", fields |->
                     [filename |-> <<>>, lang |-> Custom, job_id |-> 1, client_id |-> 2]]
  <2>1. x \in Seq(Byte) /\ Len(x) = 21 /\ decode(x) = m
    BY OtherLanguage
  <2>2. s = <<m, Framed(x)>> /\ m.kind # "End"
    BY <1>9
  <2> HIDE DEF x, m
  <2>3. s[1] = m /\ s[2] = Framed(x)
    BY <2>2
  <2>4. IsFrame(s, x)
    <3>1. IsU32(21)
      BY SmallNumber
    <3> QED BY <2>1, <2>3, <3>1 DEF IsFrame
  <2> QED BY <2>1, <2>2, <2>3, <2>4
<1>10. CASE s = <<Garbage, Framed(BigEndian(87) \o BigEndian(1) \o encode_string(<<233>>))>>
  <2> DEFINE x == BigEndian(87) \o BigEndian(1) \o encode_string(<<233>>)
  <2>1. x \in Seq(Byte) /\ Len(x) = 14 /\ decode(x) = Garbage
    BY NotUtf8
  <2>2. s = <<Garbage, Framed(x)>>
    BY <1>10
  <2> HIDE DEF x
  <2>3. s[1] = Garbage /\ s[2] = Framed(x)
    BY <2>2
  <2>4. IsFrame(s, x)
    <3>1. IsU32(14)
      BY SmallNumber
    <3> QED BY <2>1, <2>3, <3>1 DEF IsFrame
  <2> QED BY <1>3, <2>1, <2>3, <2>4
<1>11. CASE s = <<Garbage, Framed(BigEndian(71))>>
  <2> DEFINE x == BigEndian(71)
  <2>1. x \in Seq(Byte) /\ Len(x) = 4 /\ decode(x) = Garbage
    BY NoSuchType
  <2>2. s = <<Garbage, Framed(x)>>
    BY <1>11
  <2> HIDE DEF x
  <2>3. s[1] = Garbage /\ s[2] = Framed(x)
    BY <2>2
  <2>4. IsFrame(s, x)
    <3>1. IsU32(4)
      BY SmallNumber
    <3> QED BY <2>1, <2>3, <3>1 DEF IsFrame
  <2> QED BY <1>3, <2>1, <2>3, <2>4
<1>12. CASE s = <<Garbage, Framed(<<>>)>>
  <2>1. s = <<Garbage, Framed(none)>> /\ decode(none) = Garbage /\ Len(none) = 0
    BY <1>12, NoSuchType DEF none
  <2>2. s[1] = Garbage /\ s[2] = Framed(none)
    BY <2>1
  <2>3. IsFrame(s, none)
    <3>1. IsU32(0)
      BY SmallNumber
    <3> QED BY <1>1, <2>1, <2>2, <3>1 DEF IsFrame
  <2> QED BY <1>1, <1>3, <2>2, <2>3
<1>13. CASE s = <<Garbage, BigEndian(MAX_MSG_SIZE + 1)>>
  BY <1>3, <1>13 DEF Oversized
<1> QED BY <1>4, <1>5, <1>6, <1>8, <1>9, <1>10, <1>11, <1>12, <1>13 DEF Speech

-----------------------------------------------------------------------------
(* Streams.  What has come and was not read is a beginning of what is due, *)
(* and all of it unless the stream ended.                                  *)
Awaits(read, shut, due) ==
    /\ read \in Seq(Byte) /\ due \in Seq(Byte)
    /\ \E more \in Seq(Byte) : read \o more = due /\ (shut \/ more = <<>>)

LEMMA AwaitsMore ==
    ASSUME NEW read, NEW due, Awaits(read, FALSE, due), NEW b \in Seq(Byte)
    PROVE  Awaits(read \o b, FALSE, due \o b)
<1>1. read \in Seq(Byte)
  BY DEF Awaits
<1>2. read \o <<>> = read
  BY <1>1, ConcatEmptySeq
<1>3. read = due
  BY <1>2 DEF Awaits
<1> DEFINE s == read \o b
<1>4. s \in Seq(Byte)
  BY <1>1, Joined
<1>5. <<>> \in Seq(Byte)
  OBVIOUS
<1> HIDE DEF s
<1>6. s \o <<>> = s
  BY <1>4, ConcatEmptySeq
<1>7. Awaits(s, FALSE, s)
  BY <1>4, <1>5, <1>6 DEF Awaits
<1> QED BY <1>3, <1>7 DEF s

LEMMA AwaitsCut ==
    ASSUME NEW read, NEW due, Awaits(read, FALSE, due), NEW n \in 0..Len(read)
    PROVE  Awaits(SubSeq(read, 1, n), TRUE, due)
<1>1. read \in Seq(Byte) /\ due \in Seq(Byte)
  BY DEF Awaits
<1>2. read \o <<>> = read
  BY <1>1, ConcatEmptySeq
<1>3. read = due
  BY <1>2 DEF Awaits
<1> DEFINE k == Len(read)
           u == SubSeq(read, 1, n)
           v == SubSeq(read, n + 1, k)
<1>4. k \in Nat /\ n \in Nat /\ n <= k
  BY <1>1, LenProperties
<1>5. \A i \in 1..k : read[i] \in Byte
  BY <1>1, ElementOfSeq
<1>6. u \in Seq(Byte)
  <2>1. 1 \in Int /\ n \in Int /\ \A i \in 1..n : read[i] \in Byte
    BY <1>4, <1>5
  <2> QED BY <2>1, SubSeqProperties
<1>7. v \in Seq(Byte)
  <2>1. n + 1 \in Int /\ k \in Int /\ \A i \in (n + 1)..k : read[i] \in Byte
    BY <1>4, <1>5
  <2> HIDE DEF k
  <2> QED BY <2>1, SubSeqProperties
<1>8. u \o v = read
  <2>1. 1 \in 1..(Len(read) + 1) /\ n \in (1 - 1)..Len(read) /\ Len(read) \in n..Len(read)
    BY <1>4
  <2>2. SubSeq(read, 1, n) \o SubSeq(read, n + 1, Len(read)) = SubSeq(read, 1, Len(read))
    BY <1>1, <2>1, ConcatAdjacentSubSeq
  <2>3. SubSeq(read, 1, Len(read)) = read
    BY <1>1, SubSeqFull
  <2> QED BY <2>2, <2>3
<1> HIDE DEF u, v
<1>9. Awaits(u, TRUE, due)
  BY <1>1, <1>3, <1>6, <1>7, <1>8 DEF Awaits
<1> QED BY <1>9 DEF u

LEMMA AwaitsTake ==
    ASSUME NEW read, NEW shut, NEW c \in Seq(Byte), NEW d \in Seq(Byte),
           Awaits(read, shut, c \o d), Len(read) >= Len(c)
    PROVE  /\ SubSeq(read, 1, Len(c)) = c
           /\ Awaits(SubSeq(read, Len(c) + 1, Len(read)), shut, d)
<1>1. PICK more \in Seq(Byte) : read \o more = c \o d /\ (shut \/ more = <<>>)
  BY DEF Awaits
<1>2. read \in Seq(Byte)
  BY DEF Awaits
<1> DEFINE v == SubSeq(read, Len(c) + 1, Len(read))
<1>3. SubSeq(read, 1, Len(c)) = c /\ v \in Seq(Byte) /\ v \o more = d
  <2>1. read \o more = c \o d
    BY <1>1
  <2>2. read \in Seq(Byte) /\ more \in Seq(Byte) /\ c \in Seq(Byte) /\ d \in Seq(Byte)
    BY <1>2
  <2>3. Len(read) >= Len(c)
    OBVIOUS
  <2>4. SubSeq(read, 1, Len(c)) = c
    BY ONLY <2>1, <2>2, <2>3, CutTwice
  <2>5. SubSeq(read, Len(c) + 1, Len(read)) \in Seq(Byte)
    BY ONLY <2>1, <2>2, <2>3, CutTwice
  <2>6. Makes(SubSeq(read, Len(c) + 1, Len(read)), more, d)
    BY ONLY <2>1, <2>2, <2>3, CutTwice
  <2> QED BY <2>4, <2>5, <2>6 DEF Makes
<1> HIDE DEF v
<1>4. Awaits(v, shut, d)
  BY <1>1, <1>3 DEF Awaits
<1> QED BY <1>3, <1>4 DEF v

LEMMA AwaitsLength ==
    ASSUME NEW read, NEW shut, NEW due, Awaits(read, shut, due)
    PROVE  Len(read) <= Len(due)
<1>1. PICK more \in Seq(Byte) : read \o more = due
  BY DEF Awaits
<1>2. read \in Seq(Byte)
  BY DEF Awaits
<1>3. Len(read \o more) = Len(read) + Len(more)
  BY <1>2, Joined
<1>4. Len(read) \in Nat /\ Len(more) \in Nat
  BY <1>2, LenProperties
<1> QED BY <1>1, <1>3, <1>4

(* Frames that were said with the messages of left.                        *)
IsSpeech(m, f) == \E s \in Speech : m = s[1] /\ f = s[2]
Carries(frames, left) ==
    /\ frames \in Seq(Seq(Byte)) /\ left \in Seq(Said) /\ Len(frames) = Len(left)
    /\ \A i \in 1..Len(left) : IsSpeech(left[i], frames[i])

LEMMA FrameBytes ==
    ASSUME NEW x \in Seq(Byte), IsU32(Len(x))
    PROVE  /\ Framed(x) = BigEndian(Len(x)) \o x /\ Framed(x) \in Seq(Byte)
           /\ BigEndian(Len(x)) \in Seq(Byte) /\ Len(BigEndian(Len(x))) = 4
<1> DEFINE b == BigEndian(Len(x))
<1>1. b \in Seq(Byte)
  BY BigEndianBytes
<1>2. Len(b) = 4
  BY BigEndianBytes
<1>3. Framed(x) = b \o x
  BY DEF Framed, encode_u32
<1> HIDE DEF b
<1>4. b \o x \in Seq(Byte)
  BY <1>1, Joined
<1> QED BY <1>1, <1>2, <1>3, <1>4 DEF b

LEMMA SpeechBytes ==
    ASSUME NEW s \in Speech
    PROVE  s[2] \in Seq(Byte) /\ s[1] \in Said
<1>1. s[1] \in Said
  BY DEF Said
<1>2. CASE \E x \in Seq(Byte) : IsFrame(s, x)
  <2>1. PICK x \in Seq(Byte) : IsFrame(s, x)
    BY <1>2
  <2>2. IsU32(Len(x)) /\ s[2] = Framed(x)
    BY <2>1 DEF IsFrame
  <2> QED BY <1>1, <2>2, FrameBytes
<1>3. CASE Oversized(s)
  <2>1. IsU32(MAX_MSG_SIZE + 1)
    BY DEF IsU32, MAX_MSG_SIZE
  <2> QED BY <1>1, <1>3, <2>1, BigEndianBytes DEF Oversized
<1> QED BY <1>2, <1>3, SpeechMeans

LEMMA NothingSaid == Carries(<<>>, <<>>)
BY DEF Carries

LEMMA OneMoreSaid ==
    ASSUME NEW frames, NEW left, Carries(frames, left), NEW s \in Speech
    PROVE  Carries(Append(frames, s[2]), Append(left, s[1]))
<1> DEFINE m == s[1]
           f == s[2]
           n == Len(left)
           fs == Append(frames, f)
           ls == Append(left, m)
<1>1. f \in Seq(Byte) /\ m \in Said
  BY SpeechBytes
<1>2. IsSpeech(m, f)
  BY DEF IsSpeech
<1>3. frames \in Seq(Seq(Byte)) /\ left \in Seq(Said) /\ Len(frames) = n
  BY DEF Carries
<1>4. n \in Nat
  BY <1>3, LenProperties
<1> HIDE DEF m, f
<1>5. /\ ls \in Seq(Said) /\ Len(ls) = n + 1 /\ ls[n + 1] = m
      /\ \A i \in 1..n : ls[i] = left[i]
  BY <1>1, <1>3, AppendProperties
<1>6. /\ fs \in Seq(Seq(Byte)) /\ Len(fs) = n + 1 /\ fs[n + 1] = f
      /\ \A i \in 1..n : fs[i] = frames[i]
  BY <1>1, <1>3, AppendProperties
<1>7. \A i \in 1..n : IsSpeech(left[i], frames[i])
  BY DEF Carries
<1> HIDE DEF n, fs, ls
<1>8. \A i \in 1..(n + 1) : IsSpeech(ls[i], fs[i])
  BY <1>2, <1>4, <1>5, <1>6, <1>7
<1>9. Carries(fs, ls)
  BY <1>5, <1>6, <1>8 DEF Carries
<1> QED BY <1>9 DEF fs, ls, m, f

(* s was said first, and then what fs and ls have.                         *)
SaidFirst(s, fs, ls, frames, left) ==
    /\ Carries(fs, ls)
    /\ left = <<s[1]>> \o ls
    /\ FlattenSeq(frames) = s[2] \o FlattenSeq(fs)

LEMMA FirstSaid ==
    ASSUME NEW frames, NEW left, Carries(frames, left), left # <<>>
    PROVE  \E s \in Speech, fs \in Seq(Seq(Byte)), ls \in Seq(Said) :
              SaidFirst(s, fs, ls, frames, left)
<1> DEFINE n == Len(left)
           fs == Tail(frames)
           ls == Tail(left)
<1>1. left \in Seq(Said)
  BY DEF Carries
<1>2. frames \in Seq(Seq(Byte))
  BY DEF Carries
<1>3. Len(frames) = n /\ \A i \in 1..n : IsSpeech(left[i], frames[i])
  BY DEF Carries
<1>4. n \in Nat \ {0}
  BY <1>1, EmptySeq, LenProperties
<1>5. frames # <<>>
  BY <1>3, <1>4
<1>6. /\ ls \in Seq(Said) /\ Len(ls) = n - 1
      /\ \A i \in 1..(n - 1) : ls[i] = left[i + 1]
  BY <1>1, HeadTailProperties
<1>7. /\ fs \in Seq(Seq(Byte)) /\ Len(fs) = n - 1
      /\ \A i \in 1..(n - 1) : fs[i] = frames[i + 1]
  BY <1>2, <1>3, <1>5, HeadTailProperties
<1>8. PICK s \in Speech : left[1] = s[1] /\ frames[1] = s[2]
  BY <1>3, <1>4 DEF IsSpeech
<1>9. left = <<s[1]>> \o ls
  <2>1. left = <<Head(left)>> \o Tail(left)
    BY <1>1, HeadTailProperties
  <2> QED BY <1>8, <2>1
<1>10. frames = <<s[2]>> \o fs
  <2>1. frames = <<Head(frames)>> \o Tail(frames)
    BY <1>2, <1>5, HeadTailProperties
  <2> QED BY <1>8, <2>1
<1>11. s[2] \in Seq(Byte)
  BY SpeechBytes
<1> HIDE DEF n, fs, ls
<1>12. Carries(fs, ls)
  <2>1. \A i \in 1..(n - 1) : i + 1 \in 1..n
    BY <1>4
  <2>2. \A i \in 1..(n - 1) : IsSpeech(ls[i], fs[i])
    BY <1>3, <1>6, <1>7, <2>1
  <2> QED BY <1>6, <1>7, <2>2 DEF Carries
<1>13. FlattenSeq(frames) = s[2] \o FlattenSeq(fs)
  <2> DEFINE f == s[2]
  <2>1. f \in Seq(Byte)
    BY <1>11
  <2>2. frames = <<f>> \o fs
    BY <1>10
  <2>3. fs \in Seq(Seq(Byte))
    BY <1>7
  <2> HIDE DEF f
  <2>4. FlattenSeq(<<f>> \o fs) = f \o FlattenSeq(fs)
    BY <2>1, <2>3, FlattenLaws
  <2> QED BY <2>2, <2>4 DEF f
<1>14. fs \in Seq(Seq(Byte)) /\ ls \in Seq(Said)
  BY <1>6, <1>7
<1> QED BY <1>9, <1>12, <1>13, <1>14 DEF SaidFirst

(* Between two frames, with the messages of left to come; and within one,  *)
(* of which n bytes are due that mean the first of them.                   *)
Between(read, shut, left) ==
    \E frames \in Seq(Seq(Byte)) :
        Carries(frames, left) /\ Awaits(read, shut, FlattenSeq(frames))
Within(read, shut, n, left) ==
    \E x \in Seq(Byte), m \in Said, ls \in Seq(Said), frames \in Seq(Seq(Byte)) :
        /\ left = <<m>> \o ls /\ n = Len(x) /\ decode(x) = m
        /\ Carries(frames, ls) /\ Awaits(read, shut, x \o FlattenSeq(frames))

LEMMA NextFlattened ==
    ASSUME NEW frames \in Seq(Seq(Byte)), NEW b \in Seq(Byte)
    PROVE  /\ FlattenSeq(frames) \in Seq(Byte)
           /\ FlattenSeq(Append(frames, b)) = FlattenSeq(frames) \o b
BY FlattenIsFold, FlattenLaws

LEMMA BetweenSays ==
    ASSUME NEW read, NEW left, Between(read, FALSE, left), NEW s \in Speech
    PROVE  Between(read \o s[2], FALSE, Append(left, s[1]))
<1>1. PICK frames \in Seq(Seq(Byte)) :
        Carries(frames, left) /\ Awaits(read, FALSE, FlattenSeq(frames))
  BY DEF Between
<1> DEFINE f == s[2]
           fs == Append(frames, f)
<1>2. f \in Seq(Byte)
  BY SpeechBytes
<1>3. Carries(fs, Append(left, s[1]))
  BY <1>1, OneMoreSaid
<1> HIDE DEF f
<1>4. FlattenSeq(fs) = FlattenSeq(frames) \o f
  BY <1>2, NextFlattened
<1>5. Awaits(read \o f, FALSE, FlattenSeq(fs))
  <2>1. Awaits(read \o f, FALSE, FlattenSeq(frames) \o f)
    BY <1>1, <1>2, AwaitsMore
  <2> QED BY <1>4, <2>1
<1>6. fs \in Seq(Seq(Byte))
  BY <1>3 DEF Carries
<1> HIDE DEF fs
<1> QED BY <1>3, <1>5, <1>6 DEF Between, f

LEMMA WithinSays ==
    ASSUME NEW read, NEW n, NEW left, Within(read, FALSE, n, left), NEW s \in Speech
    PROVE  Within(read \o s[2], FALSE, n, Append(left, s[1]))
<1>1. PICK x \in Seq(Byte), m \in Said, ls \in Seq(Said), frames \in Seq(Seq(Byte)) :
        /\ left = <<m>> \o ls /\ n = Len(x) /\ decode(x) = m
        /\ Carries(frames, ls) /\ Awaits(read, FALSE, x \o FlattenSeq(frames))
  BY DEF Within
<1> DEFINE f == s[2]
           l == s[1]
           fs == Append(frames, f)
           t == FlattenSeq(frames)
           next == Append(ls, l)
<1>2. f \in Seq(Byte) /\ l \in Said
  BY SpeechBytes
<1>3. Carries(fs, next)
  BY <1>1, OneMoreSaid
<1> HIDE DEF f, l
<1>4. FlattenSeq(fs) = t \o f /\ t \in Seq(Byte)
  BY <1>2, NextFlattened
<1>5. fs \in Seq(Seq(Byte)) /\ next \in Seq(Said)
  BY <1>3 DEF Carries
<1>6. Awaits(read \o f, FALSE, x \o FlattenSeq(fs))
  <2> HIDE DEF t, fs
  <2>1. Awaits(read \o f, FALSE, (x \o t) \o f)
    BY <1>1, <1>2, AwaitsMore DEF t
  <2>2. f \in Seq(Byte) /\ t \in Seq(Byte)
    BY <1>2, <1>4
  <2>3. (x \o t) \o f = x \o (t \o f)
    BY <2>2, ConcatAssociative
  <2> QED BY <1>4, <2>1, <2>3
<1>7. Append(left, l) = <<m>> \o next
  <2> DEFINE one == <<m>>
             last == <<l>>
  <2>1. one \in Seq(Said) /\ last \in Seq(Said)
    BY <1>2
  <2>2. one \o ls \in Seq(Said)
    <3> HIDE DEF one
    <3> QED BY <2>1, Joined
  <2>3. Append(ls, l) = ls \o last
    BY <1>2, AppendIsConcat
  <2>4. Append(left, l) = (one \o ls) \o last
    <3> DEFINE w == one \o ls
    <3>1. w \in Seq(Said)
      BY <2>2
    <3>2. left = w
      BY <1>1
    <3> HIDE DEF w
    <3>3. Append(w, l) = w \o <<l>>
      BY <1>2, <3>1, AppendIsConcat
    <3> QED BY <3>2, <3>3 DEF w
  <2> HIDE DEF one, last
  <2>5. (one \o ls) \o last = one \o (ls \o last)
    BY <2>1, ConcatAssociative
  <2> HIDE DEF next
  <2>6. next = ls \o last
    BY <2>3 DEF next
  <2> QED BY <2>4, <2>5, <2>6 DEF one
<1> HIDE DEF fs, next
<1>8. Within(read \o f, FALSE, n, Append(left, l))
  BY <1>1, <1>3, <1>5, <1>6, <1>7 DEF Within
<1> QED BY <1>8 DEF f, l

LEMMA StreamCut ==
    ASSUME NEW read, NEW left, NEW k \in 0..Len(read)
    PROVE  /\ Between(read, FALSE, left) => Between(SubSeq(read, 1, k), TRUE, left)
           /\ \A n : Within(read, FALSE, n, left) => Within(SubSeq(read, 1, k), TRUE, n, left)
<1> DEFINE u == SubSeq(read, 1, k)
<1>1. \A due : Awaits(read, FALSE, due) => Awaits(u, TRUE, due)
  BY AwaitsCut
<1> HIDE DEF u
<1>2. Between(read, FALSE, left) => Between(u, TRUE, left)
  BY <1>1 DEF Between
<1>3. ASSUME NEW n, Within(read, FALSE, n, left)
      PROVE  Within(u, TRUE, n, left)
  <2>1. PICK x \in Seq(Byte), m \in Said, ls \in Seq(Said), frames \in Seq(Seq(Byte)) :
          /\ left = <<m>> \o ls /\ n = Len(x) /\ decode(x) = m
          /\ Carries(frames, ls) /\ Awaits(read, FALSE, x \o FlattenSeq(frames))
    BY <1>3 DEF Within
  <2>2. Awaits(u, TRUE, x \o FlattenSeq(frames))
    BY <1>1, <2>1
  <2> QED BY <2>1, <2>2 DEF Within
<1> QED BY <1>2, <1>3 DEF u

(* The length is that of what the peer said next.                          *)
LEMMA LengthIsRead ==
    ASSUME NEW read, NEW shut, NEW left, Between(read, shut, left), Len(read) >= 4,
           FromBigEndian(SubSeq(read, 1, 4)) <= MAX_MSG_SIZE
    PROVE  Within(SubSeq(read, 5, Len(read)), shut, FromBigEndian(SubSeq(read, 1, 4)), left)
<1>1. PICK frames \in Seq(Seq(Byte)) :
        Carries(frames, left) /\ Awaits(read, shut, FlattenSeq(frames))
  BY DEF Between
<1>2. left # <<>>
  <2> SUFFICES ASSUME left = <<>> PROVE FALSE
    OBVIOUS
  <2>1. Len(frames) = 0
    BY <1>1 DEF Carries
  <2> DEFINE none == <<>>
  <2>2. frames = none
    BY <2>1, EmptySeq
  <2>3. none \in Seq(Byte) /\ none \in Seq(Seq(Byte)) /\ Len(none) = 0
    OBVIOUS
  <2> HIDE DEF none
  <2>4. FlattenSeq(none) = none
    BY <2>3, FlattenLaws DEF none
  <2>5. Len(read) <= Len(none)
    BY <1>1, <2>2, <2>4, AwaitsLength
  <2> QED BY <2>3, <2>5
<1>0. PICK s \in Speech, fs \in Seq(Seq(Byte)), ls \in Seq(Said) :
        SaidFirst(s, fs, ls, frames, left)
  BY <1>1, <1>2, FirstSaid
<1>3. /\ Carries(fs, ls)
      /\ left = <<s[1]>> \o ls
      /\ FlattenSeq(frames) = s[2] \o FlattenSeq(fs)
  BY <1>0 DEF SaidFirst
<1> DEFINE t == FlattenSeq(fs)
<1>4. t \in Seq(Byte)
  BY FlattenIsFold
<1> HIDE DEF t
<1>5. read \in Seq(Byte) /\ Awaits(read, shut, s[2] \o t)
  BY <1>1, <1>3 DEF Awaits, t
<1>6. ASSUME NEW k, IsU32(k), NEW y \in Seq(Byte), s[2] \o t = BigEndian(k) \o y
      PROVE  /\ FromBigEndian(SubSeq(read, 1, 4)) = k
             /\ Awaits(SubSeq(read, 5, Len(read)), shut, y)
  <2> DEFINE b == BigEndian(k)
  <2>1. b \in Seq(Byte)
    BY <1>6, BigEndianBytes
  <2>2. Len(b) = 4 /\ FromBigEndian(b) = k
    BY <1>6, BigEndianBytes
  <2> HIDE DEF b
  <2>3. Awaits(read, shut, b \o y)
    BY <1>5, <1>6 DEF b
  <2>4. Len(read) >= Len(b)
    BY <2>2
  <2>5. SubSeq(read, 1, Len(b)) = b /\ Awaits(SubSeq(read, Len(b) + 1, Len(read)), shut, y)
    BY <2>1, <2>3, <2>4, AwaitsTake
  <2>6. Len(b) + 1 = 5
    BY <2>2
  <2> QED BY <2>2, <2>5, <2>6
<1>7. CASE \E x \in Seq(Byte) : IsFrame(s, x)
  <2>1. PICK x \in Seq(Byte) : IsFrame(s, x)
    BY <1>7
  <2>2. IsU32(Len(x)) /\ s[2] = Framed(x) /\ decode(x) = s[1]
    BY <2>1 DEF IsFrame
  <2> DEFINE b == BigEndian(Len(x))
             n == Len(x)
  <2>3. s[2] = b \o x /\ b \in Seq(Byte)
    BY <2>2, FrameBytes
  <2> HIDE DEF b
  <2>4. (b \o x) \o t = b \o (x \o t)
    <3>1. b \in Seq(Byte) /\ x \in Seq(Byte) /\ t \in Seq(Byte)
      BY <1>4, <2>3
    <3> QED BY <3>1, ConcatAssociative
  <2>5. x \o t \in Seq(Byte)
    BY <1>4, Joined
  <2>6. s[2] \o t = BigEndian(Len(x)) \o (x \o t)
    BY <2>3, <2>4 DEF b
  <2>7. /\ FromBigEndian(SubSeq(read, 1, 4)) = n
        /\ Awaits(SubSeq(read, 5, Len(read)), shut, x \o t)
    BY <1>6, <2>2, <2>5, <2>6
  <2>8. s[1] \in Said
    BY SpeechBytes
  <2> DEFINE m == s[1]
  <2> HIDE DEF m
  <2>9. m \in Said /\ left = <<m>> \o ls /\ decode(x) = m
    BY <1>3, <2>2, <2>8 DEF m
  <2>10. Within(SubSeq(read, 5, Len(read)), shut, n, left)
    BY <1>3, <2>7, <2>9 DEF Within, t
  <2> QED BY <2>7, <2>10
<1>8. CASE Oversized(s)
  <2>1. IsU32(MAX_MSG_SIZE + 1)
    BY DEF IsU32, MAX_MSG_SIZE
  <2>2. s[2] \o t = BigEndian(MAX_MSG_SIZE + 1) \o t
    BY <1>8 DEF Oversized
  <2>3. FromBigEndian(SubSeq(read, 1, 4)) = MAX_MSG_SIZE + 1
    BY <1>4, <1>6, <2>1, <2>2
  <2> QED BY <2>3 DEF MAX_MSG_SIZE
<1> QED BY <1>7, <1>8, SpeechMeans

(* The payload is read as what the peer said.                              *)
LEMMA PayloadIsRead ==
    ASSUME NEW read, NEW shut, NEW n, NEW left, Within(read, shut, n, left), Len(read) >= n
    PROVE  \E m \in Said, ls \in Seq(Said) :
              /\ left = <<m>> \o ls /\ decode(SubSeq(read, 1, n)) = m
              /\ Between(SubSeq(read, n + 1, Len(read)), shut, ls)
<1>1. PICK x \in Seq(Byte), m \in Said, ls \in Seq(Said), frames \in Seq(Seq(Byte)) :
        /\ left = <<m>> \o ls /\ n = Len(x) /\ decode(x) = m
        /\ Carries(frames, ls) /\ Awaits(read, shut, x \o FlattenSeq(frames))
  BY DEF Within
<1> DEFINE t == FlattenSeq(frames)
<1>2. t \in Seq(Byte)
  BY FlattenIsFold
<1> HIDE DEF t
<1>3. SubSeq(read, 1, Len(x)) = x /\ Awaits(SubSeq(read, Len(x) + 1, Len(read)), shut, t)
  <2>1. Awaits(read, shut, x \o t)
    BY <1>1 DEF t
  <2>2. Len(read) >= Len(x)
    BY <1>1
  <2> QED BY <1>2, <2>1, <2>2, AwaitsTake
<1>4. Between(SubSeq(read, Len(x) + 1, Len(read)), shut, ls)
  BY <1>1, <1>3 DEF Between, t
<1> QED BY <1>1, <1>3, <1>4

-----------------------------------------------------------------------------
(* The handshake.                                                          *)

(* Four bytes, read backwards.                                             *)
LEMMA ReverseOfFour ==
    ASSUME NEW a, NEW b, NEW c, NEW d
    PROVE  Reverse(<<a, b, c, d>>) = <<d, c, b, a>>
BY DEF Reverse

(* What fits in four bytes comes back from them.                           *)
U32Values == {n \in Nat : IsU32(n)}

LEMMA LittleEndianBytes ==
    ASSUME NEW n \in U32Values
    PROVE  /\ LittleEndian(n) \in Seq(Byte) /\ Len(LittleEndian(n)) = 4
           /\ FromLittleEndian(LittleEndian(n)) = n
<1> DEFINE a == n \div 16777216
           b == (n \div 65536) % 256
           c == (n \div 256) % 256
           d == n % 256
<1>1. BigEndian(n) = <<a, b, c, d>>
  BY DEF BigEndian
<1>2. a \in Byte /\ b \in Byte /\ c \in Byte /\ d \in Byte
  BY DEF U32Values, IsU32, Byte
<1>3. n = ((a * 256 + b) * 256 + c) * 256 + d
  BY DEF U32Values, IsU32
<1> HIDE DEF a, b, c, d
<1>4. LittleEndian(n) = <<d, c, b, a>>
  BY <1>1, ReverseOfFour DEF LittleEndian
<1>5. Reverse(LittleEndian(n)) = <<a, b, c, d>>
  BY <1>4, ReverseOfFour
<1>6. FromLittleEndian(LittleEndian(n)) = n
  BY <1>3, <1>5 DEF FromLittleEndian, FromBigEndian
<1> QED BY <1>2, <1>4, <1>6

(* Where the task has a connection.                                        *)
InSession == pc \in Handshaking \cup Reading

(* The four bytes of n are all there is to read, or the stream ended       *)
(* within them.                                                            *)
Arrives(n) ==
    \/ fromPeer = LittleEndian(n)
    \/ closed /\ fromPeer \in Seq(Byte) /\ Len(fromPeer) < 4

PeerThere ==
    /\ ~InSession => peer = NoPeer
    /\ InSession => peer \in Peer

InHello ==
    pc = "hello" =>
        /\ toPeer = LittleEndian(PROTOCOL_VERSION)
        /\ peer.confirmed = 0
        /\ IF peer.spoken THEN Arrives(peer.version) ELSE fromPeer = <<>>

InConfirm ==
    pc = "confirm" =>
        /\ agreed = AgreedOn(peer.version) /\ agreed >= MIN_PROTOCOL_VERSION
        /\ toPeer = LittleEndian(PROTOCOL_VERSION) \o LittleEndian(agreed)
        /\ peer.spoken
        /\ IF peer.confirmed = 0 THEN fromPeer = <<>> ELSE Arrives(peer.confirmed)

InReading ==
    pc \in Reading =>
        /\ peer.spoken /\ peer.confirmed = agreed
        /\ agreed = AgreedOn(peer.version) /\ agreed >= MIN_PROTOCOL_VERSION

IInv == PeerThere /\ InHello /\ InConfirm /\ InReading

USE DEF Handshaking, Reading

-----------------------------------------------------------------------------
(* Versions are u32s, and so is what is agreed on.                         *)
LEMMA AgreedType ==
    ASSUME NEW v \in PeerVersion
    PROVE  /\ v \in U32Values /\ v \in Nat
           /\ AgreedOn(v) \in U32Values /\ AgreedOn(v) \in Nat
           /\ AgreedOn(v) <= v /\ AgreedOn(v) <= PROTOCOL_VERSION
           /\ PROTOCOL_VERSION \in U32Values
BY ConnectionAssumption DEF ConnectionAssumption, U32Values, IsU32, AgreedOn, PROTOCOL_VERSION

LEMMA PeerType ==
    ASSUME NEW p \in Peer
    PROVE  p.version \in PeerVersion /\ p.confirmed \in U32Values
<1>1. p.version \in PeerVersion /\ p.confirmed \in PeerVersion \cup {0, PROTOCOL_VERSION}
  BY DEF Peer
<1>2. 0 \in U32Values
  BY DEF U32Values, IsU32
<1> QED BY <1>1, <1>2, AgreedType

(* A stream that starts empty and gets one integer, which may be cut off.  *)
LEMMA StreamOfOne ==
    ASSUME NEW n \in U32Values
    PROVE  /\ <<>> \o LittleEndian(n) = LittleEndian(n)
           /\ SubSeq(LittleEndian(n), 1, 4) = LittleEndian(n)
           /\ SubSeq(LittleEndian(n), 5, 4) = <<>>
           /\ \A k \in 0..3 : /\ SubSeq(LittleEndian(n), 1, k) \in Seq(Byte)
                              /\ Len(SubSeq(LittleEndian(n), 1, k)) < 4
<1>1. LittleEndian(n) \in Seq(Byte) /\ Len(LittleEndian(n)) = 4
  BY LittleEndianBytes
<1> DEFINE s == LittleEndian(n)
<1> HIDE DEF s
<1>2. s \in Seq(Byte) /\ Len(s) = 4
  BY <1>1 DEF s
<1>3. <<>> \o s = s
  BY <1>2, ConcatEmptySeq
<1>4. SubSeq(s, 1, 4) = s
  BY <1>2, SubSeqFull
<1>5. SubSeq(s, 5, 4) = <<>>
  BY SubSeqEmpty
<1>6. ASSUME NEW k \in 0..3
      PROVE  SubSeq(s, 1, k) \in Seq(Byte) /\ Len(SubSeq(s, 1, k)) < 4
  <2>1. \A i \in 1..k : s[i] \in Byte
    BY <1>2
  <2> QED BY <2>1, SubSeqProperties
<1> QED BY <1>3, <1>4, <1>5, <1>6 DEF s

(* The two versions written, and the second of them.                       *)
LEMMA TwoVersions ==
    ASSUME NEW m \in U32Values, NEW n \in U32Values
    PROVE  /\ Len(LittleEndian(m)) = 4
           /\ Len(LittleEndian(m) \o LittleEndian(n)) = 8
           /\ SubSeq(LittleEndian(m) \o LittleEndian(n), 5, 8) = LittleEndian(n)
<1>1. /\ LittleEndian(m) \in Seq(Byte) /\ Len(LittleEndian(m)) = 4
      /\ LittleEndian(n) \in Seq(Byte) /\ Len(LittleEndian(n)) = 4
  BY LittleEndianBytes
<1> DEFINE s == LittleEndian(m)
           t == LittleEndian(n)
<1> HIDE DEF s, t
<1>2. s \in Seq(Byte) /\ Len(s) = 4 /\ t \in Seq(Byte) /\ Len(t) = 4
  BY <1>1 DEF s, t
<1>3. Len(s \o t) = 8
  <2>1. Len(s \o t) = Len(s) + Len(t)
    BY <1>2, ConcatProperties, Zenon
  <2> QED BY <1>2, <2>1
<1>4. SubSeq(s \o t, 5, 8) = SubSeq(t, 5 - Len(s), 8 - Len(s))
  <2>1. 5 \in (Len(s) + 1)..(Len(s) + Len(t)) /\ 8 \in (Len(s) + 1)..(Len(s) + Len(t))
    BY <1>2
  <2> QED BY <1>2, <2>1, SubSeqOfConcat2, Zenon
<1>5. SubSeq(t, 1, 4) = t
  BY <1>2, SubSeqFull
<1> QED BY <1>2, <1>3, <1>4, <1>5 DEF s, t

-----------------------------------------------------------------------------
(* An attempt that is given up leaves nothing behind.                      *)
LEMMA LeavePreserves ==
    ASSUME Leave PROVE IInv'
BY DEF Leave, IInv, PeerThere, InHello, InConfirm, InReading, InSession

(* Before there is a connection.                                           *)
LEMMA DiscoveryPreserves ==
    ASSUME IInv, WakeUp \/ Start \/ StartFails \/ TimesOut \/ TakeReply
    PROVE  IInv'
<1> USE DEF IInv, PeerThere, InHello, InConfirm, InReading, InSession
<1>1. CASE WakeUp
  BY <1>1 DEF WakeUp, streams
<1>2. CASE Start
  <2>1. /\ pc = "start" /\ peer' = peer
        /\ pc' \in {"connecting", "listening"}
    BY <1>2 DEF Start, streams
  <2> QED BY <2>1
<1>3. CASE StartFails \/ TimesOut
  BY <1>3, LeavePreserves DEF StartFails, TimesOut, Fail
<1>4. CASE TakeReply
  <2>1. PICK r \in Reply :
          \/ Refused(r) /\ Fail
          \/ /\ pc' = IF Sliced(r) THEN "connecting" ELSE "panicked"
             /\ UNCHANGED streams
    BY <1>4 DEF TakeReply
  <2>2. CASE Fail
    BY <2>2, LeavePreserves DEF Fail
  <2>3. CASE ~Fail
    <3>1. pc' \in {"panicked", "connecting"} /\ UNCHANGED streams
      BY <2>1, <2>3
    <3>2. ~InSession /\ ~InSession'
      BY <1>4, <3>1 DEF TakeReply
    <3> QED BY <3>1, <3>2 DEF streams
  <2> QED BY <2>2, <2>3
<1> QED BY <1>1, <1>2, <1>3, <1>4

(* The three steps of the handshake.                                       *)
LEMMA HandshakePreserves ==
    ASSUME IInv, Connect \/ ConnectFails \/ ReadHello \/ ReadConfirm
    PROVE  IInv'
<1>1. CASE Connect
  <2>1. PICK v \in PeerVersion, eager \in BOOLEAN : peer' = NewPeer(v, eager)
    BY <1>1 DEF Connect
  <2>2. peer' \in Peer /\ peer'.confirmed = 0 /\ ~peer'.spoken
    BY <2>1 DEF NewPeer, Peer, U32Values
  <2> QED BY <1>1, <2>2 DEF Connect, IInv, PeerThere, InHello, InConfirm, InReading, InSession
<1>2. CASE ConnectFails
  BY <1>2, LeavePreserves DEF ConnectFails, Fail
<1>3. CASE ReadHello
  <2> DEFINE v == AgreedOn(FromLittleEndian(Int4))
  <2>1. CASE v < MIN_PROTOCOL_VERSION
    BY <1>3, <2>1, LeavePreserves DEF ReadHello, Fail
  <2>2. CASE ~(v < MIN_PROTOCOL_VERSION)
    <3>1. /\ pc = "hello" /\ Len(fromPeer) >= 4 /\ agreed' = v
          /\ fromPeer' = SubSeq(fromPeer, 5, Len(fromPeer))
          /\ toPeer' = toPeer \o LittleEndian(v)
          /\ pc' = "confirm" /\ UNCHANGED <<info, need, peer, closed, history>>
      BY <1>3, <2>2 DEF ReadHello, Has, Consume
    <3>2. peer \in Peer /\ toPeer = LittleEndian(PROTOCOL_VERSION)
          /\ peer.confirmed = 0
          /\ IF peer.spoken THEN Arrives(peer.version) ELSE fromPeer = <<>>
      BY <3>1 DEF IInv, PeerThere, InHello, InSession
    <3>3. peer.version \in PeerVersion
      BY <3>2 DEF Peer
    <3>4. peer.spoken /\ fromPeer = LittleEndian(peer.version)
      BY <3>1, <3>2 DEF Arrives
    <3>5. Int4 = fromPeer /\ fromPeer' = <<>> /\ FromLittleEndian(Int4) = peer.version
      BY <3>1, <3>3, <3>4, AgreedType, StreamOfOne, LittleEndianBytes DEF Int4
    <3>6. agreed' = AgreedOn(peer.version) /\ agreed' \in Nat /\ agreed' >= MIN_PROTOCOL_VERSION
      BY <2>2, <3>1, <3>3, <3>5, AgreedType DEF MIN_PROTOCOL_VERSION
    <3> HIDE DEF v
    <3> QED BY <3>1, <3>2, <3>4, <3>5, <3>6
            DEF IInv, PeerThere, InHello, InConfirm, InReading, InSession
  <2> QED BY <2>1, <2>2
<1>4. CASE ReadConfirm
  <2>1. CASE FromLittleEndian(Int4) # agreed
    BY <1>4, <2>1, LeavePreserves DEF ReadConfirm, Fail
  <2>2. CASE FromLittleEndian(Int4) = agreed
    <3>1. /\ pc = "confirm" /\ Len(fromPeer) >= 4 /\ pc' = "length"
          /\ UNCHANGED <<info, agreed, need, peer, closed, history>>
      BY <1>4, <2>2 DEF ReadConfirm, Has
    <3>2. /\ peer \in Peer
          /\ agreed = AgreedOn(peer.version) /\ agreed >= MIN_PROTOCOL_VERSION
          /\ IF peer.confirmed = 0 THEN fromPeer = <<>> ELSE Arrives(peer.confirmed)
      BY <3>1 DEF IInv, PeerThere, InConfirm, InSession
    <3>3. peer.confirmed \in U32Values /\ fromPeer = LittleEndian(peer.confirmed)
      BY <3>1, <3>2, PeerType DEF Arrives
    <3>4. peer.confirmed = agreed
      BY <2>2, <3>3, StreamOfOne, LittleEndianBytes DEF Int4
    <3> QED BY <3>1, <3>2, <3>4
            DEF IInv, PeerThere, InHello, InConfirm, InReading, InSession
  <2> QED BY <2>1, <2>2
<1> QED BY <1>1, <1>2, <1>3, <1>4

(* Reading messages changes nothing that was agreed.                       *)
LEMMA ReadingPreserves ==
    ASSUME IInv, ReadLength \/ ReadPayload \/ ReadFails \/ WriteFails
    PROVE  IInv'
<1>1. CASE ReadFails \/ WriteFails
  BY <1>1, LeavePreserves DEF ReadFails, WriteFails, Fail
<1>2. ASSUME pc \in Reading, pc' \in Reading, UNCHANGED <<info, agreed, peer>>
      PROVE  IInv'
  BY <1>2 DEF IInv, PeerThere, InHello, InConfirm, InReading, InSession
<1>3. CASE ReadLength
  <2>1. CASE FromBigEndian(Int4) > MAX_MSG_SIZE
    BY <1>3, <2>1, LeavePreserves DEF ReadLength, Fail
  <2>2. CASE ~(FromBigEndian(Int4) > MAX_MSG_SIZE)
    BY <1>2, <1>3, <2>2 DEF ReadLength
  <2> QED BY <2>1, <2>2
<1>4. CASE ReadPayload
  <2>1. Leave \/ (pc' = "length" /\ UNCHANGED <<info, agreed, peer>>)
    BY <1>4 DEF ReadPayload, Fail
  <2> QED BY <1>2, <1>4, <2>1, LeavePreserves DEF ReadPayload
<1> QED BY <1>1, <1>3, <1>4

(* The peer's part: one version, one confirmation, and then messages.      *)
LEMMA PeerPreserves ==
    ASSUME IInv, PeerNext
    PROVE  IInv'
<1>0. /\ peer # NoPeer /\ ~closed
      /\ UNCHANGED <<pc, info, agreed, toPeer>>
      /\ InSession /\ peer \in Peer
  <2>1. /\ peer # NoPeer /\ ~closed
        /\ UNCHANGED <<pc, info, agreed, toPeer>>
    BY DEF PeerNext, PeerSpeaks, PeerConfirms, PeerSays, PeerLeaves, Ours
  <2> QED BY <2>1 DEF IInv, PeerThere
<1>1. peer.version \in PeerVersion /\ peer.confirmed \in U32Values
  BY <1>0, PeerType
<1>2. CASE PeerSpeaks
  <2>1. /\ ~peer.spoken /\ closed' = closed
        /\ peer' = [peer EXCEPT !.spoken = TRUE, !.eager = FALSE]
        /\ fromPeer' = fromPeer \o LittleEndian(peer.version)
    BY <1>2 DEF PeerSpeaks, PeerWrites, Ours
  <2>2. /\ peer' \in Peer /\ peer'.spoken /\ peer'.version = peer.version
        /\ peer'.confirmed = peer.confirmed
    BY <1>0, <2>1 DEF Peer
  <2>3. pc = "hello" => fromPeer' = LittleEndian(peer.version)
    BY <1>1, <2>1, AgreedType, StreamOfOne DEF IInv, InHello
  <2> QED BY <1>0, <2>1, <2>2, <2>3
          DEF IInv, PeerThere, InHello, InConfirm, InReading, InSession, Arrives
<1>3. CASE PeerConfirms
  <2>1. PICK v \in PeerVersion \cup {FromLittleEndian(SubSeq(toPeer, 5, 8))} :
          /\ peer' = [peer EXCEPT !.confirmed = v]
          /\ fromPeer' = fromPeer \o LittleEndian(v)
    BY <1>3 DEF PeerConfirms, PeerWrites
  <2>2. peer.confirmed = 0 /\ Len(toPeer) >= 8 /\ closed' = closed
    BY <1>3 DEF PeerConfirms, Ours
  <2>3. pc = "confirm"
    <3>1. pc # "hello"
      BY <2>2, AgreedType, <1>1, TwoVersions DEF IInv, InHello
    <3>2. pc \notin Reading
      BY <2>2 DEF IInv, InReading, MIN_PROTOCOL_VERSION
    <3> QED BY <1>0, <3>1, <3>2 DEF InSession
  <2>4. /\ agreed = AgreedOn(peer.version) /\ agreed \in U32Values
        /\ toPeer = LittleEndian(PROTOCOL_VERSION) \o LittleEndian(agreed)
        /\ fromPeer = <<>>
    BY <1>1, <2>2, <2>3, AgreedType DEF IInv, InConfirm
  <2>5. FromLittleEndian(SubSeq(toPeer, 5, 8)) = agreed
    BY <1>1, <2>4, AgreedType, TwoVersions, LittleEndianBytes
  <2>6. v \in U32Values /\ v \in PeerVersion \cup {0, PROTOCOL_VERSION}
    <3>1. v \in PeerVersion \/ v = AgreedOn(peer.version)
      BY <2>1, <2>4, <2>5
    <3>2. AgreedOn(peer.version) \in {peer.version, PROTOCOL_VERSION}
      BY DEF AgreedOn
    <3> QED BY <1>1, <3>1, <3>2, AgreedType
  <2>7. /\ peer' \in Peer /\ peer'.spoken = peer.spoken
        /\ peer'.version = peer.version /\ peer'.confirmed = v
    BY <1>0, <2>1, <2>6 DEF Peer
  <2>8. fromPeer' = LittleEndian(v)
    BY <2>1, <2>4, <2>6, StreamOfOne
  <2>9. InConfirm'
    <3>1. v # 0
      BY <2>1, <2>4, <2>5, <2>3, ConnectionAssumption
         DEF IInv, InConfirm, ConnectionAssumption, MIN_PROTOCOL_VERSION
    <3> QED BY <1>0, <2>3, <2>4, <2>7, <2>8, <3>1 DEF IInv, InConfirm, Arrives
  <2> QED BY <1>0, <2>3, <2>7, <2>9
          DEF IInv, PeerThere, InHello, InReading, InSession
<1>4. CASE PeerSays
  <2>1. /\ peer' = peer /\ peer.confirmed # 0 /\ Len(toPeer) > 8
    BY <1>4 DEF PeerSays, Ours
  <2>2. pc # "hello"
    BY <2>1 DEF IInv, InHello
  <2>3. pc # "confirm"
    <3> SUFFICES ASSUME pc = "confirm" PROVE FALSE
      OBVIOUS
    <3>1. toPeer = LittleEndian(PROTOCOL_VERSION) \o LittleEndian(AgreedOn(peer.version))
      BY DEF IInv, InConfirm
    <3>2. Len(toPeer) = 8
      BY <1>1, <3>1, AgreedType, TwoVersions
    <3> QED BY <2>1, <3>2
  <2> QED BY <1>0, <2>1, <2>2, <2>3
          DEF IInv, PeerThere, InHello, InConfirm, InReading, InSession
<1>5. CASE PeerLeaves
  <2>1. PICK n \in 0..Len(fromPeer) : fromPeer' = SubSeq(fromPeer, 1, n)
    BY <1>5 DEF PeerLeaves
  <2>2. closed' = TRUE /\ peer' = peer
    BY <1>5 DEF PeerLeaves
  <2>3. fromPeer = <<>> => fromPeer' = <<>>
    BY <2>1
  <2>4. ASSUME NEW v \in U32Values, Arrives(v)
        PROVE  fromPeer' = LittleEndian(v) \/ (fromPeer' \in Seq(Byte) /\ Len(fromPeer') < 4)
    <3>1. fromPeer = LittleEndian(v) /\ Len(fromPeer) = 4
      BY <1>0, <2>4, LittleEndianBytes DEF Arrives
    <3>2. n \in 0..3 \/ n = 4
      BY <3>1
    <3> QED BY <2>1, <3>1, <3>2, StreamOfOne
  <2>5. InHello'
    BY <1>0, <1>1, <2>2, <2>3, <2>4, AgreedType DEF IInv, InHello, Arrives
  <2>6. InConfirm'
    BY <1>0, <1>1, <2>2, <2>3, <2>4 DEF IInv, InConfirm, Arrives
  <2> QED BY <1>0, <2>2, <2>5, <2>6 DEF IInv, PeerThere, InReading, InSession
<1> QED BY <1>2, <1>3, <1>4, <1>5 DEF PeerNext

-----------------------------------------------------------------------------
(* The invariant holds throughout.                                         *)
LEMMA Invariance == Spec => []IInv
<1>1. Init => IInv
  BY DEF Init, IInv, PeerThere, InHello, InConfirm, InReading, InSession
<1>2. IInv /\ [Next]_vars => IInv'
  <2> SUFFICES ASSUME IInv, [Next]_vars PROVE IInv'
    OBVIOUS
  <2>1. CASE MonitorTask
    BY <2>1, DiscoveryPreserves, HandshakePreserves, ReadingPreserves DEF MonitorTask
  <2>2. CASE PeerNext
    BY <2>2, PeerPreserves
  <2>3. CASE UNCHANGED vars
    BY <2>3 DEF vars, IInv, PeerThere, InHello, InConfirm, InReading, InSession,
                Arrives
  <2> QED BY <2>1, <2>2, <2>3 DEF Next
<1> QED BY <1>1, <1>2, PTL DEF Spec

(* Both ends go on with the version both confirmed, and no other           *)
(* (connection.rs:33-57; discovery.rs:86).                                 *)
THEOREM VersionsAlwaysAgree == Spec => []VersionsAgree
<1>1. IInv => VersionsAgree
  <2> SUFFICES ASSUME IInv, pc \in Reading
               PROVE  /\ peer.confirmed = agreed
                      /\ agreed <= peer.version /\ agreed <= PROTOCOL_VERSION
                      /\ agreed >= MIN_PROTOCOL_VERSION
    BY DEF VersionsAgree
  <2>1. peer.version \in PeerVersion
    BY DEF IInv, PeerThere, InSession, Peer
  <2> QED BY <2>1, AgreedType DEF IInv, InReading
<1> QED BY <1>1, Invariance, PTL

-----------------------------------------------------------------------------
(* Types.                                                                  *)

LEMMA LoginBytes == Login \in Seq(Byte)
<1> DEFINE m == [kind |-> "MonLogin", fields |-> <<>>]
           x == encode(m)
<1>1. Fields["MonLogin"] = <<>> /\ m.kind = "MonLogin" /\ "MonLogin" \in Kind
  BY DEF Fields, Kind, MessageType
<1>2. MessageType["MonLogin"] = 82
  BY DEF MessageType
<1>3. IsU32(82) /\ IsU32(4)
  BY SmallNumber
<1> DEFINE t == BigEndian(82)
           none == <<>>
<1>4. x = t \o FlattenSeq(none)
  <2>1. [i \in DOMAIN none |-> EncodeField(none[i], m.fields[none[i]])] = none
    OBVIOUS
  <2> QED BY <1>1, <1>2, <2>1 DEF encode, encode_u32
<1>5. t \in Seq(Byte)
  BY <1>3, BigEndianBytes
<1>6. Len(t) = 4
  BY <1>3, BigEndianBytes
<1>7. none \in Seq(Byte) /\ none \in Seq(Seq(Byte))
  OBVIOUS
<1> HIDE DEF none, t, x
<1>8. FlattenSeq(none) = none
  BY <1>7, FlattenLaws DEF none
<1>9. x = t
  <2>1. t \o none = t
    BY <1>5, ConcatEmptySeq DEF none
  <2> QED BY <1>4, <1>8, <2>1
<1>10. x \in Seq(Byte) /\ IsU32(Len(x))
  BY <1>3, <1>5, <1>6, <1>9
<1>11. Login = Framed(x)
  BY DEF Login, encode_framed, Framed, x
<1> QED BY <1>10, <1>11, FrameBytes

(* What is left of a buffer, and the number its first four bytes are.      *)
LEMMA RestOfBytes ==
    ASSUME NEW s \in Seq(Byte), NEW n \in Nat
    PROVE  /\ SubSeq(s, n + 1, Len(s)) \in Seq(Byte)
           /\ n <= Len(s) => SubSeq(s, 1, n) \in Seq(Byte) /\ Len(SubSeq(s, 1, n)) = n
<1> DEFINE k == Len(s)
<1>1. k \in Nat
  BY LenProperties
<1>2. \A i \in 1..k : s[i] \in Byte
  BY ElementOfSeq
<1>3. SubSeq(s, n + 1, k) \in Seq(Byte)
  <2>1. n + 1 \in Int /\ k \in Int /\ \A i \in (n + 1)..k : s[i] \in Byte
    BY <1>1, <1>2
  <2> HIDE DEF k
  <2> QED BY <2>1, SubSeqProperties
<1>4. ASSUME n <= k
      PROVE  SubSeq(s, 1, n) \in Seq(Byte) /\ Len(SubSeq(s, 1, n)) = n
  <2> DEFINE u == SubSeq(s, 1, n)
  <2>1. 1 \in Int /\ n \in Int /\ \A i \in 1..n : s[i] \in Byte
    BY <1>1, <1>2, <1>4
  <2>2. u \in Seq(Byte) /\ Len(u) = IF 1 <= n THEN n - 1 + 1 ELSE 0
    BY <2>1, SubSeqProperties
  <2> HIDE DEF u
  <2>3. Len(u) = n
    BY <2>2
  <2> QED BY <2>2, <2>3 DEF u
<1> QED BY <1>3, <1>4

LEMMA NumberOfBytes ==
    ASSUME NEW b \in Seq(Byte), Len(b) = 4
    PROVE  FromBigEndian(b) \in Nat
<1> DEFINE p == b[1]
           q == b[2]
           r == b[3]
           s == b[4]
<1>1. 1 \in 1..Len(b) /\ 2 \in 1..Len(b) /\ 3 \in 1..Len(b) /\ 4 \in 1..Len(b)
  OBVIOUS
<1>2. p \in Byte /\ q \in Byte /\ r \in Byte /\ s \in Byte
  BY <1>1, ElementOfSeq
<1>3. FromBigEndian(b) = ((p * 256 + q) * 256 + r) * 256 + s
  BY DEF FromBigEndian
<1> HIDE DEF p, q, r, s
<1>4. ((p * 256 + q) * 256 + r) * 256 + s \in Nat
  BY <1>2 DEF Byte
<1> QED BY <1>3, <1>4

LEMMA Limits == PROTOCOL_VERSION \in Nat /\ MAX_MSG_SIZE \in Nat
BY SMT DEF PROTOCOL_VERSION, MAX_MSG_SIZE

(* TypeOK but for the histories.                                           *)
BuffersTyped ==
    /\ configured \in BOOLEAN
    /\ pc \in PC
    /\ info \in [netname : Network, version : Nat]
    /\ agreed \in 0..PROTOCOL_VERSION
    /\ need \in 0..MAX_MSG_SIZE
    /\ peer \in Peer \cup {NoPeer}
    /\ \A s \in {toPeer, fromPeer} : s \in Seq(Byte)
    /\ closed \in BOOLEAN

LEMMA LeaveTyped ==
    ASSUME BuffersTyped, Leave, UNCHANGED configured, info' \in [netname : Network, version : Nat]
    PROVE  BuffersTyped'
<1>1. /\ pc' = "asleep" /\ agreed' = 0 /\ need' = 0
      /\ peer' = NoPeer /\ toPeer' = <<>> /\ fromPeer' = <<>> /\ closed' = TRUE
  BY DEF Leave
<1>2. toPeer' \in Seq(Byte) /\ fromPeer' \in Seq(Byte)
  BY <1>1
<1>3. pc' \in PC /\ agreed' \in 0..PROTOCOL_VERSION /\ need' \in 0..MAX_MSG_SIZE
  BY <1>1, Limits DEF PC
<1> QED BY <1>1, <1>2, <1>3 DEF BuffersTyped

LEMMA FailTyped ==
    ASSUME BuffersTyped, Fail, UNCHANGED configured
    PROVE  BuffersTyped'
BY LeaveTyped DEF Fail, BuffersTyped

LEMMA TypesPreserved ==
    ASSUME BuffersTyped, IInv, IInv', [Next]_vars
    PROVE  BuffersTyped'
<1>0. toPeer \in Seq(Byte) /\ fromPeer \in Seq(Byte)
  BY DEF BuffersTyped
<1>1. ASSUME MonitorTask PROVE BuffersTyped'
  <2>0. UNCHANGED configured
    BY <1>1 DEF MonitorTask
  <2>1. CASE Fail
    BY <2>0, <2>1, FailTyped
  <2>2. CASE WakeUp
    BY <2>0, <2>2 DEF WakeUp, BuffersTyped, streams, PC
  <2>3. CASE Start
    <3> DEFINE asked == [netname |-> Netname, version |-> PROTOCOL_VERSION]
    <3>1. pc' \in {"connecting", "listening"}
          /\ info' \in {info, asked}
          /\ UNCHANGED <<agreed, need, peer, toPeer, fromPeer, closed>>
      BY <2>3 DEF Start, streams
    <3>2. asked \in [netname : Network, version : Nat]
      BY Limits DEF Network
    <3> HIDE DEF asked
    <3>3. info' \in [netname : Network, version : Nat]
      BY <3>1, <3>2 DEF BuffersTyped
    <3> QED BY <2>0, <3>1, <3>3 DEF BuffersTyped, PC
  <2>4. CASE TakeReply /\ ~Fail
    <3>1. PICK r \in Reply :
            /\ pc' = IF Sliced(r) THEN "connecting" ELSE "panicked"
            /\ info' = IF Sliced(r) THEN Discovered(r) ELSE info
            /\ UNCHANGED <<agreed, need, streams>>
      BY <2>4 DEF TakeReply
    <3>2. Discovered(r) \in [netname : Network, version : Nat]
      BY ConnectionAssumption DEF Datagram, Discovered, Network
    <3>3. pc' \in {"panicked", "connecting"}
      BY <3>1
    <3>4. info' \in [netname : Network, version : Nat]
      BY <3>1, <3>2 DEF BuffersTyped
    <3>5. UNCHANGED <<agreed, need, peer, toPeer, fromPeer, closed>>
      BY <3>1 DEF streams
    <3> QED BY <2>0, <3>3, <3>4, <3>5 DEF BuffersTyped, PC
  <2>5. CASE Connect
    <3>1. /\ pc' = "hello" /\ fromPeer' = <<>> /\ closed' = FALSE
          /\ UNCHANGED <<info, agreed, need>>
      BY <2>5 DEF Connect
    <3>2. peer' \in Peer /\ toPeer' = LittleEndian(PROTOCOL_VERSION)
      BY <3>1 DEF IInv, PeerThere, InHello, InSession
    <3>3. toPeer' \in Seq(Byte)
      <4>1. PROTOCOL_VERSION \in U32Values
        BY DEF PROTOCOL_VERSION, U32Values, IsU32
      <4> QED BY <3>2, <4>1, LittleEndianBytes
    <3>4. fromPeer' \in Seq(Byte)
      BY <3>1
    <3> QED BY <2>0, <3>1, <3>2, <3>3, <3>4 DEF BuffersTyped, PC
  <2>6. CASE ReadHello /\ ~Fail
    <3>1. /\ pc' = "confirm" /\ fromPeer' = SubSeq(fromPeer, 5, Len(fromPeer))
          /\ UNCHANGED <<info, need, peer, closed>>
      BY <2>6 DEF ReadHello, Consume
    <3>2. /\ peer' \in Peer /\ agreed' = AgreedOn(peer'.version)
          /\ toPeer' = LittleEndian(PROTOCOL_VERSION) \o LittleEndian(agreed')
      BY <3>1 DEF IInv, PeerThere, InConfirm, InSession
    <3>3. peer'.version \in PeerVersion
      BY <3>2, PeerType
    <3>4. agreed' \in U32Values /\ agreed' \in 0..PROTOCOL_VERSION
      BY <3>2, <3>3, AgreedType, Limits
    <3>5. toPeer' \in Seq(Byte)
      <4>1. PROTOCOL_VERSION \in U32Values
        BY DEF PROTOCOL_VERSION, U32Values, IsU32
      <4> DEFINE s == LittleEndian(PROTOCOL_VERSION)
                 t == LittleEndian(agreed')
      <4>2. s \in Seq(Byte) /\ t \in Seq(Byte)
        BY <3>4, <4>1, LittleEndianBytes
      <4> HIDE DEF s, t
      <4>3. s \o t \in Seq(Byte)
        BY <4>2, Joined
      <4> QED BY <3>2, <4>3 DEF s, t
    <3>6. fromPeer' \in Seq(Byte)
      <4>1. SubSeq(fromPeer, 4 + 1, Len(fromPeer)) \in Seq(Byte)
        BY <1>0, RestOfBytes
      <4> QED BY <3>1, <4>1
    <3> QED BY <2>0, <3>1, <3>2, <3>4, <3>5, <3>6 DEF BuffersTyped, PC
  <2>7. CASE ReadConfirm /\ ~Fail
    <3>1. /\ pc' = "length" /\ fromPeer' = SubSeq(fromPeer, 5, Len(fromPeer))
          /\ toPeer' = toPeer \o Login
          /\ UNCHANGED <<info, agreed, need, peer, closed>>
      BY <2>7 DEF ReadConfirm, Consume
    <3>2. toPeer' \in Seq(Byte)
      BY <1>0, <3>1, LoginBytes, Joined
    <3>3. fromPeer' \in Seq(Byte)
      <4>1. SubSeq(fromPeer, 4 + 1, Len(fromPeer)) \in Seq(Byte)
        BY <1>0, RestOfBytes
      <4> QED BY <3>1, <4>1
    <3> QED BY <2>0, <3>1, <3>2, <3>3 DEF BuffersTyped, PC
  <2>8. CASE ReadLength /\ ~Fail
    <3>1. /\ pc' = "payload" /\ fromPeer' = SubSeq(fromPeer, 5, Len(fromPeer))
          /\ need' = FromBigEndian(Int4) /\ ~(FromBigEndian(Int4) > MAX_MSG_SIZE)
          /\ Len(fromPeer) >= 4
          /\ UNCHANGED <<info, agreed, peer, toPeer, closed>>
      BY <2>8 DEF ReadLength, Consume, Has
    <3>2. fromPeer' \in Seq(Byte)
      <4>1. SubSeq(fromPeer, 4 + 1, Len(fromPeer)) \in Seq(Byte)
        BY <1>0, RestOfBytes
      <4> QED BY <3>1, <4>1
    <3>3. need' \in 0..MAX_MSG_SIZE
      <4>1. Int4 \in Seq(Byte) /\ Len(Int4) = 4
        BY <1>0, <3>1, RestOfBytes DEF Int4
      <4>2. FromBigEndian(Int4) \in Nat
        BY <4>1, NumberOfBytes
      <4> DEFINE n == FromBigEndian(Int4)
      <4>3. n \in Nat /\ ~(n > MAX_MSG_SIZE) /\ need' = n
        BY <3>1, <4>2
      <4> HIDE DEF n
      <4> QED BY <4>3, Limits
    <3> QED BY <2>0, <1>0, <3>1, <3>2, <3>3 DEF BuffersTyped, PC
  <2>9. CASE ReadPayload /\ ~Fail
    <3>1. UNCHANGED info
          /\ \/ Leave
             \/ /\ pc' = "length" /\ need' = 0
                /\ fromPeer' = SubSeq(fromPeer, need + 1, Len(fromPeer))
                /\ UNCHANGED <<agreed, peer, toPeer, closed>>
      BY <2>9 DEF ReadPayload, Consume
    <3>2. CASE Leave
      BY <2>0, <3>1, <3>2, LeaveTyped DEF BuffersTyped
    <3>3. CASE ~Leave
      <4>1. need \in Nat
        BY DEF BuffersTyped
      <4>2. SubSeq(fromPeer, need + 1, Len(fromPeer)) \in Seq(Byte)
        BY <1>0, <4>1, RestOfBytes
      <4>3. /\ pc' \in PC /\ need' \in 0..MAX_MSG_SIZE /\ fromPeer' \in Seq(Byte)
            /\ UNCHANGED <<info, agreed, peer, toPeer, closed>>
        <5>1. /\ pc' = "length" /\ need' = 0
              /\ fromPeer' = SubSeq(fromPeer, need + 1, Len(fromPeer))
              /\ UNCHANGED <<info, agreed, peer, toPeer, closed>>
          BY <3>1, <3>3
        <5> QED BY <4>2, <5>1, Limits DEF PC
      <4> QED BY <2>0, <4>3 DEF BuffersTyped
    <3> QED BY <3>2, <3>3
  <2> QED BY <1>1, <2>1, <2>2, <2>3, <2>4, <2>5, <2>6, <2>7, <2>8, <2>9
          DEF MonitorTask, StartFails, TimesOut, ConnectFails, ReadFails, WriteFails
<1>2. ASSUME PeerNext PROVE BuffersTyped'
  <2>1. /\ UNCHANGED <<configured, pc, info, agreed, need, toPeer>>
        /\ closed' \in BOOLEAN /\ peer # NoPeer
    BY <1>2 DEF PeerNext, PeerSpeaks, PeerConfirms, PeerSays, PeerLeaves, Ours, BuffersTyped
  <2>2. peer' \in Peer \cup {NoPeer}
    BY DEF IInv, PeerThere
  <2>3. fromPeer' \in Seq(Byte)
    <3>1. peer \in Peer
      BY <2>1 DEF BuffersTyped
    <3>2. CASE PeerSpeaks
      <4>1. peer.version \in U32Values
        BY <3>1, PeerType, AgreedType
      <4> DEFINE b == LittleEndian(peer.version)
      <4>2. b \in Seq(Byte)
        BY <4>1, LittleEndianBytes
      <4>3. fromPeer' = fromPeer \o b
        BY <3>2 DEF PeerSpeaks, PeerWrites
      <4> HIDE DEF b
      <4> QED BY <1>0, <4>2, <4>3, Joined
    <3>3. CASE PeerConfirms
      <4>1. PICK v : /\ peer' = [peer EXCEPT !.confirmed = v]
                     /\ fromPeer' = fromPeer \o LittleEndian(v)
        BY <3>3 DEF PeerConfirms, PeerWrites
      <4>2. peer' \in Peer /\ peer'.confirmed = v
        <5>1. peer'.confirmed = v
          BY <3>1, <4>1 DEF Peer
        <5>2. InSession'
          BY <2>1, <3>1, <3>3 DEF InSession, IInv, PeerThere, PeerConfirms
        <5> QED BY <5>1, <5>2 DEF IInv, PeerThere
      <4>3. v \in U32Values
        BY <4>2, PeerType
      <4> DEFINE b == LittleEndian(v)
      <4>4. b \in Seq(Byte)
        BY <4>3, LittleEndianBytes
      <4>5. fromPeer' = fromPeer \o b
        BY <4>1
      <4> HIDE DEF b
      <4> QED BY <1>0, <4>4, <4>5, Joined
    <3>4. CASE PeerSays
      <4>1. PICK s \in Speech : fromPeer' = fromPeer \o s[2]
        BY <3>4 DEF PeerSays, PeerWrites
      <4> DEFINE b == s[2]
      <4>2. b \in Seq(Byte) /\ fromPeer' = fromPeer \o b
        BY <4>1, SpeechBytes
      <4> HIDE DEF b
      <4> QED BY <1>0, <4>2, Joined
    <3>5. CASE PeerLeaves
      <4>1. PICK n \in 0..Len(fromPeer) : fromPeer' = SubSeq(fromPeer, 1, n)
        BY <3>5 DEF PeerLeaves
      <4>2. n \in Nat /\ n <= Len(fromPeer)
        BY <1>0, LenProperties
      <4> QED BY <1>0, <4>1, <4>2, RestOfBytes
    <3> QED BY <1>2, <3>2, <3>3, <3>4, <3>5 DEF PeerNext
  <2> QED BY <1>0, <2>1, <2>2, <2>3 DEF BuffersTyped
<1>3. CASE UNCHANGED vars
  BY <1>3 DEF vars, BuffersTyped
<1> QED BY <1>1, <1>2, <1>3 DEF Next

LEMMA BuffersAlwaysTyped == Spec => []BuffersTyped
<1>1. Init => BuffersTyped
  <2> SUFFICES ASSUME Init PROVE BuffersTyped
    OBVIOUS
  <2>0. info \in [netname : Network, version : Nat]
    <3>1. "" \in Network /\ 0 \in Nat
      BY DEF Network
    <3>2. info = [netname |-> "", version |-> 0]
      BY DEF Init
    <3> QED BY <3>1, <3>2
  <2>1. /\ configured \in BOOLEAN /\ pc = "start"
        /\ agreed = 0 /\ need = 0 /\ peer = NoPeer
        /\ toPeer = <<>> /\ fromPeer = <<>> /\ closed = TRUE
    BY DEF Init
  <2>2. toPeer \in Seq(Byte) /\ fromPeer \in Seq(Byte)
    BY <2>1
  <2>3. pc \in PC /\ agreed \in 0..PROTOCOL_VERSION /\ need \in 0..MAX_MSG_SIZE
    BY <2>1, Limits DEF PC
  <2> QED BY <2>0, <2>1, <2>2, <2>3 DEF BuffersTyped
<1>2. BuffersTyped /\ IInv /\ IInv' /\ [Next]_vars => BuffersTyped'
  BY TypesPreserved
<1> QED BY <1>1, <1>2, Invariance, PTL DEF Spec

-----------------------------------------------------------------------------
(* The connection as a channel.                                            *)

(* What the peer has said is what was received and what is still to come.  *)
ToCome(left) ==
    /\ received \in Seq(Said) /\ said = received \o left
    /\ pc = "length" => Between(fromPeer, closed, left)
    /\ pc = "payload" => Within(fromPeer, closed, need, left)

ChannelInv ==
    /\ pc \in Handshaking => said = <<>> /\ received = <<>>
    /\ pc \in Reading => \E left \in Seq(Said) : ToCome(left)

(* Nothing is said, and no version, to a program that does not expect it.  *)
LEMMA Due ==
    ASSUME IInv, peer # NoPeer
    PROVE  /\ PeerSays => pc \in Reading
           /\ PeerSpeaks \/ PeerConfirms => pc \in Handshaking
<1>1. InSession /\ peer \in Peer
  BY DEF IInv, PeerThere
<1>2. peer.version \in PeerVersion
  BY <1>1, PeerType
<1>3. ASSUME PeerSays PROVE pc \in Reading
  <2>1. peer.confirmed # 0 /\ Len(toPeer) > 8
    BY <1>3 DEF PeerSays
  <2>2. pc # "hello"
    BY <2>1 DEF IInv, InHello
  <2>3. pc # "confirm"
    <3> SUFFICES ASSUME pc = "confirm" PROVE FALSE
      OBVIOUS
    <3>1. toPeer = LittleEndian(PROTOCOL_VERSION) \o LittleEndian(AgreedOn(peer.version))
      BY DEF IInv, InConfirm
    <3>2. Len(toPeer) = 8
      BY <1>2, <3>1, AgreedType, TwoVersions
    <3> QED BY <2>1, <3>2
  <2> QED BY <1>1, <2>2, <2>3 DEF InSession
<1>4. ASSUME PeerSpeaks \/ PeerConfirms PROVE pc \in Handshaking
  <2>1. ~peer.spoken \/ peer.confirmed = 0
    BY <1>4 DEF PeerSpeaks, PeerConfirms
  <2>2. pc \notin Reading
    BY <2>1 DEF IInv, InReading, MIN_PROTOCOL_VERSION
  <2> QED BY <1>1, <2>2 DEF InSession
<1> QED BY <1>3, <1>4

(* The stream when the login was sent.                                     *)
LEMMA EmptyStream ==
    ASSUME NEW shut PROVE Between(<<>>, shut, <<>>)
<1> DEFINE none == <<>>
<1>1. none \in Seq(Byte) /\ none \in Seq(Seq(Byte)) /\ none \o none = none
  OBVIOUS
<1> HIDE DEF none
<1>2. FlattenSeq(none) = none
  BY <1>1, FlattenLaws DEF none
<1>3. Awaits(none, shut, none)
  BY <1>1 DEF Awaits, none
<1>4. Carries(none, none)
  BY NothingSaid DEF none
<1> QED BY <1>1, <1>2, <1>3, <1>4 DEF Between, none

LEMMA EndIsMessage ==
    ASSUME NEW m \in Said PROVE m.kind = "End" => m \in Messages
BY SpeechMeans DEF Said

(* Steps of which the channel sees nothing, or that it is closed.          *)
LEMMA Unseen ==
    ASSUME UNCHANGED history, InSession' => InSession
    PROVE  [Channel!Next]_(Channel!vars)
<1>1. said' = said /\ received' = received
  BY DEF history
<1>2. CASE InSession' <=> InSession
  <2>1. (pc' \in Handshaking \cup Reading) = (pc \in Handshaking \cup Reading)
    BY <1>2 DEF InSession
  <2> QED BY <1>1, <2>1 DEF Channel!vars
<1>3. CASE InSession /\ ~InSession'
  <2>1. (pc \in Handshaking \cup Reading) /\ (pc' \in Handshaking \cup Reading) = FALSE
    BY <1>3 DEF InSession
  <2> QED BY <1>1, <2>1 DEF Channel!Next, Channel!Close
<1> QED BY <1>2, <1>3

LEMMA LeftUnseen ==
    ASSUME Fail
    PROVE  ChannelInv' /\ [Channel!Next]_(Channel!vars)
<1>1. pc' = "asleep" /\ UNCHANGED history
  BY DEF Fail, Leave
<1>2. ~InSession'
  BY <1>1 DEF InSession
<1> QED BY <1>1, <1>2, Unseen DEF ChannelInv

(* A payload that is read is delivered.                                    *)
LEMMA Delivered ==
    ASSUME NEW m \in Said, NEW ls \in Seq(Said), received \in Seq(Said),
           said = received \o (<<m>> \o ls)
    PROVE  /\ Append(received, m) \in Seq(Said)
           /\ said = Append(received, m) \o ls
           /\ Len(received) < Len(said) /\ said[Len(received) + 1] = m
<1> DEFINE one == <<m>>
           r == received
           now == Append(r, m)
<1>1. one \in Seq(Said)
  OBVIOUS
<1>2. now \in Seq(Said) /\ Len(now) = Len(r) + 1 /\ now[Len(r) + 1] = m
  BY AppendProperties
<1>3. now = r \o one
  BY AppendIsConcat
<1> HIDE DEF one, r, now
<1>4. r \in Seq(Said)
  BY DEF r
<1>5. r \o (one \o ls) = (r \o one) \o ls
  BY <1>1, <1>4, ConcatAssociative
<1>6. said = now \o ls
  <2>1. said = r \o (one \o ls)
    BY DEF r, one
  <2> QED BY <1>3, <1>5, <2>1
<1>7. /\ Len(now \o ls) = Len(now) + Len(ls)
      /\ \A i \in 1..Len(now) : (now \o ls)[i] = now[i]
  <2>1. now \in Seq(Said)
    BY <1>2
  <2> QED BY <2>1, ConcatProperties, LenProperties
<1>8. Len(r) \in Nat /\ Len(ls) \in Nat
  BY <1>4, LenProperties
<1>9. Len(r) < Len(said)
  BY <1>2, <1>6, <1>7, <1>8
<1>10. said[Len(r) + 1] = m
  <2>1. Len(r) + 1 \in 1..Len(now)
    BY <1>2, <1>8
  <2> QED BY <1>2, <1>6, <1>7, <2>1
<1> QED BY <1>2, <1>6, <1>9, <1>10 DEF now, r

-----------------------------------------------------------------------------
(* Every step of the task and of the peer is one of the channel's or none. *)

LEMMA TaskImplements ==
    ASSUME BuffersTyped, IInv, ChannelInv, MonitorTask
    PROVE  ChannelInv' /\ [Channel!Next]_(Channel!vars)
<1>0. fromPeer \in Seq(Byte) /\ closed \in BOOLEAN
  BY DEF BuffersTyped
<1>1. CASE Fail
  BY <1>1, LeftUnseen
<1>2. CASE WakeUp \/ Start \/ (TakeReply /\ ~Fail)
  <2>1. UNCHANGED history /\ ~InSession /\ ~InSession'
    <3>1. CASE WakeUp \/ Start
      BY <3>1 DEF WakeUp, Start, InSession
    <3>2. CASE TakeReply /\ ~Fail
      <4>1. PICK r \in Reply : pc' = IF Sliced(r) THEN "connecting" ELSE "panicked"
        BY <3>2 DEF TakeReply
      <4>2. UNCHANGED history
        BY <3>2 DEF TakeReply
      <4>3. pc' \in {"panicked", "connecting"}
        BY <4>1
      <4> QED BY <3>2, <4>2, <4>3 DEF TakeReply, InSession
    <3> QED BY <1>2, <3>1, <3>2
  <2> QED BY <2>1, Unseen DEF ChannelInv, InSession
<1>3. CASE Connect
  <2>1. pc = "connecting" /\ pc' = "hello" /\ said' = <<>> /\ received' = <<>>
    BY <1>3 DEF Connect
  <2>2. ChannelInv'
    BY <2>1 DEF ChannelInv
  <2>3. (pc \in Handshaking \cup Reading) = FALSE /\ (pc' \in Handshaking \cup Reading) = TRUE
    BY <2>1
  <2> QED BY <2>1, <2>2, <2>3 DEF Channel!Next, Channel!Open
<1>4. CASE ReadHello /\ ~Fail
  <2>1. pc = "hello" /\ pc' = "confirm" /\ UNCHANGED history
    BY <1>4 DEF ReadHello
  <2>2. ChannelInv'
    BY <2>1 DEF ChannelInv, history
  <2> QED BY <2>1, <2>2, Unseen DEF InSession
<1>5. CASE ReadConfirm /\ ~Fail
  <2>1. /\ pc = "confirm" /\ Len(fromPeer) >= 4 /\ pc' = "length"
        /\ fromPeer' = SubSeq(fromPeer, 5, Len(fromPeer))
        /\ UNCHANGED <<peer, closed, history>>
    BY <1>5 DEF ReadConfirm, Has, Consume
  <2>2. /\ peer \in Peer
        /\ IF peer.confirmed = 0 THEN fromPeer = <<>> ELSE Arrives(peer.confirmed)
    BY <2>1 DEF IInv, PeerThere, InConfirm, InSession
  <2>3. peer.confirmed \in U32Values /\ fromPeer = LittleEndian(peer.confirmed)
    BY <2>1, <2>2, PeerType DEF Arrives
  <2>4. fromPeer' = <<>>
    BY <2>1, <2>3, StreamOfOne, LittleEndianBytes
  <2>5. said' = <<>> /\ received' = <<>>
    BY <2>1 DEF ChannelInv, history
  <2>6. ToCome(<<>>)'
    <3> DEFINE none == <<>>
    <3>1. none \in Seq(Said) /\ none = none \o none
      OBVIOUS
    <3>2. Between(fromPeer', closed', <<>>)
      BY <2>4, EmptyStream
    <3> QED BY <2>1, <2>5, <3>1, <3>2 DEF ToCome
  <2>7. ChannelInv'
    <3>1. <<>> \in Seq(Said)
      OBVIOUS
    <3> QED BY <2>1, <2>6, <3>1 DEF ChannelInv
  <2> QED BY <2>1, <2>7, Unseen DEF InSession
<1>6. CASE ReadLength /\ ~Fail
  <2>1. /\ pc = "length" /\ Len(fromPeer) >= 4 /\ pc' = "payload"
        /\ ~(FromBigEndian(Int4) > MAX_MSG_SIZE) /\ need' = FromBigEndian(Int4)
        /\ fromPeer' = SubSeq(fromPeer, 5, Len(fromPeer))
        /\ UNCHANGED <<closed, history>>
    BY <1>6 DEF ReadLength, Has, Consume
  <2>2. PICK left \in Seq(Said) : ToCome(left)
    BY <2>1 DEF ChannelInv
  <2>3. FromBigEndian(Int4) <= MAX_MSG_SIZE
    <3>1. Int4 \in Seq(Byte) /\ Len(Int4) = 4
      BY <1>0, <2>1, RestOfBytes DEF Int4
    <3> DEFINE n == FromBigEndian(Int4)
    <3>2. n \in Nat /\ ~(n > MAX_MSG_SIZE)
      BY <2>1, <3>1, NumberOfBytes
    <3> HIDE DEF n
    <3>3. n <= MAX_MSG_SIZE
      BY <3>2, Limits
    <3> QED BY <3>3 DEF n
  <2>4. Within(fromPeer', closed', need', left)
    <3>1. Between(fromPeer, closed, left)
      BY <2>1, <2>2 DEF ToCome
    <3>2. Within(SubSeq(fromPeer, 5, Len(fromPeer)), closed, FromBigEndian(Int4), left)
      BY <2>1, <2>3, <3>1, LengthIsRead DEF Int4
    <3> QED BY <2>1, <3>2
  <2>5. ToCome(left)'
    BY <2>1, <2>2, <2>4 DEF ToCome, history
  <2>6. ChannelInv'
    BY <2>1, <2>5 DEF ChannelInv
  <2> QED BY <2>1, <2>6, Unseen DEF InSession
<1>7. CASE ReadPayload /\ ~Fail
  <2> DEFINE m == decode(SubSeq(fromPeer, 1, need))
  <2>1. /\ pc = "payload" /\ Len(fromPeer) >= need
        /\ m # Garbage /\ received' = Append(received, m) /\ said' = said
        /\ IF m.kind = "End" THEN Leave
           ELSE /\ pc' = "length"
                /\ fromPeer' = SubSeq(fromPeer, need + 1, Len(fromPeer))
                /\ closed' = closed
    BY <1>7 DEF ReadPayload, Has, Consume
  <2>2. PICK left \in Seq(Said) : ToCome(left)
    BY <2>1 DEF ChannelInv
  <2>3. PICK first \in Said, ls \in Seq(Said) :
          /\ left = <<first>> \o ls /\ m = first
          /\ Between(SubSeq(fromPeer, need + 1, Len(fromPeer)), closed, ls)
    BY <2>1, <2>2, PayloadIsRead DEF ToCome
  <2> HIDE DEF m
  <2>4. m \in Said
    BY <2>3
  <2>5. /\ Append(received, m) \in Seq(Said)
        /\ said = Append(received, m) \o ls
        /\ Len(received) < Len(said) /\ said[Len(received) + 1] = m
    <3>1. received \in Seq(Said) /\ said = received \o (<<m>> \o ls)
      BY <2>2, <2>3 DEF ToCome
    <3> QED BY <2>4, <3>1, Delivered
  <2>6. CASE m.kind = "End"
    <3>1. pc' = "asleep"
      BY <2>1, <2>6 DEF Leave
    <3>2. m \in {c \in Messages : c.kind = "End"}
      BY <2>4, <2>6, EndIsMessage
    <3>3. ChannelInv'
      BY <3>1 DEF ChannelInv
    <3>4. (pc' \in Handshaking \cup Reading) = FALSE /\ (pc \in Handshaking \cup Reading) = TRUE
      BY <2>1, <3>1
    <3>5. Channel!Deliver
      BY <2>1, <2>5, <3>2, <3>4 DEF Channel!Deliver
    <3> QED BY <3>3, <3>5 DEF Channel!Next
  <2>7. CASE m.kind # "End"
    <3>1. /\ pc' = "length" /\ closed' = closed
          /\ fromPeer' = SubSeq(fromPeer, need + 1, Len(fromPeer))
      BY <2>1, <2>7
    <3>2. m \notin {c \in Messages : c.kind = "End"}
      BY <2>7
    <3>3. ToCome(ls)'
      <4>1. received' \in Seq(Said) /\ said' = received' \o ls
        BY <2>1, <2>5
      <4>2. Between(fromPeer', closed', ls)
        BY <2>3, <3>1
      <4> QED BY <3>1, <4>1, <4>2 DEF ToCome
    <3>4. ChannelInv'
      BY <3>1, <3>3 DEF ChannelInv
    <3>5. (pc' \in Handshaking \cup Reading) = TRUE /\ (pc \in Handshaking \cup Reading) = TRUE
      BY <2>1, <3>1
    <3>6. Channel!Deliver
      BY <2>1, <2>5, <3>2, <3>5 DEF Channel!Deliver
    <3> QED BY <3>4, <3>6 DEF Channel!Next
  <2> QED BY <2>6, <2>7
<1> QED BY <1>1, <1>2, <1>3, <1>4, <1>5, <1>6, <1>7
        DEF MonitorTask, StartFails, TimesOut, ConnectFails, ReadFails, WriteFails

LEMMA PeerImplements ==
    ASSUME BuffersTyped, IInv, ChannelInv, PeerNext
    PROVE  ChannelInv' /\ [Channel!Next]_(Channel!vars)
<1>1. /\ peer # NoPeer /\ closed = FALSE
      /\ UNCHANGED <<pc, need, received>>
  BY DEF PeerNext, PeerSpeaks, PeerConfirms, PeerSays, PeerLeaves, Ours, history, BuffersTyped
<1>2. CASE PeerSpeaks \/ PeerConfirms
  <2>1. UNCHANGED history
    BY <1>2 DEF PeerSpeaks, PeerConfirms, Ours, history
  <2>2. pc \in Handshaking
    BY <1>1, <1>2, Due
  <2>3. ChannelInv'
    BY <1>1, <2>1, <2>2 DEF ChannelInv, history
  <2> QED BY <1>1, <2>1, <2>3, Unseen DEF InSession
<1>3. CASE PeerSays
  <2>1. PICK s \in Speech : said' = Append(said, s[1]) /\ fromPeer' = fromPeer \o s[2]
    BY <1>3 DEF PeerSays, PeerWrites
  <2>2. pc \in Reading /\ closed' = closed
    BY <1>1, <1>3, Due DEF PeerSays, Ours
  <2>3. PICK left \in Seq(Said) : ToCome(left)
    BY <2>2 DEF ChannelInv
  <2> DEFINE m == s[1]
             next == Append(left, m)
  <2>4. m \in Said
    BY SpeechBytes
  <2>5. Between(fromPeer, FALSE, left) => Between(fromPeer', FALSE, next)
    BY <2>1, BetweenSays
  <2>6. Within(fromPeer, FALSE, need, left) => Within(fromPeer', FALSE, need, next)
    BY <2>1, WithinSays
  <2>7. received \in Seq(Said) /\ said = received \o left
    BY <2>3 DEF ToCome
  <2>8. said \in Seq(Said)
    BY <2>7, Joined
  <2>9. said' = Append(said, m)
    BY <2>1
  <2> HIDE DEF m
  <2>10. next \in Seq(Said)
    BY <2>4, AppendProperties
  <2>11. said' = received' \o next
    <3> DEFINE last == <<m>>
    <3>1. last \in Seq(Said)
      BY <2>4
    <3>2. Append(said, m) = said \o last
      BY <2>4, <2>8, AppendIsConcat
    <3>3. next = left \o last
      BY <2>4, AppendIsConcat
    <3> HIDE DEF last, next
    <3>4. (received \o left) \o last = received \o (left \o last)
      BY <2>7, <3>1, ConcatAssociative
    <3> QED BY <1>1, <2>7, <2>9, <3>2, <3>3, <3>4
  <2> HIDE DEF next
  <2>12. ToCome(next)'
    BY <1>1, <2>2, <2>3, <2>5, <2>6, <2>7, <2>11 DEF ToCome
  <2>13. ChannelInv'
    BY <1>1, <2>2, <2>10, <2>12 DEF ChannelInv
  <2>14. Len(said') = Len(said) + 1 /\ SubSeq(said', 1, Len(said)) = said
    BY <2>4, <2>8, <2>9, AppendProperties
  <2>15. (pc' \in Handshaking \cup Reading) = TRUE /\ (pc \in Handshaking \cup Reading) = TRUE
    BY <1>1, <2>2
  <2>16. Channel!Say
    BY <1>1, <2>14, <2>15 DEF Channel!Say
  <2> QED BY <2>13, <2>16 DEF Channel!Next
<1>4. CASE PeerLeaves
  <2>1. PICK n \in 0..Len(fromPeer) : fromPeer' = SubSeq(fromPeer, 1, n)
    BY <1>4 DEF PeerLeaves
  <2>2. closed' = TRUE /\ UNCHANGED history
    BY <1>4 DEF PeerLeaves
  <2>3. ChannelInv'
    <3>1. CASE pc \in Reading
      <4>1. PICK left \in Seq(Said) : ToCome(left)
        BY <3>1 DEF ChannelInv
      <4>2. /\ Between(fromPeer, FALSE, left) => Between(fromPeer', TRUE, left)
            /\ Within(fromPeer, FALSE, need, left) => Within(fromPeer', TRUE, need, left)
        BY <2>1, StreamCut
      <4>3. ToCome(left)'
        BY <1>1, <2>2, <4>1, <4>2 DEF ToCome, history
      <4> QED BY <1>1, <3>1, <4>3 DEF ChannelInv
    <3>2. CASE pc \notin Reading
      BY <1>1, <2>2, <3>2 DEF ChannelInv, history
    <3> QED BY <3>1, <3>2
  <2> QED BY <1>1, <2>2, <2>3, Unseen DEF InSession
<1> QED BY <1>2, <1>3, <1>4 DEF PeerNext

LEMMA StepImplements ==
    ASSUME BuffersTyped, IInv, ChannelInv, [Next]_vars
    PROVE  ChannelInv' /\ [Channel!Next]_(Channel!vars)
<1>1. CASE UNCHANGED vars
  <2>1. UNCHANGED <<pc, need, fromPeer, closed, said, received>>
    BY <1>1 DEF vars
  <2>2. ChannelInv'
    BY <2>1 DEF ChannelInv, ToCome
  <2> QED BY <2>1, <2>2, Unseen DEF history, InSession
<1> QED BY <1>1, TaskImplements, PeerImplements DEF Next

LEMMA InitImplements ==
    Init => ChannelInv /\ Channel!Init
<1> SUFFICES ASSUME Init PROVE ChannelInv /\ Channel!Init
  OBVIOUS
<1>1. pc = "start" /\ said = <<>> /\ received = <<>>
  BY DEF Init
<1>2. (pc \in Handshaking \cup Reading) = FALSE
  BY <1>1
<1>3. ChannelInv
  BY <1>1 DEF ChannelInv
<1>4. Channel!Init
  BY <1>1, <1>2 DEF Channel!Init
<1> QED BY <1>3, <1>4

(* recv_message returns what the peer said, whole, in order and up to some *)
(* point, wherever the stream is cut and whatever follows: the bytes, the  *)
(* frames and the cursor implement a channel of messages                   *)
(* (connection.rs:78-90, messages.rs:198-265, codec.rs).                   *)
THEOREM ConnectionIsChannel == Spec => ImplementsMessageChannel
<1>1. Init => ChannelInv /\ Channel!Init
  BY InitImplements
<1>2. BuffersTyped /\ IInv /\ ChannelInv /\ [Next]_vars
        => ChannelInv' /\ [Channel!Next]_(Channel!vars)
  BY StepImplements
<1> QED BY <1>1, <1>2, Invariance, BuffersAlwaysTyped, PTL
        DEF Spec, ImplementsMessageChannel, Channel!Spec

-----------------------------------------------------------------------------
(* What is returned.                                                       *)

(* What a peer says and is not Garbage is a message, each of its fields    *)
(* with a value of its type.                                               *)
LEMMA SaidIsMessage ==
    ASSUME NEW m \in Said, m # Garbage
    PROVE  IsMessage(m)
<1>1. PICK s \in Speech : m = s[1]
  BY DEF Said
<1> DEFINE none == <<>>
           status == [host_id |-> 1, statmsg |-> <<>>]
           job == [filename |-> <<>>, lang |-> Custom, job_id |-> 1, client_id |-> 2]
<1>2. m \in Messages \/ m = [kind |-> "MonStats", fields |-> status]
        \/ m = [kind |-> "MonGetCs", fields |-> job]
  BY <1>1, ConnectionAssumption DEF Speech
<1>3. \A f \in TextField : IsValue(f, none)
  <2>1. none \in Seq(Byte) /\ IsUtf8(none) /\ Len(none) + 1 = 1
    BY DEF IsUtf8
  <2>2. IsU32(Len(none) + 1)
    BY <2>1, SmallNumber
  <2> HIDE DEF none
  <2> QED BY <2>1, <2>2 DEF IsValue, TextField
<1>4. IsU32(1) /\ IsU32(2)
  BY SmallNumber
<1>5. CASE m = [kind |-> "MonStats", fields |-> status]
  <2>1. m.kind \in Kind /\ ToSet(Fields[m.kind]) = {"host_id", "statmsg"}
    BY <1>5 DEF Kind, MessageType, Fields, ToSet
  <2>2. m = [kind |-> m.kind, fields |-> [f \in {"host_id", "statmsg"} |-> m.fields[f]]]
    BY <1>5
  <2>3. IsValue("host_id", m.fields["host_id"])
    BY <1>4, <1>5 DEF IsValue, TextField
  <2>4. IsValue("statmsg", m.fields["statmsg"])
    <3>1. m.fields["statmsg"] = none /\ "statmsg" \in TextField
      BY <1>5 DEF TextField
    <3> HIDE DEF none
    <3> QED BY <1>3, <3>1
  <2> QED BY <2>1, <2>2, <2>3, <2>4 DEF IsMessage
<1>6. CASE m = [kind |-> "MonGetCs", fields |-> job]
  <2> DEFINE names == {"filename", "lang", "job_id", "client_id"}
  <2>1. m.kind \in Kind /\ ToSet(Fields[m.kind]) = names
    BY <1>6 DEF Kind, MessageType, Fields, ToSet
  <2>2. m = [kind |-> m.kind, fields |-> [f \in names |-> m.fields[f]]]
    BY <1>6
  <2>3. IsValue("job_id", m.fields["job_id"]) /\ IsValue("client_id", m.fields["client_id"])
    BY <1>4, <1>6 DEF IsValue, TextField
  <2>4. IsValue("filename", m.fields["filename"])
    <3>1. m.fields["filename"] = none /\ "filename" \in TextField
      BY <1>6 DEF TextField
    <3> HIDE DEF none
    <3> QED BY <1>3, <3>1
  <2>5. IsValue("lang", m.fields["lang"])
    BY <1>6 DEF IsValue, TextField, Custom
  <2> QED BY <2>1, <2>2, <2>3, <2>4, <2>5 DEF IsMessage
<1> QED BY <1>2, <1>5, <1>6, ConnectionAssumption

HistoryTyped == said \in Seq(Said) /\ received \in Seq(Returned)

(* A message is returned as it was said, and Garbage never.                *)
LEMMA HistoryPreserved ==
    ASSUME HistoryTyped, [Next]_vars, [Channel!Next]_(Channel!vars)
    PROVE  HistoryTyped'
<1> DEFINE none == <<>>
<1>0. said \in Seq(Said) /\ received \in Seq(Returned)
  BY DEF HistoryTyped
<1>1. none \in Seq(Said) /\ none \in Seq(Returned)
  OBVIOUS
<1>2. said' \in Seq(Said)
  <2>1. CASE PeerSays
    <3>1. PICK s \in Speech : said' = Append(said, s[1])
      BY <2>1 DEF PeerSays
    <3> DEFINE m == s[1]
    <3>2. m \in Said
      BY SpeechBytes
    <3> HIDE DEF m
    <3>3. Append(said, m) \in Seq(Said)
      BY <1>0, <3>2, AppendProperties
    <3> QED BY <3>1, <3>3 DEF m
  <2>2. CASE ~PeerSays
    <3>1. said' = said \/ said' = none
      BY <2>2 DEF Next, MonitorTask, PeerNext, WakeUp, Start, StartFails, TimesOut,
          TakeReply, Connect, ConnectFails, ReadHello, ReadConfirm, ReadLength,
          ReadPayload, ReadFails, WriteFails, Fail, PeerSpeaks, PeerConfirms,
          PeerLeaves, history, vars
    <3> QED BY <1>0, <1>1, <3>1
  <2> QED BY <2>1, <2>2
<1>3. received' \in Seq(Returned)
  <2>1. CASE Channel!Deliver
    <3> DEFINE m == said[Len(received) + 1]
    <3>1. m # Garbage /\ received' = Append(received, m) /\ Len(received) < Len(said)
      BY <2>1 DEF Channel!Deliver
    <3>2. m \in Said
      <4>1. Len(received) \in Nat /\ Len(said) \in Nat
        BY <1>0, LenProperties
      <4>2. Len(received) + 1 \in 1..Len(said)
        BY <3>1, <4>1
      <4> QED BY <1>0, <4>2, ElementOfSeq
    <3> HIDE DEF m
    <3>3. m \in Returned
      BY <3>1, <3>2, SaidIsMessage DEF Returned
    <3>4. Append(received, m) \in Seq(Returned)
      BY <1>0, <3>3, AppendProperties
    <3> QED BY <3>1, <3>4
  <2>2. CASE ~Channel!Deliver
    <3>1. received' = received \/ received' = none
      BY <2>2 DEF Channel!Next, Channel!Open, Channel!Say, Channel!Close, Channel!vars
    <3> QED BY <1>0, <1>1, <3>1
  <2> QED BY <2>1, <2>2
<1> QED BY <1>2, <1>3 DEF HistoryTyped

(* Whatever the peer says of Speech and wherever the stream ends: the      *)
(* frame awaited is within the limit, the buffers hold bytes, and what     *)
(* recv_message returns are messages, each of their fields with a value of *)
(* its type (connection.rs:78-90; messages.rs:198-265).                    *)
THEOREM ConnectionTyped == Spec => []TypeOK
<1>1. Init => ChannelInv /\ HistoryTyped
  <2> DEFINE none == <<>>
  <2>1. none \in Seq(Said) /\ none \in Seq(Returned)
    OBVIOUS
  <2> QED BY <2>1, InitImplements DEF Init, HistoryTyped
<1>2. BuffersTyped /\ IInv /\ ChannelInv /\ HistoryTyped /\ [Next]_vars
        => ChannelInv' /\ HistoryTyped'
  BY StepImplements, HistoryPreserved
<1>3. BuffersTyped /\ HistoryTyped => TypeOK
  BY DEF BuffersTyped, HistoryTyped, TypeOK
<1> QED BY <1>1, <1>2, <1>3, Invariance, BuffersAlwaysTyped, PTL DEF Spec
=============================================================================
